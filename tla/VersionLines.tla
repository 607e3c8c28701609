---------------------------- MODULE VersionLines ----------------------------
(***************************************************************************)
(* The lines of versions.txt, how process_pacman_output() reads them and   *)
(* how zip_merge_sorted_list() merges two lists of them.                   *)
(*                                                                         *)
(* A package name is an integer; strcmp() is the order of the integers.    *)
(***************************************************************************)
EXTENDS Integers, Sequences, FiniteSets

\* A line without a space is not valid to the parser.
Line(n, v) == [name |-> n, ver |-> v, space |-> TRUE]
Valid(s) == {k \in DOMAIN s : s[k].space}
NamesIn(s) == {s[k].name : k \in DOMAIN s}

\* process_pacman_output() gives each line a place, but counts valid ones.
Loaded(f) == SubSeq(f, 1, Cardinality(Valid(f)))

\* strcmp() order of the names, each of them once.
StrictlySorted(s) == \A a, b \in DOMAIN s : a < b => s[a] < s[b]
Ordered(s) == \A a, b \in DOMAIN s : a < b => s[a].name < s[b].name

\* A loop over s that copies the elements at the positions K.
Picked(s, K) ==
  LET picked[k \in 0 .. Len(s)] ==
        IF k = 0 THEN <<>>
        ELSE IF k \in K THEN Append(picked[k - 1], s[k]) ELSE picked[k - 1]
  IN picked[Len(s)]

\* The versions read from the PKGBUILDs, one for each fetched package.
Fetches(names, vers) == {[k \in DOMAIN names |-> Line(names[k], v[k])] :
                           v \in [DOMAIN names -> vers]}

\* Mutant of ZipMerge: what is left of the loaded list is not copied.
ZipShort(old, new) ==
  LET zip[i \in 1 .. Len(old) + 1, j \in 1 .. Len(new) + 1] ==
        CASE j > Len(new) -> <<>>
          [] j <= Len(new) /\ i > Len(old) -> SubSeq(new, j, Len(new))
          [] OTHER -> IF old[i].name < new[j].name
                      THEN <<old[i]>> \o zip[i + 1, j]
                      ELSE <<new[j]>> \o
                           zip[IF old[i].name = new[j].name THEN i + 1 ELSE i, j + 1]
  IN zip[1, 1]

\* Mutant of ZipMerge: an entry of both lists is taken from the loaded one.
ZipOld(old, new) ==
  LET zip[i \in 1 .. Len(old) + 1, j \in 1 .. Len(new) + 1] ==
        CASE i > Len(old) -> SubSeq(new, j, Len(new))
          [] j > Len(new) -> SubSeq(old, i, Len(old))
          [] OTHER -> IF old[i].name <= new[j].name
                      THEN <<old[i]>> \o
                           zip[i + 1, IF old[i].name = new[j].name THEN j + 1 ELSE j]
                      ELSE <<new[j]>> \o zip[i, j + 1]
  IN zip[1, 1]

\* The loops of zip_merge_sorted_list() from each pair of cursors on: the smaller
\* name first, of equal ones the new entry.
ZipFrom(old, new) ==
  LET zip[at \in (1 .. Len(old) + 1) \X (1 .. Len(new) + 1)] ==
        LET i == at[1]
            j == at[2]
        IN IF i > Len(old) \/ j > Len(new)
           THEN SubSeq(old, i, Len(old)) \o SubSeq(new, j, Len(new))
           ELSE IF old[i].name < new[j].name
           THEN <<old[i]>> \o zip[<<i + 1, j>>]
           ELSE <<new[j]>> \o zip[<<IF old[i].name = new[j].name THEN i + 1 ELSE i, j + 1>>]
  IN zip

ZipMerge(old, new) == ZipFrom(old, new)[<<1, 1>>]
=============================================================================
