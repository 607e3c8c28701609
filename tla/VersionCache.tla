---------------------------- MODULE VersionCache ----------------------------
(***************************************************************************)
(* __pkg_cache__/versions.txt: a fetch command loads the file, merges the  *)
(* versions of the -git packages it fetched into the sorted list, and      *)
(* writes the list over the file.  fopen("w") has truncated the file long  *)
(* before the list is flushed, so a kill or a full disk leaves the front   *)
(* of the list, its last line cut at any byte.                             *)
(* A missing file and an empty one are the same to the code: both <<>>.    *)
(***************************************************************************)
EXTENDS VersionLines

CONSTANTS
  Names,       \* names of -git packages
  Vers,        \* versions of them
  Torn,        \* a version that was cut off
  NoVersion,   \* no version
  Inputs,      \* the lists a command may merge: their names
  MaxCommands, \* commands in a behaviour
  MaxFaults    \* interrupted or failed ones among them

ASSUME NamesAssumption == Names \subseteq Int
ASSUME VersAssumption ==
  Torn \notin Vers /\ NoVersion \notin Vers /\ Torn # NoVersion
ASSUME InputsAssumption == Inputs \subseteq Seq(Names)
ASSUME BoundsAssumption == MaxCommands \in Nat /\ MaxFaults \in Nat

VARIABLES
  file,      \* the lines of versions.txt
  phase,     \* "idle", "merge" (the loops of zip_merge_sorted_list), "save"
  old, new,  \* ver_cache_loaded; the fetched packages
  i, j,      \* the cursors in old and new
  dest,      \* new_cache
  unread,    \* the load of this command failed
  commands, faults

vars == <<file, phase, old, new, i, j, dest, unread, commands, faults>>
lists == <<old, new, unread, commands>>

\* A line that was cut before its space is not valid.
Lines == [name : Names, ver : Vers \cup {Torn}, space : BOOLEAN]

-----------------------------------------------------------------------------
Init ==
  /\ file = <<>> /\ phase = "idle"
  /\ old = <<>> /\ new = <<>> /\ i = 1 /\ j = 1 /\ dest = <<>>
  /\ unread = FALSE /\ commands = 0 /\ faults = 0

\* load_ver_cache() and the start of merge_in_ver_cache(), which copies the
\* new list when nothing was loaded.
Load(items) ==
  /\ phase = "idle" /\ commands < MaxCommands /\ commands' = commands + 1
  /\ new' = items /\ old' = Loaded(file) /\ i' = 1 /\ j' = 1 /\ unread' = FALSE
  /\ IF file = <<>> THEN dest' = items /\ phase' = "save"
                    ELSE dest' = <<>> /\ phase' = "merge"
  /\ UNCHANGED <<file, faults>>

\* open() or read() fails: no different from a missing file.
LoadUnread(items) ==
  /\ phase = "idle" /\ commands < MaxCommands /\ commands' = commands + 1
  /\ faults < MaxFaults /\ faults' = faults + 1
  /\ new' = items /\ old' = <<>> /\ i' = 1 /\ j' = 1 /\ unread' = TRUE
  /\ dest' = items /\ phase' = "save"
  /\ UNCHANGED file

LoadSome == \E names \in Inputs : \E items \in Fetches(names, Vers) :
              Load(items) \/ LoadUnread(items)

\* The three cases of the first loop; the loops for what is left after it are
\* the first and the last one.
TakeOld ==
  /\ phase = "merge" /\ i <= Len(old)
  /\ j <= Len(new) => old[i].name < new[j].name
  /\ dest' = Append(dest, old[i]) /\ i' = i + 1
  /\ UNCHANGED <<file, phase, j, lists, faults>>

\* Mutants of Replace: the loaded entry wins; the fetched one is not passed.
ReplaceNot ==
  /\ phase = "merge" /\ i <= Len(old) /\ j <= Len(new)
  /\ old[i].name = new[j].name
  /\ dest' = Append(dest, old[i]) /\ i' = i + 1 /\ j' = j + 1
  /\ UNCHANGED <<file, phase, lists, faults>>

ReplaceHalf ==
  /\ phase = "merge" /\ i <= Len(old) /\ j <= Len(new)
  /\ old[i].name = new[j].name
  /\ dest' = Append(dest, new[j]) /\ i' = i + 1
  /\ UNCHANGED <<file, phase, j, lists, faults>>

Replace ==
  /\ phase = "merge" /\ i <= Len(old) /\ j <= Len(new)
  /\ old[i].name = new[j].name
  /\ dest' = Append(dest, new[j]) /\ i' = i + 1 /\ j' = j + 1
  /\ UNCHANGED <<file, phase, lists, faults>>

\* Mutants of TakeNew: the cursor in the loaded list moves as well; the cursor
\* is not stopped at the end of the fetched list.
TakeNewBoth ==
  /\ phase = "merge" /\ j <= Len(new)
  /\ i <= Len(old) => old[i].name > new[j].name
  /\ dest' = Append(dest, new[j]) /\ j' = j + 1
  /\ i' = IF i <= Len(old) THEN i + 1 ELSE i
  /\ UNCHANGED <<file, phase, lists, faults>>

TakeNewPast ==
  /\ phase = "merge" /\ j <= Len(new)
  /\ i <= Len(old) => old[i].name > new[j].name
  /\ dest' = Append(dest, new[j]) /\ j' = j + 2
  /\ UNCHANGED <<file, phase, i, lists, faults>>

TakeNew ==
  /\ phase = "merge" /\ j <= Len(new)
  /\ i <= Len(old) => old[i].name > new[j].name
  /\ dest' = Append(dest, new[j]) /\ j' = j + 1
  /\ UNCHANGED <<file, phase, i, lists, faults>>

\* realloc() to no bytes gives NULL, and save_ver_cache() does nothing then.
EndMerge ==
  /\ phase = "merge" /\ i > Len(old) /\ j > Len(new)
  /\ phase' = IF dest = <<>> THEN "idle" ELSE "save"
  /\ UNCHANGED <<file, i, j, dest, lists, faults>>

\* Entries that are not valid are skipped; Loaded leaves none of them.
Save ==
  /\ phase = "save" /\ file' = dest /\ phase' = "idle"
  /\ UNCHANGED <<i, j, dest, lists, faults>>

\* What a write that stops early leaves of a list: whole lines, and the start
\* of the next one without its space or with part of its version.
Written(s) ==
  UNION {{SubSeq(s, 1, k), Append(SubSeq(s, 1, k), [s[k + 1] EXCEPT !.ver = Torn]),
          Append(SubSeq(s, 1, k), [s[k + 1] EXCEPT !.space = FALSE])} : k \in 0 .. Len(s) - 1}

\* The process is killed, the disk is full, or fopen() fails.
Fail ==
  /\ phase # "idle" /\ phase' = "idle"
  /\ faults < MaxFaults /\ faults' = faults + 1
  /\ \/ UNCHANGED file
     \/ phase = "save" /\ file' \in Written(dest)
  /\ UNCHANGED <<i, j, dest, lists>>

\* __pkg_cache__ is deleted.
Delete ==
  /\ phase = "idle" /\ file # <<>> /\ file' = <<>>
  /\ UNCHANGED <<phase, i, j, dest, lists, faults>>

Next == \/ LoadSome \/ TakeOld \/ Replace \/ TakeNew \/ EndMerge \/ Save \/ Fail
        \/ Delete

Spec == Init /\ [][Next]_vars

-----------------------------------------------------------------------------
\* Every variable stays in its domain, and the cursors end at most one past
\* their list.
TypeOK ==
  /\ file \in Seq(Lines) /\ phase \in {"idle", "merge", "save"}
  /\ old \in Seq(Lines) /\ new \in Seq(Lines) /\ dest \in Seq(Lines)
  /\ i \in 1 .. Len(old) + 1 /\ j \in 1 .. Len(new) + 1
  /\ unread \in BOOLEAN /\ commands \in 0 .. MaxCommands /\ faults \in 0 .. MaxFaults

\* As long as every command merges a sorted list, versions.txt stays sorted
\* with one line for a name, also through interrupted writes: aur_list_git()
\* and the next merge walk it in that order.
SortedOnDisk == (\A s \in Inputs : StrictlySorted(s)) => Ordered(file)

\* save_ver_cache() never forgets: the loops of zip_merge_sorted_list() end
\* with ZipMerge of the two lists, which has every fetched version and a version of
\* every package loaded from the file, and no entry that the save would skip.
MergeKeepsAll ==
  phase = "save" =>
    /\ dest = ZipMerge(old, new) /\ Valid(dest) = DOMAIN dest
    /\ \A k \in DOMAIN new : new[k] \in {dest[m] : m \in DOMAIN dest}
    /\ \A k \in DOMAIN old : old[k].name \in NamesIn(dest)

\* versions.txt is a record of the last fetched version of each package, as
\* long as every command merges a sorted list.
VersionIn(s, n) == IF \E k \in Valid(s) : s[k].name = n
                   THEN s[CHOOSE k \in Valid(s) : s[k].name = n].ver ELSE NoVersion
Store == INSTANCE VersionStore
           WITH recorded <- [n \in Names |-> VersionIn(file, n)],
                fetched <- [n \in Names |-> VersionIn(new, n)],
                blind <- unread /\ phase = "save",
                mishaps <- faults
RecordsLastFetched == Store!Spec
=============================================================================
