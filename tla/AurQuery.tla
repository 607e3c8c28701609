------------------------------ MODULE AurQuery ------------------------------
(***************************************************************************)
(* What a command knows of its packages: main() or                         *)
(* pkg_list_manage_subseq() puts them into the dictionary, asks the AUR    *)
(* about them, and process_response_json() walks over the tokens of the    *)
(* answer and writes what it says into the dictionary.                     *)
(*                                                                         *)
(* A token has the number of tokens it spans, itself included, so that the *)
(* first one that starts behind it is that many places on.  The text of a  *)
(* token counts as a key ("key", "other" for any but the four the code     *)
(* looks for) and as a value ("val").                                      *)
(***************************************************************************)
EXTENDS PackageTable, Sequences

CONSTANTS
  Versions,   \* versions; vercmp is the order of the integers
  Bases,      \* package bases
  Requests,   \* the lists of packages a command may ask about
  Answers,    \* what the AUR may answer, for each set of names: the tokens, the
              \* places of the keys of the object around all others, and which
              \* packages it tells of, what, and the places of their objects
  MaxOptions, \* arguments that are not packages
  Absent      \* of a name that is not in the dictionary

ASSUME QueryAssumption ==
  /\ Versions \subseteq Int /\ MaxOptions \in Nat
  /\ NoText \notin Texts \cup Versions \cup Bases
  /\ Requests \subseteq [source : {"pacman", "arguments"},
                         pkgs : Seq([name : Names, ver : Versions \cup {NoText}])]

-----------------------------------------------------------------------------
\* What jsmn makes of a JSON text: a token ends within the one around it.
Inside(t, p) == p + 1 .. p + t[p].size - 1
Nested(t) ==
  \A p \in DOMAIN t : /\ t[p].size \in Nat \ {0} /\ p + t[p].size <= Len(t) + 1
                      /\ \A q \in Inside(t, p) : q + t[q].size <= p + t[p].size

\* The tokens directly inside of another one.
Children(t, p) == {q \in Inside(t, p) : \A r \in p + 1 .. q - 1 : r + t[r].size <= q}

Keys == {"Name", "Version", "PackageBase"}

\* What a text that reads like a key is followed by.
Behind(t, q) == IF q < Len(t) THEN t[q + 1].val ELSE Junk

\* The object of a package names all three; another text that reads like one of
\* them is a value, and is followed by a key or the next object.
Describes(t, r) ==
  /\ \A q \in Children(t, r.place) : t[q].key \in Keys => Behind(t, q) \in {r.says[t[q].key], Junk}
  /\ \A key \in Keys : \E q \in Children(t, r.place) : t[q].key = key

\* The arrays the answer has under the key "results", and the objects in them.
Arrays(a) == {q \in 2 .. Len(a.tokens) : q - 1 \in a.keys /\ a.tokens[q - 1].key = "results"}
Places(a) == {r.place : r \in a.told}

\* A key is followed by its value, and that by the next key.
IsKey(a, q) ==
  /\ q \in Children(a.tokens, 1) /\ q + 1 \in Children(a.tokens, 1) \ a.keys
  /\ q + 1 + a.tokens[q + 1].size \in a.keys \cup {Len(a.tokens) + 1}

\* An answer of the AUR about the names: one object, whose texts are none of
\* the three keys and whose only value with something inside is an array of
\* packages that were asked for, each of them once.
IsAnswer(a, names) ==
  LET t == a.tokens
  IN  /\ t = [p \in 1 .. Len(t) |-> t[p]] /\ Len(t) \in Nat \ {0}
      /\ Nested(t) /\ t[1].size = Len(t)
      /\ 2 \in a.keys \cup {Len(t) + 1} /\ \A q \in a.keys : IsKey(a, q)
      /\ \A q \in Children(t, 1) : t[q].key \notin Keys /\ (t[q].size = 1 \/ q \in Arrays(a))
      /\ \A q, s \in Arrays(a) : q = s
      /\ \A q \in Arrays(a) : Children(t, q) = Places(a)
      /\ Arrays(a) = {} => a.told = {}
      /\ \A r \in a.told : /\ Describes(t, r) /\ t[r.place].key \notin Keys
                           /\ r.says["Name"] \in names /\ r.says["Version"] \in Versions
                           /\ r.says["PackageBase"] \in Bases
      /\ \A r, s \in a.told : r.place = s.place \/ r.says["Name"] = s.says["Name"] => r = s

ASSUME AnswersAssumption ==
  \A names \in SUBSET Names : \A a \in Answers[names] : IsAnswer(a, names)

VARIABLES
  request,   \* the packages, from pacman -Qm or the command line
  table,     \* installed_pkgs_dict, pkgs_info
  k,         \* the next package to put into it, or to look up
  phase,     \* "fill", "ask", "search", "apply", "package", "select", "done",
             \* "dead"
  answer,    \* the answer of the AUR
  pos,       \* results_token, then i of process_response_json()
  walk,      \* i of find_and_update_pkg_info()
  found,     \* its pkg_name, version_info and base_pkg
  selected   \* what filter_aur_pkgs() kept of the command line

vars == <<request, table, k, phase, answer, pos, walk, found, selected>>
package == <<walk, found>>

NoAnswer == [tokens |-> <<>>, keys |-> {}, told |-> {}]
tokens == answer.tokens
Unread == [key \in Keys |-> NoText]

-----------------------------------------------------------------------------
\* main() sizes the dictionary by pacman's list, the other by argc.
Init ==
  /\ request \in Requests
  /\ \E size \in IF request.source = "pacman" THEN {Len(request.pkgs)}
                 ELSE Len(request.pkgs) + 2 .. Len(request.pkgs) + 2 + MaxOptions :
       table = hashtable_init(size)
  /\ k = 1 /\ phase = "fill" /\ answer = NoAnswer /\ pos = 1 /\ walk = 1
  /\ found = Unread /\ selected = <<>>

Fill ==
  /\ phase = "fill" /\ k <= Len(request.pkgs) /\ k' = k + 1
  /\ table' = hashtable_set_item(table, request.pkgs[k].name, request.pkgs[k].ver,
                                 NoText, TRUE)
  /\ UNCHANGED <<request, phase, answer, pos, package, selected>>

EndFill ==
  /\ phase = "fill" /\ k > Len(request.pkgs) /\ phase' = "ask"
  /\ UNCHANGED <<request, table, k, answer, pos, package, selected>>

\* The tokens of the answer; its first one is the object around all others.
Ask ==
  /\ phase = "ask" /\ phase' = "search"
  /\ answer' \in Answers[{request.pkgs[m].name : m \in DOMAIN request.pkgs}]
  /\ pos' = 2
  /\ UNCHANGED <<request, table, k, package, selected>>

\* The query fails.  main() reports what it has, the other ends.
AskFails ==
  /\ phase = "ask" /\ phase' = "done"
  /\ UNCHANGED <<request, table, k, answer, pos, package, selected>>

-----------------------------------------------------------------------------
\* Mutants of find_next_sibling: a token must start behind the end of the
\* other one; what is inside of it is not passed over.
NextFar(i) == i + tokens[i].size + 1
NextInside(i) == i + 1

\* find_next_sibling(): past the last token when there is none.
find_next_sibling(i) == i + tokens[i].size

\* Mutant of Compare: the comparison is the other way round.
CompareSwapped(installed, updated) ==
  IF installed = NoText THEN {"UPGRADE"}
  ELSE IF updated \notin Versions THEN {"UPGRADE", "UP_TO_DATE", "DOWNGRADE"}
  ELSE IF installed = updated THEN {"UP_TO_DATE"}
  ELSE IF installed < updated THEN {"DOWNGRADE"} ELSE {"UPGRADE"}

\* The update types vercmp may give; a text that is no version gives any.
Compare(installed, updated) ==
  IF installed = NoText THEN {"UPGRADE"}
  ELSE IF updated \notin Versions THEN {"UPGRADE", "UP_TO_DATE", "DOWNGRADE"}
  ELSE IF installed = updated THEN {"UP_TO_DATE"}
  ELSE IF installed < updated THEN {"UPGRADE"} ELSE {"DOWNGRADE"}

\* process_response_json() looks for the key "results" of the answer.
SearchOn ==
  /\ phase = "search" /\ pos <= Len(tokens) /\ tokens[pos].key # "results"
  /\ pos' = find_next_sibling(pos + 1)
  /\ UNCHANGED <<request, table, k, phase, answer, package, selected>>

NoResults ==
  /\ phase = "search" /\ pos > Len(tokens) /\ phase' = "select" /\ k' = 1
  /\ UNCHANGED <<request, table, answer, pos, package, selected>>

\* Its value is an array: the next token is its first element, or the first
\* token behind an array without one.
Results ==
  /\ phase = "search" /\ pos <= Len(tokens) /\ tokens[pos].key = "results"
  /\ phase' = "apply" /\ pos' = pos + 2
  /\ UNCHANGED <<request, table, k, answer, package, selected>>

\* The elements of the array, and the tokens behind it as if they were packages.
Package ==
  /\ phase = "apply" /\ pos <= Len(tokens)
  /\ phase' = "package" /\ walk' = pos + 1 /\ found' = Unread
  /\ UNCHANGED <<request, table, k, answer, pos, selected>>

\* A text that reads like one of the three keys: the next one is its value.
ReadField ==
  /\ phase = "package" /\ walk <= Len(tokens) /\ tokens[walk].key \in Keys
  /\ found' = [found EXCEPT ![tokens[walk].key] = Behind(tokens, walk)]
  /\ walk' = find_next_sibling(walk)
  /\ UNCHANGED <<request, table, k, phase, answer, pos, selected>>

PassToken ==
  /\ phase = "package" /\ walk <= Len(tokens) /\ tokens[walk].key \notin Keys
  /\ walk' = find_next_sibling(walk)
  /\ UNCHANGED <<request, table, k, phase, answer, pos, found, selected>>

\* The walk only ends with the answer.
Walked == phase = "package" /\ walk > Len(tokens)

\* Mutant of NotPackage: the walk goes on where it is.
NotPackageStays ==
  /\ Walked /\ found["Name"] = NoText
  /\ phase' = "apply" /\ UNCHANGED pos
  /\ UNCHANGED <<request, table, k, answer, package, selected>>

NotPackage ==
  /\ Walked /\ found["Name"] = NoText
  /\ phase' = "apply" /\ pos' = find_next_sibling(pos)
  /\ UNCHANGED <<request, table, k, answer, package, selected>>

Node == Find(table, found["Name"])

\* Mutant of UpdateNode: the base is left as it is.
UpdateVersion ==
  /\ Walked /\ found["Name"] # NoText /\ Node # NULL
  /\ \E type \in Compare(table.stash[Node].installed_ver, found["Version"]) :
       table' = [table EXCEPT !.stash[Node] =
                   [@ EXCEPT !.updated_ver = found["Version"], !.is_non_aur = FALSE,
                             !.update_type = type]]
  /\ phase' = "apply" /\ pos' = find_next_sibling(pos)
  /\ UNCHANGED <<request, k, answer, package, selected>>

UpdateNode ==
  /\ Walked /\ found["Name"] # NoText /\ Node # NULL
  /\ \E type \in Compare(table.stash[Node].installed_ver, found["Version"]) :
       table' = [table EXCEPT !.stash[Node] =
                   [@ EXCEPT !.updated_ver = found["Version"],
                             !.package_base = found["PackageBase"],
                             !.is_non_aur = FALSE, !.update_type = type]]
  /\ phase' = "apply" /\ pos' = find_next_sibling(pos)
  /\ UNCHANGED <<request, k, answer, package, selected>>

\* A name that is not in the dictionary: its node is NULL.
UpdateNull ==
  /\ Walked /\ found["Name"] # NoText /\ Node = NULL /\ phase' = "dead"
  /\ UNCHANGED <<request, table, k, answer, pos, package, selected>>

EndApply ==
  /\ phase = "apply" /\ pos > Len(tokens) /\ phase' = "select" /\ k' = 1
  /\ UNCHANGED <<request, table, answer, pos, package, selected>>

NameAt(m) == request.pkgs[m].name
Known(m) == ~table.stash[Find(table, NameAt(m))].is_non_aur

\* filter_aur_pkgs() for packages of the command line; main() goes on with
\* the list it has.
Selecting == phase = "select" /\ request.source = "arguments" /\ k <= Len(request.pkgs)

SelectKnown ==
  /\ Selecting /\ Known(k) /\ k' = k + 1
  /\ selected' = Append(selected, NameAt(k))
  /\ UNCHANGED <<request, table, phase, answer, pos, package>>

PassUnknown ==
  /\ Selecting /\ ~Known(k) /\ k' = k + 1
  /\ UNCHANGED <<request, table, phase, answer, pos, package, selected>>

EndSelect ==
  /\ phase = "select" /\ ~Selecting /\ phase' = "done"
  /\ UNCHANGED <<request, table, k, answer, pos, package, selected>>

\* What the program does on its own; the query waits for the AUR.
Compute == \/ Fill \/ EndFill \/ SearchOn \/ NoResults \/ Results
           \/ Package \/ ReadField \/ PassToken \/ NotPackage \/ UpdateNode
           \/ UpdateNull \/ EndApply \/ SelectKnown \/ PassUnknown \/ EndSelect

Next == Compute \/ Ask \/ AskFails

Spec == Init /\ [][Next]_vars

\* The program computes as long as it has something to do; curl sets no time
\* limit, so nothing is assumed of the query.
FairSpec == Spec /\ WF_vars(Compute)

-----------------------------------------------------------------------------
\* Every variable stays in its domain; pointers are NULL or used nodes.
TypeOK ==
  /\ request \in Requests /\ k \in 1 .. Len(request.pkgs) + 1
  /\ phase \in {"fill", "ask", "search", "apply", "package", "select", "done",
               "dead"}
  /\ table.n_items \in 0 .. table.size
  /\ pos \in 1 .. Len(tokens) + 1 /\ walk \in 1 .. Len(tokens) + 1
  /\ \A b \in DOMAIN table.map : table.map[b] \in 0 .. table.n_items
  /\ \A p \in 1 .. table.n_items : table.stash[p].next_node \in 0 .. table.n_items
  /\ selected \in Seq(Names)

\* Whatever is set again and however names share a bucket, every chain of
\* hashtable.c ends, and each node in use is the one found under its name.
TableSound ==
  /\ \A b \in DOMAIN table.map : Follow(table, table.map[b])[table.size] = NULL
  /\ \A p \in 1 .. table.n_items : Find(table, table.stash[p].pkg_name) = p

\* No package is dropped for want of a place in the stash: the lookups of
\* main.c and pkg_install_stages.c, which do not check, find a node.
NothingDropped ==
  phase # "fill" => \A m \in DOMAIN request.pkgs : Find(table, NameAt(m)) # NULL

Answered(n) == \E r \in answer.told : r.says["Name"] = n
NodeOf(n) == table.stash[Find(table, n)]

\* A value in the object of a package reads like a key.
Misread ==
  \E r \in answer.told : \E q \in Children(tokens, r.place) :
    tokens[q].key \in Keys /\ Behind(tokens, q) # r.says[tokens[q].key]

\* The node says what the AUR says of the package.
Applied(node, says) ==
  /\ node.updated_ver = says["Version"] /\ node.package_base = says["PackageBase"]
  /\ node.installed_ver = NoText => node.update_type = "UPGRADE"
  /\ node.installed_ver # NoText =>
       /\ node.update_type = "UPGRADE" <=> node.installed_ver < node.updated_ver
       /\ node.update_type = "DOWNGRADE" <=> node.installed_ver > node.updated_ver

\* The list has the names of the packages at the places, in their order.
Listed(list, pkgs, places) ==
  \E at \in [DOMAIN list -> places] :
    /\ \A x, y \in DOMAIN list : x < y => at[x] < at[y]
    /\ \A x \in DOMAIN list : list[x] = pkgs[at[x]].name
    /\ \A m \in places : \E x \in DOMAIN list : at[x] = m

\* find_and_update_pkg_info() walks over the rest of the answer for each
\* package.  Still, when no value reads like a key, each node says what the
\* AUR said of its package and of no other, and filter_aur_pkgs() keeps the
\* packages the AUR knows, in the order they were given.
AnswerApplied ==
  phase = "done" /\ ~Misread =>
    /\ \A r \in answer.told : Applied(NodeOf(r.says["Name"]), r.says)
    /\ \A m \in DOMAIN request.pkgs :
         NodeOf(NameAt(m)).is_non_aur <=> ~Answered(NameAt(m))
    /\ request.source = "arguments" =>
         Listed(selected, request.pkgs, {m \in DOMAIN request.pkgs : Answered(NameAt(m))})

\* hashtable_set_item() leaves package_base as the stack had it.  A package that
\* counts as known to the AUR, which the stages look no further at, has a text
\* there all the same, also when an answer is misread.
BaseBeforeUse ==
  \A p \in 1 .. table.n_items :
    ~table.stash[p].is_non_aur => table.stash[p].package_base \in Bases \cup {Junk}

\* The program only dies on an answer in which a value reads like a key.
DiesOfMisreading == phase = "dead" => Misread

\* The loops of main() and both walks over the tokens end, whatever the answer
\* looks like; only the query itself may take forever.
QueryEnds == phase # "ask" ~> phase \in {"ask", "done", "dead"}

\* What the dictionary has of a node, and under a name.
EntryOf(node) == [installed |-> node.installed_ver, updated |-> node.updated_ver,
                  base |-> node.package_base, non_aur |-> node.is_non_aur,
                  update |-> node.update_type]
Entry(t, n) == IF t.n_items = 0 \/ Find(t, n) = NULL THEN Absent
               ELSE EntryOf(t.stash[Find(t, n)])

\* No entry looks like a missing one.
Entries == [installed : Versions \cup {NoText}, updated : Versions \cup {Junk, NoText},
            base : Bases \cup {Junk, Garbage}, non_aur : BOOLEAN,
            update : {"UPGRADE", "UP_TO_DATE", "DOWNGRADE"}]
ASSUME AbsentAssumption == Absent \notin Entries

\* The hashtable and the walk implement the dictionary.
Dict == INSTANCE PackageDict
          WITH NoVersion <- NoText, NoBase <- Garbage, Versions <- Versions \cup {Junk},
               Bases <- Bases \cup {Junk},
               entry <- [n \in Names |-> Entry(table, n)], open <- phase = "fill"
KeepsDictionary == Dict!Spec
=============================================================================
