--------------------------- MODULE SharedVersions ---------------------------
(***************************************************************************)
(* versions.txt between instances of the manager that fetch at the same    *)
(* time: nothing locks it.  Each loads the file, merges and writes its own *)
(* list; fopen("w") truncates, and fclose() writes the list from where the *)
(* instance's own offset stands, at the start, over what another one wrote *)
(* meanwhile.  The list fits into the buffer of stdio: it is one write().  *)
(*                                                                         *)
(* A version is its length.  A name of Names has two characters: an        *)
(* overwritten line is left with its second one, or with none.             *)
(***************************************************************************)
EXTENDS VersionLines

CONSTANTS
  Procs,       \* the instances that fetch
  Names,       \* names of -git packages
  Vers,        \* versions of them
  Rest,        \* what is left of a name without its first character
  Inputs,      \* the lists a command may merge: their names, in any order
  Unknown,     \* not a list: other instances disturbed it
  MaxCommands, \* commands in a behaviour
  MaxFaults    \* killed ones among them

ASSUME SharedNamesAssumption ==
  /\ Names \subseteq Nat \ {0} /\ IsFiniteSet(Names)
  /\ Vers \subseteq Nat \ {0} /\ IsFiniteSet(Vers) /\ Vers # {}
  /\ Rest \in [Names -> Nat \ (Names \cup {0})]
ASSUME SharedInputsAssumption == Inputs \subseteq Seq(Names) /\ Unknown \notin Seq(Names)
ASSUME SharedBoundsAssumption == MaxCommands \in Nat /\ MaxFaults \in Nat

VARIABLES
  file,    \* the lines of versions.txt
  pc,      \* of an instance: "idle", "loaded" (and merged), "opened"
  list,    \* ver_cache_loaded after the merge
  fetched, \* the merged packages
  seen,    \* history: the file that was loaded, damaged lines and all; Unknown
           \* when another instance had it open then or since
  mixed,   \* history: two instances had the file open at once
  orderly, \* history: every merged list was sorted
  settled, \* history: what the last save merged, Unknown unless that instance was alone
  commands, faults

locals == <<pc, list, fetched, seen>>
shared == <<file, locals, mixed, orderly, settled, commands, faults>>

Opened == {p \in Procs : pc[p] = "opened"}
Alone(p) == seen[p] # Unknown

\* The empty name, the names, what is left of them, and one behind all of these.
Texts == LET known == {0} \cup Names \cup {Rest[n] : n \in Names}
         IN known \cup {1 + CHOOSE m \in known : \A n \in known : n <= m}

-----------------------------------------------------------------------------
Before(l) == IF ~ l.space THEN 0
             ELSE 1 + (IF l.name \in Names THEN 2 ELSE IF l.name = 0 THEN 0 ELSE 1)
Width(l) == Before(l) + l.ver + 1

\* What k overwritten characters leave of a line: all of it, cut in its name,
\* behind its space, or nothing but the newline.
Cut(l, k) ==
  IF k <= 0 THEN <<l>>
  ELSE IF k < Before(l)
  THEN <<[l EXCEPT !.name = IF k = 1 /\ l.name \in Names THEN Rest[l.name] ELSE 0]>>
  ELSE IF k < Width(l) - 1
  THEN <<[name |-> 0, ver |-> Width(l) - 1 - k, space |-> FALSE]>>
  ELSE <<>>

\* Where each line of a list ends.
Ends(s) == LET end[k \in 0 .. Len(s)] == IF k = 0 THEN 0 ELSE end[k - 1] + Width(s[k])
           IN end

\* What a list leaves of the lines it is written over.
Behind(s, lines) ==
  LET behind[k \in 0 .. Len(lines)] ==
        IF k = 0 THEN <<>>
        ELSE behind[k - 1] \o Cut(lines[k], Ends(s)[Len(s)] - Ends(lines)[k - 1])
  IN behind[Len(lines)]

\* An invalid line leaves its place in the array unset: its name is anything.
Readings(f) ==
  {[k \in 1 .. Len(Loaded(f)) |-> IF f[k].space THEN f[k] ELSE [f[k] EXCEPT !.name = c[k]]] :
     c \in [1 .. Len(Loaded(f)) -> Texts]}
Clean(f) == \A k \in 1 .. Len(Loaded(f)) : f[k].space

Saved(s) == Picked(s, Valid(s))

-----------------------------------------------------------------------------
SharedInit ==
  /\ file = <<>> /\ pc = [p \in Procs |-> "idle"]
  /\ list = [p \in Procs |-> <<>>] /\ fetched = [p \in Procs |-> <<>>]
  /\ seen = [p \in Procs |-> Unknown]
  /\ mixed = FALSE /\ orderly = TRUE /\ settled = Unknown
  /\ commands = 0 /\ faults = 0

\* The command of p is over: its lists are gone.
Leave(p) ==
  /\ pc' = [pc EXCEPT ![p] = "idle"] /\ list' = [list EXCEPT ![p] = <<>>]
  /\ fetched' = [fetched EXCEPT ![p] = <<>>]

\* load_ver_cache() and merge_in_ver_cache(): when nothing was loaded the
\* fetched list is taken as it is; a merged list without entries is freed, and
\* nothing is saved.
Load(p, items) ==
  /\ pc[p] = "idle" /\ commands < MaxCommands /\ commands' = commands + 1
  /\ orderly' = (orderly /\ StrictlySorted([k \in DOMAIN items |-> items[k].name]))
  /\ \E reading \in Readings(file) :
       LET merged == ZipMerge(reading, items)
       IN /\ file = <<>> \/ merged # <<>>
          /\ list' = [list EXCEPT ![p] = merged]
  /\ pc' = [pc EXCEPT ![p] = "loaded"] /\ fetched' = [fetched EXCEPT ![p] = items]
  /\ seen' = [seen EXCEPT ![p] = IF Opened = {} THEN file ELSE Unknown]
  /\ UNCHANGED <<file, mixed, settled, faults>>

\* The process dies of a name that was never set.
Misread(p, items) ==
  /\ pc[p] = "idle" /\ commands < MaxCommands /\ commands' = commands + 1
  /\ items # <<>> /\ ~ Clean(file)
  /\ UNCHANGED <<file, locals, mixed, orderly, settled, faults>>

\* Mutant of Open: fopen() does not truncate.
OpenKeep(p) ==
  /\ pc[p] = "loaded" /\ pc' = [pc EXCEPT ![p] = "opened"]
  /\ settled' = Unknown
  /\ mixed' = (mixed \/ Opened # {})
  /\ seen' = [q \in Procs |-> IF q = p /\ Opened = {} THEN seen[p] ELSE Unknown]
  /\ UNCHANGED <<file, list, fetched, orderly, commands, faults>>

\* save_ver_cache() truncates the file.
Open(p) ==
  /\ pc[p] = "loaded" /\ pc' = [pc EXCEPT ![p] = "opened"]
  /\ file' = <<>> /\ settled' = Unknown
  /\ mixed' = (mixed \/ Opened # {})
  /\ seen' = [q \in Procs |-> IF q = p /\ Opened = {} THEN seen[p] ELSE Unknown]
  /\ UNCHANGED <<list, fetched, orderly, commands, faults>>

\* fclose() writes the valid entries; what another instance wrote stays behind them.
Write(p) ==
  /\ pc[p] = "opened" /\ Leave(p)
  /\ file' = Saved(list[p]) \o Behind(Saved(list[p]), file)
  /\ settled' = IF Alone(p) THEN fetched[p] ELSE Unknown
  /\ seen' = [q \in Procs |-> Unknown]
  /\ UNCHANGED <<mixed, orderly, commands, faults>>

\* The process is killed; a file it had opened is as it was truncated.
Kill(p) ==
  /\ pc[p] # "idle" /\ Leave(p)
  /\ faults < MaxFaults /\ faults' = faults + 1
  /\ seen' = [seen EXCEPT ![p] = Unknown]
  /\ UNCHANGED <<file, mixed, orderly, settled, commands>>

Fetch(p) == \E names \in Inputs : \E items \in Fetches(names, Vers) :
              Load(p, items) \/ Misread(p, items)
SharedNext == \E p \in Procs : Fetch(p) \/ Open(p) \/ Write(p) \/ Kill(p)

-----------------------------------------------------------------------------
\* While no two instances had versions.txt open at once and every command merged
\* a sorted list, the file is sorted with one line for a name and has no damaged
\* line, whatever else overlapped and whoever was killed.
SortedUnlessMixed ==
  orderly /\ ~ mixed => Ordered(file) /\ Valid(file) = DOMAIN file

\* When nobody else had versions.txt open since the load of an instance, its save
\* leaves the fetched versions there, and the lines of other packages as they were
\* loaded, in whatever order the file and the command line have them.  Lost are, of
\* a damaged file, the valid lines at its end that the parser's count leaves out:
\* those in its last places, of which there are as many as damaged lines.
SaveKeeps ==
  [][\A p \in Procs : Write(p) /\ Alone(p) =>
       LET lines == {file'[k] : k \in DOMAIN file'}
           counted == Cardinality(Valid(seen[p]))
       IN /\ \A k \in DOMAIN fetched[p] : fetched[p][k] \in lines
          /\ \A k \in Valid(seen[p]) :
               k <= counted /\ seen[p][k].name \notin NamesIn(fetched[p])
                 => seen[p][k] \in lines]_shared
=============================================================================
