----------------------------- MODULE GitReport -----------------------------
(***************************************************************************)
(* The update report of another instance beside those that fetch: the      *)
(* sections of updates and downgrades, and aur_list_git()'s walk over      *)
(* versions.txt, which was loaded when the section began.                  *)
(*                                                                         *)
(* After the load a report reads nothing that the other instances change   *)
(* and changes nothing they read, so its steps are not interleaved with    *)
(* theirs.                                                                 *)
(***************************************************************************)
EXTENDS SharedVersions

CONSTANTS
  Systems,     \* the foreign packages a report may find: lists of [name, kind]
  FromAur,     \* the version the AUR gave
  FromClone,   \* the version bash reads in the clone
  Garbled      \* a version that was never set

ASSUME SystemsAssumption ==
  Systems \subseteq
    Seq([name : Texts, kind : {"git", "upgrade", "downgrade", "current", "foreign"}])
ASSUME SourcesAssumption == {FromAur, FromClone, Garbled} \cap Vers = {}

VARIABLES
  walk,    \* "no" report, "next" package, "search"ing versions.txt, "done", "dead"
  system,  \* pkg_namelist and the nodes of the packages
  ri, rj,  \* the cursors in system and ver_cache
  cache,   \* ver_cache
  onDisk,  \* history: the file it was read from
  shown,   \* the lines of the report
  due      \* history: settled when the walk began

walkVars == <<walk, system, ri, rj, cache, onDisk, shown, due>>
vars == <<shared, walkVars>>

Shows(n, v) == [name |-> n, ver |-> v]

Init ==
  /\ SharedInit
  /\ walk = "no" /\ system = <<>> /\ ri = 1 /\ rj = 1 /\ cache = <<>> /\ onDisk = <<>>
  /\ shown = <<>> /\ due = Unknown

\* aur_check_non_git(), aur_check_non_git_downgrades(): one section.
Section(s, kind) ==
  LET listed == Picked(s, {k \in DOMAIN s : s[k].kind = kind})
  IN [k \in DOMAIN listed |-> Shows(listed[k].name, FromAur)]

Begin(s) ==
  /\ walk = "no" /\ walk' = "next" /\ system' = s /\ ri' = 1 /\ rj' = 1
  /\ cache' \in Readings(file) /\ onDisk' = file /\ due' = settled
  /\ shown' = Section(s, "upgrade") \o Section(s, "downgrade")
  /\ UNCHANGED shared

Name == system[ri].name

\* The line of a package is printed, and the loop goes on.
Shown(v) ==
  /\ shown' = Append(shown, Shows(Name, v)) /\ walk' = "next" /\ ri' = ri + 1
  /\ UNCHANGED <<shared, system, cache, onDisk, due>>

Dies ==
  /\ walk' = "dead"
  /\ UNCHANGED <<shared, system, ri, rj, cache, onDisk, shown, due>>

SkipOther ==
  /\ walk = "next" /\ ri <= Len(system) /\ system[ri].kind # "git" /\ ri' = ri + 1
  /\ UNCHANGED <<shared, walk, system, rj, cache, onDisk, shown, due>>

\* Behind the last recorded name nothing is looked up any more.
ShowAur ==
  /\ walk = "next" /\ ri <= Len(system) /\ system[ri].kind = "git"
  /\ rj > Len(cache) /\ Shown(FromAur) /\ UNCHANGED rj

Search ==
  /\ walk = "next" /\ ri <= Len(system) /\ system[ri].kind = "git"
  /\ rj <= Len(cache) /\ walk' = "search"
  /\ UNCHANGED <<shared, system, ri, rj, cache, onDisk, shown, due>>

\* The entry under the cursor: one of the list, or the one behind it, which is
\* a line that an invalid one pushed off the list, or was never set.
Entries ==
  IF rj <= Len(cache) THEN {cache[rj]}
  ELSE IF rj \in Valid(onDisk) THEN {onDisk[rj]}
  ELSE {[name |-> n, ver |-> Garbled, space |-> FALSE] : n \in Texts}

\* Mutants of Advance: the bound is not looked at; an equal name is passed.
AdvanceOn ==
  /\ walk = "search" /\ \E e \in Entries : Name > e.name
  /\ rj' = rj + 1
  /\ UNCHANGED <<shared, walk, system, ri, cache, onDisk, shown, due>>

AdvanceEqual ==
  /\ walk = "search" /\ rj <= Len(cache) /\ Name >= cache[rj].name
  /\ rj' = rj + 1
  /\ UNCHANGED <<shared, walk, system, ri, cache, onDisk, shown, due>>

\* The inner loop compares before it looks at the bound.
Advance ==
  /\ walk = "search" /\ rj <= Len(cache) /\ Name > cache[rj].name
  /\ rj' = rj + 1
  /\ UNCHANGED <<shared, walk, system, ri, cache, onDisk, shown, due>>

ShowRecorded ==
  /\ walk = "search"
  /\ \E e \in Entries :
       /\ Name = e.name /\ Shown(IF e.space THEN e.ver ELSE Garbled)
  /\ UNCHANGED rj

\* The name that was found is not the package's: where the loop stopped, or the
\* entry behind the list.
NotRecorded ==
  /\ walk = "search"
  /\ \E e \in Entries : Name # e.name /\ (Name > e.name => rj > Len(cache))

ShowClone == NotRecorded /\ Shown(FromClone) /\ UNCHANGED rj

\* get_pkgbase_ver_alloc() gives NULL: the version of the AUR is printed and
\* passed to free(), which aborts: it points into the answer.
ShowAndFree ==
  /\ NotRecorded /\ shown' = Append(shown, Shows(Name, FromAur)) /\ walk' = "dead"
  /\ UNCHANGED <<shared, system, ri, rj, cache, onDisk, due>>

\* bash prints nothing, and the terminator is written through NULL.
NothingPrinted == NotRecorded /\ Dies

\* A name or version that was never set is read.
Garbage ==
  /\ walk = "search" /\ (\E e \in Entries : ~ e.space) /\ Dies

End ==
  /\ walk = "next" /\ ri > Len(system) /\ walk' = "done"
  /\ UNCHANGED <<shared, system, ri, rj, cache, onDisk, shown, due>>

Forget ==
  /\ walk \in {"done", "dead"} /\ walk' = "no"
  /\ system' = <<>> /\ ri' = 1 /\ rj' = 1 /\ cache' = <<>> /\ onDisk' = <<>>
  /\ shown' = <<>> /\ due' = Unknown
  /\ UNCHANGED shared

Others == walk = "no" /\ SharedNext /\ UNCHANGED walkVars

Report ==
  \/ \E s \in Systems : Begin(s)
  \/ SkipOther \/ ShowAur \/ Search \/ Advance \/ ShowRecorded \/ ShowClone
  \/ ShowAndFree \/ NothingPrinted \/ Garbage \/ End \/ Forget

Next == Others \/ Report
Spec == Init /\ [][Next]_vars

-----------------------------------------------------------------------------
Lines == [name : Texts, ver : 1 .. CHOOSE m \in Vers : \A v \in Vers : v <= m, space : BOOLEAN]

\* Every variable stays in its domain, and the lists of an instance end with its
\* command.
TypeOK ==
  /\ file \in Seq(Lines) /\ pc \in [Procs -> {"idle", "loaded", "opened"}]
  /\ \A p \in Procs :
       /\ list[p] \in Seq(Lines) /\ (pc[p] = "idle" => list[p] = <<>>)
       /\ seen[p] = Unknown \/ (seen[p] \in Seq(Lines) /\ pc[p] # "idle")
  /\ walk \in {"no", "next", "search", "done", "dead"}
  /\ cache \in Seq(Lines) /\ ri \in 1 .. Len(system) + 1 /\ rj \in 1 .. Len(cache) + 1

GitNames(s) == {s[k].name : k \in {m \in DOMAIN s : s[m].kind = "git"}}

\* What aur-fetchgit is for: when an undisturbed fetch of a sorted list had every
\* -git package, and nobody opened versions.txt since, the report does not die
\* and shows each of them with the fetched version, whatever else the file held
\* before, in whatever order.
FetchGitAccurate ==
  (due # Unknown /\ Ordered(due) /\ GitNames(system) \subseteq NamesIn(due)) =>
    /\ walk # "dead"
    /\ walk = "done" =>
         \A k \in DOMAIN due :
           due[k].name \in GitNames(system) => Shows(due[k].name, due[k].ver) \in {shown[m] : m \in DOMAIN shown}

\* Over a sorted file without damaged lines the walk finds every package that is
\* recorded and shows the recorded version of it; the report dies only of a
\* package that is not recorded, and lists every -git package once.
ReportFollowsRecord ==
  (walk # "no" /\ Ordered(onDisk) /\ Valid(onDisk) = DOMAIN onDisk) =>
    /\ \A m \in DOMAIN shown : \A k \in DOMAIN onDisk :
         (shown[m].name = onDisk[k].name /\ shown[m].name \in GitNames(system)) =>
           shown[m].ver = onDisk[k].ver
    /\ walk = "dead" => ~ (GitNames(system) \subseteq NamesIn(onDisk))
    /\ walk = "done" =>
         \A n \in GitNames(system) : Cardinality({m \in DOMAIN shown : shown[m].name = n}) = 1
=============================================================================
