---------------------------- MODULE PackageDict ----------------------------
(***************************************************************************)
(* What the dictionary of packages promises: one entry for a name, which   *)
(* is put there before the AUR is asked and says afterwards what the AUR   *)
(* knows of the package.                                                   *)
(***************************************************************************)
CONSTANTS
  Names,     \* package names
  Absent,    \* of a name without an entry
  Versions,  \* what may be told as a version
  Bases,     \* what may be told as a package base
  NoVersion, \* not known, or not installed
  NoBase,
  Compare(_, _)  \* the update types two versions may give

VARIABLES
  entry,     \* the entry of each name
  open       \* names are still being put

vars == <<entry, open>>

Fresh(installed) == [installed |-> installed, updated |-> NoVersion, base |-> NoBase,
                     non_aur |-> TRUE, update |-> "UP_TO_DATE"]

Init == entry = [n \in Names |-> Absent] /\ open = TRUE

\* The entry of one name changes.
Only(n) == \A m \in Names \ {n} : entry'[m] = entry[m]

Put(n) ==
  /\ open /\ UNCHANGED open /\ Only(n)
  /\ entry'[n] \in {Fresh(v) : v \in Versions \cup {NoVersion}}

Close == open /\ ~open' /\ UNCHANGED entry

\* The AUR knows the package.
Told(e) ==
  UNION {{[installed |-> e.installed, updated |-> v, base |-> b, non_aur |-> FALSE,
           update |-> u] : u \in Compare(e.installed, v)} : v \in Versions, b \in Bases}

Learn(n) ==
  /\ ~open /\ UNCHANGED open /\ Only(n)
  /\ entry[n] # Absent /\ entry'[n] \in Told(entry[n])

Next == (\E n \in Names : Put(n) \/ Learn(n)) \/ Close

Spec == Init /\ [][Next]_vars
=============================================================================
