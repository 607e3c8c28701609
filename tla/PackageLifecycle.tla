-------------------------- MODULE PackageLifecycle --------------------------
(***************************************************************************)
(* What the manager promises about a package: it is fetched before it is   *)
(* built and built before it is installed, and one pacman transaction      *)
(* installs the packages it is given together.  How a command gets there,  *)
(* with which subprocesses and failures, is the subject of InstallStages.  *)
(***************************************************************************)
CONSTANTS
  Pkgs,    \* package names
  Bases,   \* package bases, one directory and one PKGBUILD each
  BaseOf,  \* the base of each package
  Builds,  \* the package files makepkg can produce; each names its package
  NoBuild  \* of a package that is not installed

VARIABLES
  fetched,    \* the bases with a directory in the cache
  artefacts,  \* the package files there are
  installed   \* the build each package was last installed from

vars == <<fetched, artefacts, installed>>

Init ==
  /\ fetched = {} /\ artefacts = {}
  /\ installed = [p \in Pkgs |-> NoBuild]

Fetch ==
  /\ \E b \in Bases : fetched' = fetched \cup {b}
  /\ UNCHANGED <<artefacts, installed>>

\* One run of makepkg makes files of the packages of one base.
Build ==
  /\ artefacts \subseteq artefacts'
  /\ \E b \in fetched : artefacts' \ artefacts \subseteq {x \in Builds : BaseOf[x.pkg] = b}
  /\ UNCHANGED <<fetched, installed>>

\* git clean removes files built in the directory it cleans.
Discard ==
  /\ artefacts' \in SUBSET artefacts
  /\ UNCHANGED <<fetched, installed>>

\* pacman -U is all or nothing.
Install ==
  /\ \E P \in SUBSET Pkgs : \E x \in [P -> artefacts] :
       /\ \A p \in P : x[p].pkg = p /\ BaseOf[p] \in fetched
       /\ installed' = [p \in Pkgs |-> IF p \in P THEN x[p] ELSE installed[p]]
  /\ UNCHANGED <<fetched, artefacts>>

\* The user deletes the cache.
Wipe ==
  /\ fetched' = {} /\ artefacts' \in SUBSET artefacts
  /\ UNCHANGED installed

Next == Fetch \/ Build \/ Discard \/ Install \/ Wipe

Spec == Init /\ [][Next]_vars
=============================================================================
