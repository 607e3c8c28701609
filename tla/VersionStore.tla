---------------------------- MODULE VersionStore ----------------------------
(***************************************************************************)
(* What versions.txt is for: it records, for each -git package, the        *)
(* version its PKGBUILD had when it was last fetched.  Recording the       *)
(* fetched versions is atomic unless there is a mishap: an interrupted     *)
(* write may lose any version and damage one, and a file that cannot be    *)
(* read is begun anew.                                                     *)
(***************************************************************************)
EXTENDS Naturals

CONSTANTS
  Names,     \* package names
  Vers,      \* versions
  Torn,      \* a damaged version
  NoVersion  \* of a package without a record

VARIABLES
  recorded,  \* the version recorded for each package
  fetched,   \* the versions a command fetched
  blind,     \* the file could not be read, and is about to be written
  mishaps    \* how often something went wrong

vars == <<recorded, fetched, blind, mishaps>>

Versions == [Names -> Vers \cup {NoVersion}]
Nothing == [n \in Names |-> NoVersion]

Init == recorded = Nothing /\ fetched = Nothing /\ ~blind /\ mishaps = 0

\* What is fetched now replaces what was recorded before.
Updated == [n \in Names |-> IF fetched[n] # NoVersion THEN fetched[n] ELSE recorded[n]]

Fetch == ~blind /\ fetched' \in Versions /\ UNCHANGED <<recorded, blind, mishaps>>

\* The file cannot be read: what is fetched will be all that is recorded.
FetchBlindly ==
  /\ ~blind /\ blind' /\ fetched' \in Versions /\ mishaps' = mishaps + 1
  /\ UNCHANGED recorded

Record ==
  /\ recorded' = IF blind THEN fetched ELSE Updated
  /\ ~blind' /\ UNCHANGED <<fetched, mishaps>>

Mishap ==
  /\ \E lost \in SUBSET Names :
       \E r \in {recorded, Updated} \cup {[Updated EXCEPT ![hit] = Torn] : hit \in Names} :
         recorded' = [n \in Names |-> IF n \in lost THEN NoVersion ELSE r[n]]
  /\ ~blind' /\ mishaps' = mishaps + 1 /\ UNCHANGED fetched

\* The file is deleted.
Forget == ~blind /\ recorded' = Nothing /\ UNCHANGED <<fetched, blind, mishaps>>

Next == Fetch \/ FetchBlindly \/ Record \/ Mishap \/ Forget

Spec == Init /\ [][Next]_vars
=============================================================================
