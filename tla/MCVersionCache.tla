--------------------------- MODULE MCVersionCache ---------------------------
(***************************************************************************)
(* VersionCache with every sorted list over the names.                     *)
(***************************************************************************)
EXTENDS VersionCache

MCInputs == {s \in UNION {[1 .. k -> Names] : k \in 0 .. 3} : StrictlySorted(s)}
=============================================================================
