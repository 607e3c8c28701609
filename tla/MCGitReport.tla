---------------------------- MODULE MCGitReport ----------------------------
(***************************************************************************)
(* GitReport with two instances that fetch, sorted lists and one that is   *)
(* not, and systems whose packages lie before, among and behind the names  *)
(* of versions.txt.                                                        *)
(***************************************************************************)
EXTENDS GitReport, TLC

CONSTANTS a, b

Symmetry == Permutations(Procs)
MCRest == [n \in Names |-> n - 1]
MCInputs == {<<>>, <<2>>, <<4>>, <<2, 4>>, <<4, 2>>}

Pkg(n, k) == [name |-> n, kind |-> k]
MCSystems ==
  {<<Pkg(2, "git"), Pkg(4, "git")>>, <<Pkg(2, "upgrade"), Pkg(4, "git")>>,
   <<Pkg(2, "git"), Pkg(3, "foreign"), Pkg(4, "git"), Pkg(5, "git")>>,
   <<Pkg(1, "git"), Pkg(2, "current"), Pkg(4, "downgrade"), Pkg(5, "git")>>}
=============================================================================
