--------------------------- MODULE MCCommandLine ---------------------------
(***************************************************************************)
(* CommandLine with three packages: every list of up to three arguments,   *)
(* and every list of --exclude options for up to three packages.           *)
(***************************************************************************)
EXTENDS CommandLine

MCNames == (-5 .. -1) \cup 1 .. 3
MCArguments ==
  UNION {[1 .. n -> MCNames] : n \in 0 .. 3}
    \cup {[k \in 1 .. 2 * Len(s) |-> IF k % 2 = 1 THEN -3 ELSE s[k \div 2]] :
            s \in UNION {[1 .. n -> 1 .. 3] : n \in 0 .. 3}}
    \cup [1 .. 4 -> {-5, -3, -2, 1}]

\* One kind of node for each way through the conditions of the filter.
MCNodeKinds ==
  {[non_aur |-> TRUE, git |-> FALSE, update |-> "UP_TO_DATE"],
   [non_aur |-> FALSE, git |-> TRUE, update |-> "UP_TO_DATE"],
   [non_aur |-> FALSE, git |-> FALSE, update |-> "UPGRADE"],
   [non_aur |-> FALSE, git |-> FALSE, update |-> "DOWNGRADE"]}
=============================================================================
