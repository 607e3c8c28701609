--------------------------- MODULE MCUpdateFilter ---------------------------
(***************************************************************************)
(* UpdateFilter on lists over a few names.                                 *)
(***************************************************************************)
EXTENDS UpdateFilter

\* One kind of node for each way through the conditions of the filter.
MCNodeKinds ==
  {[non_aur |-> TRUE, git |-> FALSE, update |-> "UP_TO_DATE"],
   [non_aur |-> FALSE, git |-> TRUE, update |-> "UP_TO_DATE"],
   [non_aur |-> FALSE, git |-> FALSE, update |-> "UPGRADE"],
   [non_aur |-> FALSE, git |-> FALSE, update |-> "DOWNGRADE"]}
=============================================================================
