-------------------------- MODULE MCInstallStages --------------------------
(***************************************************************************)
(* InstallStages with one ordinary package and one base that makes a -git  *)
(* package and a package beside it.                                        *)
(***************************************************************************)
EXTENDS InstallStages

MCPkgs == {"app", "tool_git", "tool_doc"}
MCBases == {"app", "tool"}
MCBaseOf == [p \in MCPkgs |-> IF p = "app" THEN "app" ELSE "tool"]

OneVersion == <<1>>
\* The second commit does not change the version its PKGBUILD states.
SameVersion == <<1, 1>>

MCSelections == {<<"app">>, <<"app", "tool_git">>, <<"tool_git", "tool_doc">>}
SplitSelections == {<<"tool_git">>, <<"tool_git", "tool_doc">>}
=============================================================================
