---------------------------- MODULE CommandLine ----------------------------
(***************************************************************************)
(* From the command line to the packages: parse_aur_update_args() or       *)
(* parse_aur_install_args() reads the arguments one by one, main() sorts   *)
(* what was excluded and collects the foreign packages, and the filter of  *)
(* UpdateFilter walks over both.                                           *)
(*                                                                         *)
(* An argument is an integer as well, in the order of strcmp(): options    *)
(* start with a dash and are below every package name.                     *)
(***************************************************************************)
EXTENDS UpdateFilter, FiniteSets, Functions

CONSTANT Arguments  \* the argument lists: argv without the program and the command

EndOfOptions == -5   \* --
PacmanOption == -4   \* --asdeps, for all of is_pacman_arg()
ExcludeOption == -3  \* --exclude
ResetOption == -2    \* --reset
OtherOption == -1    \* one the program does not know
Options == EndOfOptions .. OtherOption
PackageNames == {n \in Names : n > 0}

ASSUME ArgumentsAssumption ==
  Names = Options \cup PackageNames /\ Arguments \subseteq Seq(Names)

ListCommands == {"FETCH", "BUILD", "INSTALL"}

VARIABLES
  stage,     \* "parse", "parsed", "refused", "run"
  given,     \* the command of the command line
  argv,      \* its arguments
  at,        \* the cursor in argv
  excluded,  \* exclude_pkgs
  pkgs,      \* pkgs, of a list command
  options,   \* pacman_opts
  reset      \* reset_pkgbuilds

parsing == <<stage, given, argv, at, excluded, pkgs, options, reset>>

\* What UpdateFilter has before main() collected anything.
Idle ==
  /\ command = "INSTALL_DOWNGRADES" /\ pass = "summary"
  /\ node = [n \in Names |-> CHOOSE nd \in Nodes : TRUE]
  /\ namelist = <<>> /\ ignore = <<>> /\ i = 1 /\ j = 1
  /\ kept = <<>> /\ limit = 0 /\ out = <<>>

CommandInit ==
  /\ Idle /\ stage = "parse" /\ given \in Commands \cup ListCommands
  /\ argv \in Arguments /\ at = 1
  /\ excluded = <<>> /\ pkgs = <<>> /\ options = <<>> /\ reset = FALSE

Parsing == stage = "parse" /\ at <= Len(argv)
TakesPacman == given \in InstallCommands \cup {"INSTALL_DOWNGRADES", "INSTALL"}
TakesReset == given \in FetchCommands \cup {"FETCH"}
UpdateCommand == given \in Commands

\* The first test of both loops.
IsPacmanOption == TakesPacman /\ argv[at] = PacmanOption

TakePacmanOption ==
  /\ Parsing /\ IsPacmanOption
  /\ options' = Append(options, argv[at]) /\ at' = at + 1
  /\ UNCHANGED <<vars, stage, given, argv, excluded, pkgs, reset>>

\* Mutant of TakeExclude: the operand is not passed.
TakeExcludeOnly ==
  /\ Parsing /\ UpdateCommand /\ argv[at] = ExcludeOption /\ at < Len(argv)
  /\ excluded' = Append(excluded, argv[at + 1]) /\ at' = at + 1
  /\ UNCHANGED <<vars, stage, given, argv, pkgs, options, reset>>

\* The operand is taken whatever it is.
TakeExclude ==
  /\ Parsing /\ UpdateCommand /\ argv[at] = ExcludeOption /\ at < Len(argv)
  /\ excluded' = Append(excluded, argv[at + 1]) /\ at' = at + 2
  /\ UNCHANGED <<vars, stage, given, argv, pkgs, options, reset>>

TakePackage ==
  /\ Parsing /\ ~UpdateCommand /\ argv[at] \in PackageNames
  /\ pkgs' = Append(pkgs, argv[at]) /\ at' = at + 1
  /\ UNCHANGED <<vars, stage, given, argv, excluded, options, reset>>

TakeReset ==
  /\ Parsing /\ TakesReset /\ argv[at] = ResetOption
  /\ reset' = TRUE /\ at' = at + 1
  /\ UNCHANGED <<vars, stage, given, argv, excluded, pkgs, options>>

\* Nothing behind -- is looked at.
EndParse ==
  /\ stage = "parse" /\ (at <= Len(argv) => argv[at] = EndOfOptions)
  /\ stage' = "parsed"
  /\ UNCHANGED <<vars, given, argv, at, excluded, pkgs, options, reset>>

\* A missing operand, or an argument that none of the tests takes.
Refuse ==
  /\ Parsing /\ ~IsPacmanOption /\ argv[at] # EndOfOptions
  /\ ~(TakesReset /\ argv[at] = ResetOption)
  /\ IF UpdateCommand THEN argv[at] = ExcludeOption => at = Len(argv)
                      ELSE argv[at] \notin PackageNames
  /\ stage' = "refused"
  /\ UNCHANGED <<vars, given, argv, at, excluded, pkgs, options, reset>>

\* main() sorts the excluded names and reads the foreign packages and what the
\* AUR has of them; the arguments are not looked at again.  qsort() leaves the
\* names in an order in which they are sorted.
Collect ==
  /\ stage = "parsed" /\ UpdateCommand /\ stage' = "run" /\ command' = given
  /\ pass' = IF given \in FilterCommands THEN "count" ELSE "summary"
  /\ \E order \in Bijection(DOMAIN excluded, DOMAIN excluded) :
       /\ ignore' = [k \in DOMAIN excluded |-> excluded[order[k]]]
       /\ Sorted(ignore')
  /\ \E installed \in Lists(MaxInstalled) :
       /\ Elements(installed) \subseteq PackageNames /\ StrictlySorted(installed)
       /\ namelist' = installed
  /\ \E nodes \in [PackageNames -> NodeKinds] :
       node' = [n \in Names |-> IF n \in PackageNames THEN nodes[n] ELSE node[n]]
  /\ argv' = <<>> /\ at' = 1 /\ excluded' = <<>> /\ options' = <<>> /\ reset' = FALSE
  /\ UNCHANGED <<given, pkgs, i, j, kept, limit, out>>

Parse == \/ TakePacmanOption \/ TakeExclude \/ TakePackage \/ TakeReset \/ EndParse
         \/ Refuse
Filter == stage = "run" /\ Next /\ UNCHANGED parsing

CommandNext == Parse \/ Collect \/ Filter
CommandSpec == CommandInit /\ [][CommandNext]_<<vars, parsing>>

-----------------------------------------------------------------------------
\* Of consecutive --exclude, every second one is the operand of the one before.
Operand(k) ==
  /\ UpdateCommand
  /\ \E n \in 1 .. k - 1 :
       /\ n % 2 = 1 /\ \A m \in k - n .. k - 1 : argv[m] = ExcludeOption
       /\ k - n > 1 => argv[k - n - 1] # ExcludeOption

\* The places in front of the first -- that is an option.
Looked == {k \in DOMAIN argv :
             \A m \in 1 .. k : argv[m] = EndOfOptions => Operand(m)}

\* The list taken is that of the arguments at the places, in their order.
Rank(k, places) == Cardinality({m \in places : m <= k})
Listed(args, taken, places) ==
  /\ Len(taken) = Cardinality(places)
  /\ \A k \in places : taken[Rank(k, places)] = args[k]

Wrong(k) ==
  /\ ~Operand(k) /\ ~(TakesPacman /\ argv[k] = PacmanOption)
  /\ ~(TakesReset /\ argv[k] = ResetOption)
  /\ IF UpdateCommand THEN argv[k] = ExcludeOption => k = Len(argv)
                      ELSE argv[k] \notin PackageNames

\* The parsers take the command line as it is written: they refuse it exactly
\* when an argument in front of -- is unknown or lacks its operand, and otherwise
\* have every operand of --exclude, every package, every option for pacman and
\* --reset, in order and none of them twice, whatever the operands look like.
ArgsAsWritten ==
  /\ stage = "refused" => \E k \in Looked : Wrong(k)
  /\ stage = "parsed" =>
       /\ \A k \in Looked : ~Wrong(k)
       /\ Listed(argv, excluded, {k \in Looked : Operand(k)})
       /\ Listed(argv, pkgs, {k \in Looked : ~UpdateCommand /\ argv[k] \in PackageNames})
       /\ Listed(argv, options, {k \in Looked : TakesPacman /\ ~Operand(k)
                                                /\ argv[k] = PacmanOption})
       /\ reset <=> \E k \in Looked : ~Operand(k) /\ argv[k] = ResetOption
=============================================================================
