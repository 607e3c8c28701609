---------------------------- MODULE UpdateFilter ----------------------------
(***************************************************************************)
(* Which packages an update command works on: main() turns the command     *)
(* into a mode, and filter_pkg_updates() walks the sorted list of foreign  *)
(* packages and the sorted --exclude list side by side and keeps the       *)
(* eligible, not excluded names.  aur_fetch_updates() walks twice: once to *)
(* size the array, once to fill it.                                        *)
(*                                                                         *)
(* A package name is an integer; strcmp() is the order of the integers.    *)
(***************************************************************************)
EXTENDS Integers, Sequences

CONSTANTS
  Names,        \* the package names that exist
  NodeKinds,    \* the kinds of hashtable node a name may have
  MaxInstalled, \* the most foreign packages installed
  MaxIgnored    \* the most --exclude options of one command line

VARIABLES
  command,    \* the update command being run
  node,       \* what the hashtable knows of each name
  namelist,   \* pkg_namelist: the installed foreign packages
  ignore,     \* ignore_list: the excluded names, sorted by main()
  pass,       \* "count", then "fill", then "done"; "summary": no filter call
  i, j,       \* the positions in namelist and ignore
  kept,       \* the names this walk has counted (pkg_count = Len(kept))
  limit,      \* filtered_list_limit
  out         \* filtered_list_out

vars == <<command, node, namelist, ignore, pass, i, j, kept, limit, out>>
inputs == <<command, node, namelist, ignore>>

-----------------------------------------------------------------------------
FetchCommands == {"FETCH_UPDATES", "FETCH_DOWNGRADES", "FETCH_GIT"}
BuildCommands == {"BUILD_UPDATES", "BUILD_DOWNGRADES", "BUILD_GIT"}
InstallCommands == {"INSTALL_UPDATES", "INSTALL_GIT"}
FilterCommands == FetchCommands \cup BuildCommands \cup InstallCommands

\* aur-downgrade is dispatched like the others but is missing from the list
\* of commands that reach the filter: it ends in the summary report.
Commands == FilterCommands \cup {"INSTALL_DOWNGRADES"}

\* The mode main() gives to filter_pkg_updates().
FetchMode(c) ==
  CASE c \in {"FETCH_GIT", "BUILD_GIT"} -> "GIT"
    [] c \in {"FETCH_DOWNGRADES", "BUILD_DOWNGRADES"} -> "NON_GIT_DOWNGRADES"
    [] OTHER -> "NON_GIT_UPGRADES"

Nodes == [non_aur : BOOLEAN, git : BOOLEAN,
          update : {"UPGRADE", "DOWNGRADE", "UP_TO_DATE"}]

ASSUME NamesAssumption == Names \subseteq Int
ASSUME NodeKindsAssumption == NodeKinds \subseteq Nodes
ASSUME BoundsAssumption == MaxInstalled \in Nat /\ MaxIgnored \in Nat

\* The conditions of filter_pkg_updates() that follow the exclusion test.
Eligible(nd, mode) ==
  /\ ~nd.non_aur
  /\ mode = "GIT" <=> nd.git
  /\ mode = "NON_GIT_UPGRADES" => nd.update = "UPGRADE"
  /\ mode = "NON_GIT_DOWNGRADES" => nd.update = "DOWNGRADE"

StrictlySorted(s) == \A a, b \in DOMAIN s : a < b => s[a] < s[b]
Sorted(s) == \A a, b \in DOMAIN s : a < b => s[a] <= s[b]
Elements(s) == {s[k] : k \in DOMAIN s}
Lists(n) == UNION {[1 .. k -> Names] : k \in 0 .. n}

-----------------------------------------------------------------------------
Init ==
  /\ command \in Commands
  /\ node \in [Names -> NodeKinds]
  /\ namelist \in {s \in Lists(MaxInstalled) : StrictlySorted(s)}
  /\ ignore \in {s \in Lists(MaxIgnored) : Sorted(s)}
  /\ pass = IF command \in FilterCommands THEN "count" ELSE "summary"
  /\ i = 1 /\ j = 1
  /\ kept = <<>> /\ limit = 0 /\ out = <<>>

Walking == pass \in {"count", "fill"} /\ i <= Len(namelist)

\* Mutant of Excluded: the comparison is not for equality.
ExcludedAtMost == j <= Len(ignore) /\ namelist[i] >= ignore[j]

\* The name is the next excluded one.
Excluded == j <= Len(ignore) /\ namelist[i] = ignore[j]

\* Mutant of CatchUp: the cursor runs past the end of the list.
CatchUpPast(name) ==
  IF j <= Len(ignore) /\ name > ignore[j] THEN Len(ignore) + 2 ELSE j

\* `while (j < ignore_list_len && c > 0) j++;` never compares again, so once
\* entered it only stops at the end of the list.
CatchUp(name) ==
  IF j <= Len(ignore) /\ name > ignore[j] THEN Len(ignore) + 1 ELSE j

\* Mutant of SkipExcluded: the exclude cursor stays on the name it matched.
SkipExcludedOnly ==
  /\ Walking /\ Excluded
  /\ i' = i + 1
  /\ UNCHANGED <<inputs, pass, j, kept, limit, out>>

SkipExcluded ==
  /\ Walking /\ Excluded
  /\ i' = i + 1 /\ j' = j + 1
  /\ UNCHANGED <<inputs, pass, kept, limit, out>>

SkipIneligible ==
  /\ Walking /\ ~Excluded
  /\ ~Eligible(node[namelist[i]], FetchMode(command))
  /\ i' = i + 1 /\ j' = CatchUp(namelist[i])
  /\ UNCHANGED <<inputs, pass, kept, limit, out>>

Keep ==
  /\ Walking /\ ~Excluded
  /\ Eligible(node[namelist[i]], FetchMode(command))
  /\ i' = i + 1 /\ j' = CatchUp(namelist[i])
  /\ kept' = Append(kept, namelist[i])
  /\ out' = IF pass = "fill" /\ Len(kept) < limit
            THEN Append(out, namelist[i]) ELSE out
  /\ UNCHANGED <<inputs, pass, limit>>

\* aur_fetch_updates(): the count of the first call is the array's length.
SecondWalk ==
  /\ pass = "count" /\ i > Len(namelist)
  /\ pass' = "fill" /\ i' = 1 /\ j' = 1
  /\ kept' = <<>> /\ limit' = Len(kept)
  /\ UNCHANGED <<inputs, out>>

Finish ==
  /\ pass = "fill" /\ i > Len(namelist)
  /\ pass' = "done"
  /\ UNCHANGED <<inputs, i, j, kept, limit, out>>

Next == SkipExcluded \/ SkipIneligible \/ Keep \/ SecondWalk \/ Finish

Spec == Init /\ [][Next]_vars

-----------------------------------------------------------------------------
\* Every variable stays in its domain; both cursors end at most one past
\* their list.
TypeOK ==
  /\ command \in Commands
  /\ node \in [Names -> Nodes]
  /\ namelist \in Seq(Names) /\ ignore \in Seq(Names)
  /\ pass \in {"count", "fill", "done", "summary"}
  /\ i \in 1 .. Len(namelist) + 1 /\ j \in 1 .. Len(ignore) + 1
  /\ kept \in Seq(Names) /\ limit \in Nat /\ out \in Seq(Names)

Walked == pass \in {"count", "fill", "done"} /\ i = Len(namelist) + 1

Wanted(name) == Eligible(node[name], FetchMode(command))

\* However the exclude cursor jumps, what a walk of filter_pkg_updates() keeps is
\* eligible, in the list's order and without a repetition, and in the end it has
\* dropped no eligible package that was not excluded.
WalkSelects ==
  /\ StrictlySorted(kept)
  /\ \A n \in Elements(kept) : n \in Elements(namelist) /\ Wanted(n)
  /\ Walked => \A n \in Elements(namelist) \ Elements(ignore) :
                 Wanted(n) => n \in Elements(kept)

\* When every excluded name is given once and is installed, the exclude
\* cursor of filter_pkg_updates() never runs away and no excluded package is
\* kept.
ExactWhenInstalled ==
  StrictlySorted(ignore) /\ Elements(ignore) \subseteq Elements(namelist)
    => Elements(kept) \cap Elements(ignore) = {}

\* README.md: the update commands have "`--exclude package_name` option to
\* exclude several packages from upgrading".
ExcludesHonoured == Walked => Elements(kept) \cap Elements(ignore) = {}

\* main.c usage: aur-upgradegit "Uses pacman to updates for AUR packages that
\* ends with '-git'".
UpgradeGitIsGit ==
  command = "INSTALL_GIT" => \A n \in Elements(kept) : node[n].git
=============================================================================
