---------------------------- MODULE InstallStages ----------------------------
(***************************************************************************)
(* aur_perform_action(): the fetch, build and install commands over the    *)
(* package bases in __pkg_cache__, with the git, makepkg and pacman        *)
(* processes they run, their failures, and the AUR changing meanwhile.     *)
(*                                                                         *)
(* A child whose exec fails does not exit: the function it was forked in   *)
(* returns -1 to the same loop, and the child runs the rest of the command *)
(* as a copy of the program while its parent waits for it.  The program is *)
(* therefore a stack of frames of which the top one runs.  The children of *)
(* makepkg have changed into the base's directory by then ("moved"), where *)
(* the relative path __pkg_cache__ leads nowhere.                          *)
(***************************************************************************)
EXTENDS Integers, Sequences, FiniteSets

CONSTANTS
  Pkgs, Bases,
  BaseOf,       \* package_base of each package, as the AUR gives it
  GitPkgs,      \* the names that end in -git
  MaxCommit,    \* commits a base can have on the AUR
  MaxVcs,       \* versions the upstream of a -git package can have
  VerOf,        \* the version the PKGBUILD of each commit states
  Selections,   \* the package lists a command may be given
  MaxCommands,  \* commands in a behaviour
  MaxFaults     \* failures in a behaviour

GitBases == {BaseOf[p] : p \in GitPkgs}

NoVersion == -1  \* no entry
Unreadable == 0  \* what get_full_version prints without a PKGBUILD
VcsVer(w) == MaxCommit + w
Versions == 0 .. MaxCommit + MaxVcs

ASSUME StagesAssumption ==
  /\ BaseOf \in [Pkgs -> Bases] /\ GitPkgs \subseteq Pkgs
  /\ MaxCommit \in Nat \ {0} /\ MaxVcs \in Nat \ {0}
  /\ VerOf \in [1 .. MaxCommit -> 1 .. MaxCommit]
  /\ Selections \subseteq Seq(Pkgs)
  /\ MaxCommands \in Nat /\ MaxFaults \in Nat

VARIABLES
  env,        \* inGit: run inside a git repository; pkgdest: PKGDEST is set
  remote,     \* the newest commit of each base on the AUR
  vcs,        \* the newest upstream version of each base
  tree,       \* the directory of each base in __pkg_cache__
  files,      \* the package files built
  installed,  \* what pacman last installed of each package
  verCache,   \* versions.txt
  namelist,   \* aur_package_names.txt.gz
  cmd,        \* the command, and the AUR as it was when it started
  frames, depth,
  installs,   \* times this command ran pacman -U
  copies,     \* copies of this command that run in the original directory
  dirty,      \* the bases whose last git clean failed
  torn,       \* the bases with files of some packages only, since a build or clean
              \* was interrupted
  faulty,     \* something failed during this command
  outer,      \* git reset or clean ran on the enclosing repository
  misjudged,  \* git status failed although it ran in a repository
  commands, faults

world == <<env, remote, vcs>>
disk == <<tree, files, installed, verCache, namelist>>
notes == <<dirty, torn, outer, misjudged>>
budget == <<faulty, faults>>
fixed == <<world, commands>>
run == <<cmd, frames, depth, copies>>
vars == <<world, disk, run, installs, notes, budget, commands>>

-----------------------------------------------------------------------------
NoTree == [st |-> "absent", head |-> 0, origin |-> 0, work |-> 0]
PartialTree == [NoTree EXCEPT !.st = "partial"]
Clone(c) == [st |-> "full", head |-> c, origin |-> c, work |-> 0]
Trees == [st : {"absent", "partial", "full"}, head : 0 .. MaxCommit,
          origin : 0 .. MaxCommit, work : 0 .. MaxVcs]

\* A package file: whose, the version in its name, and the commit and the upstream
\* version it was made from.
Builds == [pkg : Pkgs, ver : Versions, head : 0 .. MaxCommit, work : 0 .. MaxVcs]

NoBuild == [pkg |-> "none", ver |-> NoVersion, head |-> 0, work |-> 0]

Actions == {"FETCH", "BUILD", "INSTALL"}
NoCommand == [act |-> "FETCH", reset |-> FALSE, sel |-> <<>>,
              remote |-> [b \in Bases |-> 1], vcs |-> [b \in Bases |-> 1]]
Pcs == {"fetch", "reset", "clean", "gitfetch", "rebase", "patch", "readver",
        "build", "install"}

NoVers == [p \in Pkgs |-> NoVersion]
Frame(pc) == [pc |-> pc, i |-> 1, failed |-> {}, vers |-> NoVers, moved |-> FALSE]
MaxDepth == MaxFaults + 1

Top == frames[depth]
Ended == Top.i > Len(cmd.sel)
Pkg == cmd.sel[Top.i]
Base == BaseOf[Pkg]

\* Mutant of Sees: the path of the cache is absolute.
SeesAnywhere(b) == tree[b].st # "absent"

\* does_pkg_cache_exist() && pkg_base_in_cache(), from where the frame runs.
Sees(b) == ~Top.moved /\ tree[b].st # "absent"
Full(b) == tree[b].st = "full"

\* get_full_version of the PKGBUILD as it lies in the directory: makepkg
\* writes the upstream version of a -git package into it.
Version(t) == CASE t.st # "full" -> Unreadable
                [] t.st = "full" /\ t.work > 0 -> VcsVer(t.work)
                [] OTHER -> VerOf[t.head]

\* Mutant of Built: any file of the package will do.
BuiltEver(p) == {f \in files : f.pkg = p}

\* pkg_file_exists(): the file the current PKGBUILD would produce.
Built(p) == {f \in files : f.pkg = p /\ f.ver = Version(tree[BaseOf[p]])}

\* makepkg refreshes the sources, and the version, of a -git package.
Refreshed(b) == [tree[b] EXCEPT !.work = IF b \in GitBases THEN vcs[b] ELSE @]

-----------------------------------------------------------------------------
Init ==
  /\ env \in [inGit : BOOLEAN, pkgdest : BOOLEAN]
  /\ remote = [b \in Bases |-> 1] /\ vcs = [b \in Bases |-> 1]
  /\ tree = [b \in Bases |-> NoTree] /\ files = {}
  /\ installed = [p \in Pkgs |-> NoBuild]
  /\ verCache = NoVers /\ namelist = "absent"
  /\ cmd = NoCommand
  /\ frames = [d \in 1 .. MaxDepth |-> Frame("build")] /\ depth = 0
  /\ installs = 0 /\ copies = 0 /\ dirty = {} /\ torn = {} /\ faulty = FALSE
  /\ outer = FALSE /\ misjudged = FALSE /\ commands = 0 /\ faults = 0

\* main() and pkg_list_manage_subseq(): --reset is only taken when fetching.
Start(act, reset, sel) ==
  /\ depth = 0 /\ commands < MaxCommands
  /\ reset => act = "FETCH"
  /\ cmd' = [act |-> act, reset |-> reset, sel |-> sel,
             remote |-> remote, vcs |-> vcs]
  /\ frames' = [frames EXCEPT ![1] = Frame(IF act = "FETCH" THEN "fetch" ELSE "build")]
  /\ depth' = 1 /\ commands' = commands + 1
  /\ installs' = 0 /\ copies' = 0 /\ faulty' = FALSE
  /\ UNCHANGED <<world, disk, notes, faults>>

\* The ways a step of the running frame can go on.
Fine == UNCHANGED budget
Fault == faults < MaxFaults /\ faults' = faults + 1 /\ faulty' = TRUE
Continue(f) == /\ frames' = [frames EXCEPT ![depth] = f]
               /\ UNCHANGED <<cmd, depth, copies>>
Return == /\ frames' = [frames EXCEPT ![depth] = Frame("build")]
          /\ depth' = depth - 1 /\ UNCHANGED copies
          /\ cmd' = IF depth = 1 THEN NoCommand ELSE cmd
\* exec failed: the child runs on as a copy, the parent when it is gone.
Copy(f, moved) ==
  /\ Fault
  /\ frames' = [frames EXCEPT ![depth] = f, ![depth + 1] = [f EXCEPT !.moved = moved]]
  /\ depth' = depth + 1 /\ copies' = IF moved THEN copies ELSE copies + 1
  /\ UNCHANGED cmd

GoTo(pc) == [Top EXCEPT !.pc = pc]
NextPkg(pc) == [Top EXCEPT !.pc = pc, !.i = @ + 1]
At(pc) == depth > 0 /\ Top.pc = pc
AtPkg(pc) == At(pc) /\ ~Ended
AtEnd(pc) == At(pc) /\ Ended

-----------------------------------------------------------------------------
(* FETCH: update_existing_pkg_base() and fetch_pkg_base() of each package.  *)

\* fetch_pkg_base() leaves a directory that is there alone.
SkipFetched ==
  /\ AtPkg("fetch") /\ ~cmd.reset /\ Sees(Base)
  /\ Continue(NextPkg("fetch")) /\ Fine
  /\ UNCHANGED <<fixed, disk, installs, notes>>

\* Only !WIFEXITED counts as a failure of git clone, and is ignored as well.
CloneBase ==
  /\ AtPkg("fetch") /\ ~Sees(Base)
  /\ \/ /\ tree' = [tree EXCEPT ![Base] = Clone(remote[Base])]
        /\ Continue(NextPkg("fetch")) /\ Fine
     \/ /\ tree' \in {tree, [tree EXCEPT ![Base] = PartialTree]}
        /\ Continue(NextPkg("fetch")) /\ Fault
     \/ UNCHANGED tree /\ Copy(NextPkg("fetch"), FALSE)
  /\ UNCHANGED <<fixed, files, installed, verCache, namelist, installs, notes>>

\* Mutant of CheckPwd: the result of is_pwd_git_repo() is not looked at.
CheckPwdUnused ==
  /\ AtPkg("fetch") /\ cmd.reset /\ Sees(Base)
  /\ Continue(GoTo("reset")) /\ Fine
  /\ UNCHANGED <<fixed, disk, installs, notes>>

\* is_pwd_git_repo(): any failure of git status reads as "no repository", a
\* signal or a failed fork as "repository", which ends the process.
CheckPwd ==
  /\ AtPkg("fetch") /\ cmd.reset /\ Sees(Base)
  /\ \/ env.inGit /\ Return /\ Fine /\ UNCHANGED misjudged
     \/ ~env.inGit /\ Continue(GoTo("reset")) /\ Fine /\ UNCHANGED misjudged
     \/ env.inGit /\ Continue(GoTo("reset")) /\ Fault /\ misjudged' = TRUE
     \/ Return /\ Fault /\ UNCHANGED misjudged
  /\ UNCHANGED <<fixed, disk, installs, dirty, torn, outer>>

\* git reset --hard.  In a directory that is no working clone git fails, or
\* finds the repository around it.  The exit status is ignored; a signal ends
\* the process (update_existing_pkg_base() returns -1).
ResetHard ==
  /\ AtPkg("reset")
  /\ \/ /\ Full(Base) /\ tree' = [tree EXCEPT ![Base].work = 0]
        /\ Continue(GoTo("clean")) /\ Fine /\ UNCHANGED outer
     \/ /\ ~Full(Base) /\ UNCHANGED tree /\ outer' \in {outer, outer \/ env.inGit}
        /\ Continue(GoTo("clean")) /\ Fine
     \/ UNCHANGED <<tree, outer>> /\ (Continue(GoTo("clean")) \/ Return) /\ Fault
  /\ UNCHANGED <<fixed, files, installed, verCache, namelist, installs, dirty,
                 torn, misjudged>>

\* Mutant of Cleaned: git clean without -x keeps ignored files.
CleanedButIgnored(b) == files

\* git clean -ffxd removes what was built, unless PKGDEST is elsewhere.
Cleaned(b) == IF env.pkgdest THEN files ELSE {f \in files : BaseOf[f.pkg] # b}

\* An interrupted git clean leaves some of what it was to remove.
CutClean ==
  LET doomed == files \ Cleaned(Base)
  IN \E left \in SUBSET doomed :
       /\ files' = Cleaned(Base) \cup left
       /\ torn' = IF left \in {{}, doomed} THEN torn ELSE torn \cup {Base}

CleanTree ==
  /\ AtPkg("clean")
  /\ \/ /\ Full(Base) /\ files' = Cleaned(Base) /\ dirty' = dirty \ {Base}
        /\ torn' = (IF env.pkgdest THEN torn ELSE torn \ {Base})
        /\ Continue(GoTo("gitfetch")) /\ Fine /\ UNCHANGED outer
     \/ /\ ~Full(Base) /\ outer' \in {outer, outer \/ env.inGit}
        /\ Continue(GoTo("gitfetch")) /\ Fine /\ UNCHANGED <<files, dirty, torn>>
     \/ /\ CutClean /\ dirty' = dirty \cup {Base}
        /\ Continue(GoTo("gitfetch")) /\ Fault /\ UNCHANGED outer
     \/ CutClean /\ Return /\ Fault /\ UNCHANGED <<dirty, outer>>
  /\ UNCHANGED <<fixed, tree, installed, verCache, namelist, installs, misjudged>>

\* git fetch.  A non-zero status ends the process; WEXITSTATUS of a git that a
\* signal killed is 0, so that passes for success.
GitFetch ==
  /\ AtPkg("gitfetch")
  /\ \/ /\ Full(Base) /\ tree' = [tree EXCEPT ![Base].origin = remote[Base]]
        /\ Continue(GoTo("rebase")) /\ Fine
     \/ ~Full(Base) /\ UNCHANGED tree /\ Return /\ Fine
     \/ ~Full(Base) /\ env.inGit /\ UNCHANGED tree /\ Continue(GoTo("rebase")) /\ Fine
     \/ UNCHANGED tree /\ (Continue(GoTo("rebase")) \/ Return) /\ Fault
  /\ UNCHANGED <<fixed, files, installed, verCache, namelist, installs, notes>>

\* Mutant of AdvancedTree: the remote's branch is reset to the local one.
AdvancedOrigin(b) == [tree EXCEPT ![b].origin = tree[b].head]

\* git rebase refuses a directory with local changes.  fetch_pkg_base() then
\* finds the directory and leaves it alone.
AdvancedTree(b) == [tree EXCEPT ![b].head = tree[b].origin]

Rebase ==
  /\ AtPkg("rebase")
  /\ \/ /\ Full(Base) /\ tree[Base].work = 0 /\ tree' = AdvancedTree(Base)
        /\ Continue(NextPkg("fetch")) /\ Fine
     \/ Full(Base) /\ tree[Base].work # 0 /\ UNCHANGED tree /\ Return /\ Fine
     \/ ~Full(Base) /\ UNCHANGED tree /\ Return /\ Fine
     \/ ~Full(Base) /\ env.inGit /\ UNCHANGED tree /\ Continue(NextPkg("fetch")) /\ Fine
     \/ tree' \in {tree, AdvancedTree(Base)} /\ Continue(NextPkg("fetch")) /\ Fault
     \/ UNCHANGED tree /\ Return /\ Fault
  /\ UNCHANGED <<fixed, files, installed, verCache, namelist, installs, notes>>

\* download_package_namelist() truncates the file before it downloads.
DownloadNamelist ==
  /\ AtEnd("fetch")
  /\ \/ namelist' = "complete" /\ Fine
     \/ namelist' \in {namelist, "partial"} /\ Fault
  /\ IF cmd.reset THEN Return ELSE Continue([GoTo("patch") EXCEPT !.i = 1])
  /\ UNCHANGED <<fixed, tree, files, installed, verCache, installs, notes>>

-----------------------------------------------------------------------------
(* PATCH, without --reset: the versions of -git packages.                   *)

SkipNonGit ==
  /\ AtPkg("patch") /\ Pkg \notin GitPkgs
  /\ Continue(NextPkg("patch")) /\ Fine
  /\ UNCHANGED <<fixed, disk, installs, notes>>

\* update_existing_git_pkg_base(): makepkg -o.
UpdateSources ==
  /\ AtPkg("patch") /\ Pkg \in GitPkgs
  /\ \/ /\ Sees(Base) /\ Full(Base) /\ tree' = [tree EXCEPT ![Base] = Refreshed(Base)]
        /\ Continue(GoTo("readver")) /\ Fine
     \/ /\ ~Sees(Base) \/ ~Full(Base)
        /\ UNCHANGED tree /\ Continue(GoTo("readver")) /\ Fine
     \/ Sees(Base) /\ UNCHANGED tree /\ Continue(GoTo("readver")) /\ Fault
     \/ Sees(Base) /\ UNCHANGED tree /\ \E moved \in BOOLEAN : Copy(GoTo("readver"), moved)
  /\ UNCHANGED <<fixed, files, installed, verCache, namelist, installs, notes>>

\* get_pkgbase_ver_alloc(): NULL, and so the version the AUR gave, without a
\* directory or when bash could not be run.  When bash prints nothing the code
\* writes before the buffer: the process dies or goes on with an empty string.
ReadVersion ==
  LET Reading(v) == Continue([NextPkg("patch") EXCEPT !.vers[Pkg] = v])
  IN /\ AtPkg("readver")
     /\ \/ Sees(Base) /\ Reading(Version(tree[Base])) /\ Fine
        \/ ~Sees(Base) /\ Reading(VerOf[cmd.remote[Base]]) /\ Fine
        \/ Sees(Base) /\ Reading(VerOf[cmd.remote[Base]]) /\ Fault
        \/ Sees(Base) /\ (Reading(Unreadable) \/ Return) /\ Fault
     /\ UNCHANGED <<fixed, disk, installs, notes>>

\* Mutant of Merged: the versions in the file win.
MergedFileFirst(old, new) == [p \in Pkgs |-> IF old[p] # NoVersion THEN old[p] ELSE new[p]]

\* load, merge, save and discard of versions.txt; a moved copy writes one of
\* its own inside the base's directory, which nothing reads.
Merged(old, new) == [p \in Pkgs |-> IF new[p] # NoVersion THEN new[p] ELSE old[p]]

\* What is left of it after a load that failed, a full disk or a kill.
Remains(lost) == [p \in Pkgs |-> IF p \in lost THEN NoVersion ELSE Merged(verCache, Top.vers)[p]]

SaveVersions ==
  /\ AtEnd("patch")
  /\ \/ verCache' = (IF Top.moved THEN verCache ELSE Merged(verCache, Top.vers)) /\ Fine
     \/ UNCHANGED verCache /\ Fault
     \/ ~Top.moved /\ (\E lost \in SUBSET Pkgs : verCache' = Remains(lost)) /\ Fault
  /\ Return
  /\ UNCHANGED <<fixed, tree, files, installed, namelist, installs, notes>>

-----------------------------------------------------------------------------
(* BUILD and INSTALL.                                                       *)

\* Mutants of Noted: a position counted from 0; the loop does not advance.
NotedFromZero == [NextPkg("build") EXCEPT !.failed = IF Sees(Base) THEN @ ELSE @ \cup {Top.i - 1}]
NotedForever == [Top EXCEPT !.failed = IF Sees(Base) THEN @ ELSE @ \cup {Top.i}]

\* A package without a directory is noted and its build is not tried.
Noted == [NextPkg("build") EXCEPT !.failed = IF Sees(Base) THEN @ ELSE @ \cup {Top.i}]

\* Mutant of SkipBuild: a base with any package file needs no build.
SkipBuildOnce ==
  /\ AtPkg("build") /\ (Sees(Base) => \E f \in files : BaseOf[f.pkg] = Base)
  /\ Continue(Noted) /\ Fine
  /\ UNCHANGED <<fixed, disk, installs, notes>>

SkipBuild ==
  /\ AtPkg("build") /\ (Sees(Base) => Built(Pkg) # {})
  /\ Continue(Noted) /\ Fine
  /\ UNCHANGED <<fixed, disk, installs, notes>>

\* What makepkg makes of a base: a file for each of its packages.
Group(b) == LET t == Refreshed(b)
            IN {[pkg |-> p, ver |-> Version(t), head |-> t.head, work |-> t.work] :
                  p \in {q \in Pkgs : BaseOf[q] = b}}

\* makepkg does not build when a file of the group exists, be it a single one.
Begun(b) == \E f \in files, g \in Group(b) : f.pkg = g.pkg /\ f.ver = g.ver

\* An interrupted makepkg leaves some files of the group.
CutBuild ==
  /\ Full(Base) /\ ~Begun(Base) /\ tree' = [tree EXCEPT ![Base] = Refreshed(Base)]
  /\ \E part \in SUBSET Group(Base) :
       /\ files' = files \cup part
       /\ torn' = IF part \in {{}, Group(Base)} THEN torn ELSE torn \cup {Base}

\* build_existing_pkg_base(): makepkg -s.  Its result is ignored.
Make ==
  /\ AtPkg("build") /\ Sees(Base) /\ Built(Pkg) = {}
  /\ \/ /\ Full(Base) /\ tree' = [tree EXCEPT ![Base] = Refreshed(Base)]
        /\ files' = (IF Begun(Base) THEN files ELSE files \cup Group(Base))
        /\ Continue(Noted) /\ Fine /\ UNCHANGED torn
     \/ ~Full(Base) /\ UNCHANGED <<tree, files, torn>> /\ Continue(Noted) /\ Fine
     \/ /\ tree' \in {tree, [tree EXCEPT ![Base] = IF Full(Base) THEN Refreshed(Base) ELSE @]}
        /\ UNCHANGED <<files, torn>> /\ Continue(Noted) /\ Fault
     \/ CutBuild /\ Continue(Noted) /\ Fault
     \/ UNCHANGED <<tree, files, torn>> /\ \E moved \in BOOLEAN : Copy(Noted, moved)
  /\ UNCHANGED <<fixed, installed, verCache, namelist, installs, dirty, outer, misjudged>>

\* Mutant of EndBuild: the count of missing packages is not looked at.
EndBuildRegardless ==
  /\ AtEnd("build")
  /\ IF cmd.act = "BUILD" THEN Return ELSE Continue(GoTo("install"))
  /\ Fine
  /\ UNCHANGED <<fixed, disk, installs, notes>>

\* One missing directory stops the command before pacman.
EndBuild ==
  /\ AtEnd("build")
  /\ IF Top.failed # {} \/ cmd.act = "BUILD" THEN Return ELSE Continue(GoTo("install"))
  /\ Fine
  /\ UNCHANGED <<fixed, disk, installs, notes>>

Chosen == {cmd.sel[k] : k \in DOMAIN cmd.sel}

\* Mutant of Located: packages without a file are left out.
LocatedFiles == {p \in Chosen : Sees(BaseOf[p]) /\ Built(p) # {}}

\* The packages whose path could be computed.
Located == {p \in Chosen : Sees(BaseOf[p])}

\* Mutant of Pacman: a path of some other package is handed over.
PacmanAnyFile(given) ==
  IF given = {} THEN UNCHANGED <<installs, installed>>
  ELSE /\ installs' = installs + 1
       /\ \/ UNCHANGED installed
          \/ \E x \in [given -> files] :
               installed' = [p \in Pkgs |-> IF p \in given THEN x[p] ELSE installed[p]]

\* sudo pacman -U with the paths of the located packages: all of them are
\* installed or, when a file is missing or the user refuses, none.  Without a
\* path pacman is not run.
Pacman(given) ==
  IF given = {} THEN UNCHANGED <<installs, installed>>
  ELSE /\ installs' = installs + 1
       /\ \/ UNCHANGED installed
          \/ \E x \in [given -> files] :
               /\ \A p \in given : x[p] \in Built(p)
               /\ installed' = [p \in Pkgs |-> IF p \in given THEN x[p] ELSE installed[p]]

\* A path that could not be read is left out of the transaction.
Install ==
  /\ At("install")
  /\ \/ Pacman(Located) /\ Fine
     \/ Fault /\ \E p \in Located : Pacman(Located \ {p})
  /\ Return
  /\ UNCHANGED <<fixed, tree, files, verCache, namelist, notes>>

-----------------------------------------------------------------------------
\* The command is killed in the middle of a step.
Crash ==
  /\ depth > 0 /\ Fault
  /\ \/ UNCHANGED <<tree, files, torn, verCache, namelist>>
     \/ /\ AtPkg("fetch") /\ ~Sees(Base) /\ tree' = [tree EXCEPT ![Base] = PartialTree]
        /\ UNCHANGED <<files, torn, verCache, namelist>>
     \/ AtEnd("fetch") /\ namelist' = "partial" /\ UNCHANGED <<tree, files, torn, verCache>>
     \/ /\ AtEnd("patch") /\ ~Top.moved /\ \E lost \in SUBSET Pkgs : verCache' = Remains(lost)
        /\ UNCHANGED <<tree, files, torn, namelist>>
     \/ /\ AtPkg("clean") /\ Full(Base) /\ CutClean
        /\ UNCHANGED <<tree, verCache, namelist>>
     \/ /\ AtPkg("build") /\ Sees(Base) /\ Built(Pkg) = {} /\ CutBuild
        /\ UNCHANGED <<verCache, namelist>>
  /\ frames' = [d \in 1 .. MaxDepth |-> Frame("build")] /\ depth' = 0
  /\ cmd' = NoCommand
  /\ UNCHANGED <<fixed, installed, installs, copies, dirty, outer, misjudged>>

\* The AUR and the upstreams move on at any time.
Release ==
  /\ \E b \in Bases : remote[b] < MaxCommit /\ remote' = [remote EXCEPT ![b] = @ + 1]
  /\ UNCHANGED <<env, vcs, disk, run, installs, notes, budget, commands>>

Upstream ==
  /\ \E b \in GitBases : vcs[b] < MaxVcs /\ vcs' = [vcs EXCEPT ![b] = @ + 1]
  /\ UNCHANGED <<env, remote, disk, run, installs, notes, budget, commands>>

\* The user deletes __pkg_cache__ between two commands.
DeleteCache ==
  /\ depth = 0
  /\ tree' = [b \in Bases |-> NoTree] /\ verCache' = NoVers /\ namelist' = "absent"
  /\ files' = (IF env.pkgdest THEN files ELSE {}) /\ dirty' = {}
  /\ torn' = (IF env.pkgdest THEN torn ELSE {})
  /\ UNCHANGED <<fixed, installed, run, installs, outer, misjudged, budget>>

FetchStep == \/ SkipFetched \/ CloneBase \/ CheckPwd \/ ResetHard \/ CleanTree
             \/ GitFetch \/ Rebase \/ DownloadNamelist
PatchStep == SkipNonGit \/ UpdateSources \/ ReadVersion \/ SaveVersions
BuildStep == SkipBuild \/ Make \/ EndBuild \/ Install
Step == FetchStep \/ PatchStep \/ BuildStep

StartSome == \E act \in Actions, reset \in BOOLEAN, sel \in Selections :
               Start(act, reset, sel)

Next == StartSome \/ Step \/ Crash \/ Release \/ Upstream \/ DeleteCache

Spec == Init /\ [][Next]_vars

\* Every subprocess ends some day, so a running command keeps going.
FairSpec == Spec /\ WF_vars(Step)

-----------------------------------------------------------------------------
Frames == [pc : Pcs, i : Nat \ {0}, failed : SUBSET (Nat \ {0}),
           vers : [Pkgs -> Versions \cup {NoVersion}], moved : BOOLEAN]
Live == {frames[d] : d \in 1 .. depth}

\* Every variable stays in its domain, no more frames run than failures
\* started, and only a copy left by makepkg has changed its directory.
TypeOK ==
  /\ env \in [inGit : BOOLEAN, pkgdest : BOOLEAN]
  /\ remote \in [Bases -> 1 .. MaxCommit] /\ vcs \in [Bases -> 1 .. MaxVcs]
  /\ tree \in [Bases -> Trees] /\ files \in SUBSET Builds
  /\ installed \in [Pkgs -> Builds \cup {NoBuild}]
  /\ verCache \in [Pkgs -> Versions \cup {NoVersion}]
  /\ namelist \in {"absent", "partial", "complete"}
  /\ cmd \in [act : Actions, reset : BOOLEAN, sel : Seq(Pkgs),
              remote : [Bases -> 1 .. MaxCommit], vcs : [Bases -> 1 .. MaxVcs]]
  /\ depth \in 0 .. faults + 1 /\ frames \in [1 .. MaxDepth -> Frames]
  /\ installs \in Nat /\ copies \in Nat /\ dirty \in SUBSET Bases /\ torn \in SUBSET Bases
  /\ faulty \in BOOLEAN /\ outer \in BOOLEAN /\ misjudged \in BOOLEAN
  /\ commands \in 0 .. MaxCommands /\ faults \in 0 .. MaxFaults

SelectedTrees == {tree[BaseOf[p]] : p \in Chosen}

\* A command runs pacman -U once, and once more at most for each copy of the
\* program that a failed exec or chdir left running in the same directory: a
\* copy left in a base's directory by makepkg never gets that far.
InstallBound ==
  installs + Cardinality({d \in 1 .. depth : ~frames[d].moved}) <= 1 + copies

\* aur_perform_action() reaches pacman only when every package of the command
\* has a directory in the cache, in whichever copy of the program it runs.
InstallNeedsFetched ==
  \A f \in Live : f.pc = "install" => \A t \in SelectedTrees : t.st # "absent"

\* What lies in the cache was built from the commit checked out there: a
\* fetch with --reset removes older builds before it moves the checkout,
\* unless PKGDEST keeps them elsewhere or git clean failed (which
\* reset_pkg_base() ignores).
FilesMatchCheckout ==
  ~env.pkgdest =>
    \A f \in files : BaseOf[f.pkg] \in dirty \/ f.head = tree[BaseOf[f.pkg]].head

\* When nothing failed in a command and every directory is a working clone, each
\* package it hands to pacman has a file of its own at the version the PKGBUILD
\* states by then, also when two of them share a base: unless some earlier build or
\* clean of the base was interrupted, which makes makepkg refuse to build the rest.
BuiltBeforeInstall ==
  \A f \in Live :
    f.pc = "install" /\ ~f.moved /\ ~faulty /\ (\A t \in SelectedTrees : t.st = "full")
      => \A p \in Chosen : BaseOf[p] \in torn \/ Built(p) # {}

\* git reset --hard and git clean -ffxd never touch a repository around the
\* cache (the warning above update_existing_pkg_base()) unless git status
\* failed in that repository.
OuterRepoSafe == outer => misjudged

\* What gets installed is a file of that package, built from the upstream version
\* that lies in a working clone, never from the remains of one, and from the commit
\* the user could inspect there, with the same two exceptions as FilesMatchCheckout.
InstalledFromCheckout ==
  [][\A p \in Pkgs : installed'[p] # installed[p] =>
       LET t == tree[BaseOf[p]]
       IN /\ installed'[p].pkg = p /\ t.st = "full" /\ installed'[p].work = t.work
          /\ env.pkgdest \/ BaseOf[p] \in dirty \/ installed'[p].head = t.head]_vars

\* Whatever failed before, pacman gets all packages of the command in one
\* transaction, as their checkouts state them then: a missing directory or file
\* stops all of them.  Only a path that could not be read in this very step is
\* left out.
WholeTransaction ==
  [][installed' # installed /\ faults' = faults =>
       \A p \in Chosen : installed'[p] \in Built(p)]_vars

\* A fetch command ends well: its last process returns and nothing failed.
FetchedWell == depth = 1 /\ depth' = 0 /\ cmd.act = "FETCH" /\ ~faulty'

\* README.md: the updates of -git packages are accurate after aur-fetchgit.
\* Without --reset they are: the recorded version is one the upstream has had
\* since the command started.
GitReportFresh ==
  [][FetchedWell /\ ~cmd.reset =>
       \A p \in Chosen \cap GitPkgs :
         Full(BaseOf[p]) => verCache'[p] >= VcsVer(cmd.vcs[BaseOf[p]])]_vars

\* A fetch with --reset brings every selected working clone to a commit at
\* least as new as the AUR had when the command started, unless it stopped
\* because it was run inside a git repository, or at the remains of a clone.
FetchReachesAur ==
  [][FetchedWell /\ cmd.reset /\ ~env.inGit =>
       \A p \in Chosen : LET t == tree[BaseOf[p]]
                         IN t.st = "full" =>
                              t.head >= cmd.remote[BaseOf[p]]
                              \/ \E q \in Chosen : tree[BaseOf[q]].st = "partial"]_vars

\* Every command ends, whatever fails, however many copies it leaves.
CommandEnds == depth > 0 ~> depth = 0

\* The stages keep the order the manager promises.
Lifecycle == INSTANCE PackageLifecycle
               WITH fetched <- {b \in Bases : tree[b].st # "absent"},
                    artefacts <- files
StagesInOrder == Lifecycle!Spec
=============================================================================
