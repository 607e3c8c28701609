------------------------ MODULE InstallStagesProofs ------------------------
(***************************************************************************)
(* InstallStages for every number of packages, bases, commands, failures   *)
(* and copies of the program: its variables stay in their domains, pacman  *)
(* runs only over fetched bases, git reset and git clean leave a           *)
(* repository around the cache alone, built files match the checkout, a    *)
(* fetch reaches the AUR's commit and records its version, and the stages  *)
(* implement PackageLifecycle.                                             *)
(***************************************************************************)
EXTENDS InstallStages, FiniteSetTheorems, TLAPS

\* TypeOK by what a step touches together.
WorldOK ==
  /\ env \in [inGit : BOOLEAN, pkgdest : BOOLEAN]
  /\ remote \in [Bases -> 1 .. MaxCommit] /\ vcs \in [Bases -> 1 .. MaxVcs]
DiskOK ==
  /\ tree \in [Bases -> Trees] /\ files \in SUBSET Builds
  /\ installed \in [Pkgs -> Builds \cup {NoBuild}]
  /\ verCache \in [Pkgs -> Versions \cup {NoVersion}]
  /\ namelist \in {"absent", "partial", "complete"}
Commands == [act : Actions, reset : BOOLEAN, sel : Seq(Pkgs),
             remote : [Bases -> 1 .. MaxCommit], vcs : [Bases -> 1 .. MaxVcs]]
RunOK ==
  /\ cmd \in Commands
  /\ depth \in 0 .. faults + 1 /\ frames \in [1 .. MaxDepth -> Frames]
  /\ copies \in Nat /\ faulty \in BOOLEAN /\ faults \in 0 .. MaxFaults
NotesOK ==
  /\ installs \in Nat /\ dirty \in SUBSET Bases /\ torn \in SUBSET Bases
  /\ outer \in BOOLEAN /\ misjudged \in BOOLEAN /\ commands \in 0 .. MaxCommands

\* A working clone has a commit checked out and one fetched.
FullTrees == \A b \in Bases : tree[b].st = "full" => tree[b].head > 0 /\ tree[b].origin > 0

\* What the other invariants are proved from: TypeOK, and that the version of
\* a working clone exists.
Typed == TypeOK /\ FullTrees

\* The parts are all of TypeOK.
LEMMA TypeParts == TypeOK <=> WorldOK /\ DiskOK /\ RunOK /\ NotesOK
BY DEF TypeOK, WorldOK, DiskOK, RunOK, NotesOK, Commands

-----------------------------------------------------------------------------
(* The constants and the helpers.                                           *)

\* What StagesAssumption says of the constants.
LEMMA Constants ==
  /\ MaxCommit \in Nat \ {0} /\ MaxVcs \in Nat \ {0}
  /\ MaxCommands \in Nat /\ MaxFaults \in Nat
  /\ BaseOf \in [Pkgs -> Bases] /\ Selections \subseteq Seq(Pkgs)
  /\ MaxDepth \in Nat \ {0} /\ MaxDepth = MaxFaults + 1
  /\ NoVers \in [Pkgs -> Versions \cup {NoVersion}]
BY StagesAssumption DEF MaxDepth, NoVers

\* The frame that starts a command.
LEMMA FrameTyped == ASSUME NEW pc \in Pcs PROVE Frame(pc) \in Frames
BY Constants DEF Frame, Frames

\* The running frame, the package and the base it is at.
LEMMA TopTyped ==
  ASSUME TypeOK, depth > 0
  PROVE  /\ depth \in 1 .. MaxDepth /\ Top \in Frames
         /\ cmd.sel \in Seq(Pkgs)
         /\ ~Ended => Top.i \in 1 .. Len(cmd.sel) /\ Pkg \in Pkgs /\ Base \in Bases
<1>1. depth \in 1 .. MaxDepth /\ Top \in Frames /\ cmd.sel \in Seq(Pkgs)
  BY Constants DEF TypeOK, Top
<1>2. ASSUME ~Ended PROVE Top.i \in 1 .. Len(cmd.sel) /\ Pkg \in Pkgs /\ Base \in Bases
  <2>1. Top.i \in 1 .. Len(cmd.sel)
    BY <1>1, <1>2 DEF Ended, Frames
  <2>2. Pkg \in Pkgs
    BY <1>1, <2>1 DEF Pkg
  <2> QED BY <2>1, <2>2, Constants DEF Base
<1> QED BY <1>1, <1>2

\* How a frame goes on.
LEMMA FrameMoves ==
  ASSUME NEW f \in Frames, NEW pc \in Pcs
  PROVE  /\ [f EXCEPT !.pc = pc] \in Frames
         /\ [f EXCEPT !.pc = pc, !.i = f.i + 1] \in Frames
         /\ [f EXCEPT !.pc = pc, !.i = 1] \in Frames
<1>1. f.i + 1 \in Nat \ {0} /\ 1 \in Nat \ {0}
  BY DEF Frames
<1>2. [f EXCEPT !.pc = pc] \in Frames
  BY DEF Frames
<1>3. ASSUME NEW g \in Frames, NEW n \in Nat \ {0} PROVE [g EXCEPT !.i = n] \in Frames
  BY <1>3 DEF Frames
<1>4. /\ [f EXCEPT !.pc = pc, !.i = f.i + 1] = [[f EXCEPT !.pc = pc] EXCEPT !.i = f.i + 1]
      /\ [f EXCEPT !.pc = pc, !.i = 1] = [[f EXCEPT !.pc = pc] EXCEPT !.i = 1]
  BY DEF Frames
<1> QED BY <1>1, <1>2, <1>3, <1>4

\* The frames the actions continue with.
LEMMA NextFrames ==
  ASSUME TypeOK, depth > 0, NEW pc \in Pcs
  PROVE  GoTo(pc) \in Frames /\ NextPkg(pc) \in Frames
BY TopTyped, FrameMoves DEF GoTo, NextPkg

\* Replacing the running frame leaves well-formed frames.
LEMMA FramesExcept ==
  ASSUME TypeOK, NEW d \in 1 .. MaxDepth, NEW f \in Frames
  PROVE  [frames EXCEPT ![d] = f] \in [1 .. MaxDepth -> Frames]
BY DEF TypeOK

\* A step fails or not.
LEMMA Budget ==
  ASSUME TypeOK, Fine \/ Fault
  PROVE  /\ faulty' \in BOOLEAN /\ faults' \in 0 .. MaxFaults
         /\ faults \in 0 .. MaxFaults /\ faults' >= faults
<1>1. CASE Fine
  BY <1>1, Constants DEF Fine, budget, TypeOK
<1>2. CASE Fault
  BY <1>2, Constants DEF Fault, TypeOK
<1> QED BY <1>1, <1>2

\* The three ways a step can go on leave well-formed frames.
LEMMA ContinueRun ==
  ASSUME TypeOK, depth > 0, NEW f \in Frames, Continue(f), Fine \/ Fault
  PROVE  RunOK'
<1>1. frames' \in [1 .. MaxDepth -> Frames]
  BY FramesExcept, TopTyped DEF Continue
<1>2. cmd' \in Commands /\ copies' \in Nat
  BY DEF TypeOK, Continue, Commands
<1>3. depth' \in 0 .. faults' + 1
  BY Budget DEF TypeOK, Continue
<1> QED BY <1>1, <1>2, <1>3, Budget DEF RunOK

\* No command is one that does nothing.
LEMMA NoCommandTyped == NoCommand \in Commands
<1>1. /\ [b \in Bases |-> 1] \in [Bases -> 1 .. MaxCommit]
      /\ [b \in Bases |-> 1] \in [Bases -> 1 .. MaxVcs]
  BY Constants
<1> QED BY <1>1 DEF NoCommand, Commands, Actions

\* The end of a process leaves the frame below it.
LEMMA ReturnRun ==
  ASSUME TypeOK, depth > 0, Return, Fine \/ Fault
  PROVE  RunOK'
<1>1. NoCommand \in Commands
  BY NoCommandTyped
<1>2. Frame("build") \in Frames
  BY FrameTyped DEF Pcs
<1>3. frames' \in [1 .. MaxDepth -> Frames]
  BY <1>2, FramesExcept, TopTyped DEF Return
<1>4. cmd' \in Commands /\ copies' \in Nat
  BY <1>1 DEF TypeOK, Return, Commands
<1>5. depth' \in 0 .. faults' + 1
  BY Budget DEF TypeOK, Return
<1> QED BY <1>3, <1>4, <1>5, Budget DEF RunOK

\* There is room for the copy, since its start counts as a failure.
LEMMA CopyRun ==
  ASSUME TypeOK, depth > 0, NEW f \in Frames, NEW moved \in BOOLEAN, Copy(f, moved)
  PROVE  RunOK'
<1>1. [f EXCEPT !.moved = moved] \in Frames
  BY DEF Frames
<1>2. faults' = faults + 1 /\ faults < MaxFaults /\ depth' = depth + 1
  BY DEF Copy, Fault
<1>3. depth + 1 \in 1 .. MaxDepth
  BY <1>2, Constants, TopTyped DEF TypeOK
<1>4. frames' \in [1 .. MaxDepth -> Frames]
  <2>1. frames' = [[frames EXCEPT ![depth] = f] EXCEPT ![depth + 1] = [f EXCEPT !.moved = moved]]
    BY DEF Copy
  <2>2. [frames EXCEPT ![depth] = f] \in [1 .. MaxDepth -> Frames]
    BY FramesExcept, TopTyped
  <2> QED BY <1>1, <1>3, <2>1, <2>2
<1>5. copies' \in Nat /\ cmd' \in Commands
  BY DEF TypeOK, Copy, Commands
<1>6. depth' \in 0 .. faults' + 1
  BY <1>2 DEF TypeOK
<1> QED BY <1>4, <1>5, <1>6, Budget DEF RunOK, Copy

\* Any version the code reads from a directory exists.
LEMMA VersionTyped ==
  ASSUME Typed, NEW b \in Bases
  PROVE  /\ Version(tree[b]) \in Versions
         /\ Refreshed(b) \in Trees /\ Refreshed(b).st = tree[b].st
         /\ Refreshed(b).head = tree[b].head /\ Refreshed(b).origin = tree[b].origin
         /\ Version(Refreshed(b)) \in Versions
<1>1. tree[b] \in Trees /\ vcs[b] \in 1 .. MaxVcs
  BY DEF Typed, TypeOK
<1>2. /\ Refreshed(b) \in Trees /\ Refreshed(b).st = tree[b].st
      /\ Refreshed(b).head = tree[b].head /\ Refreshed(b).origin = tree[b].origin
  BY <1>1, Constants DEF Refreshed, Trees
<1>3. ASSUME NEW t \in Trees, t.st = "full" => t.head > 0 PROVE Version(t) \in Versions
  <2>1. CASE t.st # "full"
    BY <2>1, Constants DEF Version, Versions, Unreadable
  <2>2. CASE t.st = "full" /\ t.work > 0
    BY <2>2, Constants DEF Version, Versions, VcsVer, Trees
  <2>3. CASE t.st = "full" /\ ~(t.work > 0)
    <3>1. t.head \in 1 .. MaxCommit
      BY <1>3, <2>3, Constants DEF Trees
    <3>2. VerOf[t.head] \in 1 .. MaxCommit
      BY <3>1, StagesAssumption
    <3> QED BY <2>3, <3>2, Constants DEF Version, Versions
  <2> QED BY <2>1, <2>2, <2>3
<1>4. tree[b].st = "full" => tree[b].head > 0
  BY DEF Typed, FullTrees
<1> QED BY <1>1, <1>2, <1>3, <1>4

-----------------------------------------------------------------------------
(* Type correctness.                                                        *)


\* The usual ways to go on, for any of the stages.
LEMMA GoesOn ==
  ASSUME TypeOK, depth > 0, NEW pc \in Pcs, Fine \/ Fault,
         Continue(GoTo(pc)) \/ Continue(NextPkg(pc)) \/ Return
  PROVE  RunOK'
BY NextFrames, ContinueRun, ReturnRun

\* The usual ways to leave a copy.
LEMMA GoesOnAsCopy ==
  ASSUME TypeOK, depth > 0, NEW pc \in Pcs, NEW moved \in BOOLEAN,
         Copy(GoTo(pc), moved) \/ Copy(NextPkg(pc), moved)
  PROVE  RunOK'
BY NextFrames, CopyRun

\* A step that leaves the world alone keeps Typed when it keeps these.
LEMMA TypedByParts ==
  ASSUME Typed, UNCHANGED fixed, RunOK', DiskOK', FullTrees',
         installs' \in Nat, dirty' \in SUBSET Bases, torn' \in SUBSET Bases,
         outer' \in BOOLEAN, misjudged' \in BOOLEAN
  PROVE  Typed'
<1>1. WorldOK' /\ NotesOK'
  BY DEF Typed, TypeOK, fixed, world, WorldOK, NotesOK
<1>2. TypeOK' <=> WorldOK' /\ DiskOK' /\ RunOK' /\ NotesOK'
  BY DEF TypeOK, WorldOK, DiskOK, RunOK, NotesOK, Commands
<1> QED BY <1>1, <1>2 DEF Typed

\* One directory changes to what git or makepkg leaves in it.
LEMMA OneTree ==
  ASSUME Typed, NEW b \in Bases, NEW t \in Trees,
         t.st = "full" => t.head > 0 /\ t.origin > 0,
         tree' = [tree EXCEPT ![b] = t]
  PROVE  tree' \in [Bases -> Trees] /\ FullTrees'
<1>1. tree' \in [Bases -> Trees]
  BY DEF Typed, TypeOK
<1>2. \A c \in Bases : tree'[c] = IF c = b THEN t ELSE tree[c]
  BY DEF Typed, TypeOK
<1> QED BY <1>1, <1>2 DEF Typed, FullTrees

\* What git clone leaves, whole or not, is a directory.
LEMMA CloneTyped ==
  ASSUME Typed, NEW b \in Bases
  PROVE  /\ Clone(remote[b]) \in Trees /\ PartialTree \in Trees /\ NoTree \in Trees
         /\ Clone(remote[b]).head > 0 /\ Clone(remote[b]).origin > 0
         /\ PartialTree.st = "partial" /\ NoTree.st = "absent"
<1>1. remote[b] \in 1 .. MaxCommit
  BY DEF Typed, TypeOK
<1>2. NoTree \in Trees /\ NoTree.st = "absent"
  BY Constants DEF NoTree, Trees
<1>3. PartialTree = [st |-> "partial", head |-> 0, origin |-> 0, work |-> 0]
  BY DEF PartialTree, NoTree
<1> QED BY <1>1, <1>2, <1>3, Constants DEF Clone, Trees

\* A step that only goes on in the running frame.
LEMMA TypedSameDisk ==
  ASSUME Typed, UNCHANGED <<fixed, disk, installs, dirty, torn>>, RunOK',
         outer' \in BOOLEAN, misjudged' \in BOOLEAN
  PROVE  Typed'
<1>1. DiskOK' /\ FullTrees'
  BY DEF Typed, TypeOK, disk, DiskOK, FullTrees
<1>2. installs' \in Nat /\ dirty' \in SUBSET Bases /\ torn' \in SUBSET Bases
  BY DEF Typed, TypeOK
<1> QED BY <1>1, <1>2, TypedByParts

\* A step that changes one directory, or none, and goes on.
LEMMA TypedTree ==
  ASSUME Typed, RunOK', tree' \in [Bases -> Trees] /\ FullTrees',
         UNCHANGED <<fixed, files, installed, verCache, namelist, installs, dirty,
                     torn, misjudged>>,
         outer' \in BOOLEAN
  PROVE  Typed'
<1>1. DiskOK'
  BY DEF Typed, TypeOK, DiskOK
<1>2. /\ installs' \in Nat /\ dirty' \in SUBSET Bases /\ torn' \in SUBSET Bases
      /\ misjudged' \in BOOLEAN
  BY DEF Typed, TypeOK
<1> QED BY <1>1, <1>2, TypedByParts

\* The build loop notes positions of the command's list.
LEMMA NotedTyped == ASSUME TypeOK, depth > 0 PROVE Noted \in Frames
<1>1. NextPkg("build") \in Frames /\ Top.i \in Nat \ {0}
  BY NextFrames, TopTyped DEF Pcs, Frames
<1>2. Top.failed \in SUBSET (Nat \ {0}) /\ NextPkg("build").failed = Top.failed
  BY TopTyped DEF NextPkg, Frames
<1> QED BY <1>1, <1>2 DEF Noted, Frames

\* Reading a version notes one that exists.
LEMMA ReadingTyped ==
  ASSUME Typed, ReadVersion
  PROVE  \/ Return
         \/ \E v \in Versions : /\ [NextPkg("patch") EXCEPT !.vers[Pkg] = v] \in Frames
                                /\ Continue([NextPkg("patch") EXCEPT !.vers[Pkg] = v])
<1> DEFINE Reading(v) == [NextPkg("patch") EXCEPT !.vers[Pkg] = v]
<1>0. TypeOK
  BY DEF Typed
<1>1. depth > 0 /\ Base \in Bases /\ Pkg \in Pkgs
  BY <1>0, TopTyped DEF ReadVersion, AtPkg, At
<1>2. NextPkg("patch") \in Frames
  BY <1>0, <1>1, NextFrames DEF Pcs
<1>3. \A v \in Versions : Reading(v) \in Frames
  BY <1>1, <1>2 DEF Frames
<1>4. Unreadable \in Versions /\ Version(tree[Base]) \in Versions
  BY <1>1, VersionTyped, Constants DEF Unreadable, Versions
<1>5. VerOf[cmd.remote[Base]] \in Versions
  <2>1. cmd.remote[Base] \in 1 .. MaxCommit
    BY <1>0, <1>1 DEF TypeOK
  <2>2. VerOf \in [1 .. MaxCommit -> 1 .. MaxCommit]
    BY StagesAssumption
  <2>3. 1 .. MaxCommit \subseteq Versions
    BY Constants DEF Versions
  <2> QED BY <2>1, <2>2, <2>3
<1>6. \/ Continue(Reading(Version(tree[Base])))
      \/ Continue(Reading(VerOf[cmd.remote[Base]]))
      \/ Continue(Reading(Unreadable))
      \/ Return
  BY DEF ReadVersion
<1> QED BY <1>3, <1>4, <1>5, <1>6

\* Steps that leave the disk alone.
LEMMA QuietTyped ==
  ASSUME Typed,
         SkipFetched \/ CheckPwd \/ SkipNonGit \/ ReadVersion \/ SkipBuild \/ EndBuild
  PROVE  Typed'
<1>0. TypeOK
  BY DEF Typed
<1>1. CASE SkipFetched
  <2>1. RunOK'
    BY <1>0, <1>1, GoesOn DEF SkipFetched, AtPkg, At, Pcs
  <2> QED BY <1>0, <1>1, <2>1, TypedSameDisk DEF SkipFetched, notes, TypeOK
<1>2. CASE CheckPwd
  <2>1. RunOK'
    BY <1>0, <1>2, GoesOn DEF CheckPwd, AtPkg, At, Pcs
  <2> QED BY <1>0, <1>2, <2>1, TypedSameDisk DEF CheckPwd, TypeOK
<1>3. CASE SkipNonGit
  <2>1. RunOK'
    BY <1>0, <1>3, GoesOn DEF SkipNonGit, AtPkg, At, Pcs
  <2> QED BY <1>0, <1>3, <2>1, TypedSameDisk DEF SkipNonGit, notes, TypeOK
<1>4. CASE ReadVersion
  <2>7. RunOK'
    BY <1>0, <1>4, ReadingTyped, ContinueRun, ReturnRun DEF ReadVersion, AtPkg, At
  <2> QED BY <1>0, <1>4, <2>7, TypedSameDisk DEF ReadVersion, notes, TypeOK
<1>5. CASE SkipBuild
  <2>1. depth > 0 /\ ~Ended
    BY <1>5 DEF SkipBuild, AtPkg, At
  <2>2. RunOK'
    BY <1>0, <1>5, <2>1, NotedTyped, ContinueRun DEF SkipBuild
  <2> QED BY <1>0, <1>5, <2>2, TypedSameDisk DEF SkipBuild, notes, TypeOK
<1>6. CASE EndBuild
  <2>1. RunOK'
    BY <1>0, <1>6, GoesOn DEF EndBuild, AtEnd, At, Pcs
  <2> QED BY <1>0, <1>6, <2>1, TypedSameDisk DEF EndBuild, notes, TypeOK
<1> QED BY <1>1, <1>2, <1>3, <1>4, <1>5, <1>6

\* What git and makepkg change in a directory keeps it one.
LEMMA TreeMoves ==
  ASSUME NEW t \in Trees, NEW c \in 0 .. MaxCommit, NEW w \in 0 .. MaxVcs
  PROVE  /\ [t EXCEPT !.head = c] \in Trees /\ [t EXCEPT !.head = c].st = t.st
         /\ [t EXCEPT !.head = c].head = c /\ [t EXCEPT !.head = c].origin = t.origin
         /\ [t EXCEPT !.origin = c] \in Trees /\ [t EXCEPT !.origin = c].st = t.st
         /\ [t EXCEPT !.origin = c].head = t.head /\ [t EXCEPT !.origin = c].origin = c
         /\ [t EXCEPT !.work = w] \in Trees /\ [t EXCEPT !.work = w].st = t.st
         /\ [t EXCEPT !.work = w].head = t.head /\ [t EXCEPT !.work = w].origin = t.origin
BY DEF Trees

\* The AUR and git change one directory at a time.
LEMMA GitTyped ==
  ASSUME Typed, CloneBase \/ ResetHard \/ GitFetch \/ Rebase
  PROVE  Typed'
<1>0. TypeOK /\ tree \in [Bases -> Trees] /\ FullTrees
  BY DEF Typed, TypeOK
<1>1. CASE CloneBase
  <2>1. depth > 0 /\ Base \in Bases
    BY <1>0, <1>1, TopTyped DEF CloneBase, AtPkg, At
  <2>2. RunOK'
    BY <1>0, <1>1, <2>1, GoesOn, GoesOnAsCopy DEF CloneBase, Pcs
  <2>3. tree' \in [Bases -> Trees] /\ FullTrees'
    <3>1. CASE tree' = [tree EXCEPT ![Base] = Clone(remote[Base])]
      BY <2>1, <3>1, CloneTyped, OneTree
    <3>2. CASE tree' = [tree EXCEPT ![Base] = PartialTree]
      BY <2>1, <3>2, CloneTyped, OneTree
    <3>3. CASE tree' = tree
      BY <1>0, <3>3 DEF FullTrees
    <3> QED BY <1>1, <3>1, <3>2, <3>3 DEF CloneBase
  <2> QED BY <1>0, <1>1, <2>2, <2>3, TypedTree DEF CloneBase, notes, TypeOK
<1>2. CASE ResetHard
  <2>1. depth > 0 /\ Base \in Bases
    BY <1>0, <1>2, TopTyped DEF ResetHard, AtPkg, At
  <2>2. RunOK'
    BY <1>0, <1>2, <2>1, GoesOn DEF ResetHard, Pcs
  <2>3. tree' \in [Bases -> Trees] /\ FullTrees'
    <3>1. CASE tree' = [tree EXCEPT ![Base].work = 0]
      <4> DEFINE t == [tree[Base] EXCEPT !.work = 0]
      <4>1. t \in Trees /\ t.st = tree[Base].st /\ t.head = tree[Base].head
            /\ t.origin = tree[Base].origin
        <5>1. tree[Base] \in Trees
          BY <1>0, <2>1
        <5>2. 0 \in 0 .. MaxCommit /\ 0 \in 0 .. MaxVcs
          BY Constants
        <5> QED BY <5>1, <5>2, TreeMoves
      <4> QED BY <1>0, <2>1, <3>1, <4>1, OneTree DEF FullTrees
    <3>2. CASE tree' = tree
      BY <1>0, <3>2 DEF FullTrees
    <3> QED BY <1>2, <3>1, <3>2 DEF ResetHard
  <2>4. outer' \in BOOLEAN
    BY <1>0, <1>2 DEF ResetHard, TypeOK
  <2> QED BY <1>0, <1>2, <2>2, <2>3, <2>4, TypedTree DEF ResetHard
<1>3. CASE GitFetch
  <2>1. depth > 0 /\ Base \in Bases
    BY <1>0, <1>3, TopTyped DEF GitFetch, AtPkg, At
  <2>2. RunOK'
    BY <1>0, <1>3, <2>1, GoesOn DEF GitFetch, Pcs
  <2>3. tree' \in [Bases -> Trees] /\ FullTrees'
    <3>1. CASE tree' = [tree EXCEPT ![Base].origin = remote[Base]]
      <4> DEFINE t == [tree[Base] EXCEPT !.origin = remote[Base]]
      <4>0. remote[Base] \in 1 .. MaxCommit
        BY <1>0, <2>1 DEF TypeOK
      <4>1. t \in Trees /\ t.st = tree[Base].st /\ t.head = tree[Base].head
            /\ t.origin > 0
        <5>1. remote[Base] \in 0 .. MaxCommit /\ 0 \in 0 .. MaxVcs /\ remote[Base] > 0
          BY <4>0, Constants
        <5>2. tree[Base] \in Trees
          BY <1>0, <2>1
        <5> QED BY <5>1, <5>2, TreeMoves
      <4> QED BY <1>0, <2>1, <3>1, <4>1, OneTree DEF FullTrees
    <3>2. CASE tree' = tree
      BY <1>0, <3>2 DEF FullTrees
    <3> QED BY <1>3, <3>1, <3>2 DEF GitFetch
  <2> QED BY <1>0, <1>3, <2>2, <2>3, TypedTree DEF GitFetch, notes, TypeOK
<1>4. CASE Rebase
  <2>1. depth > 0 /\ Base \in Bases
    BY <1>0, <1>4, TopTyped DEF Rebase, AtPkg, At
  <2>2. RunOK'
    BY <1>0, <1>4, <2>1, GoesOn DEF Rebase, Pcs
  <2>3. tree' \in [Bases -> Trees] /\ FullTrees'
    <3>1. CASE tree' = AdvancedTree(Base)
      <4> DEFINE t == [tree[Base] EXCEPT !.head = tree[Base].origin]
      <4>1. t \in Trees /\ t.st = tree[Base].st /\ t.head = tree[Base].origin
            /\ t.origin = tree[Base].origin
        <5>1. tree[Base] \in Trees
          BY <1>0, <2>1
        <5>2. tree[Base].origin \in 0 .. MaxCommit /\ 0 \in 0 .. MaxVcs
          BY <5>1, Constants DEF Trees
        <5> QED BY <5>1, <5>2, TreeMoves
      <4> QED BY <1>0, <2>1, <3>1, <4>1, OneTree DEF FullTrees, AdvancedTree
    <3>2. CASE tree' = tree
      BY <1>0, <3>2 DEF FullTrees
    <3> QED BY <1>4, <3>1, <3>2 DEF Rebase
  <2> QED BY <1>0, <1>4, <2>2, <2>3, TypedTree DEF Rebase, notes, TypeOK
<1> QED BY <1>1, <1>2, <1>3, <1>4

\* What an interrupted git clean leaves.
LEMMA CutCleanTyped ==
  ASSUME TypeOK, Base \in Bases, CutClean
  PROVE  files' \in SUBSET Builds /\ torn' \in SUBSET Bases
<1>1. files \in SUBSET Builds /\ Cleaned(Base) \subseteq files
  BY DEF TypeOK, Cleaned
<1> QED BY <1>1 DEF CutClean, TypeOK

\* Steps that change files, versions, or the list of names.
LEMMA CleanTyped == ASSUME Typed, CleanTree PROVE Typed'
<1>0. TypeOK /\ depth > 0 /\ Base \in Bases
  BY TopTyped DEF Typed, CleanTree, AtPkg, At
<1>1. RunOK'
  BY <1>0, GoesOn DEF CleanTree, Pcs
<1>2. dirty' \in SUBSET Bases /\ outer' \in BOOLEAN
  BY <1>0 DEF CleanTree, TypeOK
<1>4. files' \in SUBSET Builds /\ torn' \in SUBSET Bases
  <2>1. CASE files' = Cleaned(Base) /\ torn' = (IF env.pkgdest THEN torn ELSE torn \ {Base})
    BY <1>0, <2>1 DEF Cleaned, TypeOK
  <2>2. CASE UNCHANGED <<files, torn>>
    BY <1>0, <2>2 DEF TypeOK
  <2> QED BY <1>0, <2>1, <2>2, CutCleanTyped DEF CleanTree
<1>3. DiskOK' /\ FullTrees'
  BY <1>0, <1>4 DEF CleanTree, DiskOK, TypeOK, Typed, FullTrees
<1> QED BY <1>0, <1>1, <1>2, <1>3, <1>4, TypedByParts DEF CleanTree, TypeOK

\* The list of names.
LEMMA NamelistTyped == ASSUME Typed, DownloadNamelist PROVE Typed'
<1>0. TypeOK /\ depth > 0
  BY DEF Typed, DownloadNamelist, AtEnd, At
<1>1. RunOK'
  <2>1. [GoTo("patch") EXCEPT !.i = 1] \in Frames
    BY <1>0, TopTyped, FrameMoves DEF GoTo, Pcs
  <2>2. Return \/ Continue([GoTo("patch") EXCEPT !.i = 1])
    BY DEF DownloadNamelist
  <2> QED BY <1>0, <2>1, <2>2, ContinueRun, ReturnRun DEF DownloadNamelist
<1>2. DiskOK' /\ FullTrees'
  BY <1>0 DEF DownloadNamelist, DiskOK, TypeOK, Typed, FullTrees
<1> QED BY <1>0, <1>1, <1>2, TypedByParts DEF DownloadNamelist, TypeOK, notes

\* makepkg -o.
LEMMA UpdateTyped == ASSUME Typed, UpdateSources PROVE Typed'
<1>0. TypeOK /\ depth > 0 /\ Base \in Bases /\ tree \in [Bases -> Trees] /\ FullTrees
  BY TopTyped DEF Typed, TypeOK, UpdateSources, AtPkg, At
<1>1. RunOK'
  BY <1>0, GoesOn, GoesOnAsCopy DEF UpdateSources, Pcs
<1>2. tree' \in [Bases -> Trees] /\ FullTrees'
  <2>1. CASE tree' = [tree EXCEPT ![Base] = Refreshed(Base)]
    BY <1>0, <2>1, VersionTyped, OneTree DEF FullTrees
  <2>2. CASE tree' = tree
    BY <1>0, <2>2 DEF FullTrees
  <2> QED BY <2>1, <2>2 DEF UpdateSources
<1> QED BY <1>0, <1>1, <1>2, TypedTree DEF UpdateSources, notes, TypeOK

\* Merging two sets of versions gives a set of versions.
LEMMA MergedTyped ==
  ASSUME NEW old \in [Pkgs -> Versions \cup {NoVersion}],
         NEW new \in [Pkgs -> Versions \cup {NoVersion}]
  PROVE  Merged(old, new) \in [Pkgs -> Versions \cup {NoVersion}]
BY DEF Merged

\* And so does losing some of them.
LEMMA RemainsTyped ==
  ASSUME TypeOK, depth > 0, NEW lost
  PROVE  /\ Remains(lost) \in [Pkgs -> Versions \cup {NoVersion}]
         /\ Merged(verCache, Top.vers) \in [Pkgs -> Versions \cup {NoVersion}]
<1>1. Merged(verCache, Top.vers) \in [Pkgs -> Versions \cup {NoVersion}]
  BY TopTyped, MergedTyped DEF TypeOK, Frames
<1> QED BY <1>1 DEF Remains

\* The version cache.
LEMMA SaveTyped == ASSUME Typed, SaveVersions PROVE Typed'
<1>0. TypeOK /\ depth > 0
  BY DEF Typed, SaveVersions, AtEnd, At
<1>1. RunOK'
  BY <1>0, ReturnRun DEF SaveVersions
<1>2. verCache' \in [Pkgs -> Versions \cup {NoVersion}]
  <2>1. \/ verCache' = verCache
        \/ verCache' = Merged(verCache, Top.vers)
        \/ \E lost \in SUBSET Pkgs : verCache' = Remains(lost)
    BY DEF SaveVersions
  <2>2. verCache \in [Pkgs -> Versions \cup {NoVersion}]
    BY <1>0 DEF TypeOK
  <2>3. /\ Merged(verCache, Top.vers) \in [Pkgs -> Versions \cup {NoVersion}]
        /\ \A lost : Remains(lost) \in [Pkgs -> Versions \cup {NoVersion}]
    BY <1>0, RemainsTyped
  <2> QED BY <2>1, <2>2, <2>3
<1>3. DiskOK' /\ FullTrees'
  BY <1>0, <1>2 DEF SaveVersions, DiskOK, TypeOK, Typed, FullTrees
<1> QED BY <1>0, <1>1, <1>3, TypedByParts DEF SaveVersions, TypeOK, notes

\* A package file comes from a commit and an upstream version.
LEMMA GroupTyped ==
  ASSUME Typed, NEW b \in Bases
  PROVE  Group(b) \in SUBSET Builds
<1>1. Version(Refreshed(b)) \in Versions /\ Refreshed(b) \in Trees
  BY VersionTyped
<1>2. ASSUME NEW p \in Pkgs
      PROVE  [pkg |-> p, ver |-> Version(Refreshed(b)), head |-> Refreshed(b).head,
              work |-> Refreshed(b).work] \in Builds
  BY <1>1 DEF Trees, Builds
<1> QED BY <1>2 DEF Group

\* It makes one for each package, from the sources as it refreshed them.
LEMMA GroupFields ==
  ASSUME Typed, NEW b \in Bases
  PROVE  /\ \A f \in Group(b) : f.pkg \in Pkgs /\ BaseOf[f.pkg] = b
         /\ \A f \in Group(b) : f.ver = Version(Refreshed(b))
         /\ \A f \in Group(b) : f.head = tree[b].head /\ f.work = Refreshed(b).work
         /\ \A p \in Pkgs : BaseOf[p] = b =>
              \E f \in Group(b) : f.pkg = p /\ f.ver = Version(Refreshed(b))
<1> DEFINE made(p) == [pkg |-> p, ver |-> Version(Refreshed(b)),
                       head |-> Refreshed(b).head, work |-> Refreshed(b).work]
<1>1. Refreshed(b).head = tree[b].head
  BY VersionTyped
<1>2. /\ \A f \in Group(b) : \E p \in Pkgs : BaseOf[p] = b /\ f = made(p)
      /\ \A p \in Pkgs : BaseOf[p] = b => made(p) \in Group(b)
  BY DEF Group
<1>3. \A p : /\ made(p).pkg = p /\ made(p).ver = Version(Refreshed(b))
             /\ made(p).head = Refreshed(b).head /\ made(p).work = Refreshed(b).work
  OBVIOUS
<1> HIDE DEF made
<1> QED BY <1>1, <1>2, <1>3

\* makepkg -s.
LEMMA MakeTyped == ASSUME Typed, Make PROVE Typed'
<1>0. TypeOK /\ depth > 0 /\ Base \in Bases /\ tree \in [Bases -> Trees] /\ FullTrees
  BY TopTyped DEF Typed, TypeOK, Make, AtPkg, At
<1>1. RunOK'
  BY <1>0, NotedTyped, ContinueRun, CopyRun DEF Make
<1>2. tree' \in [Bases -> Trees] /\ FullTrees'
  <2>1. CASE tree' = [tree EXCEPT ![Base] = Refreshed(Base)]
    BY <1>0, <2>1, VersionTyped, OneTree DEF FullTrees
  <2>2. CASE tree' = tree
    BY <1>0, <2>2 DEF FullTrees
  <2>3. CASE tree' = [tree EXCEPT ![Base] = IF Full(Base) THEN Refreshed(Base) ELSE @]
    BY <1>0, <2>1, <2>2, <2>3
  <2> QED BY <2>1, <2>2, <2>3 DEF Make, CutBuild
<1>3. files' \in SUBSET Builds /\ torn' \in SUBSET Bases
  <2>1. files \in SUBSET Builds /\ torn \in SUBSET Bases
    BY <1>0 DEF TypeOK
  <2>2. Group(Base) \in SUBSET Builds
    BY <1>0, GroupTyped
  <2>3. CASE files' = (IF Begun(Base) THEN files ELSE files \cup Group(Base)) /\ torn' = torn
    BY <2>1, <2>2, <2>3
  <2>4. CASE UNCHANGED <<files, torn>>
    BY <2>1, <2>4
  <2>5. CASE CutBuild
    BY <1>0, <2>1, <2>2, <2>5 DEF CutBuild
  <2> QED BY <2>3, <2>4, <2>5 DEF Make
<1>4. DiskOK'
  BY <1>0, <1>2, <1>3 DEF Make, DiskOK, TypeOK
<1>5. FullTrees'
  BY <1>2
<1> QED BY <1>0, <1>1, <1>3, <1>4, <1>5, TypedByParts DEF Make, TypeOK

\* pacman -U.
LEMMA InstallTyped == ASSUME Typed, Install PROVE Typed'
<1>0. TypeOK /\ depth > 0
  BY DEF Typed, Install, At
<1>1. RunOK'
  BY <1>0, ReturnRun DEF Install
<1>2. ASSUME NEW given, Pacman(given)
      PROVE  installs' \in Nat /\ installed' \in [Pkgs -> Builds \cup {NoBuild}]
  <2>1. /\ installs \in Nat /\ installed \in [Pkgs -> Builds \cup {NoBuild}]
        /\ files \in SUBSET Builds
    BY <1>0 DEF TypeOK
  <2>2. installs' \in Nat
    BY <1>2, <2>1 DEF Pacman
  <2>3. ASSUME NEW x \in [given -> files],
               installed' = [p \in Pkgs |-> IF p \in given THEN x[p] ELSE installed[p]]
        PROVE  installed' \in [Pkgs -> Builds \cup {NoBuild}]
    BY <2>1, <2>3
  <2>4. \/ installed' = installed
        \/ \E x \in [given -> files] :
             installed' = [p \in Pkgs |-> IF p \in given THEN x[p] ELSE installed[p]]
    BY <1>2 DEF Pacman
  <2> QED BY <2>1, <2>2, <2>3, <2>4
<1>3. installs' \in Nat /\ installed' \in [Pkgs -> Builds \cup {NoBuild}]
  BY <1>2 DEF Install
<1>4. DiskOK' /\ FullTrees'
  BY <1>0, <1>3 DEF Install, DiskOK, TypeOK, Typed, FullTrees
<1> QED BY <1>0, <1>1, <1>3, <1>4, TypedByParts DEF Install, TypeOK, notes

\* The AUR, the user and a kill.
LEMMA EnvironmentTyped ==
  ASSUME Typed, StartSome \/ Crash \/ Release \/ Upstream \/ DeleteCache
  PROVE  Typed'
<1>0. TypeOK /\ FullTrees
  BY DEF Typed
<1>1. CASE StartSome
  <2> PICK act \in Actions, reset \in BOOLEAN, sel \in Selections : Start(act, reset, sel)
    BY <1>1 DEF StartSome
  <2>1. cmd' \in Commands
    BY <1>0, Constants DEF Start, Commands, TypeOK
  <2>2. frames' \in [1 .. MaxDepth -> Frames]
    <3>1. Frame(IF act = "FETCH" THEN "fetch" ELSE "build") \in Frames
      BY FrameTyped DEF Pcs
    <3>2. 1 \in 1 .. MaxDepth
      BY Constants
    <3> QED BY <1>0, <3>1, <3>2, FramesExcept DEF Start
  <2>3. /\ UNCHANGED <<world, disk, notes, faults>> /\ depth' = 1 /\ copies' = 0
        /\ installs' = 0 /\ faulty' = FALSE /\ commands' = commands + 1
        /\ commands < MaxCommands
    BY DEF Start
  <2>4. WorldOK' /\ DiskOK' /\ FullTrees'
    BY <1>0, <2>3 DEF TypeOK, world, disk, WorldOK, DiskOK, FullTrees
  <2>5. RunOK'
    <3>1. faulty' \in BOOLEAN
      BY <2>3
    <3>2. depth' \in 0 .. faults' + 1 /\ faults' \in 0 .. MaxFaults /\ copies' \in Nat
      BY <1>0, <2>3, Constants DEF TypeOK
    <3> QED BY <2>1, <2>2, <3>1, <3>2 DEF RunOK
  <2>6. NotesOK'
    BY <1>0, <2>3, Constants DEF NotesOK, TypeOK, notes
  <2>7. TypeOK'
    BY <2>1, <2>4, <2>5, <2>6 DEF TypeOK, WorldOK, DiskOK, RunOK, NotesOK, Commands
  <2> QED BY <2>4, <2>7 DEF Typed
<1>2. CASE Crash
  <2>1. RunOK'
    <3>1. Frame("build") \in Frames
      BY FrameTyped DEF Pcs
    <3>2. NoCommand \in Commands
      BY NoCommandTyped
    <3>3. faults' \in 0 .. MaxFaults /\ faulty' \in BOOLEAN
      BY <1>0, <1>2, Budget DEF Crash
    <3>4. /\ frames' = [d \in 1 .. MaxDepth |-> Frame("build")] /\ depth' = 0
          /\ cmd' = NoCommand /\ copies' = copies
      BY <1>2 DEF Crash
    <3>5. frames' \in [1 .. MaxDepth -> Frames]
      BY <3>1, <3>4
    <3>6. depth' \in 0 .. faults' + 1 /\ copies' \in Nat
      <4>1. copies \in Nat
        BY <1>0 DEF TypeOK
      <4>2. faults' \in Nat
        <5>1. MaxFaults \in Nat
          BY Constants
        <5> QED BY <3>3, <5>1
      <4>3. \A n \in Nat : 0 \in 0 .. n + 1
        OBVIOUS
      <4>4. depth' \in 0 .. faults' + 1
        BY <3>4, <4>2, <4>3, Zenon
      <4> QED BY <3>4, <4>1, <4>4, Zenon
    <3> QED BY <3>2, <3>3, <3>4, <3>5, <3>6 DEF RunOK
  <2>2. tree' \in [Bases -> Trees] /\ FullTrees'
    <3>1. CASE tree' = tree
      BY <1>0, <3>1 DEF TypeOK, FullTrees
    <3>2. CASE AtPkg("fetch") /\ tree' = [tree EXCEPT ![Base] = PartialTree]
      BY <1>0, <3>2, TopTyped, CloneTyped, OneTree DEF AtPkg, At
    <3>3. CASE AtPkg("build") /\ tree' = [tree EXCEPT ![Base] = Refreshed(Base)]
      <4>1. Base \in Bases
        BY <1>0, <3>3, TopTyped DEF AtPkg, At
      <4>2. Refreshed(Base) \in Trees /\ Refreshed(Base).st = tree[Base].st
            /\ Refreshed(Base).head = tree[Base].head
            /\ Refreshed(Base).origin = tree[Base].origin
        BY <4>1, VersionTyped
      <4> QED BY <1>0, <3>3, <4>1, <4>2, OneTree DEF FullTrees
    <3> QED BY <1>2, <3>1, <3>2, <3>3 DEF Crash, CutBuild
  <2>6. files' \in SUBSET Builds /\ torn' \in SUBSET Bases
    <3>1. files \in SUBSET Builds /\ torn \in SUBSET Bases
      BY <1>0 DEF TypeOK
    <3>2. CASE UNCHANGED <<files, torn>>
      BY <3>1, <3>2
    <3>3. CASE AtPkg("clean") /\ CutClean
      BY <1>0, <3>3, TopTyped, CutCleanTyped DEF AtPkg, At
    <3>4. CASE AtPkg("build") /\ CutBuild
      <4>1. Base \in Bases
        BY <1>0, <3>4, TopTyped DEF AtPkg, At
      <4> QED BY <3>1, <3>4, <4>1, GroupTyped DEF CutBuild
    <3> QED BY <1>2, <3>2, <3>3, <3>4 DEF Crash
  <2>3. verCache' \in [Pkgs -> Versions \cup {NoVersion}]
    <3>1. verCache' = verCache \/ \E lost \in SUBSET Pkgs : verCache' = Remains(lost)
      BY <1>2 DEF Crash
    <3> QED BY <1>0, <1>2, <3>1, RemainsTyped DEF Crash, TypeOK
  <2>4. namelist' \in {"absent", "partial", "complete"}
    BY <1>0, <1>2 DEF Crash, TypeOK
  <2>5. DiskOK'
    BY <1>0, <1>2, <2>2, <2>3, <2>4, <2>6 DEF Crash, DiskOK, TypeOK
  <2> QED BY <1>0, <1>2, <2>1, <2>2, <2>5, <2>6, TypedByParts DEF Crash, TypeOK
<1>3. CASE Release
  <2>1. remote' \in [Bases -> 1 .. MaxCommit]
    BY <1>0, <1>3, Constants DEF Release, TypeOK
  <2> QED BY <1>0, <1>3, <2>1 DEF Release, TypeOK, Typed, FullTrees, disk, run, notes, budget
<1>4. CASE Upstream
  <2>1. vcs' \in [Bases -> 1 .. MaxVcs]
    <3>1. GitBases \subseteq Bases
      BY StagesAssumption DEF GitBases
    <3>2. vcs \in [Bases -> 1 .. MaxVcs]
      BY <1>0 DEF TypeOK
    <3>3. \E b \in GitBases : vcs[b] < MaxVcs /\ vcs' = [vcs EXCEPT ![b] = vcs[b] + 1]
      BY <1>4 DEF Upstream
    <3> QED BY <3>1, <3>2, <3>3, Constants
  <2> QED BY <1>0, <1>4, <2>1 DEF Upstream, TypeOK, Typed, FullTrees, disk, run, notes, budget
<1>5. CASE DeleteCache
  <2>1. tree' \in [Bases -> Trees] /\ FullTrees'
    BY <1>5, CloneTyped, <1>0 DEF DeleteCache, FullTrees, Typed
  <2>2. verCache' \in [Pkgs -> Versions \cup {NoVersion}]
    BY <1>5, Constants DEF DeleteCache
  <2>3. RunOK'
    BY <1>0, <1>5 DEF DeleteCache, run, budget, RunOK, TypeOK, Commands
  <2>4. DiskOK'
    BY <1>0, <1>5, <2>1, <2>2 DEF DeleteCache, DiskOK, TypeOK
  <2> QED BY <1>0, <1>5, <2>1, <2>3, <2>4, TypedByParts DEF DeleteCache, TypeOK
<1> QED BY <1>1, <1>2, <1>3, <1>4, <1>5

\* The initial state.
LEMMA TypedInit == Init => Typed
<1> SUFFICES ASSUME Init PROVE Typed
  OBVIOUS
<1>1. WorldOK
  BY Constants DEF Init, WorldOK
<1>2. DiskOK
  BY Constants DEF Init, DiskOK, NoTree, Trees
<1>3. RunOK
  <2>1. /\ cmd = NoCommand /\ frames = [d \in 1 .. MaxDepth |-> Frame("build")]
        /\ depth = 0 /\ copies = 0 /\ faulty = FALSE /\ faults = 0
    BY DEF Init
  <2>2. Frame("build") \in Frames
    BY FrameTyped DEF Pcs
  <2>3. faulty \in BOOLEAN
    BY <2>1
  <2>4. frames \in [1 .. MaxDepth -> Frames]
    BY <2>1, <2>2
  <2>5. depth \in 0 .. faults + 1 /\ faults \in 0 .. MaxFaults /\ copies \in Nat
    BY <2>1, Constants
  <2> QED BY <2>1, <2>3, <2>4, <2>5, NoCommandTyped DEF RunOK
<1>4. NotesOK
  <2>1. /\ installs = 0 /\ dirty = {} /\ torn = {} /\ outer = FALSE /\ misjudged = FALSE
        /\ commands = 0
    BY DEF Init
  <2>2. /\ outer \in BOOLEAN /\ misjudged \in BOOLEAN
        /\ dirty \in SUBSET Bases /\ torn \in SUBSET Bases
    BY <2>1
  <2>3. installs \in Nat /\ commands \in 0 .. MaxCommands
    BY <2>1, Constants
  <2> QED BY <2>2, <2>3 DEF NotesOK
<1>5. FullTrees
  BY DEF Init, FullTrees, NoTree
<1> QED BY <1>1, <1>2, <1>3, <1>4, <1>5, TypeParts DEF Typed

\* Every step.
LEMMA TypedStep == Typed /\ [Next]_vars => Typed'
<1> SUFFICES ASSUME Typed, [Next]_vars PROVE Typed'
  OBVIOUS
<1>1. CASE FetchStep
  BY <1>1, QuietTyped, GitTyped, CleanTyped, NamelistTyped DEF FetchStep
<1>2. CASE PatchStep
  BY <1>2, QuietTyped, UpdateTyped, SaveTyped DEF PatchStep
<1>3. CASE BuildStep
  BY <1>3, QuietTyped, MakeTyped, InstallTyped DEF BuildStep
<1>4. CASE StartSome \/ Crash \/ Release \/ Upstream \/ DeleteCache
  BY <1>4, EnvironmentTyped
<1>5. CASE UNCHANGED vars
  BY <1>5 DEF Typed, TypeOK, FullTrees, vars, world, disk, run, notes, budget
<1> QED BY <1>1, <1>2, <1>3, <1>4, <1>5 DEF Next, Step

\* Besides TypeOK, every working clone has a commit checked out: the
\* version of what makepkg builds in it exists.
THEOREM AlwaysTyped == Spec => []Typed
BY TypedInit, TypedStep, PTL DEF Spec

\* For any numbers of packages, commands and failures no variable leaves its
\* domain, and no more frames run than failures started.
THEOREM TypeCorrect == Spec => []TypeOK
<1>1. Typed => TypeOK
  BY DEF Typed
<1> QED BY <1>1, AlwaysTyped, PTL

-----------------------------------------------------------------------------
(* The running frames.                                                      *)

\* Only its stage and its place in the list change in a frame that goes on.
LEMMA MovedFields ==
  ASSUME NEW f \in Frames, NEW pc \in Pcs, NEW n \in Nat \ {0}
  PROVE  /\ [f EXCEPT !.pc = pc, !.i = n].pc = pc /\ [f EXCEPT !.pc = pc, !.i = n].i = n
         /\ [f EXCEPT !.pc = pc, !.i = n].failed = f.failed
         /\ [f EXCEPT !.pc = pc, !.i = n].moved = f.moved
         /\ [f EXCEPT !.pc = pc].pc = pc /\ [f EXCEPT !.pc = pc].i = f.i
         /\ [f EXCEPT !.pc = pc].failed = f.failed
         /\ [f EXCEPT !.pc = pc].moved = f.moved
BY DEF Frames

\* The same of the running frame.
LEMMA NextFields ==
  ASSUME TypeOK, depth > 0, NEW pc \in Pcs
  PROVE  /\ GoTo(pc) \in Frames /\ GoTo(pc).pc = pc /\ GoTo(pc).i = Top.i
         /\ GoTo(pc).failed = Top.failed /\ GoTo(pc).moved = Top.moved
         /\ NextPkg(pc) \in Frames /\ NextPkg(pc).pc = pc /\ NextPkg(pc).i = Top.i + 1
         /\ NextPkg(pc).failed = Top.failed /\ NextPkg(pc).moved = Top.moved
         /\ [GoTo(pc) EXCEPT !.i = 1] \in Frames /\ [GoTo(pc) EXCEPT !.i = 1].pc = pc
         /\ [GoTo(pc) EXCEPT !.i = 1].moved = Top.moved
<1>1. Top \in Frames /\ Top.i + 1 \in Nat \ {0} /\ 1 \in Nat \ {0}
  BY TopTyped DEF Frames
<1>2. GoTo(pc) \in Frames /\ NextPkg(pc) \in Frames
  BY NextFrames
<1>3. [GoTo(pc) EXCEPT !.i = 1] = [Top EXCEPT !.pc = pc, !.i = 1]
  BY <1>1 DEF GoTo, Frames
<1>4. /\ GoTo(pc).pc = pc /\ GoTo(pc).i = Top.i
      /\ GoTo(pc).failed = Top.failed /\ GoTo(pc).moved = Top.moved
  BY <1>1, MovedFields DEF GoTo
<1>5. /\ NextPkg(pc).pc = pc /\ NextPkg(pc).i = Top.i + 1
      /\ NextPkg(pc).failed = Top.failed /\ NextPkg(pc).moved = Top.moved
  BY <1>1, MovedFields DEF NextPkg
<1>6. /\ [GoTo(pc) EXCEPT !.i = 1] \in Frames /\ [GoTo(pc) EXCEPT !.i = 1].pc = pc
      /\ [GoTo(pc) EXCEPT !.i = 1].moved = Top.moved
  <2>1. [Top EXCEPT !.pc = pc, !.i = 1] \in Frames
    BY <1>1, FrameMoves
  <2>2. /\ [Top EXCEPT !.pc = pc, !.i = 1].pc = pc
        /\ [Top EXCEPT !.pc = pc, !.i = 1].moved = Top.moved
    <3>1. 1 \in Nat \ {0}
      OBVIOUS
    <3> QED BY ONLY <1>1, <3>1, MovedFields
  <2> QED BY <1>3, <2>1, <2>2
<1> QED BY <1>2, <1>4, <1>5, <1>6

\* What the three ways to go on do to the frames.
LEMMA ContinueFrames ==
  ASSUME TypeOK, depth > 0, NEW f, Continue(f)
  PROVE  /\ depth' = depth /\ cmd' = cmd
         /\ \A d \in 1 .. depth : frames'[d] = IF d = depth THEN f ELSE frames[d]
<1>1. depth' = depth /\ cmd' = cmd /\ frames' = [frames EXCEPT ![depth] = f]
  BY DEF Continue
<1>2. depth \in 1 .. MaxDepth /\ frames \in [1 .. MaxDepth -> Frames]
  BY TopTyped DEF TypeOK
<1>3. 1 .. depth \subseteq 1 .. MaxDepth
  BY <1>2, Constants
<1> QED BY <1>1, <1>2, <1>3

\* The end of a process.
LEMMA ReturnFrames ==
  ASSUME TypeOK, depth > 0, Return
  PROVE  /\ depth' = depth - 1 /\ depth - 1 \in Nat
         /\ depth' > 0 => cmd' = cmd
         /\ \A d \in 1 .. depth - 1 : frames'[d] = frames[d]
<1>1. /\ depth' = depth - 1 /\ cmd' = (IF depth = 1 THEN NoCommand ELSE cmd)
      /\ frames' = [frames EXCEPT ![depth] = Frame("build")]
  BY DEF Return
<1>2. depth \in 1 .. MaxDepth /\ frames \in [1 .. MaxDepth -> Frames]
  BY TopTyped DEF TypeOK
<1>3. 1 .. depth - 1 \subseteq 1 .. MaxDepth /\ \A d \in 1 .. depth - 1 : d # depth
  BY <1>2, Constants
<1>4. depth' > 0 => cmd' = cmd
  BY <1>1, <1>2, Constants
<1>5. depth - 1 \in Nat
  BY <1>2, Constants
<1> QED BY <1>1, <1>2, <1>3, <1>4, <1>5

\* The start of a copy.
LEMMA CopyFrames ==
  ASSUME TypeOK, depth > 0, NEW f \in Frames, NEW moved \in BOOLEAN, Copy(f, moved)
  PROVE  /\ depth' = depth + 1 /\ cmd' = cmd
         /\ \A d \in 1 .. depth : frames'[d] = IF d = depth THEN f ELSE frames[d]
         /\ frames'[depth + 1] = [f EXCEPT !.moved = moved]
<1>1. /\ depth' = depth + 1 /\ cmd' = cmd /\ faults < MaxFaults
      /\ frames' = [frames EXCEPT ![depth] = f, ![depth + 1] = [f EXCEPT !.moved = moved]]
  BY DEF Copy, Fault
<1>2. depth \in 1 .. MaxDepth /\ frames \in [1 .. MaxDepth -> Frames]
  BY TopTyped DEF TypeOK
<1>3. depth + 1 \in 1 .. MaxDepth
  BY <1>1, <1>2, Constants DEF TypeOK
<1>4. 1 .. depth \subseteq 1 .. MaxDepth /\ \A d \in 1 .. depth : d # depth + 1
  BY <1>2, Constants
<1> QED BY <1>1, <1>2, <1>3, <1>4

-----------------------------------------------------------------------------
(* The repository around the cache.                                         *)

\* A command gets to git reset and git clean inside a repository only after
\* git status failed there.
CheckedFirst ==
  \A d \in 1 .. depth :
    frames[d].pc \in {"reset", "clean"} /\ env.inGit => misjudged

OuterInv == OuterRepoSafe /\ CheckedFirst

\* A step of the running frame that stays away from git reset and git clean.
LEMMA ElsewhereOuter ==
  ASSUME TypeOK, depth > 0, CheckedFirst, UNCHANGED <<env, misjudged>>,
         NEW pc \in Pcs, pc \notin {"reset", "clean"},
         NEW f \in Frames, f.pc = pc,
         Continue(f) \/ Return \/ \E moved \in BOOLEAN : Copy(f, moved)
  PROVE  CheckedFirst'
<1>1. CASE Continue(f)
  BY <1>1, ContinueFrames DEF CheckedFirst
<1>2. CASE Return
  <2>1. depth \in Nat
    BY TopTyped, Constants
  <2> QED BY <1>2, <2>1, ReturnFrames DEF CheckedFirst
<1>3. ASSUME NEW moved \in BOOLEAN, Copy(f, moved) PROVE CheckedFirst'
  <2>1. depth \in Nat
    BY TopTyped, Constants
  <2>2. [f EXCEPT !.moved = moved].pc = pc
    BY DEF Frames
  <2>3. \A d \in 1 .. depth + 1 : d \in 1 .. depth \/ d = depth + 1
    BY <2>1
  <2>4. /\ depth' = depth + 1 /\ frames'[depth + 1] = [f EXCEPT !.moved = moved]
        /\ \A d \in 1 .. depth : frames'[d] = IF d = depth THEN f ELSE frames[d]
    BY <1>3, CopyFrames
  <2>5. \A d \in 1 .. depth + 1 :
          frames'[d].pc \in {"reset", "clean"} => frames[d].pc = frames'[d].pc /\ d \in 1 .. depth
    BY <2>2, <2>3, <2>4
  <2>6. ASSUME NEW d \in 1 .. depth', frames'[d].pc \in {"reset", "clean"}, env'.inGit
        PROVE  misjudged'
    BY <2>4, <2>5, <2>6 DEF CheckedFirst
  <2> QED BY <2>6 DEF CheckedFirst
<1> QED BY <1>1, <1>2, <1>3

\* The processes that do not touch the repository around the cache.
LEMMA InsideOuter ==
  ASSUME Typed, OuterInv, Step, ~CheckPwd, ~ResetHard, ~CleanTree
  PROVE  OuterInv'
<1>0. TypeOK /\ depth > 0 /\ OuterRepoSafe /\ CheckedFirst
  BY DEF Typed, OuterInv, Step, FetchStep, PatchStep, BuildStep, SkipFetched, CloneBase,
         GitFetch, Rebase, DownloadNamelist, SkipNonGit, UpdateSources, ReadVersion,
         SaveVersions, SkipBuild, Make, EndBuild, Install, AtPkg, AtEnd, At
<1>1. UNCHANGED <<env, outer, misjudged>>
  BY DEF Step, FetchStep, PatchStep, BuildStep, SkipFetched, CloneBase,
         GitFetch, Rebase, DownloadNamelist, SkipNonGit, UpdateSources, ReadVersion,
         SaveVersions, SkipBuild, Make, EndBuild, Install, fixed, world, notes
<1>2. CheckedFirst'
  <2>1. CASE SkipFetched \/ CloneBase \/ Rebase
    <3>1. NextPkg("fetch") \in Frames /\ NextPkg("fetch").pc = "fetch"
      BY <1>0, NextFields DEF Pcs
    <3> QED BY <1>0, <1>1, <2>1, <3>1, ElsewhereOuter DEF SkipFetched, CloneBase, Rebase, Pcs
  <2>2. CASE GitFetch
    <3>1. GoTo("rebase") \in Frames /\ GoTo("rebase").pc = "rebase"
      BY <1>0, NextFields DEF Pcs
    <3> QED BY <1>0, <1>1, <2>2, <3>1, ElsewhereOuter DEF GitFetch, Pcs
  <2>3. CASE DownloadNamelist
    <3> DEFINE f == [GoTo("patch") EXCEPT !.i = 1]
    <3>1. f \in Frames /\ f.pc = "patch"
      BY <1>0, NextFields DEF Pcs
    <3>2. Return \/ Continue(f)
      BY <2>3 DEF DownloadNamelist
    <3> QED BY <1>0, <1>1, <3>1, <3>2, ElsewhereOuter DEF Pcs
  <2>4. CASE SkipNonGit
    <3>1. NextPkg("patch") \in Frames /\ NextPkg("patch").pc = "patch"
      BY <1>0, NextFields DEF Pcs
    <3> QED BY <1>0, <1>1, <2>4, <3>1, ElsewhereOuter DEF SkipNonGit, Pcs
  <2>5. CASE UpdateSources
    <3>1. GoTo("readver") \in Frames /\ GoTo("readver").pc = "readver"
      BY <1>0, NextFields DEF Pcs
    <3> QED BY <1>0, <1>1, <2>5, <3>1, ElsewhereOuter DEF UpdateSources, Pcs
  <2>6. CASE ReadVersion /\ ~Return
    <3> PICK v \in Versions : /\ [NextPkg("patch") EXCEPT !.vers[Pkg] = v] \in Frames
                              /\ Continue([NextPkg("patch") EXCEPT !.vers[Pkg] = v])
      BY <2>6, ReadingTyped
    <3>1. [NextPkg("patch") EXCEPT !.vers[Pkg] = v].pc = "patch"
      BY <1>0, NextFields DEF Pcs, Frames
    <3>2. "patch" \in Pcs /\ "patch" \notin {"reset", "clean"}
      BY DEF Pcs
    <3> QED BY <1>0, <1>1, <3>1, <3>2, ElsewhereOuter
  <2>7. CASE Return
    <3>1. Return
      BY <2>7
    <3>2. Frame("build") \in Frames /\ Frame("build").pc = "build"
      BY FrameTyped DEF Pcs, Frame
    <3>3. "build" \in Pcs /\ "build" \notin {"reset", "clean"}
      BY DEF Pcs
    <3> QED BY <1>0, <1>1, <3>1, <3>2, <3>3, ElsewhereOuter
  <2>8. CASE SkipBuild \/ Make
    <3>1. Noted \in Frames /\ Noted.pc = "build"
      BY <1>0, NotedTyped, TopTyped DEF Noted, NextPkg, Frames
    <3> QED BY <1>0, <1>1, <2>8, <3>1, ElsewhereOuter DEF SkipBuild, Make, Pcs
  <2>9. CASE EndBuild
    <3>1. GoTo("install") \in Frames /\ GoTo("install").pc = "install"
      BY <1>0, NextFields DEF Pcs
    <3> QED BY <1>0, <1>1, <2>9, <3>1, ElsewhereOuter DEF EndBuild, Pcs
  <2> QED BY <2>1, <2>2, <2>3, <2>4, <2>5, <2>6, <2>7, <2>8, <2>9
          DEF Step, FetchStep, PatchStep, BuildStep, SaveVersions, Install
<1> QED BY <1>0, <1>1, <1>2 DEF OuterInv, OuterRepoSafe

\* git status, git reset and git clean.
LEMMA ResettingOuter ==
  ASSUME Typed, OuterInv, CheckPwd \/ ResetHard \/ CleanTree
  PROVE  OuterInv'
<1>0. TypeOK /\ depth > 0 /\ OuterRepoSafe /\ CheckedFirst
  BY DEF Typed, OuterInv, CheckPwd, ResetHard, CleanTree, AtPkg, At
<1>1. depth \in 1 .. depth /\ depth \in Nat /\ Top = frames[depth]
  BY <1>0, TopTyped, Constants DEF Top
<1>2. UNCHANGED env
  BY DEF CheckPwd, ResetHard, CleanTree, fixed, world
<1>3. CASE CheckPwd
  <2>1. UNCHANGED outer /\ (misjudged => misjudged')
    BY <1>3 DEF CheckPwd
  <2>2. \A d \in 1 .. depth' :
          frames'[d] = frames[d] \/ frames'[d].pc \notin {"reset", "clean"}
          \/ ~env.inGit \/ misjudged'
    <3>1. CASE Return
      BY <1>0, <1>1, <3>1, ReturnFrames
    <3>2. CASE Continue(GoTo("reset"))
      <4>1. ~env.inGit \/ misjudged' \/ Return
        BY <1>3 DEF CheckPwd
      <4> QED BY <3>1, <4>1
    <3> QED BY <1>3, <3>1, <3>2 DEF CheckPwd
  <2>3. depth' <= depth
    <3>1. Return \/ Continue(GoTo("reset"))
      BY <1>3 DEF CheckPwd
    <3> QED BY <1>0, <1>1, <3>1, ReturnFrames, ContinueFrames
  <2>4. depth' \in Nat
    <3>1. Return \/ Continue(GoTo("reset"))
      BY <1>3 DEF CheckPwd
    <3> QED BY <1>0, <1>1, <3>1, ReturnFrames, ContinueFrames
  <2>5. ASSUME NEW d \in 1 .. depth', frames'[d].pc \in {"reset", "clean"}, env'.inGit
        PROVE  misjudged'
    <3>1. d \in 1 .. depth
      BY <1>1, <2>3, <2>4
    <3> QED BY <1>0, <1>2, <2>1, <2>2, <2>5, <3>1 DEF CheckedFirst
  <2> QED BY <1>0, <2>1, <2>5 DEF OuterInv, OuterRepoSafe, CheckedFirst
<1>4. CASE ResetHard \/ CleanTree
  <2>1. Top.pc \in {"reset", "clean"} /\ UNCHANGED misjudged
    BY <1>4 DEF ResetHard, CleanTree, AtPkg, At
  <2>2. env.inGit => misjudged
    BY <1>0, <1>1, <2>1 DEF CheckedFirst
  <2>3. outer' => misjudged'
    BY <1>0, <1>4, <2>1, <2>2 DEF ResetHard, CleanTree, OuterRepoSafe
  <2>4. \/ Return
        \/ Continue(GoTo("clean")) \/ Continue(GoTo("gitfetch"))
    BY <1>4 DEF ResetHard, CleanTree
  <2>5. depth' \in Nat /\ depth' <= depth
    BY <1>0, <1>1, <2>4, ReturnFrames, ContinueFrames
  <2>6. ASSUME NEW d \in 1 .. depth', frames'[d].pc \in {"reset", "clean"}, env'.inGit
        PROVE  misjudged'
    BY <1>2, <2>1, <2>2, <2>6
  <2> QED BY <2>3, <2>6 DEF OuterInv, OuterRepoSafe, CheckedFirst
<1> QED BY <1>3, <1>4

\* Nothing has been touched at first.
LEMMA OuterInit == Init => OuterInv
<1> SUFFICES ASSUME Init PROVE OuterInv
  OBVIOUS
<1>1. ~outer /\ depth = 0
  BY DEF Init
<1> QED BY <1>1 DEF OuterInv, OuterRepoSafe, CheckedFirst

\* Every step.
LEMMA OuterStep == Typed /\ OuterInv /\ [Next]_vars => OuterInv'
<1> SUFFICES ASSUME Typed, OuterInv, [Next]_vars PROVE OuterInv'
  OBVIOUS
<1>1. CASE Step
  BY <1>1, InsideOuter, ResettingOuter
<1>2. CASE StartSome
  <2> PICK act \in Actions, reset \in BOOLEAN, sel \in Selections : Start(act, reset, sel)
    BY <1>2 DEF StartSome
  <2>1. UNCHANGED <<outer, misjudged>> /\ depth' = 1
    BY DEF Start, notes
  <2>2. frames'[1] = Frame(IF act = "FETCH" THEN "fetch" ELSE "build")
    <3>1. frames \in [1 .. MaxDepth -> Frames] /\ 1 \in 1 .. MaxDepth
      BY Constants DEF Typed, TypeOK
    <3> QED BY <3>1 DEF Start
  <2>3. frames'[1].pc \notin {"reset", "clean"}
    BY <2>2 DEF Frame
  <2> QED BY <2>1, <2>3 DEF OuterInv, OuterRepoSafe, CheckedFirst
<1>3. CASE Crash
  <2>1. UNCHANGED <<outer, misjudged>> /\ depth' = 0
    BY <1>3 DEF Crash, notes
  <2> QED BY <2>1 DEF OuterInv, OuterRepoSafe, CheckedFirst
<1>4. CASE Release \/ Upstream \/ DeleteCache \/ UNCHANGED vars
  <2>1. UNCHANGED <<env, outer, misjudged, depth, frames>>
    BY <1>4 DEF Release, Upstream, DeleteCache, vars, run, notes, fixed, world
  <2> QED BY <2>1 DEF OuterInv, OuterRepoSafe, CheckedFirst
<1> QED BY <1>1, <1>2, <1>3, <1>4 DEF Next

\* git reset --hard and git clean -ffxd leave a repository around the cache
\* alone, however often they fail, unless git status failed in it.
THEOREM OuterSafe == Spec => []OuterRepoSafe
<1>1. OuterInv => OuterRepoSafe
  BY DEF OuterInv
<1> QED BY <1>1, AlwaysTyped, OuterInit, OuterStep, PTL DEF Spec

-----------------------------------------------------------------------------
(* How a step of the running process leaves it.                             *)

\* The stages a copy left by makepkg can be at, and the ones at which a frame
\* can wait for its copy.
LateStages == {"patch", "readver", "build", "install"}
WaitStages == {"fetch", "readver", "build"}

\* How a step of the running frame leaves it: at its next package or stage.
Going(f) ==
  /\ f.moved = Top.moved
  /\ Top.pc \in LateStages => f.pc \in LateStages
  /\ f.pc \in {"gitfetch", "rebase"} => CleanTree \/ GitFetch
  /\ f.pc = "build" => f = Noted /\ ~Ended /\ Top.pc = "build"
  /\ f.pc = "install" => Ended /\ Top.failed = {} /\ Top.pc = "build"
  /\ \/ Continue(f)
     \/ f.pc \in WaitStages /\ \E moved \in BOOLEAN :
          Copy(f, moved) /\ (moved => f.pc \in LateStages)

\* A note of a missing directory changes neither the place nor the directory
\* of the frame.
LEMMA NotedFields ==
  ASSUME TypeOK, depth > 0
  PROVE  /\ Noted \in Frames /\ Noted.pc = "build" /\ Noted.moved = Top.moved
         /\ Noted.i = Top.i + 1
         /\ Noted.failed = IF Sees(Base) THEN Top.failed ELSE Top.failed \cup {Top.i}
<1>1. Noted \in Frames
  BY NotedTyped
<1>2. /\ NextPkg("build") \in Frames /\ NextPkg("build").pc = "build"
      /\ NextPkg("build").i = Top.i + 1 /\ NextPkg("build").failed = Top.failed
      /\ NextPkg("build").moved = Top.moved
  BY NextFields DEF Pcs
<1>3. Noted = [NextPkg("build") EXCEPT !.failed =
                 IF Sees(Base) THEN Top.failed ELSE Top.failed \cup {Top.i}]
  BY <1>2 DEF Noted
<1> QED BY <1>1, <1>2, <1>3 DEF Frames

\* Every step ends the running process, goes on, or leaves a copy.
LEMMA StepKinds ==
  ASSUME Typed, Step
  PROVE  depth > 0 /\ (Return \/ \E f \in Frames : Going(f))
<1>0. TypeOK /\ depth > 0
  BY DEF Typed, Step, FetchStep, PatchStep, BuildStep, SkipFetched, CloneBase, CheckPwd,
         ResetHard, CleanTree, GitFetch, Rebase, DownloadNamelist, SkipNonGit,
         UpdateSources, ReadVersion, SaveVersions, SkipBuild, Make, EndBuild, Install,
         AtPkg, AtEnd, At
<1>1. CASE SkipFetched \/ CloneBase \/ Rebase
  <2>1. NextPkg("fetch") \in Frames /\ NextPkg("fetch").pc = "fetch"
        /\ NextPkg("fetch").moved = Top.moved
    BY <1>0, NextFields DEF Pcs
  <2>2. Top.pc \in {"fetch", "rebase"}
    BY <1>1 DEF SkipFetched, CloneBase, Rebase, AtPkg, At
  <2>3. Return \/ Continue(NextPkg("fetch")) \/ Copy(NextPkg("fetch"), FALSE)
    BY <1>1 DEF SkipFetched, CloneBase, Rebase
  <2>4. CASE Continue(NextPkg("fetch")) \/ Copy(NextPkg("fetch"), FALSE)
    <3> DEFINE f == NextPkg("fetch")
    <3>1. f.pc = "fetch" /\ f.moved = Top.moved /\ f \in Frames
      BY <2>1
    <3>2. Continue(f) \/ \E moved \in BOOLEAN : Copy(f, moved) /\ ~moved
      BY <2>4
    <3> HIDE DEF f
    <3> QED BY <1>0, <2>2, <3>1, <3>2 DEF Going, LateStages, WaitStages
  <2> QED BY <1>0, <2>3, <2>4
<1>2. CASE CheckPwd
  <2>1. GoTo("reset") \in Frames /\ GoTo("reset").pc = "reset"
        /\ GoTo("reset").moved = Top.moved
    BY <1>0, NextFields DEF Pcs
  <2>2. Top.pc = "fetch" /\ (Return \/ Continue(GoTo("reset")))
    BY <1>2 DEF CheckPwd, AtPkg, At
  <2> QED BY <1>0, <2>1, <2>2 DEF Going, LateStages
<1>3. CASE ResetHard
  <2>1. GoTo("clean") \in Frames /\ GoTo("clean").pc = "clean"
        /\ GoTo("clean").moved = Top.moved
    BY <1>0, NextFields DEF Pcs
  <2>2. Top.pc = "reset" /\ (Return \/ Continue(GoTo("clean")))
    BY <1>3 DEF ResetHard, AtPkg, At
  <2> QED BY <1>0, <2>1, <2>2 DEF Going, LateStages
<1>4. CASE CleanTree
  <2>1. GoTo("gitfetch") \in Frames /\ GoTo("gitfetch").pc = "gitfetch"
        /\ GoTo("gitfetch").moved = Top.moved
    BY <1>0, NextFields DEF Pcs
  <2>2. Top.pc = "clean" /\ (Return \/ Continue(GoTo("gitfetch")))
    BY <1>4 DEF CleanTree, AtPkg, At
  <2> QED BY <1>0, <1>4, <2>1, <2>2 DEF Going, LateStages
<1>5. CASE GitFetch
  <2>1. GoTo("rebase") \in Frames /\ GoTo("rebase").pc = "rebase"
        /\ GoTo("rebase").moved = Top.moved
    BY <1>0, NextFields DEF Pcs
  <2>2. Top.pc = "gitfetch" /\ (Return \/ Continue(GoTo("rebase")))
    BY <1>5 DEF GitFetch, AtPkg, At
  <2> QED BY <1>0, <1>5, <2>1, <2>2 DEF Going, LateStages
<1>6. CASE DownloadNamelist
  <2> DEFINE f == [GoTo("patch") EXCEPT !.i = 1]
  <2>1. f \in Frames /\ f.pc = "patch" /\ f.moved = Top.moved
    BY <1>0, NextFields DEF Pcs
  <2>2. Return \/ Continue(f)
    BY <1>6 DEF DownloadNamelist
  <2> HIDE DEF f
  <2> QED BY <1>0, <2>1, <2>2 DEF Going, LateStages
<1>7. CASE SkipNonGit
  <2>1. NextPkg("patch") \in Frames /\ NextPkg("patch").pc = "patch"
        /\ NextPkg("patch").moved = Top.moved
    BY <1>0, NextFields DEF Pcs
  <2>2. Continue(NextPkg("patch"))
    BY <1>7 DEF SkipNonGit
  <2> QED BY <1>0, <2>1, <2>2 DEF Going, LateStages
<1>8. CASE UpdateSources
  <2>1. GoTo("readver") \in Frames /\ GoTo("readver").pc = "readver"
        /\ GoTo("readver").moved = Top.moved
    BY <1>0, NextFields DEF Pcs
  <2>2. Continue(GoTo("readver")) \/ \E moved \in BOOLEAN : Copy(GoTo("readver"), moved)
    BY <1>8 DEF UpdateSources
  <2> QED BY <1>0, <2>1, <2>2 DEF Going, LateStages, WaitStages
<1>9. CASE ReadVersion
  <2>1. CASE ~Return
    <3> PICK v \in Versions : /\ [NextPkg("patch") EXCEPT !.vers[Pkg] = v] \in Frames
                              /\ Continue([NextPkg("patch") EXCEPT !.vers[Pkg] = v])
      BY <1>9, <2>1, ReadingTyped
    <3> DEFINE f == [NextPkg("patch") EXCEPT !.vers[Pkg] = v]
    <3>1. /\ NextPkg("patch") \in Frames /\ NextPkg("patch").pc = "patch"
          /\ NextPkg("patch").moved = Top.moved
      BY <1>0, NextFields DEF Pcs
    <3>2. f.pc = "patch" /\ f.moved = Top.moved
      BY <3>1 DEF Frames
    <3>3. f \in Frames /\ Continue(f)
      OBVIOUS
    <3> HIDE DEF f
    <3> QED BY <1>0, <3>2, <3>3 DEF Going, LateStages
  <2> QED BY <1>0, <2>1
<1>10. CASE SaveVersions \/ Install
  BY <1>0, <1>10 DEF SaveVersions, Install
<1>11. CASE SkipBuild \/ Make
  <2>1. Top.pc = "build" /\ ~Ended
    BY <1>11 DEF SkipBuild, Make, AtPkg, At
  <2>2. Continue(Noted) \/ \E moved \in BOOLEAN : Copy(Noted, moved)
    BY <1>11 DEF SkipBuild, Make
  <2>3. Noted \in Frames /\ Noted.pc = "build" /\ Noted.moved = Top.moved
    BY <1>0, NotedFields
  <2> QED BY <1>0, <2>1, <2>2, <2>3 DEF Going, LateStages, WaitStages
<1>12. CASE EndBuild
  <2>1. GoTo("install") \in Frames /\ GoTo("install").pc = "install"
        /\ GoTo("install").moved = Top.moved
    BY <1>0, NextFields DEF Pcs
  <2>2. Top.pc = "build" /\ Ended
    BY <1>12 DEF EndBuild, AtEnd, At
  <2>3. Return \/ (Top.failed = {} /\ Continue(GoTo("install")))
    BY <1>12 DEF EndBuild
  <2> QED BY <1>0, <2>1, <2>2, <2>3 DEF Going, LateStages
<1> QED BY <1>1, <1>2, <1>3, <1>4, <1>5, <1>6, <1>7, <1>8, <1>9, <1>10, <1>11, <1>12
        DEF Step, FetchStep, PatchStep, BuildStep

\* Below the running frame nothing changes, and there is one frame more or
\* less at most.
LEMMA GoingFrames ==
  ASSUME TypeOK, depth > 0, NEW f \in Frames, Going(f)
  PROVE  /\ cmd' = cmd /\ depth \in Nat
         /\ \A d \in 1 .. depth : frames'[d] = IF d = depth THEN f ELSE frames[d]
         /\ \/ depth' = depth /\ copies' = copies
            \/ /\ depth' = depth + 1 /\ f.pc \in WaitStages
               /\ \E moved \in BOOLEAN :
                    /\ frames'[depth + 1] = [f EXCEPT !.moved = moved]
                    /\ moved => f.pc \in LateStages /\ copies' = copies
                    /\ ~moved => copies' = copies + 1
<1>0. depth \in Nat
  BY TopTyped, Constants
<1>1. CASE Continue(f)
  <2>1. copies' = copies
    BY <1>1 DEF Continue
  <2> QED BY <1>0, <1>1, <2>1, ContinueFrames
<1>2. ASSUME NEW moved \in BOOLEAN, Copy(f, moved), moved => f.pc \in LateStages,
             f.pc \in WaitStages
      PROVE  /\ cmd' = cmd
             /\ \A d \in 1 .. depth : frames'[d] = IF d = depth THEN f ELSE frames[d]
             /\ depth' = depth + 1 /\ f.pc \in WaitStages
             /\ frames'[depth + 1] = [f EXCEPT !.moved = moved]
             /\ moved => f.pc \in LateStages /\ copies' = copies
             /\ ~moved => copies' = copies + 1
  <2>1. (moved => copies' = copies) /\ (~moved => copies' = copies + 1)
    BY <1>2 DEF Copy
  <2> QED BY <1>2, <2>1, CopyFrames
<1> QED BY <1>0, <1>1, <1>2 DEF Going

-----------------------------------------------------------------------------
(* How often pacman runs.                                                   *)

Unmoved == {d \in 1 .. depth : ~frames[d].moved}

\* The processes in the original directory can be counted.
LEMMA UnmovedFinite ==
  ASSUME TypeOK
  PROVE  IsFiniteSet(Unmoved) /\ Cardinality(Unmoved) \in Nat
<1>1. depth \in Nat
  BY DEF TypeOK
<1>2. IsFiniteSet(1 .. depth)
  BY <1>1, FS_Interval
<1>3. Unmoved \subseteq 1 .. depth
  BY DEF Unmoved
<1> QED BY <1>2, <1>3, FS_Subset, FS_CardinalityType

\* pacman only runs in a process that has not changed its directory, and that
\* process ends with it.
LEMMA InstallCounts ==
  ASSUME Typed, Step
  PROVE  installs' = installs \/ (Return /\ ~Top.moved /\ installs' = installs + 1)
<1>1. CASE Install
  <2>1. ASSUME NEW given, given \subseteq Located, Pacman(given)
        PROVE  installs' = installs \/ (~Top.moved /\ installs' = installs + 1)
    BY <2>1 DEF Pacman, Located, Sees
  <2>2. Return /\ \E given \in SUBSET Located : Pacman(given)
    BY <1>1 DEF Install
  <2> QED BY <2>1, <2>2
<1>2. CASE ~Install
  BY <1>2 DEF Step, FetchStep, PatchStep, BuildStep, SkipFetched, CloneBase, CheckPwd,
         ResetHard, CleanTree, GitFetch, Rebase, DownloadNamelist, SkipNonGit,
         UpdateSources, ReadVersion, SaveVersions, SkipBuild, Make, EndBuild
<1> QED BY <1>1, <1>2

\* A step that runs pacman ends a process; one that adds a process is counted.
LEMMA BoundStep ==
  ASSUME Typed, Step, InstallBound
  PROVE  InstallBound'
<1>0. TypeOK /\ TypeOK' /\ depth > 0 /\ (Return \/ \E f \in Frames : Going(f))
  BY StepKinds, TypedStep DEF Typed, Next
<1>1. /\ installs + Cardinality(Unmoved) <= 1 + copies
      /\ installs \in Nat /\ copies \in Nat /\ depth \in Nat
      /\ installs' \in Nat /\ copies' \in Nat /\ depth' \in Nat
  BY <1>0 DEF InstallBound, Unmoved, TypeOK
<1>2. SUFFICES installs' + Cardinality(Unmoved') <= 1 + copies'
  BY DEF InstallBound, Unmoved
<1>3. IsFiniteSet(Unmoved) /\ Cardinality(Unmoved) \in Nat
  BY <1>0, UnmovedFinite
<1>4. IsFiniteSet(Unmoved') /\ Cardinality(Unmoved') \in Nat
  <2>1. IsFiniteSet(1 .. depth')
    BY <1>1, FS_Interval
  <2>2. Unmoved' \subseteq 1 .. depth'
    BY DEF Unmoved
  <2> QED BY <2>1, <2>2, FS_Subset, FS_CardinalityType
<1>5. CASE Return
  <2>1. copies' = copies /\ Unmoved' = Unmoved \ {depth}
    <3>1. depth' = depth - 1 /\ \A d \in 1 .. depth - 1 : frames'[d] = frames[d]
      BY <1>0, <1>5, ReturnFrames
    <3>2. copies' = copies
      BY <1>5 DEF Return
    <3>3. 1 .. depth - 1 = (1 .. depth) \ {depth}
      BY <1>1
    <3> QED BY <3>1, <3>2, <3>3 DEF Unmoved
  <2>2. CASE installs' = installs
    <3>1. Cardinality(Unmoved') <= Cardinality(Unmoved)
      BY <1>3, <2>1, FS_Subset
    <3> QED BY <1>1, <1>3, <1>4, <2>1, <2>2, <3>1
  <2>3. CASE ~Top.moved /\ installs' = installs + 1
    <3>1. depth \in Unmoved
      BY <1>0, <1>1, <2>3 DEF Unmoved, Top
    <3>2. Cardinality(Unmoved') = Cardinality(Unmoved) - 1
      BY <1>3, <2>1, <3>1, FS_RemoveElement
    <3> QED BY <1>1, <1>3, <1>4, <2>1, <2>3, <3>2
  <2> QED BY <2>2, <2>3, InstallCounts
<1>6. ASSUME NEW f \in Frames, Going(f), ~Return PROVE installs' + Cardinality(Unmoved') <= 1 + copies'
  <2>1. installs' = installs /\ f.moved = Top.moved
    BY <1>6, InstallCounts DEF Going
  <2>2. \A d \in 1 .. depth : frames'[d].moved = frames[d].moved
    BY <1>0, <1>6, <2>1, GoingFrames DEF Top
  <2>3. CASE depth' = depth /\ copies' = copies
    <3>1. Unmoved' = Unmoved
      BY <2>2, <2>3 DEF Unmoved
    <3> QED BY <1>1, <2>1, <2>3, <3>1
  <2>4. ASSUME NEW moved \in BOOLEAN, depth' = depth + 1,
               frames'[depth + 1] = [f EXCEPT !.moved = moved],
               moved => copies' = copies, ~moved => copies' = copies + 1
        PROVE  installs' + Cardinality(Unmoved') <= 1 + copies'
    <3>1. frames'[depth + 1].moved = moved
      BY <2>4 DEF Frames
    <3>2. 1 .. depth + 1 = (1 .. depth) \cup {depth + 1}
      BY <1>1
    <3>3. CASE moved
      <4>1. Unmoved' = Unmoved
        BY <2>2, <2>4, <3>1, <3>2, <3>3 DEF Unmoved
      <4> QED BY <1>1, <2>1, <2>4, <3>3, <4>1
    <3>4. CASE ~moved
      <4>1. Unmoved' = Unmoved \cup {depth + 1}
        BY <2>2, <2>4, <3>1, <3>2, <3>4 DEF Unmoved
      <4>2. depth + 1 \notin Unmoved
        BY <1>1 DEF Unmoved
      <4>3. Cardinality(Unmoved') = Cardinality(Unmoved) + 1
        BY <1>3, <4>1, <4>2, FS_AddElement
      <4> QED BY <1>1, <1>3, <2>1, <2>4, <3>4, <4>3
    <3> QED BY <3>3, <3>4
  <2> QED BY <1>0, <1>6, <2>3, <2>4, GoingFrames
<1> QED BY <1>0, <1>5, <1>6

\* Nothing runs at first.
LEMMA BoundInit == Init => InstallBound
<1> SUFFICES ASSUME Init PROVE InstallBound
  OBVIOUS
<1>1. installs = 0 /\ copies = 0 /\ depth = 0
  BY DEF Init
<1>2. {d \in 1 .. depth : ~frames[d].moved} = {}
  BY <1>1
<1> QED BY <1>1, <1>2, FS_EmptySet DEF InstallBound

\* A command starts with one process that has not run pacman; a kill ends all.
LEMMA BoundAround ==
  ASSUME Typed, InstallBound, StartSome \/ Crash \/ Release \/ Upstream \/ DeleteCache
                              \/ UNCHANGED vars
  PROVE  InstallBound'
<1>0. TypeOK /\ installs \in Nat /\ copies \in Nat /\ depth \in Nat
  BY DEF Typed, TypeOK
<1>1. CASE StartSome
  <2> PICK act \in Actions, reset \in BOOLEAN, sel \in Selections : Start(act, reset, sel)
    BY <1>1 DEF StartSome
  <2>1. depth' = 1 /\ installs' = 0 /\ copies' = 0
    BY DEF Start
  <2>2. Unmoved' \in SUBSET {1} /\ Unmoved' = {d \in 1 .. depth' : ~frames'[d].moved}
    BY <2>1 DEF Unmoved
  <2>3. Cardinality(Unmoved') <= 1
    <3>1. IsFiniteSet({1}) /\ Cardinality({1}) = 1
      BY FS_Singleton
    <3> QED BY <2>2, <3>1, FS_Subset
  <2>4. Cardinality(Unmoved') \in Nat
    <3>1. IsFiniteSet({1})
      BY FS_Singleton
    <3>2. IsFiniteSet(Unmoved')
      BY <2>2, <3>1, FS_Subset
    <3> QED BY <3>2, FS_CardinalityType
  <2> QED BY <2>1, <2>2, <2>3, <2>4 DEF InstallBound
<1>2. CASE Crash
  <2>1. depth' = 0 /\ installs' = installs /\ copies' = copies
    BY <1>2 DEF Crash
  <2>2. {d \in 1 .. depth' : ~frames'[d].moved} = {}
    BY <2>1
  <2>3. installs <= 1 + copies
    <3>1. installs + Cardinality(Unmoved) <= 1 + copies
      BY DEF InstallBound, Unmoved
    <3> QED BY <1>0, <3>1, UnmovedFinite
  <2> QED BY <1>0, <2>1, <2>2, <2>3, FS_EmptySet DEF InstallBound
<1>3. CASE Release \/ Upstream \/ DeleteCache \/ UNCHANGED vars
  <2>1. UNCHANGED <<depth, frames, installs, copies>>
    BY <1>3 DEF Release, Upstream, DeleteCache, vars, run
  <2> QED BY <2>1 DEF InstallBound
<1> QED BY <1>1, <1>2, <1>3

\* pacman -U runs once for a command, and once more at most for each process
\* that a failed exec or chdir left running in the original directory.
THEOREM InstallsBounded == Spec => []InstallBound
<1>1. Typed /\ InstallBound /\ [Next]_vars => InstallBound'
  BY BoundStep, BoundAround DEF Next
<1> QED BY <1>1, AlwaysTyped, BoundInit, PTL DEF Spec

-----------------------------------------------------------------------------
(* What pacman is run over.                                                 *)

\* The build loop has gone past no missing directory without noting it, and
\* has gone past no missing directory at all when it reaches pacman.
Fetched(f, sel, dirs) ==
  /\ f.pc = "build" =>
       \A k \in 1 .. Len(sel) :
         k < f.i => dirs[BaseOf[sel[k]]].st # "absent" \/ f.failed # {}
  /\ f.pc = "install" =>
       \A k \in 1 .. Len(sel) : dirs[BaseOf[sel[k]]].st # "absent"

FetchedFrames == \A d \in 1 .. depth : Fetched(frames[d], cmd.sel, tree)

\* No step of a command removes a directory.
LEMMA TreesStay ==
  ASSUME Typed, Step, NEW b \in Bases, tree[b].st # "absent"
  PROVE  tree'[b].st # "absent"
<1>0. TypeOK /\ tree \in [Bases -> Trees] /\ depth > 0
  BY StepKinds DEF Typed, TypeOK
<1>1. CASE tree' = tree
  BY <1>1
<1>2. ASSUME NEW c \in Bases, NEW t \in Trees, t.st # "absent", tree' = [tree EXCEPT ![c] = t]
      PROVE  tree'[b].st # "absent"
  BY <1>0, <1>2
<1>3. ASSUME NEW c \in Bases, NEW t \in Trees, t.st = tree[c].st, tree' = [tree EXCEPT ![c] = t]
      PROVE  tree'[b].st # "absent"
  BY <1>0, <1>3
<1>4. CASE CloneBase
  <2>1. Base \in Bases
    BY <1>0, <1>4, TopTyped DEF CloneBase, AtPkg
  <2>2. /\ Clone(remote[Base]) \in Trees /\ PartialTree \in Trees
        /\ Clone(remote[Base]).st # "absent" /\ PartialTree.st # "absent"
    BY <2>1, CloneTyped DEF Clone
  <2>3. \/ tree' = tree \/ tree' = [tree EXCEPT ![Base] = Clone(remote[Base])]
        \/ tree' = [tree EXCEPT ![Base] = PartialTree]
    BY <1>4 DEF CloneBase
  <2> QED BY <1>1, <1>2, <2>1, <2>2, <2>3
<1>5. CASE ResetHard
  <2>1. Base \in Bases /\ tree[Base] \in Trees
    BY <1>0, <1>5, TopTyped DEF ResetHard, AtPkg
  <2>2. 0 \in 0 .. MaxCommit /\ 0 \in 0 .. MaxVcs
    BY Constants
  <2>3. /\ [tree[Base] EXCEPT !.work = 0] \in Trees
        /\ [tree[Base] EXCEPT !.work = 0].st = tree[Base].st
    BY <2>1, <2>2, TreeMoves
  <2>4. tree' = tree \/ tree' = [tree EXCEPT ![Base] = [tree[Base] EXCEPT !.work = 0]]
    BY <1>5 DEF ResetHard
  <2> QED BY <1>1, <1>3, <2>1, <2>3, <2>4
<1>6. CASE GitFetch
  <2>1. Base \in Bases /\ tree[Base] \in Trees /\ remote[Base] \in 0 .. MaxCommit
    <3>1. Base \in Bases
      BY <1>0, <1>6, TopTyped DEF GitFetch, AtPkg
    <3>2. remote \in [Bases -> 1 .. MaxCommit]
      BY <1>0 DEF TypeOK
    <3> QED BY <1>0, <3>1, <3>2, Constants
  <2>2. 0 \in 0 .. MaxVcs
    BY Constants
  <2>3. /\ [tree[Base] EXCEPT !.origin = remote[Base]] \in Trees
        /\ [tree[Base] EXCEPT !.origin = remote[Base]].st = tree[Base].st
    BY <2>1, <2>2, TreeMoves
  <2>4. tree' = tree \/ tree' = [tree EXCEPT ![Base] = [tree[Base] EXCEPT !.origin = remote[Base]]]
    BY <1>6 DEF GitFetch
  <2> QED BY <1>1, <1>3, <2>1, <2>3, <2>4
<1>7. CASE Rebase
  <2>1. Base \in Bases /\ tree[Base] \in Trees
    BY <1>0, <1>7, TopTyped DEF Rebase, AtPkg
  <2>2. tree[Base].origin \in 0 .. MaxCommit /\ 0 \in 0 .. MaxVcs
    BY <2>1, Constants DEF Trees
  <2>3. /\ [tree[Base] EXCEPT !.head = tree[Base].origin] \in Trees
        /\ [tree[Base] EXCEPT !.head = tree[Base].origin].st = tree[Base].st
    BY <2>1, <2>2, TreeMoves
  <2>4. tree' = tree \/ tree' = [tree EXCEPT ![Base] = [tree[Base] EXCEPT !.head = tree[Base].origin]]
    BY <1>7 DEF Rebase, AdvancedTree
  <2> QED BY <1>1, <1>3, <2>1, <2>3, <2>4
<1>8. CASE UpdateSources \/ Make
  <2>1. Base \in Bases /\ Refreshed(Base) \in Trees
        /\ Refreshed(Base).st = tree[Base].st
    BY <1>0, <1>8, TopTyped, VersionTyped DEF UpdateSources, Make, AtPkg
  <2>2. \/ tree' = tree \/ tree' = [tree EXCEPT ![Base] = Refreshed(Base)]
        \/ tree' = [tree EXCEPT ![Base] = IF Full(Base) THEN Refreshed(Base) ELSE tree[Base]]
    BY <1>8 DEF UpdateSources, Make, CutBuild
  <2>3. [tree EXCEPT ![Base] = tree[Base]] = tree
    BY <1>0, <2>1
  <2> QED BY <1>1, <1>3, <2>1, <2>2, <2>3
<1>9. CASE SkipFetched \/ CheckPwd \/ CleanTree \/ DownloadNamelist \/ SkipNonGit
           \/ ReadVersion \/ SaveVersions \/ SkipBuild \/ EndBuild \/ Install
  BY <1>1, <1>9 DEF SkipFetched, CheckPwd, CleanTree, DownloadNamelist, SkipNonGit,
                    ReadVersion, SaveVersions, SkipBuild, EndBuild, Install, disk
<1> QED BY <1>4, <1>5, <1>6, <1>7, <1>8, <1>9 DEF Step, FetchStep, PatchStep, BuildStep

\* The running frame as its step leaves it.
LEMMA FetchedOn ==
  ASSUME Typed, Step, FetchedFrames, NEW f \in Frames, Going(f)
  PROVE  Fetched(f, cmd.sel, tree')
<1>0. TypeOK /\ depth > 0 /\ cmd' = cmd /\ depth \in Nat /\ Top = frames[depth]
      /\ Top \in Frames
  BY StepKinds, GoingFrames, TopTyped DEF Typed, Top
<1>1. cmd.sel \in Seq(Pkgs) /\ Len(cmd.sel) \in Nat /\ Top.i \in Nat
  BY <1>0, TopTyped DEF Frames
<1>2. \A k \in 1 .. Len(cmd.sel) : BaseOf[cmd.sel[k]] \in Bases
  BY <1>1, Constants
<1>3. Fetched(Top, cmd.sel, tree)
  BY <1>0 DEF FetchedFrames
<1>4. \A k \in 1 .. Len(cmd.sel) :
        tree[BaseOf[cmd.sel[k]]].st # "absent" => tree'[BaseOf[cmd.sel[k]]].st # "absent"
  BY <1>2, TreesStay
<1>5. CASE f.pc = "build"
  <2>1. f = Noted /\ ~Ended /\ Top.pc = "build"
    BY <1>5 DEF Going
  <2>2. /\ f.i = Top.i + 1
        /\ f.failed = IF Sees(Base) THEN Top.failed ELSE Top.failed \cup {Top.i}
    BY <1>0, <2>1, NotedFields
  <2>3. ASSUME NEW k \in 1 .. Len(cmd.sel), k < f.i, f.failed = {}
        PROVE  tree[BaseOf[cmd.sel[k]]].st # "absent"
    <3>1. Top.failed = {} /\ Sees(Base)
      BY <2>2, <2>3
    <3>2. CASE k < Top.i
      BY <1>3, <2>1, <3>1, <3>2 DEF Fetched
    <3>3. CASE k = Top.i
      BY <3>1, <3>3 DEF Sees, Base, Pkg
    <3> QED BY <1>1, <2>2, <2>3, <3>2, <3>3
  <2> QED BY <1>0, <1>4, <1>5, <2>3 DEF Fetched
<1>6. CASE f.pc = "install"
  <2>1. Ended /\ Top.failed = {} /\ Top.pc = "build"
    BY <1>6 DEF Going
  <2>2. \A k \in 1 .. Len(cmd.sel) : k < Top.i
    BY <1>1, <2>1 DEF Ended
  <2> QED BY <1>0, <1>3, <1>4, <1>6, <2>1, <2>2 DEF Fetched
<1> QED BY <1>5, <1>6 DEF Fetched

\* A frame that waits keeps what it has found.
LEMMA FetchedStays ==
  ASSUME Typed, Step, NEW f, Fetched(f, cmd.sel, tree)
  PROVE  Fetched(f, cmd.sel, tree')
<1>1. cmd.sel \in Seq(Pkgs)
  BY DEF Typed, TypeOK
<1>2. \A k \in 1 .. Len(cmd.sel) : BaseOf[cmd.sel[k]] \in Bases
  BY <1>1, Constants
<1>3. \A k \in 1 .. Len(cmd.sel) :
        tree[BaseOf[cmd.sel[k]]].st # "absent" => tree'[BaseOf[cmd.sel[k]]].st # "absent"
  BY <1>2, TreesStay
<1> QED BY <1>3 DEF Fetched

\* Every step leaves every frame with what it says of the directories.
LEMMA FetchedStep ==
  ASSUME Typed, Step, FetchedFrames
  PROVE  FetchedFrames'
<1>0. /\ TypeOK /\ depth > 0 /\ depth \in Nat
      /\ \A d \in 1 .. depth : Fetched(frames[d], cmd.sel, tree)
  BY StepKinds, TopTyped, Constants DEF Typed, FetchedFrames
<1>1. CASE Return
  <2>1. ASSUME NEW d \in 1 .. depth' PROVE Fetched(frames'[d], cmd'.sel, tree')
    <3>1. depth' = depth - 1 /\ d \in 1 .. depth - 1 /\ depth' > 0
      BY <1>0, <1>1, <2>1, ReturnFrames
    <3>2. cmd' = cmd /\ frames'[d] = frames[d] /\ d \in 1 .. depth
      BY <1>0, <1>1, <3>1, ReturnFrames
    <3> QED BY <1>0, <3>2, FetchedStays
  <2> QED BY <2>1 DEF FetchedFrames
<1>2. ASSUME NEW f \in Frames, Going(f) PROVE FetchedFrames'
  <2>1. Fetched(f, cmd.sel, tree')
    BY <1>0, <1>2, FetchedOn
  <2>2. /\ cmd' = cmd
        /\ \A d \in 1 .. depth : frames'[d] = IF d = depth THEN f ELSE frames[d]
    BY <1>0, <1>2, GoingFrames
  <2>3. \A d \in 1 .. depth : Fetched(frames'[d], cmd.sel, tree')
    BY <1>0, <2>1, <2>2, FetchedStays
  <2>4. CASE depth' = depth
    BY <2>2, <2>3, <2>4 DEF FetchedFrames
  <2>5. ASSUME NEW moved \in BOOLEAN, depth' = depth + 1,
               frames'[depth + 1] = [f EXCEPT !.moved = moved]
        PROVE  FetchedFrames'
    <3>1. [f EXCEPT !.moved = moved].pc = f.pc /\ [f EXCEPT !.moved = moved].i = f.i
          /\ [f EXCEPT !.moved = moved].failed = f.failed
      BY DEF Frames
    <3>2. Fetched(frames'[depth + 1], cmd.sel, tree')
      BY <2>1, <2>5, <3>1 DEF Fetched
    <3>3. 1 .. depth + 1 = (1 .. depth) \cup {depth + 1}
      BY <1>0
    <3> QED BY <2>2, <2>3, <2>5, <3>2, <3>3 DEF FetchedFrames
  <2> QED BY <1>0, <1>2, <2>4, <2>5, GoingFrames
<1> QED BY <1>1, <1>2, StepKinds

\* Nothing is removed between the steps of a command, nor is it changed.
LEMMA FetchedAround ==
  ASSUME Typed, FetchedFrames, StartSome \/ Crash \/ Release \/ Upstream \/ DeleteCache
                               \/ UNCHANGED vars
  PROVE  FetchedFrames'
<1>1. CASE StartSome
  <2> PICK act \in Actions, reset \in BOOLEAN, sel \in Selections : Start(act, reset, sel)
    BY <1>1 DEF StartSome
  <2>1. depth' = 1 /\ frames'[1] = Frame(IF act = "FETCH" THEN "fetch" ELSE "build")
    <3>1. frames \in [1 .. MaxDepth -> Frames] /\ 1 \in 1 .. MaxDepth
      BY Constants DEF Typed, TypeOK
    <3> QED BY <3>1 DEF Start
  <2>2. frames'[1].pc # "install" /\ frames'[1].i = 1
    BY <2>1 DEF Frame
  <2>3. Fetched(frames'[1], cmd'.sel, tree')
    BY <2>2 DEF Fetched
  <2> QED BY <2>1, <2>3 DEF FetchedFrames
<1>2. CASE Crash
  BY <1>2 DEF Crash, FetchedFrames
<1>3. CASE Release \/ Upstream \/ UNCHANGED vars
  <2>1. UNCHANGED <<depth, frames, cmd, tree>>
    BY <1>3 DEF Release, Upstream, vars, run, disk
  <2> QED BY <2>1 DEF FetchedFrames
<1>4. CASE DeleteCache
  <2>1. depth' = 0
    BY <1>4 DEF DeleteCache, run
  <2> QED BY <2>1 DEF FetchedFrames
<1> QED BY <1>1, <1>2, <1>3, <1>4

\* No frame runs at first.
LEMMA FetchedInit == Init => FetchedFrames
BY DEF Init, FetchedFrames

\* aur_perform_action() reaches pacman, in whichever copy of the program it
\* runs, only when every package of the command has a directory in the cache.
THEOREM InstallsFetched == Spec => []InstallNeedsFetched
<1>1. Typed /\ FetchedFrames /\ [Next]_vars => FetchedFrames'
  BY FetchedStep, FetchedAround DEF Next
<1>2. Typed /\ FetchedFrames => InstallNeedsFetched
  <2>1. SUFFICES ASSUME Typed, FetchedFrames, NEW d \in 1 .. depth, frames[d].pc = "install",
                        NEW k \in DOMAIN cmd.sel
                 PROVE  tree[BaseOf[cmd.sel[k]]].st # "absent"
    BY DEF InstallNeedsFetched, Live, SelectedTrees, Chosen
  <2>2. DOMAIN cmd.sel = 1 .. Len(cmd.sel)
    BY DEF Typed, TypeOK
  <2> QED BY <2>1, <2>2 DEF FetchedFrames, Fetched
<1> QED BY <1>1, <1>2, AlwaysTyped, FetchedInit, PTL DEF Spec

-----------------------------------------------------------------------------
(* The files in the cache and the checkout they were built from.            *)

\* A copy left in a base's directory by makepkg never fetches, and a process
\* that waits for its copy is not in the middle of a reset.
StagesOfFrames ==
  /\ \A d \in 1 .. depth : frames[d].moved => frames[d].pc \in LateStages
  /\ \A d \in 1 .. depth - 1 : frames[d].pc \in WaitStages

\* Files lie in working clones, at the commit checked out unless git clean
\* failed there.
Matching ==
  ~env.pkgdest =>
    \A f \in files : /\ tree[BaseOf[f.pkg]].st = "full"
                     /\ BaseOf[f.pkg] \in dirty \/ f.head = tree[BaseOf[f.pkg]].head

\* git fetch and git rebase find the directory empty of built files.
Emptied ==
  depth > 0 /\ Top.pc \in {"gitfetch", "rebase"} /\ ~env.pkgdest =>
    \A f \in files : BaseOf[f.pkg] = Base => BaseOf[f.pkg] \in dirty

FilesInv == StagesOfFrames /\ Matching /\ Emptied

\* Copies are left at the stages that run git clone and makepkg only.
LEMMA StagesStep ==
  ASSUME Typed, Step, StagesOfFrames
  PROVE  StagesOfFrames'
<1>0. /\ TypeOK /\ depth > 0 /\ depth \in Nat /\ Top = frames[depth]
      /\ depth \in 1 .. depth
      /\ \A d \in 1 .. depth : frames[d].moved => frames[d].pc \in LateStages
      /\ \A d \in 1 .. depth - 1 : frames[d].pc \in WaitStages
  BY StepKinds, TopTyped, Constants DEF Typed, StagesOfFrames, Top
<1>1. CASE Return
  <2>1. /\ depth' = depth - 1 /\ depth - 1 \in Nat
        /\ \A d \in 1 .. depth - 1 : frames'[d] = frames[d]
    BY <1>0, <1>1, ReturnFrames
  <2>2. \A d \in 1 .. depth' : d \in 1 .. depth /\ frames'[d] = frames[d]
    BY <1>0, <2>1
  <2>3. \A d \in 1 .. depth' - 1 : d \in 1 .. depth - 1 /\ frames'[d] = frames[d]
    BY <1>0, <2>1
  <2> QED BY <1>0, <2>2, <2>3 DEF StagesOfFrames
<1>2. ASSUME NEW f \in Frames, Going(f) PROVE StagesOfFrames'
  <2>1. f.moved => f.pc \in LateStages
    BY <1>0, <1>2 DEF Going
  <2>2. \A d \in 1 .. depth : frames'[d] = IF d = depth THEN f ELSE frames[d]
    BY <1>0, <1>2, GoingFrames
  <2>3. \A d \in 1 .. depth : frames'[d].moved => frames'[d].pc \in LateStages
    BY <1>0, <2>1, <2>2
  <2>4. \A d \in 1 .. depth - 1 : d \in 1 .. depth /\ d # depth
    BY <1>0
  <2>5. \A d \in 1 .. depth - 1 : frames'[d].pc \in WaitStages
    BY <1>0, <2>2, <2>4
  <2>6. CASE depth' = depth
    BY <2>3, <2>5, <2>6 DEF StagesOfFrames
  <2>7. ASSUME NEW moved \in BOOLEAN, depth' = depth + 1, f.pc \in WaitStages,
               frames'[depth + 1] = [f EXCEPT !.moved = moved],
               moved => f.pc \in LateStages
        PROVE  StagesOfFrames'
    <3>1. [f EXCEPT !.moved = moved].pc = f.pc
          /\ [f EXCEPT !.moved = moved].moved = moved
      BY DEF Frames
    <3>2. frames'[depth + 1].moved => frames'[depth + 1].pc \in LateStages
      BY <2>7, <3>1
    <3>3. \A d \in 1 .. depth + 1 : d \in 1 .. depth \/ d = depth + 1
      BY <1>0
    <3>4. \A d \in 1 .. depth' - 1 : d \in 1 .. depth - 1 \/ d = depth
      BY <1>0, <2>7
    <3>5. frames'[depth].pc \in WaitStages
      BY <1>0, <2>2, <2>7
    <3>6. \A d \in 1 .. depth' : frames'[d].moved => frames'[d].pc \in LateStages
      BY <2>3, <2>7, <3>2, <3>3
    <3>7. \A d \in 1 .. depth' - 1 : frames'[d].pc \in WaitStages
      BY <2>5, <3>4, <3>5
    <3> QED BY <3>6, <3>7 DEF StagesOfFrames
  <2> QED BY <1>0, <1>2, <2>6, <2>7, GoingFrames
<1> QED BY <1>1, <1>2, StepKinds

\* An absent directory has no files, so a clone or what is left of one takes
\* its place unnoticed.
LEMMA AbsentEmpty ==
  ASSUME Typed, StagesOfFrames, Matching, AtPkg("fetch"), ~Sees(Base)
  PROVE  /\ Base \in Bases /\ tree[Base].st = "absent"
         /\ ~env.pkgdest => \A f \in files : BaseOf[f.pkg] # Base
<1>0. TypeOK /\ depth > 0 /\ Base \in Bases
  BY TopTyped DEF Typed, AtPkg, At
<1>1. depth \in 1 .. depth
  BY <1>0, TopTyped, Constants
<1>2. ~Top.moved
  BY <1>1 DEF StagesOfFrames, LateStages, Top, AtPkg, At
<1>3. tree[Base].st = "absent"
  BY <1>2 DEF Sees
<1> QED BY <1>0, <1>3 DEF Matching

\* Files stay matched when none is added and no directory that has one moves.
LEMMA MatchingKept ==
  ASSUME Matching, env' = env, files' \subseteq files, dirty \subseteq dirty',
         \A f \in files : /\ tree'[BaseOf[f.pkg]].st = tree[BaseOf[f.pkg]].st
                          /\ \/ BaseOf[f.pkg] \in dirty
                             \/ tree'[BaseOf[f.pkg]].head = tree[BaseOf[f.pkg]].head
  PROVE  Matching'
BY DEF Matching

\* A step that moves a checkout finds no files built from the old one.
LEMMA MatchingStep ==
  ASSUME Typed, Step, FilesInv
  PROVE  Matching'
<1>0. /\ TypeOK /\ tree \in [Bases -> Trees] /\ files \in SUBSET Builds /\ depth > 0
      /\ Matching /\ Emptied /\ StagesOfFrames /\ depth \in 1 .. depth
  <2>1. TypeOK /\ depth > 0 /\ Matching /\ Emptied /\ StagesOfFrames
    BY StepKinds DEF Typed, FilesInv
  <2>2. depth \in 1 .. depth
    BY <2>1, TopTyped, Constants
  <2> QED BY <2>1, <2>2 DEF TypeOK
<1>1. \A f \in files : BaseOf[f.pkg] \in Bases
  BY <1>0, Constants DEF Builds
<1>2. CASE tree' = tree /\ files' = files /\ dirty' = dirty /\ env' = env
  BY <1>0, <1>2 DEF Matching
<1>3. ASSUME NEW b \in Bases, NEW t \in Trees, t.st = tree[b].st, t.head = tree[b].head,
             tree' = [tree EXCEPT ![b] = t],
             files' = files, dirty' = dirty, env' = env
      PROVE  Matching'
  <2>1. \A c \in Bases : tree'[c].st = tree[c].st /\ tree'[c].head = tree[c].head
    BY <1>0, <1>3
  <2> QED BY <1>0, <1>1, <1>3, <2>1, MatchingKept
<1>4. CASE CloneBase
  <2>1. /\ Base \in Bases /\ tree[Base].st = "absent"
        /\ ~env.pkgdest => \A f \in files : BaseOf[f.pkg] # Base
    BY <1>0, <1>4, AbsentEmpty DEF CloneBase
  <2>2. UNCHANGED <<files, dirty, env>>
    BY <1>4 DEF CloneBase, notes, fixed, world
  <2>3. \A c \in Bases : c # Base => tree'[c] = tree[c]
    BY <1>0, <1>4, <2>1 DEF CloneBase
  <2> QED BY <1>0, <1>1, <2>1, <2>2, <2>3 DEF Matching
<1>5. CASE ResetHard
  <2>1. Base \in Bases /\ tree[Base] \in Trees
    BY <1>0, <1>5, TopTyped DEF ResetHard, AtPkg
  <2>2. 0 \in 0 .. MaxCommit /\ 0 \in 0 .. MaxVcs
    BY Constants
  <2> DEFINE t == [tree[Base] EXCEPT !.work = 0]
  <2>3. t \in Trees /\ t.st = tree[Base].st /\ t.head = tree[Base].head
    BY <2>1, <2>2, TreeMoves
  <2>4. tree' = tree \/ tree' = [tree EXCEPT ![Base] = t]
    BY <1>5 DEF ResetHard
  <2>5. UNCHANGED <<files, dirty, env>>
    BY <1>5 DEF ResetHard, fixed, world
  <2> QED BY <1>2, <1>3, <2>1, <2>3, <2>4, <2>5
<1>6. CASE GitFetch
  <2>1. Base \in Bases /\ tree[Base] \in Trees /\ remote[Base] \in 0 .. MaxCommit
    <3>1. Base \in Bases
      BY <1>0, <1>6, TopTyped DEF GitFetch, AtPkg
    <3>2. remote \in [Bases -> 1 .. MaxCommit]
      BY <1>0 DEF TypeOK
    <3> QED BY <1>0, <3>1, <3>2, Constants
  <2>2. 0 \in 0 .. MaxVcs
    BY Constants
  <2> DEFINE t == [tree[Base] EXCEPT !.origin = remote[Base]]
  <2>3. t \in Trees /\ t.st = tree[Base].st /\ t.head = tree[Base].head
    BY <2>1, <2>2, TreeMoves
  <2>4. tree' = tree \/ tree' = [tree EXCEPT ![Base] = t]
    BY <1>6 DEF GitFetch
  <2>5. UNCHANGED <<files, dirty, env>>
    BY <1>6 DEF GitFetch, notes, fixed, world
  <2> QED BY <1>2, <1>3, <2>1, <2>3, <2>4, <2>5
<1>7. CASE UpdateSources
  <2>1. Base \in Bases /\ Refreshed(Base) \in Trees
        /\ Refreshed(Base).st = tree[Base].st
        /\ Refreshed(Base).head = tree[Base].head
    BY <1>0, <1>7, TopTyped, VersionTyped DEF UpdateSources, AtPkg
  <2>2. tree' = tree \/ tree' = [tree EXCEPT ![Base] = Refreshed(Base)]
    BY <1>7 DEF UpdateSources
  <2>3. UNCHANGED <<files, dirty, env>>
    BY <1>7 DEF UpdateSources, notes, fixed, world
  <2> QED BY <1>2, <1>3, <2>1, <2>2, <2>3
<1>8. CASE Rebase
  <2>1. Base \in Bases /\ tree[Base] \in Trees
    BY <1>0, <1>8, TopTyped DEF Rebase, AtPkg
  <2>2. Top.pc = "rebase" /\ UNCHANGED <<files, dirty, env>>
    BY <1>8 DEF Rebase, AtPkg, At, notes, fixed, world
  <2>3. \A c \in Bases : tree'[c].st = tree[c].st
        /\ (c # Base => tree'[c].head = tree[c].head)
    <3>1. tree' = tree \/ tree' = [tree EXCEPT ![Base] = [tree[Base] EXCEPT !.head = tree[Base].origin]]
      BY <1>8 DEF Rebase, AdvancedTree
    <3>2. [tree[Base] EXCEPT !.head = tree[Base].origin].st = tree[Base].st
      BY <2>1 DEF Trees
    <3> QED BY <1>0, <3>1, <3>2
  <2>4. ~env.pkgdest => \A f \in files : BaseOf[f.pkg] = Base => BaseOf[f.pkg] \in dirty
    BY <1>0, <2>2 DEF Emptied
  <2> QED BY <1>0, <1>1, <2>2, <2>3, <2>4 DEF Matching
<1>9. CASE CleanTree
  <2>1. UNCHANGED <<tree, env>>
    BY <1>9 DEF CleanTree, fixed, world
  <2>2. CASE files' = Cleaned(Base) /\ dirty' = dirty \ {Base}
    BY <1>0, <2>1, <2>2 DEF Cleaned, Matching
  <2>3. CASE files' \subseteq files /\ dirty \subseteq dirty'
    BY <1>0, <2>1, <2>3 DEF Matching
  <2>4. Cleaned(Base) \subseteq files /\ (CutClean => files' \subseteq files)
    BY DEF Cleaned, CutClean
  <2> QED BY <1>9, <2>2, <2>3, <2>4 DEF CleanTree
<1>10. CASE Make
  <2>1. Base \in Bases /\ Refreshed(Base) \in Trees
        /\ Refreshed(Base).st = tree[Base].st
        /\ Refreshed(Base).head = tree[Base].head
    BY <1>0, <1>10, TopTyped, VersionTyped DEF Make, AtPkg
  <2>2. UNCHANGED <<dirty, env>>
    BY <1>10 DEF Make, fixed, world
  <2>3. tree' = tree \/ tree' = [tree EXCEPT ![Base] = Refreshed(Base)]
        \/ tree' = [tree EXCEPT ![Base] = IF Full(Base) THEN Refreshed(Base) ELSE tree[Base]]
    BY <1>10 DEF Make, CutBuild
  <2>4. [tree EXCEPT ![Base] = tree[Base]] = tree
    BY <1>0, <2>1
  <2>5. \A c \in Bases : tree'[c].st = tree[c].st /\ tree'[c].head = tree[c].head
    BY <1>0, <2>1, <2>3, <2>4
  <2>6. \A f \in files' : f \in files \/ (Full(Base) /\ BaseOf[f.pkg] = Base
        /\ f.head = tree[Base].head)
    <3>1. \A f \in Group(Base) : BaseOf[f.pkg] = Base /\ f.head = tree[Base].head
      BY <2>1, GroupFields
    <3>2. files' = files \/ (Full(Base) /\ files' \subseteq files \cup Group(Base))
      BY <1>10 DEF Make, CutBuild
    <3> QED BY <3>1, <3>2
  <2> QED BY <1>0, <1>1, <2>1, <2>2, <2>5, <2>6 DEF Matching, Full
<1>11. CASE SkipFetched \/ CheckPwd \/ DownloadNamelist \/ SkipNonGit
            \/ ReadVersion \/ SaveVersions \/ SkipBuild \/ EndBuild \/ Install
  BY <1>2, <1>11 DEF SkipFetched, CheckPwd, DownloadNamelist, SkipNonGit,
       ReadVersion, SaveVersions, SkipBuild, EndBuild, Install, disk, fixed, world, notes
<1> QED BY <1>4, <1>5, <1>6, <1>7, <1>8, <1>9, <1>10, <1>11
        DEF Step, FetchStep, PatchStep, BuildStep

\* A process is at git fetch only after git clean, and nothing is built meanwhile.
LEMMA EmptiedStep ==
  ASSUME Typed, Step, FilesInv
  PROVE  Emptied'
<1>0. /\ TypeOK /\ depth > 0 /\ depth \in Nat /\ Matching /\ Emptied
      /\ \A d \in 1 .. depth - 1 : frames[d].pc \in WaitStages
  BY StepKinds, TopTyped, Constants DEF Typed, FilesInv, StagesOfFrames
<1>1. CASE Return
  <2>1. SUFFICES ASSUME depth' > 0 PROVE frames'[depth'].pc \in WaitStages
    BY DEF Emptied, Top, WaitStages
  <2>2. depth' = depth - 1 /\ \A d \in 1 .. depth - 1 : frames'[d] = frames[d]
    BY <1>0, <1>1, ReturnFrames
  <2>3. depth - 1 \in 1 .. depth - 1
    BY <1>0, <2>1, <2>2
  <2> QED BY <1>0, <2>2, <2>3
<1>2. ASSUME CleanTree \/ GitFetch, ~Return PROVE Emptied'
  <2>1. PICK pc \in {"gitfetch", "rebase"} : Continue(GoTo(pc))
    BY <1>2 DEF CleanTree, GitFetch
  <2>2. depth \in 1 .. depth
    BY <1>0
  <2>3. depth' = depth /\ cmd' = cmd /\ frames'[depth] = GoTo(pc)
    BY <1>0, <2>1, <2>2, ContinueFrames
  <2>4. Top' = GoTo(pc) /\ GoTo(pc).i = Top.i
    BY <1>0, <2>3, NextFields DEF Top, Pcs
  <2>5. Base' = Base
    BY <2>3, <2>4 DEF Base, Pkg
  <2>6. UNCHANGED env
    BY <1>2 DEF CleanTree, GitFetch, fixed, world
  <2>7. ASSUME ~env.pkgdest, NEW f \in files', BaseOf[f.pkg] = Base PROVE BaseOf[f.pkg] \in dirty'
    <3>1. CASE CleanTree
      <4>1. CASE Full(Base) /\ files' = Cleaned(Base)
        BY <2>7, <4>1 DEF Cleaned
      <4>2. CASE ~Full(Base) /\ files' = files
        BY <1>0, <2>7, <4>2 DEF Matching, Full
      <4>3. CASE dirty' = dirty \cup {Base}
        BY <2>7, <4>3
      <4> QED BY <1>2, <3>1, <4>1, <4>2, <4>3 DEF CleanTree
    <3>2. CASE GitFetch
      <4>1. Top.pc = "gitfetch" /\ files' = files /\ dirty' = dirty
        BY <3>2 DEF GitFetch, AtPkg, At, notes
      <4> QED BY <1>0, <2>7, <4>1 DEF Emptied
    <3> QED BY <1>2, <3>1, <3>2
  <2> QED BY <2>5, <2>6, <2>7 DEF Emptied
<1>3. ASSUME NEW f \in Frames, Going(f), ~CleanTree, ~GitFetch PROVE Emptied'
  <2>1. f.pc \notin {"gitfetch", "rebase"}
    BY <1>3 DEF Going
  <2>2. CASE depth' = depth
    <3>1. Top' = f
      BY <1>0, <1>3, <2>2, GoingFrames DEF Top
    <3> QED BY <2>1, <3>1 DEF Emptied
  <2>3. ASSUME NEW moved \in BOOLEAN, depth' = depth + 1,
               frames'[depth + 1] = [f EXCEPT !.moved = moved]
        PROVE  Emptied'
    <3>1. Top' = [f EXCEPT !.moved = moved]
      BY <2>3 DEF Top
    <3>2. [f EXCEPT !.moved = moved].pc = f.pc
      BY DEF Frames
    <3> QED BY <2>1, <3>1, <3>2 DEF Emptied
  <2> QED BY <1>0, <1>3, <2>2, <2>3, GoingFrames
<1> QED BY <1>1, <1>2, <1>3, StepKinds

\* What happens around a command does not touch files and checkout apart.
LEMMA FilesAround ==
  ASSUME Typed, FilesInv, StartSome \/ Crash \/ Release \/ Upstream \/ DeleteCache
                          \/ UNCHANGED vars
  PROVE  FilesInv'
<1>0. TypeOK /\ tree \in [Bases -> Trees] /\ files \in SUBSET Builds
      /\ StagesOfFrames /\ Matching /\ Emptied
  BY DEF Typed, TypeOK, FilesInv
<1>1. CASE StartSome
  <2> PICK act \in Actions, reset \in BOOLEAN, sel \in Selections : Start(act, reset, sel)
    BY <1>1 DEF StartSome
  <2>1. depth' = 1 /\ frames'[1] = Frame(IF act = "FETCH" THEN "fetch" ELSE "build")
    <3>1. frames \in [1 .. MaxDepth -> Frames] /\ 1 \in 1 .. MaxDepth
      BY <1>0, Constants DEF TypeOK
    <3> QED BY <3>1 DEF Start
  <2>2. frames'[1].pc \in {"fetch", "build"} /\ frames'[1].moved = FALSE
    BY <2>1 DEF Frame
  <2>3. UNCHANGED <<env, files, tree, dirty>>
    BY DEF Start, world, disk, notes
  <2>4. StagesOfFrames'
    BY <2>1, <2>2 DEF StagesOfFrames
  <2>5. Matching'
    BY <1>0, <2>3 DEF Matching
  <2>6. Emptied'
    BY <2>1, <2>2 DEF Emptied, Top
  <2> QED BY <2>4, <2>5, <2>6 DEF FilesInv
<1>2. CASE Crash
  <2>0. \A f \in files : BaseOf[f.pkg] \in Bases
    BY <1>0, Constants DEF Builds
  <2>1. depth' = 0 /\ UNCHANGED <<env, dirty>>
    BY <1>2 DEF Crash, fixed, world
  <2>2. StagesOfFrames' /\ Emptied'
    BY <2>1 DEF StagesOfFrames, Emptied
  <2>3. CASE tree' = tree /\ files' \subseteq files
    BY <1>0, <2>1, <2>2, <2>3 DEF FilesInv, Matching
  <2>4. CASE AtPkg("fetch") /\ ~Sees(Base) /\ files' = files
        /\ tree' = [tree EXCEPT ![Base] = PartialTree]
    <3>2. Base \in Bases /\ (~env.pkgdest => \A f \in files : BaseOf[f.pkg] # Base)
      BY <1>0, <2>4, AbsentEmpty
    <3>3. \A c \in Bases : c # Base => tree'[c] = tree[c]
      BY <1>0, <2>4, <3>2
    <3>4. Matching'
      BY <1>0, <2>0, <2>1, <2>4, <3>2, <3>3 DEF Matching
    <3> QED BY <2>2, <3>4 DEF FilesInv
  <2>5. CASE AtPkg("build") /\ CutBuild
    <3>1. Base \in Bases /\ Full(Base)
      BY <1>0, <2>5, TopTyped DEF AtPkg, At, CutBuild
    <3>2. \A c \in Bases : tree'[c].st = tree[c].st /\ tree'[c].head = tree[c].head
      BY <1>0, <2>5, <3>1, VersionTyped DEF CutBuild
    <3>3. \A f \in files' : f \in files \/ (BaseOf[f.pkg] = Base /\ f.head = tree[Base].head)
      BY <2>5, <3>1, GroupFields DEF CutBuild
    <3>4. Matching'
      BY <1>0, <2>0, <2>1, <3>1, <3>2, <3>3 DEF Matching, Full
    <3> QED BY <2>2, <3>4 DEF FilesInv
  <2>6. CutClean => files' \subseteq files
    BY DEF CutClean, Cleaned
  <2> QED BY <1>2, <2>3, <2>4, <2>5, <2>6 DEF Crash
<1>3. CASE Release \/ Upstream \/ UNCHANGED vars
  <2>1. UNCHANGED <<env, depth, frames, cmd, tree, files, dirty>>
    BY <1>3 DEF Release, Upstream, vars, run, disk, notes, world
  <2> QED BY <1>0, <2>1 DEF FilesInv, StagesOfFrames, Matching, Emptied, Top, Base, Pkg
<1>4. CASE DeleteCache
  <2>1. depth' = 0 /\ UNCHANGED env /\ (~env.pkgdest => files' = {})
    BY <1>4 DEF DeleteCache, run, fixed, world
  <2> QED BY <2>1 DEF FilesInv, StagesOfFrames, Matching, Emptied
<1> QED BY <1>1, <1>2, <1>3, <1>4

\* The cache is empty at first.
LEMMA FilesInit == Init => FilesInv
<1> SUFFICES ASSUME Init PROVE FilesInv
  OBVIOUS
<1>1. files = {} /\ depth = 0
  BY DEF Init
<1> QED BY <1>1 DEF FilesInv, StagesOfFrames, Matching, Emptied

\* The strengthening of FilesMatchCheckout that every step keeps.
LEMMA FilesAlways == Spec => []FilesInv
<1>1. Typed /\ FilesInv /\ [Next]_vars => FilesInv'
  <2>1. ASSUME Typed, FilesInv, Step PROVE FilesInv'
    BY <2>1, StagesStep, MatchingStep, EmptiedStep DEF FilesInv
  <2> QED BY <2>1, FilesAround DEF Next
<1> QED BY <1>1, AlwaysTyped, FilesInit, PTL DEF Spec

\* What lies in the cache was built from the commit checked out there, unless
\* PKGDEST keeps it elsewhere or git clean failed, whatever else fails and
\* however many copies of the program fetch and build.
THEOREM FilesMatch == Spec => []FilesMatchCheckout
<1>1. FilesInv => FilesMatchCheckout
  BY DEF FilesInv, Matching, FilesMatchCheckout
<1> QED BY <1>1, FilesAlways, PTL

-----------------------------------------------------------------------------
(* What pacman installs.                                                    *)

\* A file is made from a commit, and its version tells from which sources.
VersionTells ==
  \A f \in files : /\ f.head > 0
                   /\ f.ver = IF f.work > 0 THEN VcsVer(f.work) ELSE VerOf[f.head]

\* makepkg makes files from the sources it has just refreshed.
LEMMA GroupTells ==
  ASSUME Typed, NEW b \in Bases, Full(b), NEW f \in Group(b)
  PROVE  f.head > 0 /\ f.ver = IF f.work > 0 THEN VcsVer(f.work) ELSE VerOf[f.head]
<1>1. /\ f.ver = Version(Refreshed(b)) /\ f.head = tree[b].head
      /\ f.work = Refreshed(b).work
  BY GroupFields
<1>2. Refreshed(b).st = "full" /\ Refreshed(b).head = tree[b].head /\ tree[b].head > 0
  BY VersionTyped DEF Full, Typed, FullTrees
<1> QED BY <1>1, <1>2 DEF Version

\* Which steps make files: the rest only removes some.
LEMMA FilesMade ==
  ASSUME Typed, [Next]_vars
  PROVE  \/ files' \subseteq files
         \/ Base \in Bases /\ Full(Base) /\ files' \subseteq files \cup Group(Base)
<1>1. CASE Make
  <2>1. Base \in Bases
    BY <1>1, TopTyped DEF Typed, Make, AtPkg, At
  <2> QED BY <1>1, <2>1 DEF Make, CutBuild
<1>2. CASE CleanTree \/ DeleteCache
  BY <1>2 DEF CleanTree, CutClean, DeleteCache, Cleaned
<1>3. CASE Crash
  <2>1. CASE AtPkg("build") /\ CutBuild
    <3>1. Base \in Bases
      BY <2>1, TopTyped DEF Typed, AtPkg, At
    <3> QED BY <2>1, <3>1 DEF CutBuild
  <2>2. CASE CutClean
    BY <2>2 DEF CutClean, Cleaned
  <2> QED BY <1>3, <2>1, <2>2 DEF Crash
<1>4. CASE Step /\ ~Make /\ ~CleanTree
  BY <1>4 DEF Step, FetchStep, PatchStep, BuildStep, SkipFetched, CloneBase, CheckPwd,
         ResetHard, GitFetch, Rebase, DownloadNamelist, SkipNonGit,
         UpdateSources, ReadVersion, SaveVersions, SkipBuild, EndBuild, Install, disk
<1>5. CASE StartSome \/ Release \/ Upstream \/ UNCHANGED vars
  BY <1>5 DEF StartSome, Start, Release, Upstream, vars, disk
<1> QED BY <1>1, <1>2, <1>3, <1>4, <1>5 DEF Next

\* Every step leaves versions that tell.
LEMMA VersionTellsStep ==
  ASSUME Typed, [Next]_vars, VersionTells
  PROVE  VersionTells'
<1>1. CASE files' \subseteq files
  BY <1>1 DEF VersionTells
<1>2. CASE Base \in Bases /\ Full(Base) /\ files' \subseteq files \cup Group(Base)
  BY <1>2, GroupTells DEF VersionTells
<1> QED BY <1>1, <1>2, FilesMade

\* Two builds of one version come from the same upstream version.
LEMMA VersionFixesWork ==
  ASSUME NEW f \in Builds, NEW t \in Trees, t.st = "full", f.head > 0, t.head > 0,
         f.ver = Version(t),
         f.ver = IF f.work > 0 THEN VcsVer(f.work) ELSE VerOf[f.head]
  PROVE  f.work = t.work
<1>1. f.work \in Nat /\ t.work \in Nat /\ f.head \in 1 .. MaxCommit
      /\ t.head \in 1 .. MaxCommit
  BY Constants DEF Builds, Trees
<1>2. VerOf[f.head] \in 1 .. MaxCommit /\ VerOf[t.head] \in 1 .. MaxCommit
  BY <1>1, StagesAssumption
<1>3. Version(t) = IF t.work > 0 THEN VcsVer(t.work) ELSE VerOf[t.head]
  BY DEF Version
<1>4. MaxCommit \in Nat
  BY Constants
<1>5. ASSUME NEW m \in Nat, NEW v \in 1 .. m, NEW w \in 1 .. m, NEW a \in Nat, NEW b \in Nat,
             (IF a > 0 THEN m + a ELSE v) = IF b > 0 THEN m + b ELSE w
      PROVE  a = b
  BY <1>5
<1>6. (IF f.work > 0 THEN MaxCommit + f.work ELSE VerOf[f.head]) =
        IF t.work > 0 THEN MaxCommit + t.work ELSE VerOf[t.head]
  BY <1>3 DEF VcsVer
<1>7. f.work \in Nat /\ t.work \in Nat
  BY <1>1
<1> QED BY ONLY <1>2, <1>4, <1>5, <1>6, <1>7

\* Only pacman changes what is installed.
LEMMA OnlyInstall ==
  ASSUME Next \/ UNCHANGED vars, installed' # installed
  PROVE  Install
BY DEF Next, Step, FetchStep, PatchStep, BuildStep, SkipFetched, CloneBase, CheckPwd,
       ResetHard, CleanTree, GitFetch, Rebase, DownloadNamelist, SkipNonGit, Make,
       UpdateSources, ReadVersion, SaveVersions, SkipBuild, EndBuild, disk,
       StartSome, Start, Crash, Release, Upstream, DeleteCache, vars

\* It changes it to files of the packages at the versions of their checkouts.
LEMMA InstalledStep ==
  ASSUME Typed, FilesInv, VersionTells, [Next]_vars,
         NEW p \in Pkgs, installed'[p] # installed[p]
  PROVE  /\ installed'[p].pkg = p /\ tree[BaseOf[p]].st = "full"
         /\ installed'[p].work = tree[BaseOf[p]].work
         /\ env.pkgdest \/ BaseOf[p] \in dirty
            \/ installed'[p].head = tree[BaseOf[p]].head
<1>0. TypeOK /\ Matching
  BY DEF Typed, FilesInv
<1>1. Install
  BY OnlyInstall
<1>2. PICK given : Pacman(given)
  BY <1>1 DEF Install
<1>3. PICK x \in [given -> files] :
        /\ \A q \in given : x[q] \in Built(q)
        /\ installed' = [q \in Pkgs |-> IF q \in given THEN x[q] ELSE installed[q]]
  BY <1>2 DEF Pacman
<1>4. p \in given /\ installed'[p] = x[p] /\ x[p] \in Built(p)
  BY <1>3
<1> DEFINE f == x[p]
           t == tree[BaseOf[p]]
<1>5. f \in files /\ f \in Builds /\ f.pkg = p /\ f.ver = Version(t)
  BY <1>0, <1>4 DEF Built, TypeOK
<1>6. t \in Trees /\ BaseOf[p] \in Bases
  BY <1>0, Constants DEF TypeOK
<1>7. f.head > 0 /\ f.ver = IF f.work > 0 THEN VcsVer(f.work) ELSE VerOf[f.head]
  BY <1>5 DEF VersionTells
<1>8. t.st = "full"
  <2>1. f.ver # Unreadable
    <3>1. f.head \in 1 .. MaxCommit /\ f.work \in Nat
      BY <1>5, <1>7, Constants DEF Builds
    <3>2. VerOf[f.head] > 0
      <4>1. VerOf \in [1 .. MaxCommit -> 1 .. MaxCommit] /\ MaxCommit \in Nat
        BY StagesAssumption
      <4>2. \A c \in 1 .. MaxCommit : VerOf[c] > 0
        BY <4>1
      <4> HIDE DEF f
      <4> QED BY <3>1, <4>2
    <3>3. f.work > 0 => VcsVer(f.work) > 0
      BY <3>1, Constants DEF VcsVer
    <3> QED BY <1>7, <3>2, <3>3 DEF Unreadable
  <2> QED BY <1>5, <2>1 DEF Version
<1>9. f.work = t.work
  <2>1. t.head > 0
    BY <1>6, <1>8 DEF Typed, FullTrees
  <2> HIDE DEF f, t
  <2> QED BY <1>5, <1>6, <1>7, <1>8, <2>1, VersionFixesWork
<1>10. env.pkgdest \/ BaseOf[p] \in dirty \/ f.head = t.head
  BY <1>0, <1>5 DEF Matching
<1> QED BY <1>4, <1>5, <1>8, <1>9, <1>10

\* What gets installed is a file of that package, built from the upstream version
\* that lies in a working clone and, with the same two exceptions, from the commit
\* checked out there.
THEOREM InstalledMatches == Spec => InstalledFromCheckout
<1>1. Init => VersionTells
  BY DEF Init, VersionTells
<1>2. Typed /\ FilesInv /\ VersionTells /\ [Next]_vars =>
        [\A p \in Pkgs : installed'[p] # installed[p] =>
           LET t == tree[BaseOf[p]]
           IN /\ installed'[p].pkg = p /\ t.st = "full" /\ installed'[p].work = t.work
              /\ env.pkgdest \/ BaseOf[p] \in dirty \/ installed'[p].head = t.head]_vars
  BY InstalledStep
<1> QED BY <1>1, <1>2, VersionTellsStep, AlwaysTyped, FilesAlways, PTL
        DEF Spec, InstalledFromCheckout

\* pacman gets all packages of a command or, when the path of one could not be
\* read in that very step, all but that one; a missing file stops them all.
THEOREM InstallsTogether == Spec => WholeTransaction
<1>1. Typed /\ FetchedFrames /\ [Next]_vars => FetchedFrames'
  BY FetchedStep, FetchedAround DEF Next
<1>2. ASSUME Typed, FetchedFrames, [Next]_vars, installed' # installed, faults' = faults,
             NEW p \in Chosen
      PROVE  installed'[p] \in Built(p)
  <2>1. Install
    BY <1>2, OnlyInstall
  <2>2. Pacman(Located)
    <3>1. ~Fault
      BY <1>2 DEF Fault, Typed, TypeOK
    <3> QED BY <2>1, <3>1 DEF Install
  <2>3. PICK x \in [Located -> files] :
          /\ \A q \in Located : x[q] \in Built(q)
          /\ installed' = [q \in Pkgs |-> IF q \in Located THEN x[q] ELSE installed[q]]
    BY <1>2, <2>2 DEF Pacman
  <2>4. depth > 0 /\ TypeOK /\ cmd.sel \in Seq(Pkgs) /\ frames[depth].pc = "install"
    BY <1>2, <2>1 DEF Install, At, Top, Typed, TypeOK
  <2>5. depth \in 1 .. depth
    BY <2>4, TopTyped, Constants
  <2>6. \A q \in Chosen : q \in Pkgs /\ tree[BaseOf[q]].st # "absent"
    BY <1>2, <2>4, <2>5 DEF FetchedFrames, Fetched, Chosen
  <2>7. ~Top.moved
    <3>1. Located # {}
      BY <1>2, <2>2 DEF Pacman
    <3> QED BY <3>1 DEF Located, Sees
  <2>8. p \in Located /\ p \in Pkgs
    BY <1>2, <2>6, <2>7 DEF Located, Sees
  <2> QED BY <2>3, <2>8
<1>3. Typed /\ FetchedFrames /\ [Next]_vars =>
        [installed' # installed /\ faults' = faults =>
           \A p \in Chosen : installed'[p] \in Built(p)]_vars
  BY <1>2
<1> QED BY <1>1, <1>3, AlwaysTyped, FetchedInit, PTL DEF Spec, WholeTransaction

-----------------------------------------------------------------------------
(* What the build loop has built when nothing fails.                        *)

\* The files of a base that no interruption tore come in whole groups: what one of
\* its packages has a file of, all of them have.
Whole ==
  \A f \in files : BaseOf[f.pkg] \notin torn =>
    \A q \in Pkgs : BaseOf[q] = BaseOf[f.pkg] =>
      \E g \in files : g.pkg = q /\ g.ver = f.ver

\* Files that are removed leave whole groups when they are all of one base.
LEMMA WholeLess ==
  ASSUME Whole, NEW b, torn' = torn \/ torn' = torn \ {b},
         \A f \in files : f \in files' <=> BaseOf[f.pkg] # b,
         files' \subseteq files
  PROVE  Whole'
BY DEF Whole

\* So do files that come in a whole group, and any when the base counts as torn.
LEMMA WholeMore ==
  ASSUME Typed, Whole, NEW b \in Bases, files \subseteq files',
         files' \subseteq files \cup Group(b),
         \/ torn' = torn /\ (files' = files \/ Group(b) \subseteq files')
         \/ torn' = torn \cup {b}
  PROVE  Whole'
<1>1. \A f \in Group(b) : BaseOf[f.pkg] = b /\ f.ver = Version(Refreshed(b))
  BY GroupFields
<1>2. \A q \in Pkgs : BaseOf[q] = b =>
        \E g \in Group(b) : g.pkg = q /\ g.ver = Version(Refreshed(b))
  BY GroupFields
<1>3. CASE torn' = torn /\ files' = files
  BY <1>3 DEF Whole
<1>4. CASE torn' = torn /\ Group(b) \subseteq files'
  <2>1. SUFFICES ASSUME NEW f \in files', BaseOf[f.pkg] \notin torn,
                        NEW q \in Pkgs, BaseOf[q] = BaseOf[f.pkg]
                 PROVE  \E g \in files' : g.pkg = q /\ g.ver = f.ver
    BY <1>4 DEF Whole
  <2>2. CASE f \in files
    BY <2>1, <2>2 DEF Whole
  <2>3. CASE f \in Group(b)
    BY <1>1, <1>2, <1>4, <2>1, <2>3
  <2> QED BY <2>1, <2>2, <2>3
<1>5. CASE torn' = torn \cup {b}
  <2>1. \A f \in files' : BaseOf[f.pkg] \notin torn' => f \in files /\ BaseOf[f.pkg] \notin torn
    BY <1>1, <1>5
  <2> QED BY <2>1 DEF Whole
<1> QED BY <1>3, <1>4, <1>5

\* An interrupted git clean removes nothing, everything, or tears the base.
LEMMA WholeCut ==
  ASSUME Typed, Whole, CutClean, Base \in Bases
  PROVE  Whole'
<1> DEFINE doomed == files \ Cleaned(Base)
<1>1. /\ Cleaned(Base) \subseteq files
      /\ \A f \in doomed : BaseOf[f.pkg] = Base
      /\ doomed # {} => \A f \in files : f \in doomed <=> BaseOf[f.pkg] = Base
  BY DEF Cleaned
<1>2. PICK left \in SUBSET doomed :
        /\ files' = Cleaned(Base) \cup left
        /\ torn' = IF left \in {{}, doomed} THEN torn ELSE torn \cup {Base}
  BY DEF CutClean
<1>3. CASE left = doomed
  <2>1. files' = files /\ torn' = torn
    BY <1>1, <1>2, <1>3
  <2> QED BY <2>1 DEF Whole
<1>4. CASE left = {} /\ doomed # {}
  <2>1. torn' = torn /\ files' \subseteq files
    BY <1>1, <1>2, <1>4
  <2>2. \A f \in files : f \in files' <=> BaseOf[f.pkg] # Base
    BY <1>1, <1>2, <1>4
  <2> QED BY <2>1, <2>2, WholeLess
<1>5. CASE left \notin {{}, doomed}
  <2>1. torn' = torn \cup {Base} /\ files' \subseteq files
    BY <1>1, <1>2, <1>5
  <2>2. \A f \in files : BaseOf[f.pkg] # Base => f \in files'
    BY <1>1, <1>2
  <2>3. SUFFICES ASSUME NEW f \in files', BaseOf[f.pkg] \notin torn',
                        NEW q \in Pkgs, BaseOf[q] = BaseOf[f.pkg]
                 PROVE  \E g \in files' : g.pkg = q /\ g.ver = f.ver
    BY DEF Whole
  <2>4. f \in files /\ BaseOf[f.pkg] \notin torn /\ BaseOf[f.pkg] # Base
    BY <2>1, <2>3
  <2>5. PICK g \in files : g.pkg = q /\ g.ver = f.ver
    BY <2>3, <2>4 DEF Whole
  <2>6. g \in files'
    BY <2>2, <2>3, <2>4, <2>5
  <2> QED BY <2>5, <2>6
<1> QED BY <1>3, <1>4, <1>5

\* Every step leaves whole groups, or tears one.
LEMMA WholeStep ==
  ASSUME Typed, Whole, [Next]_vars
  PROVE  Whole'
<1>0. TypeOK
  BY DEF Typed
<1>1. CASE UNCHANGED <<files, torn>>
  BY <1>1 DEF Whole
<1>2. ASSUME Base \in Bases, CutBuild PROVE Whole'
  <2>1. PICK part \in SUBSET Group(Base) :
          /\ files' = files \cup part
          /\ torn' = IF part \in {{}, Group(Base)} THEN torn ELSE torn \cup {Base}
    BY <1>2 DEF CutBuild
  <2>2. /\ files \subseteq files' /\ files' \subseteq files \cup Group(Base)
        /\ \/ torn' = torn /\ (files' = files \/ Group(Base) \subseteq files')
           \/ torn' = torn \cup {Base}
    BY <2>1
  <2> QED BY <1>2, <2>2, WholeMore
<1>3. CASE Make
  <2>1. Base \in Bases
    BY <1>0, <1>3, TopTyped DEF Make, AtPkg, At
  <2>2. CASE torn' = torn /\ files' = (IF Begun(Base) THEN files ELSE files \cup Group(Base))
    <3>1. /\ files \subseteq files' /\ files' \subseteq files \cup Group(Base)
          /\ files' = files \/ Group(Base) \subseteq files'
      BY <2>2
    <3> QED BY <2>1, <2>2, <3>1, WholeMore
  <2> QED BY <1>1, <1>2, <1>3, <2>1, <2>2 DEF Make
<1>4. CASE CleanTree
  <2>1. Base \in Bases
    BY <1>0, <1>4, TopTyped DEF CleanTree, AtPkg, At
  <2>2. CASE files' = Cleaned(Base) /\ torn' = (IF env.pkgdest THEN torn ELSE torn \ {Base})
    <3>1. CASE env.pkgdest
      BY <1>1, <2>2, <3>1 DEF Cleaned
    <3>2. CASE ~env.pkgdest
      <4>1. /\ files' \subseteq files /\ torn' = torn \ {Base}
            /\ \A f \in files : f \in files' <=> BaseOf[f.pkg] # Base
        BY <2>2, <3>2 DEF Cleaned
      <4> QED BY <4>1, WholeLess
    <3> QED BY <3>1, <3>2
  <2> QED BY <1>1, <1>4, <2>1, <2>2, WholeCut DEF CleanTree
<1>5. CASE Crash
  <2>1. CASE AtPkg("clean") /\ CutClean
    BY <1>0, <2>1, TopTyped, WholeCut DEF AtPkg, At
  <2>2. CASE AtPkg("build") /\ CutBuild
    BY <1>0, <1>2, <2>2, TopTyped DEF AtPkg, At
  <2> QED BY <1>1, <1>5, <2>1, <2>2 DEF Crash
<1>6. CASE DeleteCache
  <2>1. CASE env.pkgdest
    BY <1>1, <1>6, <2>1 DEF DeleteCache
  <2>2. CASE ~env.pkgdest
    <3>1. files' = {}
      BY <1>6, <2>2 DEF DeleteCache
    <3> QED BY <3>1 DEF Whole
  <2> QED BY <2>1, <2>2
<1>7. CASE Step /\ ~Make /\ ~CleanTree
  BY <1>1, <1>7 DEF Step, FetchStep, PatchStep, BuildStep, SkipFetched, CloneBase, CheckPwd,
         ResetHard, GitFetch, Rebase, DownloadNamelist, SkipNonGit,
         UpdateSources, ReadVersion, SaveVersions, SkipBuild, EndBuild, Install, disk, notes
<1>8. CASE StartSome \/ Release \/ Upstream \/ UNCHANGED vars
  BY <1>1, <1>8 DEF StartSome, Start, Release, Upstream, vars, disk, notes
<1> QED BY <1>3, <1>4, <1>5, <1>6, <1>7, <1>8 DEF Next

\* Each package of a base has a file of the current version, unless it was torn.
Provided(b) == b \in torn \/ \A p \in Pkgs : BaseOf[p] = b => Built(p) # {}

\* The bases of the first packages of the command have.
BuiltUpTo(n) ==
  \A k \in 1 .. Len(cmd.sel) :
    k < n /\ Full(BaseOf[cmd.sel[k]]) => Provided(BaseOf[cmd.sel[k]])

\* Without a failure there are no copies, and the packages that the build loop
\* has gone past have been built, all of them when it reaches pacman.
BuiltSoFar ==
  ~faulty =>
    /\ depth \in {0, 1}
    /\ depth = 1 /\ ~Top.moved =>
         /\ Top.pc = "build" => BuiltUpTo(Top.i)
         /\ Top.pc = "install" => BuiltUpTo(Len(cmd.sel) + 1)

\* No step makes a failure undone, and each copy comes from one.
LEMMA Unfailed ==
  ASSUME Typed, Step, ~faulty'
  PROVE  ~faulty /\ Fine /\ (Return \/ \E f \in Frames : Going(f) /\ Continue(f))
<1>1. Fine \/ Fault
  BY DEF Step, FetchStep, PatchStep, BuildStep, SkipFetched, CloneBase, CheckPwd,
         ResetHard, CleanTree, GitFetch, Rebase, DownloadNamelist, SkipNonGit,
         UpdateSources, ReadVersion, SaveVersions, SkipBuild, Make, EndBuild, Install,
         Copy
<1>2. ~Fault
  BY DEF Fault
<1>3. ~faulty /\ Fine
  BY <1>1, <1>2 DEF Fine, budget
<1>4. \A f : \A moved : ~Copy(f, moved)
  BY <1>2 DEF Copy
<1> QED BY <1>3, <1>4, StepKinds DEF Going

\* One file of the current version is enough.
LEMMA OneIsEnough ==
  ASSUME Whole, NEW b, NEW f \in files, BaseOf[f.pkg] = b, f.ver = Version(tree[b])
  PROVE  Provided(b)
BY DEF Whole, Provided, Built

\* makepkg leaves files of the current version when nothing fails.
LEMMA MakeProvides ==
  ASSUME Typed, Whole, Make, Fine, NEW b \in Bases, b = Base, Full(b)
  PROVE  /\ tree' = [tree EXCEPT ![b] = Refreshed(b)]
         /\ torn' = torn /\ files \subseteq files' /\ Provided(b)'
<1>1. tree \in [Bases -> Trees]
  BY DEF Typed, TypeOK
<1>2. ~Fault /\ \A f : \A moved : ~Copy(f, moved)
  BY DEF Fine, budget, Fault, Copy, Typed, TypeOK
<1>3. /\ tree' = [tree EXCEPT ![b] = Refreshed(b)] /\ torn' = torn
      /\ files' = (IF Begun(b) THEN files ELSE files \cup Group(b))
  BY <1>2 DEF Make
<1>4. tree'[b] = Refreshed(b) /\ files \subseteq files'
  BY <1>1, <1>3
<1>5. /\ \A f \in Group(b) : BaseOf[f.pkg] = b /\ f.ver = Version(Refreshed(b))
      /\ \A p \in Pkgs : BaseOf[p] = b =>
           \E f \in Group(b) : f.pkg = p /\ f.ver = Version(Refreshed(b))
  BY GroupFields
<1>6. b \in torn \/ \A p \in Pkgs : BaseOf[p] = b =>
        \E g \in files' : g.pkg = p /\ g.ver = Version(Refreshed(b))
  <2>1. CASE Begun(b)
    <3>1. PICK f \in files : BaseOf[f.pkg] = b /\ f.ver = Version(Refreshed(b))
      BY <1>5, <2>1 DEF Begun
    <3> QED BY <1>4, <3>1 DEF Whole
  <2>2. CASE ~Begun(b)
    BY <1>3, <1>5, <2>2
  <2> QED BY <2>1, <2>2
<1>7. \A p \in Pkgs : BaseOf[p] = b => Version(tree'[BaseOf[p]]) = Version(Refreshed(b))
  BY <1>4
<1> QED BY <1>3, <1>4, <1>6, <1>7 DEF Provided, Built

\* A package the build loop steps over has its file, and building one does not
\* take that of another away.
LEMMA LoopBuilds ==
  ASSUME Typed, Whole, SkipBuild \/ Make, Fine, ~Top.moved, BuiltUpTo(Top.i)
  PROVE  \A b \in Bases : \A k \in 1 .. Len(cmd.sel) :
           b = BaseOf[cmd.sel[k]] /\ k < Top.i + 1 /\ Full(b)' => Provided(b)'
<1>0. /\ TypeOK /\ depth > 0 /\ Base \in Bases /\ cmd.sel \in Seq(Pkgs)
      /\ Top.i \in 1 .. Len(cmd.sel) /\ tree \in [Bases -> Trees] /\ Pkg \in Pkgs
  BY TopTyped DEF Typed, TypeOK, SkipBuild, Make, AtPkg, At
<1>1. CASE SkipBuild \/ ~Full(Base)
  <2>1. UNCHANGED <<tree, files, torn>>
    <3>1. ~Fault /\ \A f : \A moved : ~Copy(f, moved)
      BY <1>0 DEF Fine, budget, Fault, Copy, TypeOK
    <3> QED BY <1>1, <3>1 DEF SkipBuild, Make, disk, notes
  <2>2. Full(Base) => Provided(Base)
    <3>1. SUFFICES ASSUME Full(Base) PROVE Provided(Base)
      OBVIOUS
    <3>2. PICK f \in files : f.pkg = Pkg /\ f.ver = Version(tree[Base])
      BY <1>1, <3>1 DEF SkipBuild, Sees, Full, Built, Base
    <3>3. BaseOf[f.pkg] = Base
      BY <3>2 DEF Base
    <3> QED BY <3>2, <3>3, OneIsEnough
  <2>3. ASSUME NEW b \in Bases, NEW k \in 1 .. Len(cmd.sel),
               b = BaseOf[cmd.sel[k]], k < Top.i + 1, Full(b)
        PROVE  Provided(b)
    <3>1. CASE k = Top.i
      BY <2>2, <2>3, <3>1 DEF Base, Pkg
    <3>2. CASE k < Top.i
      BY <2>3, <3>2 DEF BuiltUpTo
    <3> QED BY <1>0, <2>3, <3>1, <3>2
  <2> QED BY <2>1, <2>3 DEF Provided, Built, Full
<1>2. ASSUME Make, Full(Base), NEW c \in Bases, c = Base,
             NEW b \in Bases, NEW k \in 1 .. Len(cmd.sel),
             b = BaseOf[cmd.sel[k]], k < Top.i + 1, Full(b)'
      PROVE  Provided(b)'
  <2>1. /\ tree' = [tree EXCEPT ![c] = Refreshed(c)]
        /\ torn' = torn /\ files \subseteq files' /\ Provided(c)'
    BY <1>2, MakeProvides
  <2>2. CASE b = c
    BY <2>1, <2>2
  <2>3. CASE b # c
    <3>1. tree'[b] = tree[b] /\ Full(b)
      BY <1>0, <1>2, <2>1, <2>3 DEF Full
    <3>2. k < Top.i
      <4>1. k # Top.i
        BY <1>2, <2>3 DEF Base, Pkg
      <4> QED BY <1>0, <1>2, <4>1
    <3>3. Provided(b)
      BY <1>2, <3>1, <3>2 DEF BuiltUpTo
    <3>4. \A p \in Pkgs : BaseOf[p] = b => Built(p) \subseteq Built(p)'
      BY <2>1, <3>1 DEF Built
    <3> QED BY <2>1, <3>3, <3>4 DEF Provided
  <2> QED BY <2>2, <2>3
<1> QED BY <1>0, <1>1, <1>2

\* A step that does not fail goes on with what has been built.
LEMMA BuiltStep ==
  ASSUME Typed, Whole, Step, BuiltSoFar
  PROVE  BuiltSoFar'
<1>1. SUFFICES ASSUME ~faulty'
               PROVE  /\ depth' \in {0, 1}
                      /\ depth' = 1 /\ ~Top'.moved =>
                           /\ Top'.pc = "build" => BuiltUpTo(Top.i)'
                           /\ Top'.pc = "install" => BuiltUpTo(Len(cmd.sel) + 1)'
  BY DEF BuiltSoFar
<1>2. /\ TypeOK /\ depth > 0 /\ depth = 1 /\ ~faulty /\ Fine
      /\ Return \/ \E f \in Frames : Going(f) /\ Continue(f)
  BY <1>1, Unfailed, StepKinds DEF BuiltSoFar, Typed
<1>3. CASE Return
  BY <1>2, <1>3, ReturnFrames
<1>4. ASSUME NEW f \in Frames, Going(f), Continue(f)
      PROVE  /\ depth' \in {0, 1}
             /\ depth' = 1 /\ ~Top'.moved =>
                  /\ Top'.pc = "build" => BuiltUpTo(Top.i)'
                  /\ Top'.pc = "install" => BuiltUpTo(Len(cmd.sel) + 1)'
  <2>1. depth' = 1 /\ cmd' = cmd /\ Top' = f /\ f.moved = Top.moved /\ Top \in Frames
    <3>1. depth' = 1 /\ cmd' = cmd /\ frames'[1] = f
      BY <1>2, <1>4, ContinueFrames
    <3> QED BY <1>2, <1>4, <3>1, TopTyped DEF Going, Top
  <2>2. cmd.sel \in Seq(Pkgs) /\ Len(cmd.sel) \in Nat /\ Top.i \in Nat
    BY <1>2, <2>1, TopTyped DEF Frames
  <2>3. ASSUME ~f.moved, f.pc = "build"
        PROVE  BuiltUpTo(Top.i)'
    <3>1. f = Noted /\ Top.pc = "build" /\ ~Ended
      BY <1>4, <2>3 DEF Going
    <3>2. f.i = Top.i + 1
      BY <1>2, <3>1, NotedFields
    <3>3. SkipBuild \/ Make
      <4>1. ~EndBuild
        BY <3>1 DEF EndBuild, AtEnd
      <4> QED BY <3>1, <4>1 DEF Step, FetchStep, PatchStep, BuildStep, SkipFetched, CloneBase,
                CheckPwd, ResetHard, CleanTree, GitFetch, Rebase, DownloadNamelist,
                SkipNonGit, UpdateSources, ReadVersion, SaveVersions, Install, AtPkg, AtEnd, At
    <3>4. BuiltUpTo(Top.i)
      BY <1>2, <2>1, <2>3, <3>1 DEF BuiltSoFar
    <3>5. \A b \in Bases : \A k \in 1 .. Len(cmd.sel) :
            b = BaseOf[cmd.sel[k]] /\ k < Top.i + 1 /\ Full(b)' => Provided(b)'
      BY <1>2, <2>1, <2>3, <3>3, <3>4, LoopBuilds
    <3>6. \A k \in 1 .. Len(cmd.sel) : BaseOf[cmd.sel[k]] \in Bases
      BY <2>2, Constants
    <3> QED BY <2>1, <3>2, <3>5, <3>6 DEF BuiltUpTo, Full, Provided, Built
  <2>4. ASSUME ~f.moved, f.pc = "install"
        PROVE  BuiltUpTo(Len(cmd.sel) + 1)'
    <3>1. Ended /\ Top.pc = "build"
      BY <1>4, <2>4 DEF Going
    <3>2. EndBuild
      BY <3>1 DEF Step, FetchStep, PatchStep, BuildStep, SkipFetched, CloneBase,
                CheckPwd, ResetHard, CleanTree, GitFetch, Rebase, DownloadNamelist,
                SkipNonGit, UpdateSources, ReadVersion, SaveVersions, SkipBuild, Make,
                Install, AtPkg, AtEnd, At
    <3>3. UNCHANGED <<tree, files, torn>>
      BY <3>2 DEF EndBuild, disk, notes
    <3>4. BuiltUpTo(Top.i) /\ \A k \in 1 .. Len(cmd.sel) : k < Top.i
      BY <1>2, <2>1, <2>2, <2>4, <3>1 DEF BuiltSoFar, Ended
    <3> QED BY <2>1, <3>3, <3>4 DEF BuiltUpTo, Full, Provided, Built
  <2> QED BY <2>1, <2>3, <2>4
<1> QED BY <1>2, <1>3, <1>4

\* A command starts with nothing to have built; a kill and what goes on
\* outside leave no process or change no file.
LEMMA BuiltAround ==
  ASSUME Typed, BuiltSoFar, StartSome \/ Crash \/ Release \/ Upstream \/ DeleteCache
                            \/ UNCHANGED vars
  PROVE  BuiltSoFar'
<1>1. CASE StartSome
  <2> PICK act \in Actions, reset \in BOOLEAN, sel \in Selections : Start(act, reset, sel)
    BY <1>1 DEF StartSome
  <2>1. depth' = 1 /\ frames'[1] = Frame(IF act = "FETCH" THEN "fetch" ELSE "build")
    <3>1. frames \in [1 .. MaxDepth -> Frames] /\ 1 \in 1 .. MaxDepth
      BY Constants DEF Typed, TypeOK
    <3> QED BY <3>1 DEF Start
  <2>2. Top'.pc # "install" /\ Top'.i = 1
    BY <2>1 DEF Frame, Top
  <2>3. BuiltUpTo(Top.i)'
    BY <2>2 DEF BuiltUpTo
  <2> QED BY <2>1, <2>2, <2>3 DEF BuiltSoFar
<1>2. CASE Crash \/ DeleteCache
  <2>1. depth' = 0
    BY <1>2 DEF Crash, DeleteCache, run
  <2> QED BY <2>1 DEF BuiltSoFar
<1>3. CASE Release \/ Upstream \/ UNCHANGED vars
  <2>1. UNCHANGED <<depth, frames, cmd, tree, files, torn, faulty>>
    BY <1>3 DEF Release, Upstream, vars, run, disk, notes, budget
  <2> QED BY <2>1 DEF BuiltSoFar, BuiltUpTo, Full, Provided, Built, Top
<1> QED BY <1>1, <1>2, <1>3

\* When nothing failed, pacman is handed files of every package of the command, at
\* the version its PKGBUILD states by then, if the bases are working clones and no
\* build or clean of them was interrupted before.
THEOREM InstallsBuilt == Spec => []BuiltBeforeInstall
<1>1. Init => Whole /\ BuiltSoFar
  BY DEF Init, Whole, BuiltSoFar
<1>2. Typed /\ Whole /\ BuiltSoFar /\ [Next]_vars => Whole' /\ BuiltSoFar'
  BY WholeStep, BuiltStep, BuiltAround DEF Next
<1>3. Typed /\ BuiltSoFar => BuiltBeforeInstall
  <2>1. SUFFICES ASSUME Typed, BuiltSoFar, NEW d \in 1 .. depth,
                        frames[d].pc = "install", ~frames[d].moved, ~faulty,
                        \A t \in SelectedTrees : t.st = "full",
                        NEW k \in DOMAIN cmd.sel, BaseOf[cmd.sel[k]] \notin torn
                 PROVE  Built(cmd.sel[k]) # {}
    BY DEF BuiltBeforeInstall, Live, Chosen
  <2>2. cmd.sel \in Seq(Pkgs) /\ k \in 1 .. Len(cmd.sel) /\ Len(cmd.sel) \in Nat
        /\ cmd.sel[k] \in Pkgs
    BY <2>1 DEF Typed, TypeOK
  <2>3. depth = 1 /\ d = 1
    BY <2>1 DEF BuiltSoFar
  <2>4. BuiltUpTo(Len(cmd.sel) + 1)
    BY <2>1, <2>3 DEF BuiltSoFar, Top
  <2>5. Full(BaseOf[cmd.sel[k]])
    BY <2>1 DEF SelectedTrees, Chosen, Full
  <2>6. Provided(BaseOf[cmd.sel[k]])
    BY <2>2, <2>4, <2>5 DEF BuiltUpTo
  <2> QED BY <2>1, <2>2, <2>6 DEF Provided
<1> QED BY <1>1, <1>2, <1>3, AlwaysTyped, PTL DEF Spec

-----------------------------------------------------------------------------
(* The stages implement PackageLifecycle.                                   *)

\* The bases with a directory, which PackageLifecycle calls fetched.
Present == {b \in Bases : tree[b].st # "absent"}

\* What git and makepkg do in a directory leaves it one.
LEMMA PresentStays ==
  ASSUME Typed, ResetHard \/ GitFetch \/ Rebase \/ UpdateSources \/ Make
  PROVE  Present' = Present
<1>0. TypeOK /\ tree \in [Bases -> Trees] /\ Base \in Bases
  BY TopTyped DEF Typed, TypeOK, ResetHard, GitFetch, Rebase, UpdateSources, Make, AtPkg, At
<1>1. tree[Base] \in Trees /\ Refreshed(Base).st = tree[Base].st
  BY <1>0, VersionTyped
<1>2. \/ tree' = tree
      \/ \E t : t.st = tree[Base].st /\ tree' = [tree EXCEPT ![Base] = t]
  <2>1. CASE tree' = [tree EXCEPT ![Base] = Refreshed(Base)]
    BY <1>1, <2>1
  <2>2. CASE \/ tree' = [tree EXCEPT ![Base].work = 0]
             \/ tree' = [tree EXCEPT ![Base].origin = remote[Base]]
             \/ tree' = [tree EXCEPT ![Base].head = tree[Base].origin]
    <3>1. /\ [tree[Base] EXCEPT !.work = 0].st = tree[Base].st
          /\ [tree[Base] EXCEPT !.origin = remote[Base]].st = tree[Base].st
          /\ [tree[Base] EXCEPT !.head = tree[Base].origin].st = tree[Base].st
      BY <1>1 DEF Trees
    <3> QED BY <2>2, <3>1
  <2> QED BY <2>1, <2>2 DEF ResetHard, GitFetch, Rebase, AdvancedTree, UpdateSources, Make,
                            CutBuild
<1>3. \A b \in Bases : tree'[b].st = tree[b].st
  BY <1>0, <1>2
<1> QED BY <1>3 DEF Present

\* git clone, whole or not, adds the directory of one base.
LEMMA CloneFetches ==
  ASSUME Typed, CloneBase \/ (Crash /\ ~CutBuild)
  PROVE  Present' = Present \/ \E b \in Bases : Present' = Present \cup {b}
<1>0. TypeOK /\ tree \in [Bases -> Trees]
  BY DEF Typed, TypeOK
<1>1. CASE tree' = tree
  BY <1>1 DEF Present
<1>2. ASSUME AtPkg("fetch"), NEW t, t.st # "absent", tree' = [tree EXCEPT ![Base] = t]
      PROVE  \E b \in Bases : Present' = Present \cup {b}
  <2>1. Base \in Bases
    BY <1>0, <1>2, TopTyped DEF AtPkg, At
  <2>2. \A b \in Bases : tree'[b] = IF b = Base THEN t ELSE tree[b]
    BY <1>0, <1>2, <2>1
  <2> QED BY <1>2, <2>1, <2>2 DEF Present
<1>3. PartialTree.st # "absent" /\ Clone(remote[Base]).st # "absent"
  BY DEF PartialTree, NoTree, Clone
<1> QED BY <1>1, <1>2, <1>3 DEF CloneBase, Crash

\* What pacman installs are files of bases that have a directory.
LEMMA PacmanInstalls ==
  ASSUME Typed, Install
  PROVE  \/ installed' = installed
         \/ \E P \in SUBSET Pkgs : \E x \in [P -> files] :
              /\ \A p \in P : x[p].pkg = p /\ BaseOf[p] \in Present
              /\ installed' = [p \in Pkgs |-> IF p \in P THEN x[p] ELSE installed[p]]
<1>1. PICK given \in SUBSET Located : Pacman(given)
  BY DEF Install
<1>2. \A p \in given : p \in Pkgs /\ BaseOf[p] \in Present
  <2>1. cmd.sel \in Seq(Pkgs)
    BY DEF Typed, TypeOK
  <2>2. Chosen \subseteq Pkgs
    BY <2>1 DEF Chosen
  <2> QED BY <2>2, Constants DEF Located, Sees, Present
<1>3. CASE installed' # installed
  <2>1. PICK x \in [given -> files] :
          /\ \A p \in given : x[p] \in Built(p)
          /\ installed' = [p \in Pkgs |-> IF p \in given THEN x[p] ELSE installed[p]]
    BY <1>1, <1>3 DEF Pacman
  <2>2. \A p \in given : x[p].pkg = p
    BY <2>1 DEF Built
  <2> QED BY <1>2, <2>1, <2>2
<1> QED BY <1>3

\* Every step fetches a base, builds a file of a fetched one, discards files,
\* installs files of fetched bases, wipes the cache, or is none of its concern.
LEMMA LifecycleStep ==
  ASSUME Typed, [Next]_vars
  PROVE  Lifecycle!Next \/ UNCHANGED Lifecycle!vars
<1>1. CASE CloneBase \/ (Crash /\ UNCHANGED files /\ ~CutBuild)
  <2>1. UNCHANGED <<files, installed>>
    BY <1>1 DEF CloneBase, Crash
  <2> QED BY <1>1, <2>1, CloneFetches DEF Present, Lifecycle!Next, Lifecycle!Fetch, Lifecycle!vars
<1>2. CASE ResetHard \/ GitFetch \/ Rebase \/ UpdateSources
  <2>1. UNCHANGED <<files, installed>>
    BY <1>2 DEF ResetHard, GitFetch, Rebase, UpdateSources
  <2> QED BY <1>2, <2>1, PresentStays DEF Present, Lifecycle!vars
<1>3. CASE Make \/ (Crash /\ AtPkg("build") /\ CutBuild)
  <2>0. TypeOK /\ tree \in [Bases -> Trees] /\ Base \in Bases
    BY <1>3, TopTyped DEF Typed, TypeOK, Make, Crash, AtPkg, At
  <2>1. UNCHANGED installed /\ Present' = Present
    <3>1. CASE Make
      BY <3>1, PresentStays DEF Make
    <3>2. CASE Crash /\ CutBuild
      <4>1. tree' = [tree EXCEPT ![Base] = Refreshed(Base)] /\ UNCHANGED installed
        BY <3>2 DEF Crash, CutBuild
      <4>2. \A b \in Bases : tree'[b].st = tree[b].st
        BY <2>0, <4>1, VersionTyped
      <4> QED BY <4>1, <4>2 DEF Present
    <3> QED BY <1>3, <3>1, <3>2
  <2>2. files' = files \/ (files \subseteq files' /\ files' \subseteq files \cup Group(Base)
                           /\ Full(Base))
    BY <1>3 DEF Make, CutBuild
  <2>3. Full(Base) => Base \in Present
    BY <2>0 DEF Full, Present
  <2>4. Group(Base) \subseteq {x \in Builds : BaseOf[x.pkg] = Base}
    BY <2>0, GroupTyped, GroupFields
  <2>5. CASE files' = files
    BY <2>1, <2>5 DEF Present, Lifecycle!vars
  <2>6. CASE files \subseteq files' /\ files' \subseteq files \cup Group(Base) /\ Full(Base)
    <3>1. Base \in Present /\ files' \ files \subseteq {x \in Builds : BaseOf[x.pkg] = Base}
      BY <2>3, <2>4, <2>6
    <3> QED BY <2>1, <2>6, <3>1 DEF Present, Lifecycle!Next, Lifecycle!Build
  <2> QED BY <2>2, <2>5, <2>6
<1>4. CASE CleanTree \/ (Crash /\ AtPkg("clean") /\ CutClean /\ UNCHANGED tree)
  <2>1. UNCHANGED <<tree, installed>> /\ files' \in SUBSET files
    BY <1>4 DEF CleanTree, Crash, CutClean, Cleaned
  <2> QED BY <2>1 DEF Lifecycle!Next, Lifecycle!Discard
<1>9. CASE Crash
  <2>1. CASE UNCHANGED files /\ ~CutBuild
    BY <1>1, <1>9, <2>1
  <2>2. CASE UNCHANGED <<tree, files>>
    BY <1>9, <2>2 DEF Crash, Lifecycle!vars
  <2>3. CASE AtPkg("fetch") /\ UNCHANGED files /\ tree' = [tree EXCEPT ![Base] = PartialTree]
             /\ ~Sees(Base)
    <3>1. ~CutBuild
      <4>1. tree \in [Bases -> Trees] /\ Base \in Bases
        BY <2>3, TopTyped DEF Typed, TypeOK, AtPkg, At
      <4>2. tree'[Base].st = "partial"
        BY <2>3, <4>1 DEF PartialTree, NoTree
      <4> QED BY <4>1, <4>2, VersionTyped DEF CutBuild, Full
    <3> QED BY <1>1, <1>9, <2>3, <3>1
  <2> QED BY <1>3, <1>4, <1>9, <2>1, <2>2, <2>3 DEF Crash
<1>5. CASE Install
  <2>1. UNCHANGED <<tree, files>>
    BY <1>5 DEF Install
  <2>2. Present' = Present
    BY <2>1 DEF Present
  <2> QED BY <1>5, <2>1, <2>2, PacmanInstalls
          DEF Present, Lifecycle!Next, Lifecycle!Install, Lifecycle!vars
<1>6. CASE DeleteCache
  <2>1. UNCHANGED installed /\ files' \in SUBSET files /\ tree' = [b \in Bases |-> NoTree]
    BY <1>6 DEF DeleteCache
  <2>2. Present' = {}
    BY <2>1 DEF Present, NoTree
  <2> QED BY <2>1, <2>2 DEF Present, Lifecycle!Next, Lifecycle!Wipe
<1>7. CASE UNCHANGED <<tree, files, installed>>
  BY <1>7 DEF Lifecycle!vars
<1>8. CASE SkipFetched \/ CheckPwd \/ DownloadNamelist \/ SkipNonGit \/ ReadVersion
           \/ SaveVersions \/ SkipBuild \/ EndBuild \/ StartSome \/ Release \/ Upstream
           \/ UNCHANGED vars
  BY <1>7, <1>8 DEF SkipFetched, CheckPwd, DownloadNamelist, SkipNonGit, ReadVersion,
     SaveVersions, SkipBuild, EndBuild, StartSome, Start, Release, Upstream, vars, disk
<1> QED BY <1>1, <1>2, <1>3, <1>4, <1>5, <1>6, <1>8, <1>9
        DEF Next, Step, FetchStep, PatchStep, BuildStep

\* For any packages, commands, failures and copies of the program, a package is
\* built after its base was fetched and installed from a file that was built,
\* and one pacman transaction is one step of PackageLifecycle.
THEOREM KeepsOrder == Spec => StagesInOrder
<1>1. Init => Lifecycle!Init
  BY DEF Init, Lifecycle!Init, NoTree
<1>2. Typed /\ [Next]_vars => [Lifecycle!Next]_(Lifecycle!vars)
  BY LifecycleStep
<1> QED BY <1>1, <1>2, AlwaysTyped, PTL DEF Spec, StagesInOrder, Lifecycle!Spec

-----------------------------------------------------------------------------
(* What a fetch brings when nothing fails.                                  *)

\* A command starts with the AUR and the upstreams as they were.
CommandPast == \A b \in Bases : cmd.remote[b] <= remote[b] /\ cmd.vcs[b] <= vcs[b]

\* The base's clone, if it is one, is as new as the AUR was when c started.
Newest(b, c, dirs) == dirs[b].st = "full" => dirs[b].head >= c.remote[b]

\* The clones of the first packages of command c are.
Reached(n, c, dirs) ==
  \A k \in 1 .. Len(c.sel) : k < n => Newest(BaseOf[c.sel[k]], c, dirs)

\* A step leaves each clone at its commit or takes it to one as new as the AUR.
Advances(c, dirs, dirs2) ==
  \A b \in Bases :
    Newest(b, c, dirs2) \/ (dirs2[b].st = dirs[b].st /\ dirs2[b].head = dirs[b].head)

\* The version of a -git package with a clone is as new as its upstream was.
Fresh(p, c, dirs, vers) ==
  p \in GitPkgs /\ dirs[BaseOf[p]].st = "full" => vers[p] >= VcsVer(c.vcs[BaseOf[p]])

\* The versions of the first packages of command c are.
Recorded(n, c, dirs, vers) ==
  \A k \in 1 .. Len(c.sel) : k < n => Fresh(c.sel[k], c, dirs, vers)

\* A step makes no working clone and spoils none; it notes one version.
SameClones(dirs, dirs2) == \A b \in Bases : dirs2[b].st = dirs[b].st
OnlyOf(p, vers, vers2) == \A q \in Pkgs : q # p => vers2[q] = vers[q]

\* A frame of a fetch with --reset, outside any repository: git fetch works in
\* a clean working clone, git rebase in one that is fetched too.
Resetting(f, c, dirs) ==
  /\ f.pc \in {"fetch", "reset", "clean", "gitfetch", "rebase"} /\ Reached(f.i, c, dirs)
  /\ f.pc # "fetch" => f.i <= Len(c.sel) /\ dirs[BaseOf[c.sel[f.i]]].st # "absent"
  /\ f.pc \in {"clean", "gitfetch", "rebase"} /\ dirs[BaseOf[c.sel[f.i]]].st = "full" =>
       dirs[BaseOf[c.sel[f.i]]].work = 0
  /\ f.pc = "rebase" =>
       /\ dirs[BaseOf[c.sel[f.i]]].st = "full"
       /\ dirs[BaseOf[c.sel[f.i]]].origin >= c.remote[BaseOf[c.sel[f.i]]]

\* A frame of a fetch without it: versions are read in refreshed clones.
Patching(f, c, dirs) ==
  /\ f.pc \in {"fetch", "patch", "readver"}
  /\ f.pc # "fetch" => Recorded(f.i, c, dirs, f.vers)
  /\ f.pc = "readver" =>
       /\ f.i <= Len(c.sel) /\ c.sel[f.i] \in GitPkgs
       /\ dirs[BaseOf[c.sel[f.i]]].st = "full" =>
            dirs[BaseOf[c.sel[f.i]]].work >= c.vcs[BaseOf[c.sel[f.i]]]

FetchSoFar ==
  ~faulty /\ depth > 0 =>
    /\ depth = 1 /\ ~Top.moved
    /\ cmd.act = "FETCH" /\ ~cmd.reset => Patching(Top, cmd, tree)
    /\ cmd.act = "FETCH" /\ cmd.reset /\ ~env.inGit => Resetting(Top, cmd, tree)

\* What was as new as the AUR stays so.
LEMMA ReachedStays ==
  ASSUME NEW c \in Commands, NEW dirs, NEW dirs2, NEW n,
         Advances(c, dirs, dirs2), Reached(n, c, dirs)
  PROVE  Reached(n, c, dirs2)
<1>1. \A k \in 1 .. Len(c.sel) : BaseOf[c.sel[k]] \in Bases
  BY Constants DEF Commands
<1>2. ASSUME NEW k \in 1 .. Len(c.sel), k < n PROVE Newest(BaseOf[c.sel[k]], c, dirs2)
  <2>1. Newest(BaseOf[c.sel[k]], c, dirs)
    BY <1>2 DEF Reached
  <2> QED BY <1>1, <2>1 DEF Advances, Newest
<1> QED BY <1>2 DEF Reached

\* The loop goes past a package whose clone is as new as the AUR was.
LEMMA ReachedNext ==
  ASSUME NEW c \in Commands, NEW dirs, NEW n \in Nat, Reached(n, c, dirs),
         Newest(BaseOf[c.sel[n]], c, dirs)
  PROVE  Reached(n + 1, c, dirs)
<1>1. \A k \in Nat : k < n + 1 => k < n \/ k = n
  OBVIOUS
<1> QED BY <1>1 DEF Reached, Commands

\* Without a failure the process goes on alone.
LEMMA FineSteps ==
  ASSUME Typed, FetchSoFar, Step, ~faulty'
  PROVE  /\ ~faulty /\ depth = 1 /\ ~Top.moved /\ ~Fault
         /\ \A f : \A moved : ~Copy(f, moved)
         /\ Return \/ \E f \in Frames : Going(f) /\ Continue(f)
<1>1. /\ ~faulty /\ depth > 0 /\ (Return \/ \E f \in Frames : Going(f) /\ Continue(f))
  BY Unfailed, StepKinds
<1>2. ~Fault /\ \A f : \A moved : ~Copy(f, moved)
  BY DEF Fault, Copy
<1> QED BY <1>1, <1>2 DEF FetchSoFar

\* A fetch with --reset, step by step.
LEMMA ResettingStep ==
  ASSUME Typed, CommandPast, Step, ~Fault, \A f : \A moved : ~Copy(f, moved),
         depth = 1, ~Top.moved, cmd.reset, ~env.inGit, Resetting(Top, cmd, tree)
  PROVE  Return \/ \E f \in Frames : Continue(f) /\ Resetting(f, cmd, tree')
<1>0. /\ TypeOK /\ depth > 0 /\ cmd \in Commands /\ Top \in Frames /\ Top.i \in Nat
      /\ tree \in [Bases -> Trees] /\ Len(cmd.sel) \in Nat
  BY TopTyped DEF Typed, TypeOK, Commands, Frames
<1>10. Reached(Top.i, cmd, tree)
  BY DEF Resetting
<1>1. CASE CloneBase
  <2>1. /\ ~Ended /\ Base \in Bases /\ Continue(NextPkg("fetch"))
        /\ tree' = [tree EXCEPT ![Base] = Clone(remote[Base])]
    BY <1>0, <1>1, TopTyped DEF CloneBase, AtPkg, At
  <2>2. /\ NextPkg("fetch") \in Frames /\ NextPkg("fetch").pc = "fetch"
        /\ NextPkg("fetch").i = Top.i + 1
    BY <1>0, NextFields DEF Pcs
  <2>3. tree'[Base] = Clone(remote[Base]) /\ \A b \in Bases : b # Base => tree'[b] = tree[b]
    BY <1>0, <2>1
  <2>4. Newest(Base, cmd, tree')
    BY <2>1, <2>3 DEF Clone, CommandPast, Newest
  <2>5. Advances(cmd, tree, tree')
    BY <2>3, <2>4 DEF Advances
  <2>6. Reached(Top.i + 1, cmd, tree')
    BY <1>0, <1>10, <2>4, <2>5, ReachedStays, ReachedNext DEF Base, Pkg
  <2> QED BY <2>1, <2>2, <2>6 DEF Resetting
<1>2. CASE CheckPwd
  <2>1. ~Ended /\ tree[Base].st # "absent" /\ tree' = tree /\ (Return \/ Continue(GoTo("reset")))
    BY <1>2 DEF CheckPwd, AtPkg, At, Sees, disk
  <2>2. GoTo("reset") \in Frames /\ GoTo("reset").pc = "reset" /\ GoTo("reset").i = Top.i
    BY <1>0, NextFields DEF Pcs
  <2> QED BY <1>0, <2>1, <2>2 DEF Resetting, Base, Pkg, Ended
<1>3. CASE ResetHard
  <2>1. ~Ended /\ Base \in Bases /\ Top.pc = "reset" /\ Continue(GoTo("clean"))
        /\ \/ Full(Base) /\ tree' = [tree EXCEPT ![Base].work = 0]
           \/ ~Full(Base) /\ tree' = tree
    BY <1>0, <1>3, TopTyped DEF ResetHard, AtPkg, At
  <2>2. GoTo("clean") \in Frames /\ GoTo("clean").pc = "clean" /\ GoTo("clean").i = Top.i
    BY <1>0, NextFields DEF Pcs
  <2>3. /\ tree'[Base].st = tree[Base].st /\ tree'[Base].head = tree[Base].head
        /\ tree'[Base].st = "full" => tree'[Base].work = 0
        /\ \A b \in Bases : b # Base => tree'[b] = tree[b]
    <3>1. CASE tree' = [tree EXCEPT ![Base].work = 0]
      <4>1. tree'[Base] = [tree[Base] EXCEPT !.work = 0] /\ tree[Base] \in Trees
        BY <1>0, <2>1, <3>1
      <4> QED BY <1>0, <3>1, <4>1 DEF Trees
    <3> QED BY <2>1, <3>1 DEF Full
  <2>4. Reached(Top.i, cmd, tree')
    <3>1. Advances(cmd, tree, tree')
      BY <2>3 DEF Advances
    <3> QED BY <1>0, <1>10, <3>1, ReachedStays
  <2> QED BY <1>0, <2>1, <2>2, <2>3, <2>4 DEF Resetting, Base, Pkg, Ended
<1>4. CASE CleanTree
  <2>1. Top.pc = "clean" /\ tree' = tree /\ Continue(GoTo("gitfetch"))
    BY <1>4 DEF CleanTree, AtPkg, At
  <2>2. GoTo("gitfetch") \in Frames /\ GoTo("gitfetch").pc = "gitfetch"
        /\ GoTo("gitfetch").i = Top.i
    BY <1>0, NextFields DEF Pcs
  <2> QED BY <2>1, <2>2 DEF Resetting
<1>5. CASE GitFetch /\ ~Return
  <2>1. ~Ended /\ Base \in Bases /\ Top.pc = "gitfetch" /\ Continue(GoTo("rebase"))
        /\ Full(Base) /\ tree' = [tree EXCEPT ![Base].origin = remote[Base]]
    BY <1>0, <1>5, TopTyped DEF GitFetch, AtPkg, At
  <2>2. GoTo("rebase") \in Frames /\ GoTo("rebase").pc = "rebase" /\ GoTo("rebase").i = Top.i
    BY <1>0, NextFields DEF Pcs
  <2>3. /\ tree'[Base].st = "full" /\ tree'[Base].head = tree[Base].head
        /\ tree'[Base].work = tree[Base].work /\ tree'[Base].origin = remote[Base]
        /\ \A b \in Bases : b # Base => tree'[b] = tree[b]
    <3>1. tree'[Base] = [tree[Base] EXCEPT !.origin = remote[Base]] /\ tree[Base] \in Trees
      BY <1>0, <2>1
    <3> QED BY <1>0, <2>1, <3>1 DEF Trees, Full
  <2>4. Reached(Top.i, cmd, tree')
    <3>1. Advances(cmd, tree, tree')
      BY <2>1, <2>3 DEF Advances, Full
    <3> QED BY <1>0, <1>10, <3>1, ReachedStays
  <2>5. tree'[Base].origin >= cmd.remote[Base] /\ tree'[Base].work = 0
    BY <1>0, <2>1, <2>3 DEF CommandPast, Resetting, Full, Base, Pkg
  <2> QED BY <1>0, <2>1, <2>2, <2>3, <2>4, <2>5 DEF Resetting, Base, Pkg, Ended
<1>6. CASE Rebase /\ ~Return
  <2>1. ~Ended /\ Base \in Bases /\ Top.pc = "rebase" /\ Continue(NextPkg("fetch"))
        /\ tree' = AdvancedTree(Base)
    BY <1>0, <1>6, TopTyped DEF Rebase, AtPkg, At
  <2>2. /\ NextPkg("fetch") \in Frames /\ NextPkg("fetch").pc = "fetch"
        /\ NextPkg("fetch").i = Top.i + 1
    BY <1>0, NextFields DEF Pcs
  <2>3. tree'[Base].head = tree[Base].origin /\ \A b \in Bases : b # Base => tree'[b] = tree[b]
    <3>1. tree'[Base] = [tree[Base] EXCEPT !.head = tree[Base].origin] /\ tree[Base] \in Trees
      BY <1>0, <2>1 DEF AdvancedTree
    <3> QED BY <1>0, <2>1, <3>1 DEF Trees, AdvancedTree
  <2>4. Newest(Base, cmd, tree')
    BY <2>1, <2>3 DEF Resetting, Base, Pkg, Newest
  <2>5. Advances(cmd, tree, tree')
    BY <2>3, <2>4 DEF Advances
  <2>6. Reached(Top.i + 1, cmd, tree')
    BY <1>0, <1>10, <2>4, <2>5, ReachedStays, ReachedNext DEF Base, Pkg
  <2> QED BY <2>1, <2>2, <2>6 DEF Resetting
<1>7. CASE SkipFetched \/ DownloadNamelist
  BY <1>7 DEF SkipFetched, DownloadNamelist
<1>8. Top.pc \in {"fetch", "reset", "clean", "gitfetch", "rebase"}
  BY DEF Resetting
<1>9. ~PatchStep /\ ~BuildStep
  BY <1>8 DEF PatchStep, BuildStep, SkipNonGit, UpdateSources, ReadVersion, SaveVersions,
              SkipBuild, Make, EndBuild, Install, AtPkg, AtEnd, At
<1> QED BY <1>1, <1>2, <1>3, <1>4, <1>5, <1>6, <1>7, <1>9 DEF Step, FetchStep

\* No directory changes from a working clone to something else or back.
LEMMA RecordedStays ==
  ASSUME NEW c \in Commands, NEW dirs, NEW dirs2, NEW n, NEW vers,
         SameClones(dirs, dirs2), Recorded(n, c, dirs, vers)
  PROVE  Recorded(n, c, dirs2, vers)
<1>1. \A k \in 1 .. Len(c.sel) : BaseOf[c.sel[k]] \in Bases
  BY Constants DEF Commands
<1>2. ASSUME NEW k \in 1 .. Len(c.sel), k < n PROVE Fresh(c.sel[k], c, dirs2, vers)
  <2>1. Fresh(c.sel[k], c, dirs, vers)
    BY <1>2 DEF Recorded
  <2> QED BY <1>1, <2>1 DEF Fresh, SameClones
<1> QED BY <1>2 DEF Recorded

\* One package is read, or need not be, and the loop goes past it.
LEMMA RecordedNext ==
  ASSUME NEW c \in Commands, NEW dirs, NEW n \in Nat, NEW vers, NEW vers2,
         Recorded(n, c, dirs, vers), OnlyOf(c.sel[n], vers, vers2),
         Fresh(c.sel[n], c, dirs, vers2)
  PROVE  Recorded(n + 1, c, dirs, vers2)
<1>1. \A k \in 1 .. Len(c.sel) : c.sel[k] \in Pkgs
  BY DEF Commands
<1>2. ASSUME NEW k \in 1 .. Len(c.sel), k < n + 1, c.sel[k] # c.sel[n]
      PROVE  Fresh(c.sel[k], c, dirs, vers2)
  <2>1. k < n
    <3>1. k # n
      BY <1>2
    <3> QED BY <1>2, <3>1
  <2>2. Fresh(c.sel[k], c, dirs, vers)
    BY <2>1 DEF Recorded
  <2>3. vers2[c.sel[k]] = vers[c.sel[k]]
    BY <1>1, <1>2 DEF OnlyOf
  <2> QED BY <2>2, <2>3 DEF Fresh
<1>3. ASSUME NEW k \in 1 .. Len(c.sel), k < n + 1 PROVE Fresh(c.sel[k], c, dirs, vers2)
  BY <1>2, <1>3
<1> QED BY <1>3 DEF Recorded

\* A refreshed working clone states a version as new as the upstream was.
LEMMA VersionOfClone ==
  ASSUME Typed, NEW b \in Bases, Full(b), tree[b].work >= cmd.vcs[b]
  PROVE  Version(tree[b]) >= VcsVer(cmd.vcs[b])
<1>1. tree[b].work \in Nat /\ cmd.vcs[b] \in Nat \ {0} /\ MaxCommit \in Nat
  BY Constants DEF Typed, TypeOK, Trees
<1>2. Version(tree[b]) = MaxCommit + tree[b].work
  BY <1>1 DEF Version, VcsVer, Full
<1> QED BY <1>1, <1>2 DEF VcsVer

\* A fetch without --reset, step by step.
LEMMA PatchingStep ==
  ASSUME Typed, CommandPast, Step, ~Fault, \A f : \A moved : ~Copy(f, moved),
         depth = 1, ~Top.moved, ~cmd.reset, Patching(Top, cmd, tree)
  PROVE  Return \/ \E f \in Frames : Continue(f) /\ Patching(f, cmd, tree')
<1>0. /\ TypeOK /\ depth > 0 /\ cmd \in Commands /\ Top \in Frames /\ Top.i \in Nat
      /\ tree \in [Bases -> Trees] /\ Len(cmd.sel) \in Nat
  BY TopTyped DEF Typed, TypeOK, Commands, Frames
<1>1. CASE CloneBase \/ SkipFetched
  <2>1. Continue(NextPkg("fetch"))
    BY <1>1 DEF CloneBase, SkipFetched
  <2>2. NextPkg("fetch") \in Frames /\ NextPkg("fetch").pc = "fetch"
    BY <1>0, NextFields DEF Pcs
  <2> QED BY <2>1, <2>2 DEF Patching
<1>2. CASE DownloadNamelist
  <2> DEFINE f == [GoTo("patch") EXCEPT !.i = 1]
  <2>1. f \in Frames /\ f.pc = "patch" /\ f.i = 1
    <3>1. GoTo("patch") \in Frames /\ f \in Frames /\ f.pc = "patch"
      BY <1>0, NextFields DEF Pcs
    <3> QED BY <3>1 DEF Frames
  <2>2. Continue(f)
    BY <1>2 DEF DownloadNamelist
  <2>3. Recorded(1, cmd, tree', f.vers)
    BY DEF Recorded
  <2> HIDE DEF f
  <2> QED BY <2>1, <2>2, <2>3 DEF Patching
<1>3. CASE SkipNonGit
  <2>1. Top.pc = "patch" /\ Pkg \notin GitPkgs /\ tree' = tree /\ Continue(NextPkg("patch"))
    BY <1>3 DEF SkipNonGit, AtPkg, At, disk
  <2>2. /\ NextPkg("patch") \in Frames /\ NextPkg("patch").pc = "patch"
        /\ NextPkg("patch").i = Top.i + 1 /\ NextPkg("patch").vers = Top.vers
    <3>1. NextPkg("patch").vers = Top.vers
      BY <1>0 DEF NextPkg, Frames
    <3> QED BY <1>0, <3>1, NextFields DEF Pcs
  <2>3. Recorded(Top.i + 1, cmd, tree, Top.vers)
    <3>1. Recorded(Top.i, cmd, tree, Top.vers)
      BY <2>1 DEF Patching
    <3>2. Fresh(Pkg, cmd, tree, Top.vers) /\ OnlyOf(Pkg, Top.vers, Top.vers)
      BY <2>1 DEF Fresh, OnlyOf
    <3> QED BY <1>0, <3>1, <3>2, RecordedNext DEF Pkg
  <2> QED BY <2>1, <2>2, <2>3 DEF Patching
<1>4. CASE UpdateSources
  <2>1. /\ Top.pc = "patch" /\ ~Ended /\ Pkg \in GitPkgs /\ Base \in Bases
        /\ Continue(GoTo("readver"))
    BY <1>0, <1>4, TopTyped DEF UpdateSources, AtPkg, At
  <2>2. /\ GoTo("readver") \in Frames /\ GoTo("readver").pc = "readver"
        /\ GoTo("readver").i = Top.i /\ GoTo("readver").vers = Top.vers
    <3>1. GoTo("readver").vers = Top.vers
      BY <1>0 DEF GoTo, Frames
    <3> QED BY <1>0, <3>1, NextFields DEF Pcs
  <2>3. /\ \A b \in Bases : tree'[b].st = tree[b].st
        /\ tree'[Base].st = "full" => tree'[Base].work >= cmd.vcs[Base]
    <3>1. CASE tree' = [tree EXCEPT ![Base] = Refreshed(Base)]
      <4>1. Base \in GitBases
        BY <2>1 DEF GitBases, Base
      <4>2. Refreshed(Base).st = tree[Base].st /\ Refreshed(Base).work = vcs[Base]
        BY <1>0, <2>1, <4>1 DEF Refreshed, Trees
      <4>3. \A b \in Bases : tree'[b] = IF b = Base THEN Refreshed(Base) ELSE tree[b]
        BY <1>0, <3>1
      <4> QED BY <2>1, <4>2, <4>3 DEF CommandPast
    <3>2. CASE ~Full(Base) /\ tree' = tree
      BY <3>2 DEF Full
    <3> QED BY <1>4, <3>1, <3>2 DEF UpdateSources, Sees, Full
  <2>4. Recorded(Top.i, cmd, tree', Top.vers)
    <3>1. Recorded(Top.i, cmd, tree, Top.vers)
      BY <2>1 DEF Patching
    <3>2. SameClones(tree, tree')
      BY <2>3 DEF SameClones
    <3> QED BY <1>0, <3>1, <3>2, RecordedStays
  <2> QED BY <1>0, <2>1, <2>2, <2>3, <2>4 DEF Patching, Base, Pkg, Ended
<1>5. CASE ReadVersion
  <2>1. Top.pc = "readver" /\ tree' = tree
    <3>1. Top.pc = "readver"
      BY <1>5 DEF ReadVersion, AtPkg, At
    <3>2. UNCHANGED <<fixed, disk, installs, notes>>
      BY <1>5 DEF ReadVersion
    <3> QED BY <3>1, <3>2 DEF disk
  <2>2. ~Ended /\ Pkg \in GitPkgs /\ (Full(Base) => tree[Base].work >= cmd.vcs[Base])
    BY <1>0, <2>1 DEF Patching, Ended, Pkg, Base, Full
  <2>3. Base \in Bases /\ Pkg \in Pkgs
    BY <1>0, <2>2, TopTyped
  <2>4. PICK v : /\ Continue([NextPkg("patch") EXCEPT !.vers[Pkg] = v])
                 /\ Full(Base) => v = Version(tree[Base])
    BY <1>5 DEF ReadVersion, Sees, Full
  <2> DEFINE f == [NextPkg("patch") EXCEPT !.vers[Pkg] = v]
  <2>5. /\ NextPkg("patch") \in Frames /\ NextPkg("patch").pc = "patch"
        /\ NextPkg("patch").i = Top.i + 1 /\ NextPkg("patch").vers = Top.vers
    <3>1. NextPkg("patch").vers = Top.vers
      BY <1>0 DEF NextPkg, Frames
    <3> QED BY <1>0, <3>1, NextFields DEF Pcs
  <2>6. f.pc = "patch" /\ f.i = Top.i + 1 /\ f.vers = [Top.vers EXCEPT ![Pkg] = v]
    BY <2>5 DEF Frames
  <2>7. f.vers[Pkg] = v /\ \A p \in Pkgs : p # Pkg => f.vers[p] = Top.vers[p]
    <3>1. Top.vers \in [Pkgs -> Versions \cup {NoVersion}]
      BY <1>0 DEF Frames
    <3> HIDE DEF f
    <3> QED BY <2>3, <2>6, <3>1
  <2> HIDE DEF f
  <2>8. Full(Base) => f.vers[Pkg] >= VcsVer(cmd.vcs[Base])
    BY <2>2, <2>3, <2>4, <2>7, VersionOfClone
  <2>9. Recorded(Top.i + 1, cmd, tree, f.vers)
    <3>1. Recorded(Top.i, cmd, tree, Top.vers)
      BY <2>1 DEF Patching
    <3>2. Fresh(Pkg, cmd, tree, f.vers) /\ OnlyOf(Pkg, Top.vers, f.vers)
      BY <2>7, <2>8 DEF Fresh, OnlyOf, Full, Base
    <3> QED BY <1>0, <3>1, <3>2, RecordedNext DEF Pkg
  <2>10. Continue(f) /\ f \in Frames
    <3>1. Continue(f)
      BY <2>4 DEF f
    <3>2. Return \/ \E g \in Frames : Continue(g)
      BY <1>5, ReadingTyped
    <3>3. CASE Return
      BY <3>1, <3>3, <1>0, TopTyped DEF Return, Continue
    <3>4. ASSUME NEW g \in Frames, Continue(g) PROVE f \in Frames
      <4>1. frames' = [frames EXCEPT ![depth] = f] /\ frames' = [frames EXCEPT ![depth] = g]
        BY <3>1, <3>4 DEF Continue
      <4>2. frames'[depth] = f /\ frames'[depth] = g
        BY <1>0, <4>1, TopTyped DEF TypeOK
      <4> QED BY <4>2
    <3> QED BY <3>1, <3>2, <3>3, <3>4
  <2> QED BY <2>1, <2>6, <2>9, <2>10 DEF Patching
<1>6. CASE SaveVersions
  BY <1>6 DEF SaveVersions
<1>7. Top.pc \in {"fetch", "patch", "readver"}
  BY DEF Patching
<1>8. ~BuildStep /\ ~CheckPwd /\ ~ResetHard /\ ~CleanTree /\ ~GitFetch /\ ~Rebase
  BY <1>7 DEF BuildStep, SkipBuild, Make, EndBuild, Install, CheckPwd, ResetHard, CleanTree,
              GitFetch, Rebase, AtPkg, AtEnd, At
<1> QED BY <1>1, <1>2, <1>3, <1>4, <1>5, <1>6, <1>8 DEF Step, FetchStep, PatchStep

\* A step that does not fail goes on with what has been fetched.
LEMMA FetchSoFarStep ==
  ASSUME Typed, CommandPast, FetchSoFar, Step
  PROVE  FetchSoFar'
<1>1. SUFFICES ASSUME ~faulty', depth' > 0
               PROVE  /\ depth' = 1 /\ ~Top'.moved
                      /\ cmd'.act = "FETCH" /\ ~cmd'.reset => Patching(Top, cmd, tree)'
                      /\ cmd'.act = "FETCH" /\ cmd'.reset /\ ~env'.inGit =>
                           Resetting(Top, cmd, tree)'
  BY DEF FetchSoFar
<1>2. /\ TypeOK /\ depth = 1 /\ ~faulty /\ ~Top.moved /\ ~Fault
      /\ \A f : \A moved : ~Copy(f, moved)
      /\ Return \/ \E f \in Frames : Going(f) /\ Continue(f)
  BY <1>1, FineSteps DEF Typed
<1>3. ~Return
  BY <1>1, <1>2, ReturnFrames
<1>4. PICK f \in Frames : Going(f) /\ Continue(f)
  BY <1>2, <1>3
<1>5. ASSUME NEW g, Continue(g) PROVE g = f /\ Top' = g /\ depth' = 1 /\ cmd' = cmd
  <2>1. depth' = 1 /\ cmd' = cmd /\ frames'[1] = g
    BY <1>2, <1>5, ContinueFrames
  <2>2. frames'[1] = f
    BY <1>2, <1>4, ContinueFrames
  <2> QED BY <2>1, <2>2 DEF Top
<1>6. Top' = f /\ f.moved = Top.moved /\ depth' = 1 /\ cmd' = cmd
  BY <1>4, <1>5 DEF Going
<1>7. env' = env
  BY DEF Step, FetchStep, PatchStep, BuildStep, SkipFetched, CloneBase, CheckPwd,
         ResetHard, CleanTree, GitFetch, Rebase, DownloadNamelist, SkipNonGit,
         UpdateSources, ReadVersion, SaveVersions, SkipBuild, Make, EndBuild, Install,
         fixed, world
<1>8. ASSUME cmd.act = "FETCH", ~cmd.reset PROVE Patching(f, cmd, tree')
  <2>1. Patching(Top, cmd, tree)
    BY <1>2, <1>8 DEF FetchSoFar
  <2> QED BY <1>2, <1>3, <1>5, <1>8, <2>1, PatchingStep
<1>9. ASSUME cmd.act = "FETCH", cmd.reset, ~env.inGit PROVE Resetting(f, cmd, tree')
  <2>1. Resetting(Top, cmd, tree)
    BY <1>2, <1>9 DEF FetchSoFar
  <2> QED BY <1>2, <1>3, <1>5, <1>9, <2>1, ResettingStep
<1>10. Patching(Top, cmd, tree)' <=> Patching(f, cmd, tree')
  BY <1>6 DEF Patching, Recorded, Fresh
<1>11. Resetting(Top, cmd, tree)' <=> Resetting(f, cmd, tree')
  BY <1>6 DEF Resetting, Reached, Newest
<1> QED BY <1>2, <1>6, <1>7, <1>8, <1>9, <1>10, <1>11

\* A command starts with nothing to have fetched; a kill and what goes on
\* outside leave no process or change no directory.
LEMMA FetchSoFarAround ==
  ASSUME Typed, FetchSoFar, StartSome \/ Crash \/ Release \/ Upstream \/ DeleteCache
                            \/ UNCHANGED vars
  PROVE  FetchSoFar'
<1>1. CASE StartSome
  <2> PICK act \in Actions, reset \in BOOLEAN, sel \in Selections : Start(act, reset, sel)
    BY <1>1 DEF StartSome
  <2>1. depth' = 1 /\ frames'[1] = Frame(IF act = "FETCH" THEN "fetch" ELSE "build")
        /\ cmd'.act = act
    <3>1. frames \in [1 .. MaxDepth -> Frames] /\ 1 \in 1 .. MaxDepth
      BY Constants DEF Typed, TypeOK
    <3> QED BY <3>1 DEF Start
  <2>2. ~Top'.moved /\ Top'.i = 1 /\ (cmd'.act = "FETCH" => Top'.pc = "fetch")
    BY <2>1 DEF Frame, Top
  <2>3. Reached(Top.i, cmd, tree)'
    BY <2>2 DEF Reached
  <2> QED BY <2>1, <2>2, <2>3 DEF FetchSoFar, Resetting, Patching
<1>2. CASE Crash \/ DeleteCache
  <2>1. ~(depth' > 0)
    BY <1>2 DEF Crash, DeleteCache, run
  <2> QED BY <2>1 DEF FetchSoFar
<1>3. CASE Release \/ Upstream \/ UNCHANGED vars
  <2>1. UNCHANGED <<depth, frames, cmd, tree, faulty, env>>
    BY <1>3 DEF Release, Upstream, vars, run, disk, budget, world
  <2> QED BY <2>1 DEF FetchSoFar, Resetting, Patching, Reached, Newest, Recorded, Fresh, Top
<1> QED BY <1>1, <1>2, <1>3

\* The AUR and the upstreams only move forward.
LEMMA CommandPastStep ==
  ASSUME Typed, CommandPast, [Next]_vars
  PROVE  CommandPast'
<1>0. /\ remote \in [Bases -> 1 .. MaxCommit] /\ vcs \in [Bases -> 1 .. MaxVcs]
      /\ remote' \in [Bases -> 1 .. MaxCommit] /\ vcs' \in [Bases -> 1 .. MaxVcs]
  BY TypedStep DEF Typed, TypeOK
<1>1. \A b \in Bases : remote[b] <= remote'[b] /\ vcs[b] <= vcs'[b]
  <2>1. CASE Release
    <3>1. PICK b \in Bases : remote' = [remote EXCEPT ![b] = remote[b] + 1]
      BY <2>1 DEF Release
    <3>2. vcs' = vcs
      BY <2>1 DEF Release
    <3> QED BY <1>0, <3>1, <3>2, Constants
  <2>2. CASE Upstream
    <3>1. PICK b \in GitBases : vcs' = [vcs EXCEPT ![b] = vcs[b] + 1]
      BY <2>2 DEF Upstream
    <3>2. remote' = remote
      BY <2>2 DEF Upstream
    <3>3. b \in Bases
      BY StagesAssumption DEF GitBases
    <3> QED BY <1>0, <3>1, <3>2, <3>3, Constants
  <2>3. CASE UNCHANGED world
    BY <1>0, <2>3, Constants DEF world
  <2>4. CASE Step \/ StartSome \/ Crash \/ DeleteCache \/ UNCHANGED vars
    BY <2>3, <2>4 DEF Step, FetchStep, PatchStep, BuildStep, SkipFetched, CloneBase, CheckPwd,
       ResetHard, CleanTree, GitFetch, Rebase, DownloadNamelist, SkipNonGit, UpdateSources,
       ReadVersion, SaveVersions, SkipBuild, Make, EndBuild, Install, fixed,
       StartSome, Start, Crash, DeleteCache, vars
  <2> QED BY <2>1, <2>2, <2>4 DEF Next
<1>2. \/ cmd' = cmd \/ cmd' = NoCommand
      \/ cmd'.remote = remote /\ cmd'.vcs = vcs /\ UNCHANGED world
  <2>1. CASE StartSome
    BY <2>1 DEF StartSome, Start
  <2>2. CASE Step
    <3>1. Return \/ \E f : Continue(f) \/ \E moved : Copy(f, moved)
      BY <2>2, StepKinds DEF Going
    <3> QED BY <3>1 DEF Return, Continue, Copy
  <2>3. CASE Crash
    BY <2>3 DEF Crash
  <2>4. CASE Release \/ Upstream \/ DeleteCache \/ UNCHANGED vars
    BY <2>4 DEF Release, Upstream, DeleteCache, vars, run
  <2> QED BY <2>1, <2>2, <2>3, <2>4 DEF Next
<1>3. cmd \in Commands
  BY DEF Typed, TypeOK, Commands
<1>4. CASE cmd' = cmd
  <2>1. ASSUME NEW b \in Bases PROVE cmd.remote[b] <= remote'[b] /\ cmd.vcs[b] <= vcs'[b]
    <3>1. cmd.remote[b] <= remote[b] /\ cmd.vcs[b] <= vcs[b]
      BY DEF CommandPast
    <3>2. cmd.remote[b] \in Int /\ cmd.vcs[b] \in Int
      BY <1>3, Constants DEF Commands
    <3>3. remote[b] \in Int /\ vcs[b] \in Int /\ remote'[b] \in Int /\ vcs'[b] \in Int
      BY <1>0, Constants
    <3> QED BY <1>1, <3>1, <3>2, <3>3
  <2> QED BY <1>4, <2>1 DEF CommandPast
<1>5. CASE cmd' = NoCommand
  BY <1>0, <1>5, Constants DEF CommandPast, NoCommand
<1>6. CASE cmd'.remote = remote /\ cmd'.vcs = vcs /\ UNCHANGED world
  BY <1>0, <1>6, Constants DEF CommandPast, world
<1> QED BY <1>2, <1>4, <1>5, <1>6

FetchInv == CommandPast /\ FetchSoFar

\* What the two properties of a fetch follow from.
LEMMA FetchAlways == Spec => []FetchInv
<1>1. Init => FetchInv
  <2> SUFFICES ASSUME Init PROVE FetchInv
    OBVIOUS
  <2>1. /\ depth = 0 /\ cmd = NoCommand
        /\ remote = [b \in Bases |-> 1] /\ vcs = [b \in Bases |-> 1]
    BY DEF Init
  <2> QED BY <2>1 DEF FetchInv, FetchSoFar, CommandPast, NoCommand
<1>2. Typed /\ FetchInv /\ [Next]_vars => FetchInv'
  BY CommandPastStep, FetchSoFarStep, FetchSoFarAround DEF FetchInv, Next
<1> QED BY <1>1, <1>2, AlwaysTyped, PTL DEF Spec

\* The step with which a fetch ends well is the last of its loops.
LEMMA LastSteps ==
  ASSUME Typed, FetchInv, [Next]_vars, FetchedWell
  PROVE  /\ Step /\ ~Fault /\ ~faulty /\ Return
         /\ ~cmd.reset => SaveVersions
         /\ cmd.reset /\ ~env.inGit =>
              DownloadNamelist \/ (GitFetch /\ tree[Base].st = "partial" /\ ~Ended)
<1>0. TypeOK /\ depth = 1 /\ depth' = 0 /\ cmd.act = "FETCH" /\ ~faulty'
  BY DEF Typed, FetchedWell
<1>1. Step
  BY <1>0 DEF Next, StartSome, Start, Crash, Fault, Release, Upstream, DeleteCache, vars, run
<1>2. /\ ~faulty /\ ~Fault /\ (Return \/ \E f \in Frames : Going(f) /\ Continue(f))
      /\ \A f : \A moved : ~Copy(f, moved)
  BY <1>0, <1>1, FineSteps DEF FetchInv
<1>3. \A f : ~Continue(f)
  BY <1>0 DEF Continue
<1>4. ASSUME ~cmd.reset PROVE SaveVersions
  <2>1. Top.pc \in {"fetch", "patch", "readver"}
    BY <1>0, <1>2, <1>4 DEF FetchInv, FetchSoFar, Patching
  <2> QED BY <1>1, <1>2, <1>3, <1>4, <2>1
          DEF Step, FetchStep, PatchStep, BuildStep, SkipFetched, CloneBase, CheckPwd,
              ResetHard, CleanTree, GitFetch, Rebase, DownloadNamelist, SkipNonGit,
              UpdateSources, ReadVersion, SkipBuild, Make, EndBuild, Install, AtPkg, AtEnd, At
<1>5. ASSUME cmd.reset, ~env.inGit
      PROVE  DownloadNamelist \/ (GitFetch /\ tree[Base].st = "partial" /\ ~Ended)
  <2>1. Resetting(Top, cmd, tree)
    BY <1>0, <1>2, <1>5 DEF FetchInv, FetchSoFar
  <2>2. Top.pc \in {"fetch", "reset", "clean", "gitfetch", "rebase"}
    BY <2>1 DEF Resetting
  <2>3. DownloadNamelist \/ GitFetch \/ Rebase
    BY <1>1, <1>2, <1>3, <1>5, <2>2
       DEF Step, FetchStep, PatchStep, BuildStep, SkipFetched, CloneBase, CheckPwd,
           ResetHard, CleanTree, SkipNonGit, SaveVersions,
           UpdateSources, ReadVersion, SkipBuild, Make, EndBuild, Install, AtPkg, AtEnd, At
  <2>4. ~Rebase
    <3>1. Top.pc = "rebase" => tree[Base].st = "full" /\ tree[Base].work = 0
      BY <2>1 DEF Resetting, Base, Pkg
    <3> QED BY <1>2, <1>3, <3>1 DEF Rebase, AtPkg, At, Full
  <2>5. ASSUME GitFetch PROVE tree[Base].st = "partial" /\ ~Ended
    <3>1. Top.pc = "gitfetch" /\ ~Ended /\ ~Full(Base)
      BY <1>2, <1>3, <2>5 DEF GitFetch, AtPkg, At
    <3>2. tree[Base].st # "absent"
      BY <2>1, <3>1 DEF Resetting, Base, Pkg
    <3>3. tree[Base] \in Trees
      BY <1>0, <3>1, TopTyped DEF TypeOK
    <3> QED BY <3>1, <3>2, <3>3 DEF Full, Trees
  <2> QED BY <2>3, <2>4, <2>5
<1> QED BY <1>1, <1>2, <1>3, <1>4, <1>5

\* After a fetch that ends well, without --reset, the recorded version of every
\* -git package of the command that is cloned is one the upstream has had since
\* the command started.
THEOREM FetchRecords == Spec => GitReportFresh
<1>1. ASSUME Typed, FetchInv, [Next]_vars, FetchedWell, ~cmd.reset,
             NEW p \in Chosen \cap GitPkgs, Full(BaseOf[p])
      PROVE  verCache'[p] >= VcsVer(cmd.vcs[BaseOf[p]])
  <2>1. TypeOK /\ SaveVersions /\ ~Fault /\ ~faulty /\ depth = 1 /\ cmd.act = "FETCH"
    BY <1>1, LastSteps DEF Typed, FetchedWell
  <2>2. Patching(Top, cmd, tree) /\ ~Top.moved /\ Top.pc = "patch" /\ Ended
    BY <1>1, <2>1 DEF FetchInv, FetchSoFar, SaveVersions, AtEnd, At
  <2>3. PICK k \in 1 .. Len(cmd.sel) : p = cmd.sel[k]
    <3>1. cmd.sel \in Seq(Pkgs)
      BY <2>1 DEF TypeOK
    <3> QED BY <1>1, <3>1 DEF Chosen
  <2>4. k < Top.i
    <3>1. Top.i \in Nat /\ Len(cmd.sel) \in Nat
      BY <2>1, TopTyped DEF Frames
    <3> QED BY <2>2, <3>1 DEF Ended
  <2>5. Top.vers[p] >= VcsVer(cmd.vcs[BaseOf[p]])
    BY <1>1, <2>2, <2>3, <2>4 DEF Patching, Recorded, Fresh, Full
  <2>6. VcsVer(cmd.vcs[BaseOf[p]]) \in Nat /\ p \in Pkgs
    <3>1. p \in Pkgs
      BY StagesAssumption
    <3>2. BaseOf[p] \in Bases
      BY <3>1, Constants
    <3>3. cmd.vcs[BaseOf[p]] \in 1 .. MaxVcs
      BY <2>1, <3>2 DEF TypeOK
    <3> QED BY <3>1, <3>3, Constants DEF VcsVer
  <2>7. Top.vers[p] # NoVersion
    BY <2>5, <2>6 DEF NoVersion
  <2>8. verCache' = Merged(verCache, Top.vers)
    BY <2>1, <2>2 DEF SaveVersions
  <2> QED BY <2>5, <2>6, <2>7, <2>8 DEF Merged
<1>2. Typed /\ FetchInv /\ [Next]_vars =>
        [FetchedWell /\ ~cmd.reset =>
           \A p \in Chosen \cap GitPkgs :
             Full(BaseOf[p]) => verCache'[p] >= VcsVer(cmd.vcs[BaseOf[p]])]_vars
  BY <1>1
<1> QED BY <1>2, AlwaysTyped, FetchAlways, PTL DEF Spec, GitReportFresh

\* A fetch with --reset that ends well outside any git repository leaves every
\* selected working clone at least as new as the AUR was when it started, unless
\* it met what an interrupted git clone had left.
THEOREM FetchAdvances == Spec => FetchReachesAur
<1>1. ASSUME Typed, FetchInv, [Next]_vars, FetchedWell, cmd.reset, ~env.inGit,
             NEW p \in Chosen, tree[BaseOf[p]].st = "full"
      PROVE  \/ tree[BaseOf[p]].head >= cmd.remote[BaseOf[p]]
             \/ \E q \in Chosen : tree[BaseOf[q]].st = "partial"
  <2>1. TypeOK /\ ~faulty /\ depth = 1 /\ cmd.act = "FETCH" /\ cmd.sel \in Seq(Pkgs)
    BY <1>1, LastSteps DEF Typed, TypeOK, FetchedWell
  <2>2. Resetting(Top, cmd, tree)
    BY <1>1, <2>1 DEF FetchInv, FetchSoFar
  <2>3. CASE tree[Base].st = "partial" /\ ~Ended
    <3>1. Pkg \in Chosen
      BY <2>1, <2>3, TopTyped DEF Chosen, Pkg
    <3> QED BY <2>3, <3>1 DEF Base
  <2>4. CASE DownloadNamelist
    <3>1. PICK k \in 1 .. Len(cmd.sel) : p = cmd.sel[k]
      BY <2>1 DEF Chosen
    <3>2. k < Top.i
      <4>1. Top.i \in Nat /\ Len(cmd.sel) \in Nat /\ Ended
        BY <2>1, <2>4, TopTyped DEF Frames, DownloadNamelist, AtEnd
      <4> QED BY <4>1 DEF Ended
    <3> QED BY <1>1, <2>2, <3>1, <3>2 DEF Resetting, Reached, Newest
  <2> QED BY <1>1, <2>3, <2>4, LastSteps
<1>2. Typed /\ FetchInv /\ [Next]_vars =>
        [FetchedWell /\ cmd.reset /\ ~env.inGit =>
           \A p \in Chosen : LET t == tree[BaseOf[p]]
                             IN t.st = "full" =>
                                  t.head >= cmd.remote[BaseOf[p]]
                                  \/ \E q \in Chosen : tree[BaseOf[q]].st = "partial"]_vars
  BY <1>1
<1> QED BY <1>2, AlwaysTyped, FetchAlways, PTL DEF Spec, FetchReachesAur
=============================================================================
