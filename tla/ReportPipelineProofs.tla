------------------------ MODULE ReportPipelineProofs ------------------------
(***************************************************************************)
(* The report for pipes of every size, programs that print any amount and  *)
(* any number of failures: no child is left behind, and without a failure  *)
(* the report is complete and only ends when all output fits.              *)
(***************************************************************************)
EXTENDS ReportPipeline, TLAPS

\* main() has not asked for a report yet, or never will.
Early == {"fork_pacman", "wait_pacman", "read_pacman", "fork_checkupdates", "query",
          "wait_checkupdates", "fork_report", "fork_only", "wait_only"}
Only == {"fork_only", "wait_only"}

\* A child runs only while main() is about to wait for it.
Awaited ==
  /\ state["pacman"] = "running" => pc = "wait_pacman"
  /\ state["checkupdates"] = "running" => pc \in {"query", "wait_checkupdates", "wait_only"}
  /\ state["report"] = "running" => pc \in {"wait_report", "done_report"}
  /\ state["less"] = "running" => pc = "wait_less"

\* A child that does not run writes no more, and what the report begins with is
\* settled before it is asked for.
Quiet ==
  /\ \A c \in Children : state[c] # "running" => left[c] = 0
  /\ pc \in Only => command # "summary"
  /\ pc \in Early \ Only => command = "summary"
  /\ pc \in Early => aur = 0 /\ pipe["report"] = 0 /\ (piped = TRUE => shown = 0)
  /\ command = "summary" => piped = TRUE
  /\ command # "summary" => pc \in Only \cup {"done"} /\ aur = 0 /\ pipe["report"] = 0
  /\ pc = "wait_report" => shown = 0
  /\ pc \in {"wait_report", "fork_less", "wait_less"} => tty
  /\ pc = "done_report" => ~tty

Typed == TypeOK /\ Awaited /\ Quiet

-----------------------------------------------------------------------------
\* Init has the types and no children.
LEMMA InitTyped == Init => Typed
<1> SUFFICES ASSUME Init PROVE Typed
  OBVIOUS
<1> USE BoundsAssumption DEF Init, Early, Only, Children, Writers, Codes, Signalled
<1>1. listening \in BOOLEAN /\ piped \in BOOLEAN /\ tty \in BOOLEAN
  OBVIOUS
<1>2. TypeOK
  BY <1>1 DEF TypeOK
<1>3. Awaited /\ Quiet
  BY DEF Awaited, Quiet
<1> QED BY <1>2, <1>3 DEF Typed

USE DEF fixed, report, children, Go, Fault, Fork, Gone, Children, Writers

\* main() keeps the types: a stage that forks is left for the one that waits.
LEMMA MainTyped == Typed /\ Main => Typed'
<1> SUFFICES ASSUME Typed, Main PROVE Typed'
  OBVIOUS
<1> USE BoundsAssumption DEF Typed, TypeOK, Awaited, Quiet, Early, Only, Codes, Signalled
<1>1. CASE ForkPacman
  BY <1>1 DEF ForkPacman
<1>2. CASE WaitPacman
  BY <1>2 DEF WaitPacman
<1>3. CASE ReadPacman
  BY <1>3 DEF ReadPacman
<1>4. CASE ForkCheckupdates
  BY <1>4 DEF ForkCheckupdates
<1>5. CASE Query
  BY <1>5 DEF Query
<1>6. CASE WaitCheckupdates
  BY <1>6 DEF WaitCheckupdates
<1>7. CASE ForkReport
  BY <1>7 DEF ForkReport
<1>8. CASE WaitReport
  BY <1>8 DEF WaitReport
<1>9. CASE ReturnReport
  BY <1>9 DEF ReturnReport
<1>10. CASE ForkLess
  BY <1>10 DEF ForkLess
<1>11. CASE WaitLess
  BY <1>11 DEF WaitLess
<1>12. CASE ForkOnly
  <2>1. piped' \in BOOLEAN
    BY <1>12 DEF ForkOnly
  <2>2. TypeOK'
    BY <1>12, <2>1 DEF ForkOnly
  <2>3. Awaited' /\ Quiet'
    BY <1>12, <2>1 DEF ForkOnly
  <2> QED BY <2>2, <2>3
<1>13. CASE WaitOnly
  BY <1>13 DEF WaitOnly
<1> QED
  BY <1>1, <1>2, <1>3, <1>4, <1>5, <1>6, <1>7, <1>8, <1>9, <1>10, <1>11, <1>12, <1>13 DEF Main

\* The children keep them: a full pipe takes nothing.
LEMMA ChildTyped ==
  ASSUME Typed, CopyUpdates \/ LessShows \/ \E c \in Children : Child(c) \/ ChildFails(c)
  PROVE  Typed'
<1> USE BoundsAssumption DEF Typed, TypeOK, Awaited, Quiet, Early, Only, Codes, Signalled
<1>1. CASE CopyUpdates
  <2>1. listening' \in BOOLEAN
    BY <1>1 DEF CopyUpdates
  <2>2. TypeOK'
    BY <1>1, <2>1 DEF CopyUpdates
  <2>3. Awaited' /\ Quiet'
    BY <1>1, <2>1 DEF CopyUpdates
  <2> QED BY <2>2, <2>3
<1>2. CASE LessShows
  BY <1>2 DEF LessShows
<1>3. ASSUME NEW c \in Writers, Write(c) PROVE Typed'
  BY <1>3 DEF Write, Direct
<1>4. ASSUME NEW c \in Children, Exit(c) PROVE Typed'
  BY <1>4 DEF Exit
<1>5. ASSUME NEW c \in Children, ChildFails(c) PROVE Typed'
  BY <1>5 DEF ChildFails
<1> QED BY <1>1, <1>2, <1>3, <1>4, <1>5 DEF Child

\* The stages wait for what they started in every behaviour.
LEMMA TypedInvariant == Spec => []Typed
<1>1. Typed /\ [Next]_vars => Typed'
  <2> SUFFICES ASSUME Typed, [Next]_vars PROVE Typed'
    OBVIOUS
  <2>1. CASE UNCHANGED vars
    BY <2>1 DEF vars, Typed, TypeOK, Awaited, Quiet
  <2> QED BY <2>1, MainTyped, ChildTyped DEF Next, Run
<1> QED BY InitTyped, <1>1, PTL DEF Spec

\* For every amount of output: the variables stay in their domains, and a pipe
\* never holds more than it can.
THEOREM TypeCorrect == Spec => []TypeOK
<1>1. Typed => TypeOK
  BY DEF Typed
<1> QED BY TypedInvariant, <1>1, PTL

\* main() leaves no child behind, whatever fails or is killed: each one it starts
\* is waited for, also checkupdates, which it starts in the background.
THEOREM NoneLeft == Spec => []NoOrphan
<1>1. Typed => NoOrphan
  BY DEF Typed, Awaited, NoOrphan
<1> QED BY TypedInvariant, <1>1, PTL

-----------------------------------------------------------------------------
\* Where the report was asked for, and where the child that writes it is gone.
Asked == {"wait_report", "done_report", "fork_less", "wait_less", "done"}
Written == {"fork_less", "wait_less", "done"}

\* Without a failure the stages pass in order.
InOrder ==
  /\ piped = TRUE
  /\ command = "summary" /\ pc # "fork_pacman" => state["pacman"] # "none"
  /\ command = "summary" /\ pc \notin {"fork_pacman", "wait_pacman"} =>
       state["pacman"] = "exited"
  /\ pc \in Asked \cup {"fork_report"} => state["checkupdates"] = "exited"
  /\ pc \in {"query", "wait_checkupdates", "wait_only"} => state["checkupdates"] # "none"
  /\ pc \in Early => state["report"] = "none"
  /\ command = "summary" /\ pc \in Asked => state["report"] # "none"
  /\ command = "summary" /\ pc \in Written => state["report"] = "exited"
  /\ pc \in Early /\ pc # "fork_report" => listening = FALSE
  /\ state["report"] = "exited" => listening = FALSE
  /\ state["report"] # "none" => command = "summary"

\* What pacman and checkupdates printed lies in their pipes until it is read.
Unread ==
  /\ pc = "fork_pacman" => pipe["pacman"] = 0
  /\ pc \in {"fork_pacman", "wait_pacman", "read_pacman", "fork_checkupdates", "fork_only"} =>
       pipe["checkupdates"] = 0
  /\ pc \in {"wait_pacman", "read_pacman"} =>
       left["pacman"] + pipe["pacman"] = out["pacman"]
  /\ pc \in {"query", "wait_checkupdates", "wait_only"} \/ listening = TRUE =>
       left["checkupdates"] + pipe["checkupdates"] = out["checkupdates"]
  /\ state["checkupdates"] = "exited" =>
       code["checkupdates"] = IF out["checkupdates"] = 0 THEN 2 ELSE 0
  /\ pc = "fork_report" /\ listening = FALSE => out["checkupdates"] = 0

\* What the report consists of so far, in the child, in its pipe and shown.
Copied == IF listening = TRUE THEN 0 ELSE out["checkupdates"]
Conserved ==
  /\ pc \in Asked /\ command = "summary" =>
       left["report"] + pipe["report"] + shown = aur + Copied
  /\ pc = "done" /\ command # "summary" => shown = out["checkupdates"]

\* A child that ended had a pipe that took all of its output.
Fitted ==
  /\ \A c \in {"pacman", "checkupdates"} : state[c] = "exited" => out[c] <= Cap
  /\ state["report"] = "exited" /\ tty => aur + out["checkupdates"] <= Cap

Accounted == faults = 0 => InOrder /\ Unread /\ Conserved /\ Fitted
Faultless == Typed /\ Accounted

\* Nothing is printed at the start.
LEMMA InitAccounted == Init => Accounted
BY DEF Init, Accounted, InOrder, Unread, Conserved, Fitted, Asked, Written, Early

\* A failure is counted for good.
LEMMA FaultsGrow == ASSUME Typed, [Next]_vars PROVE faults' = 0 => faults = 0
BY DEF vars, Typed, TypeOK, Next, Run, Main, Child, ForkPacman, WaitPacman, ReadPacman,
   ForkCheckupdates, Query, WaitCheckupdates, ForkReport, WaitReport, ReturnReport, ForkLess,
   WaitLess, ForkOnly, WaitOnly, CopyUpdates, LessShows, Write, Exit, ChildFails

\* main() waits before it reads, so it reads all of it.
LEMMA MainAccounted == ASSUME Faultless, Typed', Main PROVE Accounted'
<1> SUFFICES ASSUME faults' = 0, faults = 0
             PROVE  (InOrder /\ Unread /\ Conserved /\ Fitted)'
  BY FaultsGrow DEF Accounted, Faultless, Next, Run
<1>f1. ASSUME ForkPacman
      PROVE  Fork("pacman", out["pacman"]) /\ pc' = "wait_pacman" /\ UNCHANGED pipe
  BY <1>f1 DEF ForkPacman
<1>f2. ASSUME ForkCheckupdates
      PROVE  Fork("checkupdates", out["checkupdates"]) /\ pc' = "query" /\ UNCHANGED pipe
  BY <1>f2 DEF ForkCheckupdates
<1>f3. ASSUME ForkOnly
      PROVE  Fork("checkupdates", out["checkupdates"]) /\ pc' = "wait_only" /\ piped' = piped
  BY <1>f3 DEF ForkOnly
<1> USE BoundsAssumption DEF Faultless, Accounted, Typed, TypeOK, Awaited, Quiet, InOrder,
        Unread, Conserved, Copied, Fitted, Asked, Written, Early, Only, Codes, Signalled
<1>1. CASE ForkPacman
  <2>2. InOrder'
    BY <1>1, <1>f1 DEF ForkPacman
  <2>3. Unread'
    BY <1>1, <1>f1 DEF ForkPacman
  <2>4. Conserved' /\ Fitted'
    BY <1>1, <1>f1 DEF ForkPacman
  <2> QED BY <2>2, <2>3, <2>4
<1>2. CASE WaitPacman
  BY <1>2 DEF WaitPacman
<1>3. CASE ReadPacman
  BY <1>3 DEF ReadPacman
<1>4. CASE ForkCheckupdates
  <2>2. InOrder'
    BY <1>4, <1>f2 DEF ForkCheckupdates
  <2>3. Unread'
    BY <1>4, <1>f2 DEF ForkCheckupdates
  <2>4. Conserved' /\ Fitted'
    BY <1>4, <1>f2 DEF ForkCheckupdates
  <2> QED BY <2>2, <2>3, <2>4
<1>5. CASE Query
  BY <1>5 DEF Query
<1>6. CASE WaitCheckupdates
  BY <1>6 DEF WaitCheckupdates
<1>7. CASE ForkReport
  BY <1>7 DEF ForkReport
<1>8. CASE WaitReport
  BY <1>8 DEF WaitReport
<1>9. CASE ReturnReport
  BY <1>9 DEF ReturnReport
<1>10. CASE ForkLess
  BY <1>10 DEF ForkLess
<1>11. CASE WaitLess
  BY <1>11 DEF WaitLess
<1>12. CASE ForkOnly
  <2>2. InOrder'
    BY <1>12, <1>f3 DEF ForkOnly
  <2>3. Unread'
    BY <1>12, <1>f3 DEF ForkOnly
  <2>4. Conserved' /\ Fitted'
    BY <1>12, <1>f3 DEF ForkOnly
  <2> QED BY <2>2, <2>3, <2>4
<1>13. CASE WaitOnly
  BY <1>13 DEF WaitOnly
<1> QED
  BY <1>1, <1>2, <1>3, <1>4, <1>5, <1>6, <1>7, <1>8, <1>9, <1>10, <1>11, <1>12, <1>13 DEF Main

\* A child moves output on and drops none.
LEMMA ChildAccounted ==
  ASSUME Faultless, Typed',
         CopyUpdates \/ LessShows \/ \E c \in Children : Child(c) \/ ChildFails(c)
  PROVE  Accounted'
<1> SUFFICES ASSUME faults' = 0, faults = 0
             PROVE  (InOrder /\ Unread /\ Conserved /\ Fitted)'
  BY FaultsGrow DEF Accounted, Faultless, Next, Run
<1> USE BoundsAssumption DEF Faultless, Accounted, Typed, TypeOK, Awaited, Quiet, InOrder,
        Unread, Conserved, Copied, Fitted, Asked, Written, Early, Only, Codes, Signalled
<1>1. CASE CopyUpdates
  BY <1>1 DEF CopyUpdates
<1>2. CASE LessShows
  BY <1>2 DEF LessShows
<1>3. ASSUME NEW c \in Writers, Write(c) PROVE (InOrder /\ Unread /\ Conserved /\ Fitted)'
  BY <1>3 DEF Write, Direct
<1>4. ASSUME NEW c \in Children, Exit(c) PROVE (InOrder /\ Unread /\ Conserved /\ Fitted)'
  BY <1>4 DEF Exit
<1>5. ASSUME NEW c \in Children, ChildFails(c) PROVE FALSE
  BY <1>5 DEF ChildFails
<1> QED BY <1>1, <1>2, <1>3, <1>4, <1>5 DEF Child

\* Without a failure nothing is lost on the way, also when the user leaves less.
LEMMA FaultlessInvariant == Spec => []Faultless
<1>1. Init => Faultless
  BY InitTyped, InitAccounted DEF Faultless
<1>2. Faultless /\ [Next]_vars => Faultless'
  <2> SUFFICES ASSUME Faultless, [Next]_vars PROVE Faultless'
    OBVIOUS
  <2>1. CASE UNCHANGED vars
    BY <2>1 DEF vars, Faultless, Accounted, InOrder, Unread, Conserved, Copied, Fitted, Typed,
       TypeOK, Awaited, Quiet
  <2>2. CASE Main
    BY <2>2, MainTyped, MainAccounted DEF Faultless
  <2>3. CASE CopyUpdates \/ LessShows \/ \E c \in Children : Child(c) \/ ChildFails(c)
    BY <2>3, ChildTyped, ChildAccounted DEF Faultless
  <2> QED BY <2>1, <2>2, <2>3 DEF Next, Run
<1> QED BY <1>1, <1>2, PTL DEF Spec

\* For pipes of every size: without a failure less gets the whole report, the
\* lines about the foreign packages and all that checkupdates printed.
THEOREM CompleteReport == Spec => []ReportComplete
<1>1. Faultless => ReportComplete
  BY DEF Faultless, Typed, TypeOK, Quiet, Accounted, InOrder, Conserved, Copied, Asked, Written,
     Codes, ReportComplete
<1> QED BY FaultlessInvariant, <1>1, PTL

\* main() waits for each program before it reads what it printed: a run that
\* ends without a failure had output that fitted into every pipe, of any size.
THEOREM OnlyWhatFits == Spec => []EndsOnlyWhenItFits
<1>1. Faultless => EndsOnlyWhenItFits
  BY DEF Faultless, Accounted, InOrder, Fitted, Asked, Written, EndsOnlyWhenItFits
<1> QED BY FaultlessInvariant, <1>1, PTL
=============================================================================
