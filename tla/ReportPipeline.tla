--------------------------- MODULE ReportPipeline ---------------------------
(***************************************************************************)
(* The program without a command: main() collects the foreign packages     *)
(* from pacman -Qm, lets checkupdates run beside the query to the AUR, and *)
(* has a child write the report into a pipe that less shows afterwards.    *)
(* The command pacman-checkupdates only runs checkupdates and prints it.   *)
(* Output is counted in units; a pipe holds Cap of them, and the writer of *)
(* a full pipe waits for its reader.                                       *)
(***************************************************************************)
EXTENDS Integers

CONSTANTS
  Cap,       \* what a pipe holds
  MaxOut,    \* the most one of the programs prints
  MaxFaults  \* failures in a behaviour

ASSUME BoundsAssumption == Cap \in Nat \ {0} /\ MaxOut \in Nat /\ MaxFaults \in Nat

Writers == {"pacman", "checkupdates", "report"}
Children == Writers \cup {"less"}
Signalled == -1  \* killed; WEXITSTATUS of it is 0
Codes == {Signalled, 0, 1, 2}

VARIABLES
  command,    \* "summary" or "pacman-checkupdates"
  tty,        \* isatty(STDOUT_FILENO)
  out,        \* what pacman and checkupdates have to print
  pc,         \* where main() is
  state,      \* of each child
  left,       \* what a child still has to write
  pipe,       \* what lies in the pipe a child writes to
  code,       \* the exit code of each child
  names,      \* the lines main() read from pacman
  aur,        \* the lines the report has about them
  listening,  \* the report gets pacman_output_fd, and has not read it yet
  shown,      \* what reached less, or stdout without a terminal
  ret,        \* what run_subprocess() returned for less, or the command returns
  piped,      \* checkupdates writes into a pipe
  faults

vars == <<command, tty, out, pc, state, left, pipe, code, names, aur, listening, shown, ret,
          piped, faults>>
fixed == <<command, tty, out>>
report == <<aur, listening, shown>>
children == <<state, left, pipe, code>>

-----------------------------------------------------------------------------
Init ==
  /\ tty \in BOOLEAN
  /\ out \in [{"pacman", "checkupdates"} -> 0 .. MaxOut]
  /\ command \in {"summary", "pacman-checkupdates"}
  /\ pc = IF command = "summary" THEN "fork_pacman" ELSE "fork_only"
  /\ state = [c \in Children |-> "none"] /\ left = [c \in Children |-> 0]
  /\ pipe = [c \in Writers |-> 0] /\ code = [c \in Children |-> 0]
  /\ names = 0 /\ aur = 0 /\ listening = FALSE /\ shown = 0 /\ ret = 0
  /\ piped = TRUE /\ faults = 0

Fault == faults < MaxFaults /\ faults' = faults + 1
Go(to) == pc' = to
Fork(c, n) == /\ state' = [state EXCEPT ![c] = "running"]
              /\ left' = [left EXCEPT ![c] = n]
              /\ UNCHANGED <<pipe, code>>
Gone(c) == state[c] = "exited"

\* get_installed_non_pacman(); without a pipe or a child its list is empty.
ForkPacman ==
  /\ pc = "fork_pacman"
  /\ \/ Fork("pacman", out["pacman"]) /\ Go("wait_pacman") /\ UNCHANGED faults
     \/ Fault /\ Go("fork_checkupdates") /\ UNCHANGED children
  /\ UNCHANGED <<fixed, piped, names, report, ret>>

\* Mutants of WaitPacman: it does not wait; it waits for a success.
WaitPacmanNot ==
  /\ pc = "wait_pacman" /\ Go("read_pacman")
  /\ UNCHANGED <<fixed, piped, children, names, report, ret, faults>>

WaitPacmanSuccess ==
  /\ pc = "wait_pacman" /\ Gone("pacman") /\ code["pacman"] = 0 /\ Go("read_pacman")
  /\ UNCHANGED <<fixed, piped, children, names, report, ret, faults>>

\* waitpid() comes before the first read(), whatever the exit status.
WaitPacman ==
  /\ pc = "wait_pacman" /\ Gone("pacman") /\ Go("read_pacman")
  /\ UNCHANGED <<fixed, piped, children, names, report, ret, faults>>

\* record_pacman_output(); pacman's end of the pipe is closed by now.
ReadPacman ==
  /\ pc = "read_pacman"
  /\ names' = pipe["pacman"] /\ pipe' = [pipe EXCEPT !["pacman"] = 0]
  /\ Go("fork_checkupdates")
  /\ UNCHANGED <<fixed, piped, state, left, code, report, ret, faults>>

\* perform_pacman_checkupdates_bg(), which does not wait.
ForkCheckupdates ==
  /\ pc = "fork_checkupdates" /\ Go("query")
  /\ \/ Fork("checkupdates", out["checkupdates"]) /\ UNCHANGED faults
     \/ Fault /\ UNCHANGED children
  /\ UNCHANGED <<fixed, piped, names, report, ret>>

\* get_packages_info(), the request to the AUR.
Query ==
  /\ pc = "query" /\ Go("wait_checkupdates")
  /\ UNCHANGED <<fixed, piped, children, names, report, ret, faults>>

\* Mutant of WaitCheckupdates: it does not wait.
WaitCheckupdatesNot ==
  /\ pc = "wait_checkupdates"
  /\ listening' = (Gone("checkupdates") /\ code["checkupdates"] \in {0, Signalled})
  /\ Go("fork_report")
  /\ UNCHANGED <<fixed, piped, children, names, aur, shown, ret, faults>>

\* The status is only looked at through WEXITSTATUS.
WaitCheckupdates ==
  /\ pc = "wait_checkupdates" /\ state["checkupdates"] # "running"
  /\ listening' = (Gone("checkupdates") /\ code["checkupdates"] \in {0, Signalled})
  /\ Go("fork_report")
  /\ UNCHANGED <<fixed, piped, children, names, aur, shown, ret, faults>>

\* aur_check_less_wrap(): without a terminal main() itself writes the report.
\* A foreign package has a line in it or not.
ForkReport ==
  /\ pc = "fork_report"
  /\ \/ /\ aur' \in 0 .. names /\ Fork("report", aur')
        /\ Go(IF tty THEN "wait_report" ELSE "done_report") /\ UNCHANGED faults
     \/ Fault /\ tty /\ Go("done") /\ UNCHANGED <<aur, children>>
  /\ UNCHANGED <<fixed, piped, names, listening, shown, ret>>

\* The report is written into a pipe nobody reads yet.
WaitReport ==
  /\ pc = "wait_report" /\ Gone("report") /\ Go("fork_less")
  /\ UNCHANGED <<fixed, piped, children, names, report, ret, faults>>

ReturnReport ==
  /\ pc = "done_report" /\ Gone("report") /\ Go("done")
  /\ UNCHANGED <<fixed, piped, children, names, report, ret, faults>>

ForkLess ==
  /\ pc = "fork_less"
  /\ \/ Fork("less", 0) /\ Go("wait_less") /\ UNCHANGED <<ret, faults>>
     \/ Fault /\ ret' = -1 /\ Go("done") /\ UNCHANGED children
  /\ UNCHANGED <<fixed, piped, names, report>>

\* run_subprocess_v() returns WEXITSTATUS(wait_exit), and wait_exit is 1.
WaitLess ==
  /\ pc = "wait_less" /\ Gone("less")
  /\ ret' = 0 /\ Go("done")
  /\ UNCHANGED <<fixed, piped, children, names, report, faults>>

\* perform_pacman_checkupdates(): without a pipe checkupdates prints itself.
ForkOnly ==
  /\ pc = "fork_only"
  /\ \/ Fork("checkupdates", out["checkupdates"]) /\ Go("wait_only") /\ UNCHANGED <<ret, piped, faults>>
     \/ /\ Fault /\ Fork("checkupdates", out["checkupdates"]) /\ Go("wait_only")
        /\ piped' = FALSE /\ UNCHANGED ret
     \/ Fault /\ ret' = -1 /\ Go("done") /\ UNCHANGED <<children, piped>>
  /\ UNCHANGED <<fixed, names, report>>

\* It waits before it reads, and prints nothing after a failure.
WaitOnly ==
  /\ pc = "wait_only" /\ Gone("checkupdates") /\ Go("done")
  /\ ret' = IF code["checkupdates"] = Signalled THEN 0 ELSE code["checkupdates"]
  /\ IF piped /\ ret' = 0
     THEN shown' = pipe["checkupdates"] /\ pipe' = [pipe EXCEPT !["checkupdates"] = 0]
     ELSE UNCHANGED <<shown, pipe>>
  /\ UNCHANGED <<fixed, piped, state, left, code, names, aur, listening, faults>>

-----------------------------------------------------------------------------
\* Its output does not go through a pipe.
Direct(c) == (c = "report" /\ ~tty) \/ (c = "checkupdates" /\ ~piped)

\* Mutant of Write: a full pipe takes more.
WriteAlways(c) ==
  /\ state[c] = "running" /\ left[c] > 0
  /\ left' = [left EXCEPT ![c] = @ - 1]
  /\ IF Direct(c)
     THEN shown' = shown + 1 /\ UNCHANGED pipe
     ELSE pipe' = [pipe EXCEPT ![c] = @ + 1] /\ UNCHANGED shown
  /\ UNCHANGED <<fixed, piped, pc, state, code, names, aur, listening, ret, faults>>

\* A child of main() writes into its pipe, if it has one.
Write(c) ==
  /\ state[c] = "running" /\ left[c] > 0
  /\ left' = [left EXCEPT ![c] = @ - 1]
  /\ IF Direct(c)
     THEN shown' = shown + 1 /\ UNCHANGED pipe
     ELSE pipe[c] < Cap /\ pipe' = [pipe EXCEPT ![c] = @ + 1] /\ UNCHANGED shown
  /\ UNCHANGED <<fixed, piped, pc, state, code, names, aur, listening, ret, faults>>

\* Mutant of CopyUpdates: only the first read() is printed.
CopyUpdatesFirst ==
  /\ state["report"] = "running" /\ left["report"] = 0 /\ listening
  /\ left' = [left EXCEPT !["report"] = IF pipe["checkupdates"] > 0 THEN 1 ELSE 0]
  /\ pipe' = [pipe EXCEPT !["checkupdates"] = 0] /\ listening' = FALSE
  /\ UNCHANGED <<fixed, piped, pc, state, code, names, aur, shown, ret, faults>>

\* perform_pacman_checkupdates_bg_follow_up(): checkupdates is gone, so that
\* what lies in its pipe can be read to the end at once, and is then printed.
CopyUpdates ==
  /\ state["report"] = "running" /\ left["report"] = 0 /\ listening
  /\ left' = [left EXCEPT !["report"] = pipe["checkupdates"]]
  /\ pipe' = [pipe EXCEPT !["checkupdates"] = 0] /\ listening' = FALSE
  /\ UNCHANGED <<fixed, piped, pc, state, code, names, aur, shown, ret, faults>>

LessShows ==
  /\ state["less"] = "running" /\ pipe["report"] > 0
  /\ pipe' = [pipe EXCEPT !["report"] = @ - 1] /\ shown' = shown + 1
  /\ UNCHANGED <<fixed, piped, pc, state, left, code, names, aur, listening, ret, faults>>

\* checkupdates exits with 2 when there are none.
Exit(c) ==
  /\ state[c] = "running" /\ left[c] = 0
  /\ c = "report" => ~listening
  /\ state' = [state EXCEPT ![c] = "exited"]
  /\ code' = [code EXCEPT ![c] = IF c = "checkupdates" /\ out[c] = 0 THEN 2 ELSE 0]
  /\ UNCHANGED <<fixed, piped, pc, left, pipe, names, report, ret, faults>>

\* A child is killed, or fails before or after its exec.
ChildFails(c) ==
  /\ state[c] = "running" /\ (c = "report" => tty) /\ Fault
  /\ state' = [state EXCEPT ![c] = "exited"] /\ left' = [left EXCEPT ![c] = 0]
  /\ code' \in {[code EXCEPT ![c] = x] : x \in {Signalled, 1}}
  /\ UNCHANGED <<fixed, piped, pc, pipe, names, report, ret>>

Main == \/ ForkPacman \/ WaitPacman \/ ReadPacman \/ ForkCheckupdates \/ Query
        \/ WaitCheckupdates \/ ForkReport \/ WaitReport \/ ReturnReport
        \/ ForkLess \/ WaitLess \/ ForkOnly \/ WaitOnly

Child(c) == (c \in Writers /\ Write(c)) \/ Exit(c)
Run == Main \/ CopyUpdates \/ LessShows \/ \E c \in Children : Child(c)

Next == Run \/ \E c \in Children : ChildFails(c)

Spec == Init /\ [][Next]_vars

\* The programs keep running unless they wait, and the user leaves less.
FairSpec ==
  /\ Spec /\ WF_vars(Main) /\ WF_vars(CopyUpdates) /\ WF_vars(LessShows)
  /\ \A c \in Children : WF_vars(Child(c))

-----------------------------------------------------------------------------
\* Every variable stays in its domain, and no pipe holds more than it can.
TypeOK ==
  /\ tty \in BOOLEAN /\ out \in [{"pacman", "checkupdates"} -> 0 .. MaxOut]
  /\ pc \in {"fork_pacman", "wait_pacman", "read_pacman", "fork_checkupdates",
             "query", "wait_checkupdates", "fork_report", "wait_report",
             "done_report", "fork_less", "wait_less", "fork_only", "wait_only", "done"}
  /\ command \in {"summary", "pacman-checkupdates"} /\ piped \in BOOLEAN
  /\ state \in [Children -> {"none", "running", "exited"}]
  /\ left \in [Children -> Nat] /\ pipe \in [Writers -> 0 .. Cap]
  /\ code \in [Children -> Codes]
  /\ names \in 0 .. Cap /\ aur \in 0 .. names
  /\ listening \in BOOLEAN /\ shown \in Nat /\ ret \in Codes
  /\ faults \in 0 .. MaxFaults

\* Without a failure the report that main() asks for arrives in full: what
\* less did not show when the user left it is still in its pipe.
ReportComplete ==
  pc = "done" /\ faults = 0 => shown + pipe["report"] = aur + out["checkupdates"]

\* main() waits for each writer before anything reads its pipe, so a run
\* without a failure ends only when all the output fitted into the pipes.
EndsOnlyWhenItFits ==
  pc = "done" /\ faults = 0 =>
    /\ out["checkupdates"] <= Cap
    /\ command = "summary" =>
         out["pacman"] <= Cap /\ (tty => aur + out["checkupdates"] <= Cap)

\* main() does not leave a child running.
NoOrphan == pc = "done" => \A c \in Children : state[c] # "running"

\* When the output fits into the pipes, main() ends, whatever fails.
Fits == out["pacman"] <= Cap /\ out["pacman"] + out["checkupdates"] <= Cap
EndsWhenItFits == Fits => <>(pc = "done")

-----------------------------------------------------------------------------
\* README.md: "To check for updates, you can simply run the application
\* without any arguments, and it gives a list of updates available".
GivesList == <>(pc = "done")

\* subprocess_unix.c: run_subprocess() gives the "return code of subprocess
\* if wait_exit is true".
ReturnsCode == pc = "done" /\ Gone("less") /\ code["less"] # Signalled => ret = code["less"]
=============================================================================
