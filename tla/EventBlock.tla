----------------------------- MODULE EventBlock -----------------------------
(***************************************************************************)
(* The blocks that end with an event of the world instead of at a time:    *)
(*                                                                         *)
(*   - "hold": somebody writes to a named pipe (HoldMode);                 *)
(*   - "pid": a process ends (AwaitPIDMode);                               *)
(*   - "cmd": a command that is run again and again fails (AwaitCmdMode);  *)
(*   - "forever": never, it has to be stopped (ForeverMode);               *)
(*   - "run": the user's own command ends (startRun, run.go), which is not *)
(*     a daemon but the command in the foreground.                         *)
(*                                                                         *)
(* runDaemon and startRun take a block in the same steps and give it back  *)
(* through the same deferred calls, unless they call os.Exit.  What a      *)
(* start that fails leaves of its child is in BlockDaemon, as are the      *)
(* client and the other readers of the state file.  No command sends       *)
(* SIGUSR1 to these blocks, so Reload is not here.                         *)
(***************************************************************************)
EXTENDS Integers, Sequences

CONSTANT MaxSignals   \* bound: signals sent

ASSUME MaxSignalsAssumption == MaxSignals \in Nat

VARIABLES
    kind,      \* of the block
    at,        \* where runDaemon or startRun is
    code,      \* its exit code, or the signal it died of
    sigCh,     \* one signal at most waits
    signals,   \* signals so far
    forward,   \* "run": the goroutine has a signal for the command, or 0
    served,    \* auxiliary: signals up to this one have reached the command
    child,     \* sudo, systemd-inhibit and cat
    fifo,      \* the block's own FIFO is there
    listed,    \* the state file is there, with the PID
    go,        \* where the goroutine of the mode is
    pipe,      \* "hold": what is at the user's path
    writer,    \* "hold": `echo > path`
    wrote,     \* auxiliary: somebody has written to that path, or begun to
    target,    \* "pid": the process that has the PID
    awaited,   \* "pid": whose pidfd is open
    cond,      \* "cmd": what the command would say
    command    \* "run": the user's command

procVars == <<kind, at, code, sigCh, signals, forward, served>>
dirVars == <<child, fifo, listed>>
worldVars == <<pipe, writer, wrote, target, cond, command>>
modeVars == <<go, awaited>>

vars == <<procVars, dirVars, worldVars, modeVars>>

Daemons == {"hold", "pid", "cmd", "forever"}

TypeOK ==
    /\ kind \in Daemons \cup {"run"}
    /\ at \in {"begin", "opening", "opened", "published", "listening", "loop",
               "leaving", "closing", "gone"}
    /\ code \in {"none", "ok", "fail", "term", "kill"}
    /\ sigCh \in {<<>>, <<"signal">>} /\ signals \in 0 .. MaxSignals
    /\ forward \in 0 .. MaxSignals /\ served \in 0 .. MaxSignals
    /\ child \in {"none", "starting", "reading", "ended", "killed"}
    /\ fifo \in BOOLEAN /\ listed \in BOOLEAN
    /\ go \in {"none", "begun", "mkfifo", "open", "read", "wait", "poll", "sleep",
               "closed"}
    /\ pipe \in {"absent", "fifo", "file"}
    /\ writer \in {"none", "opening", "open", "done", "lost"}
    /\ wrote \in BOOLEAN
    /\ target \in {"alive", "dead", "other"}
    /\ awaited \in {"nobody", "alive", "other"}
    /\ cond \in BOOLEAN
    /\ command \in {"none", "running", "ok", "fail"}

\* startAwait has seen the process alive.  A file that is no pipe has been
\* written by somebody.
Init ==
    /\ kind \in Daemons \cup {"run"}
    /\ at = "begin" /\ code = "none" /\ sigCh = <<>>
    /\ signals = 0 /\ forward = 0 /\ served = 0
    /\ child = "none" /\ fifo = FALSE /\ listed = FALSE
    /\ go = "none" /\ awaited = "nobody"
    /\ pipe \in IF kind = "hold" THEN {"absent", "fifo", "file"} ELSE {"absent"}
    /\ writer = "none" /\ wrote = (pipe = "file")
    /\ target = "alive" /\ cond = TRUE /\ command = "none"

-----------------------------------------------------------------------------
(***************************************************************************)
(* runDaemon and startRun                                                  *)
(***************************************************************************)

\* The process moves on, and nothing else of it changes.
Moves(to) == at' = to /\ UNCHANGED <<kind, code, sigCh, signals, forward, served>>

\* It is gone, without its deferred calls.
Exits(c) ==
    /\ at' = "gone" /\ code' = c /\ sigCh' = <<>> /\ forward' = 0
    /\ UNCHANGED <<kind, signals, served>>

\* Mkfifo, and systemd-inhibit is started.
Begins ==
    /\ at = "begin"
    /\ Moves("opening")
    /\ fifo' = TRUE /\ child' = "starting"
    /\ UNCHANGED <<listed, worldVars, modeVars>>

\* The child takes the lock and cat opens the FIFO; so does the process.
Opens ==
    /\ at = "opening" /\ child = "starting"
    /\ Moves("opened")
    /\ child' = "reading"
    /\ UNCHANGED <<fifo, listed, worldVars, modeVars>>

\* fatalf: no FIFO, no child, five seconds are over, or no state file.
FailsToStart ==
    /\ at \in {"begin", "opening", "opened"}
    /\ Exits("fail")
    /\ fifo' \in {fifo, TRUE}
    /\ UNCHANGED <<child, listed, worldVars, modeVars>>

\* writeState
Publishes ==
    /\ at = "opened"
    /\ Moves("published")
    /\ listed' = TRUE
    /\ UNCHANGED <<child, fifo, worldVars, modeVars>>

\* signal.Notify
Listens ==
    /\ at = "published"
    /\ Moves("listening")
    /\ UNCHANGED <<dirVars, worldVars, modeVars>>

\* runDaemon: mode.Run, which for ForeverMode starts nothing.
RunsMode ==
    /\ at = "listening" /\ kind # "run"
    /\ Moves("loop")
    /\ go' = IF kind = "forever" THEN "none" ELSE "begun"
    /\ UNCHANGED <<dirVars, worldVars, awaited>>

\* Variant: the command is started before signal.Notify.
StartsCommandFirst ==
    /\ at \in {"published", "listening"} /\ kind = "run" /\ command = "none"
    /\ Moves(IF at = "published" THEN at ELSE "loop")
    /\ command' = "running"
    /\ UNCHANGED <<dirVars, modeVars, pipe, writer, wrote, target, cond>>

\* startRun: userCmd.Start, and the goroutine that forwards signals.
StartsCommand ==
    /\ at = "listening" /\ kind = "run"
    /\ Moves("loop")
    /\ command' = "running"
    /\ UNCHANGED <<dirVars, modeVars, pipe, writer, wrote, target, cond>>

\* There is no such command: fatalf.
CannotStartCommand ==
    /\ at = "listening" /\ kind = "run"
    /\ Exits("fail")
    /\ UNCHANGED <<dirVars, worldVars, modeVars>>

\* runDaemon: case <-doneCh
ModeDone ==
    /\ at = "loop" /\ go = "closed"
    /\ Moves("leaving")
    /\ UNCHANGED <<dirVars, worldVars, modeVars>>

\* runDaemon: case sig := <-sigCh
TakesSignal ==
    /\ at = "loop" /\ kind # "run" /\ sigCh # <<>>
    /\ at' = "leaving" /\ sigCh' = <<>>
    /\ UNCHANGED <<kind, code, signals, forward, served, dirVars, worldVars, modeVars>>

\* The goroutine is there as long as the process, also after signal.Stop.
Forwarding == kind = "run" /\ at \in {"loop", "leaving", "closing"}

\* Variant: one receive in the place of a range over sigCh.
ReceivesOnce ==
    /\ Forwarding /\ sigCh # <<>> /\ forward = 0 /\ served = 0
    /\ sigCh' = <<>> /\ forward' = signals
    /\ UNCHANGED <<kind, at, code, signals, served, dirVars, worldVars, modeVars>>

\* startRun, sig := range sigCh: a signal that stands for all those dropped
\* since it came.
Receives ==
    /\ Forwarding /\ sigCh # <<>> /\ forward = 0
    /\ sigCh' = <<>> /\ forward' = signals
    /\ UNCHANGED <<kind, at, code, signals, served, dirVars, worldVars, modeVars>>

\* startRun, Process.Signal: the command gets it, if it has not ended, and does
\* with it what it likes.
Forwards ==
    /\ Forwarding /\ forward # 0
    /\ forward' = 0
    /\ served' = IF command = "running" THEN forward ELSE served
    /\ UNCHANGED <<kind, at, code, sigCh, signals, dirVars, worldVars, modeVars>>

\* Variant: the exit code is always forwarded with os.Exit.
ReapsExiting ==
    /\ at = "loop" /\ command \in {"ok", "fail"}
    /\ Exits(command)
    /\ UNCHANGED <<dirVars, worldVars, modeVars>>

\* startRun: userCmd.Wait and signal.Stop; a failure is forwarded with os.Exit.
Reaps ==
    /\ at = "loop" /\ command \in {"ok", "fail"}
    /\ IF command = "fail" THEN Exits("fail") ELSE Moves("leaving")
    /\ UNCHANGED <<dirVars, worldVars, modeVars>>

\* The deferred calls: removeState, fifo.Close,
Closes ==
    /\ at = "leaving"
    /\ Moves("closing")
    /\ listed' = FALSE
    /\ UNCHANGED <<child, fifo, worldVars, modeVars>>

\* Wait, Kill and os.Remove.
Leaves ==
    /\ at = "closing" /\ child \in {"ended", "killed"}
    /\ Exits("ok")
    /\ fifo' = FALSE
    /\ UNCHANGED <<child, listed, worldVars, modeVars>>

\* cat gets EOF when the process has closed the FIFO, or is gone.
CatEnds ==
    /\ child = "reading" /\ at \in {"closing", "gone"}
    /\ child' = "ended"
    /\ UNCHANGED <<procVars, fifo, listed, worldVars, modeVars>>

\* Variant: a channel without a limit.
Unlimited == Append(sigCh, "signal")

\* A channel that holds one signal and drops the next.
OneSignal == <<"signal">>

\* Before signal.Notify, and in startRun after signal.Stop too, a Go process
\* dies of SIGINT and SIGTERM.
Deaf == \/ at \in {"begin", "opening", "opened", "published"}
        \/ kind = "run" /\ at \in {"leaving", "closing"}

\* A SIGTERM of stop, which needs the PID, or a SIGINT of run's terminal.
Signalled ==
    /\ signals < MaxSignals /\ at # "gone"
    /\ listed \/ kind = "run"
    /\ signals' = signals + 1
    /\ IF Deaf
         THEN at' = "gone" /\ code' = "term" /\ sigCh' = <<>> /\ forward' = 0
         ELSE sigCh' = OneSignal /\ UNCHANGED <<at, code, forward>>
    /\ UNCHANGED <<kind, served>>
    /\ UNCHANGED <<dirVars, worldVars, modeVars>>

\* A SIGKILL for the process, or for its child.
Killed ==
    /\ at # "gone"
    /\ Exits("kill")
    /\ UNCHANGED <<dirVars, worldVars, modeVars>>

ChildKilled ==
    /\ child \in {"starting", "reading"}
    /\ child' = "killed"
    /\ UNCHANGED <<procVars, fifo, listed, worldVars, modeVars>>

-----------------------------------------------------------------------------
(***************************************************************************)
(* The modes                                                               *)
(***************************************************************************)

GoTo(to) ==
    /\ at # "gone"
    /\ go' = to
    /\ UNCHANGED <<procVars, dirVars>>

\* Variant: the goroutine makes the pipe anew.
HoldStatsRemoving ==
    /\ kind = "hold" /\ go = "begun"
    /\ GoTo("mkfifo")
    /\ pipe' = "absent"
    /\ writer' = IF writer = "opening" THEN "lost" ELSE writer
    /\ UNCHANGED <<wrote, target, cond, command, awaited>>

\* os.Stat
HoldStats ==
    /\ kind = "hold" /\ go = "begun"
    /\ GoTo(IF pipe = "absent" THEN "mkfifo" ELSE "open")
    /\ UNCHANGED <<worldVars, awaited>>

\* syscall.Mkfifo, which fails if somebody was faster: the block ends.
HoldMakes ==
    /\ go = "mkfifo"
    /\ GoTo(IF pipe = "absent" THEN "open" ELSE "closed")
    /\ pipe' = IF pipe = "absent" THEN "fifo" ELSE pipe
    /\ UNCHANGED <<writer, wrote, target, cond, command, awaited>>

\* os.Open: a file opens at once, a pipe with a writer.
HoldOpens ==
    /\ go = "open"
    /\ pipe = "file" \/ writer = "opening"
    /\ GoTo("read")
    /\ writer' = IF pipe = "file" THEN writer ELSE "open"
    /\ UNCHANGED <<pipe, wrote, target, cond, command, awaited>>

\* f.Read: a byte, or the end of the file.
HoldReads ==
    /\ go = "read" /\ (pipe = "file" \/ writer = "done")
    /\ GoTo("closed")
    /\ UNCHANGED <<worldVars, awaited>>

\* Variant: a failing pidfd_open is taken for the end of the wait.
AwaitOpensOrEnds ==
    /\ kind = "pid" /\ go = "begun"
    /\ \/ target # "dead" /\ awaited' = target /\ GoTo("wait")
       \/ awaited' = awaited /\ GoTo("closed")
    /\ UNCHANGED worldVars

\* pidfd_open; it fails on an old kernel and when there is no such process.
AwaitOpens ==
    /\ kind = "pid" /\ go = "begun"
    /\ \/ target # "dead" /\ awaited' = target /\ GoTo("wait")
       \/ awaited' = awaited /\ GoTo("poll")
    /\ UNCHANGED worldVars

\* poll(2) on the pidfd, which knows the process and not the PID.
AwaitReturns ==
    /\ go = "wait" /\ target # awaited
    /\ GoTo("closed")
    /\ UNCHANGED <<worldVars, awaited>>

\* processExists, every second.
AwaitPolls ==
    /\ kind = "pid" /\ go = "poll" /\ target = "dead"
    /\ GoTo("closed")
    /\ UNCHANGED <<worldVars, awaited>>

\* sh -c, and the sleep.
CmdPolls ==
    /\ kind = "cmd" /\ go \in {"begun", "sleep"}
    /\ GoTo(IF cond THEN "sleep" ELSE "closed")
    /\ UNCHANGED <<worldVars, awaited>>

-----------------------------------------------------------------------------
(***************************************************************************)
(* The world                                                               *)
(***************************************************************************)

\* `echo > path` begins.  Without a pipe at the path the shell makes a file.
WriterOpens ==
    /\ kind = "hold" /\ writer = "none"
    /\ pipe' = IF pipe = "absent" THEN "file" ELSE pipe
    /\ writer' = IF pipe = "fifo" THEN "opening" ELSE "done"
    /\ wrote' = TRUE
    /\ UNCHANGED <<procVars, dirVars, modeVars, target, cond, command>>

WriterWrites ==
    /\ writer = "open"
    /\ writer' = "done"
    /\ UNCHANGED <<procVars, dirVars, modeVars, pipe, wrote, target, cond, command>>

\* The process ends, and its PID may be another one's then.
TargetChanges ==
    /\ kind = "pid"
    /\ target' = IF target = "dead" THEN "other" ELSE "dead"
    /\ UNCHANGED <<procVars, dirVars, modeVars, pipe, writer, wrote, cond, command>>

ConditionChanges ==
    /\ kind = "cmd"
    /\ cond' = ~cond
    /\ UNCHANGED <<procVars, dirVars, modeVars, pipe, writer, wrote, target, command>>

CommandEnds ==
    /\ command = "running"
    /\ command' \in {"ok", "fail"}
    /\ UNCHANGED <<procVars, dirVars, modeVars, pipe, writer, wrote, target, cond>>

-----------------------------------------------------------------------------

Start == Begins \/ Publishes \/ Listens \/ RunsMode \/ StartsCommand

Loop == ModeDone \/ TakesSignal \/ Reaps

Goroutine == Receives \/ Forwards

Deferred == Closes \/ Leaves

Mode == HoldStats \/ HoldMakes \/ HoldOpens \/ HoldReads \/ AwaitOpens
        \/ AwaitReturns \/ AwaitPolls \/ CmdPolls

World == WriterOpens \/ TargetChanges \/ ConditionChanges \/ CommandEnds

Next ==
    \/ Start \/ Loop \/ Goroutine \/ Deferred \/ Mode \/ CatEnds \/ WriterWrites
    \/ Opens \/ FailsToStart \/ CannotStartCommand \/ Signalled \/ Killed
    \/ ChildKilled \/ World

Spec == Init /\ [][Next]_vars

(***************************************************************************)
(* The process and its goroutines run, and so do cat and a writer that has *)
(* begun.  Nothing has to happen in the world.                             *)
(***************************************************************************)
Fairness ==
    /\ WF_vars(Start) /\ WF_vars(Loop) /\ WF_vars(Goroutine) /\ WF_vars(Deferred)
    /\ WF_vars(Mode) /\ WF_vars(CatEnds) /\ WF_vars(WriterWrites)

FairSpec == Spec /\ Fairness

-----------------------------------------------------------------------------

\* The user's command runs under a lock, unless somebody killed the child, and
\* startRun is there, unless somebody killed it: no SIGINT or SIGTERM ends it
\* before the command.
HeldWhileCommandRuns ==
    command = "running" /\ code # "kill"
        => at # "gone" /\ child \in {"reading", "killed"}

\* A hold ends only after somebody has written to its path.  That may have been
\* before there was a pipe, for then the shell has made a file, and the file
\* ends the next holds on that path as well.
HoldEndsByWrite == kind = "hold" /\ go = "closed" => wrote

\* An await ends only after the process that startAwait saw has ended, whoever
\* has its PID by then.
AwaitOutlivesProcess == kind = "pid" /\ go = "closed" => target # "alive"

\* Exit code 0, which goes through the deferred calls, leaves neither state file
\* nor FIFO nor child.  The other exits may: activeStates cleans up after them.
CleanExitLeavesNothing ==
    code = "ok" => ~listed /\ ~fifo /\ child \in {"ended", "killed"}

(***************************************************************************)
(* The block as HeldBlock promises it.  A daemon's block is there for all  *)
(* to see from the moment its state file is; startRun's is there for the   *)
(* command.  The mode has ended a block when its channel is closed.        *)
(***************************************************************************)
BlockStage ==
    IF at = "gone" /\ code \in {"kill", "term"} THEN "perished"
    ELSE IF at \in {"leaving", "closing", "gone"} \/ go = "closed" THEN "over"
    ELSE IF at = "loop" \/ (at \in {"published", "listening"} /\ kind # "run") THEN "on"
    ELSE "before"

\* A signal is none for startRun, which forwards it.
BlockReason ==
    \/ kind = "hold" /\ wrote
    \/ kind = "pid" /\ target # "alive"
    \/ kind = "cmd" /\ ~cond
    \/ kind = "run" /\ command \in {"ok", "fail"}
    \/ kind # "run" /\ sigCh # <<>>

Promise == INSTANCE HeldBlock
             WITH stage <- BlockStage, lock <- (child = "reading"),
                  killed <- (child = "killed"), reason <- BlockReason

\* A block of any kind is shown under a lock and keeps it until its event: a
\* write to the path of a hold, the end of the very process that is awaited, a
\* condition that is false, the end of run's command; or until a signal.
KeepsBlock == Promise!Spec

\* The event of the block.
EventCame ==
    CASE kind = "hold" -> wrote
      [] kind = "pid"  -> target = "dead"
      [] kind = "cmd"  -> ~cond
      [] kind = "run"  -> command \in {"ok", "fail"}
      [] OTHER         -> FALSE

\* Under FairSpec: the event ends the block and frees the lock, in particular a
\* write that comes while the pipe is being made, and a command that fails; unless
\* it is undone in time: the PID is another process's, or the condition is back.
EventEnds ==
    (at = "loop" /\ EventCame) ~> (child \in {"ended", "killed"} \/ ~EventCame)

\* startRun catches signals, and this one has come.
Caught(n) == kind = "run" /\ at \in {"listening", "loop"} /\ signals >= n

\* Under FairSpec: every signal that startRun catches, even before it starts the
\* command, while one waits or while one is forwarded, has the command get a
\* signal after it, unless the command has ended, there is none, or startRun is
\* killed.
SignalReachesCommand ==
    \A n \in 1 .. MaxSignals :
        Caught(n) ~> \/ served >= n
                     \/ command \in {"ok", "fail"}
                     \/ command = "none" /\ at = "gone"
                     \/ code = "kill"

=============================================================================
