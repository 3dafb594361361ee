-------------------------- MODULE EventBlockProofs --------------------------
(***************************************************************************)
(* What EventBlock promises of every block and any number of signals: its  *)
(* safety properties follow from one inductive invariant, which says where *)
(* the process, its child, its command and its goroutine can be together.  *)
(***************************************************************************)
EXTENDS EventBlock, TLAPS

\* The process is about to publish, or has, and has not closed its FIFO.
HoldsFifo == {"opened", "published", "listening", "loop", "leaving"}

\* From the moment the FIFO is open the child reads it, or was killed; the
\* deferred calls begin with the state file; code is that of a process that is
\* gone.
ProcessInv ==
    /\ at \in HoldsFifo => child \in {"reading", "killed"}
    /\ at = "closing" => ~listed
    /\ at = "gone" <=> code # "none"
    /\ code = "ok" => ~listed /\ ~fifo /\ child \in {"ended", "killed"}

\* Only startRun has a command, and only in its loop, unless it was killed.
CommandInv ==
    /\ kind # "run" => command = "none"
    /\ kind = "run" => go = "none"
    /\ at \in {"begin", "opening", "opened", "published", "listening"}
         => command = "none"
    /\ command = "running" => at = "loop" \/ code = "kill"

\* Where the goroutine of a hold is, and who has written by then.
HoldInv ==
    /\ go \in {"mkfifo", "open", "read"} => kind = "hold"
    /\ kind = "hold" /\ go = "mkfifo" => pipe \in {"absent", "file"}
    /\ pipe = "file" \/ writer # "none" => wrote
    /\ kind = "hold" /\ go = "closed" => wrote

\* Whose end the goroutine of an await waits for.
AwaitInv ==
    /\ go \in {"wait", "poll"} => kind = "pid"
    /\ go = "wait" => awaited \in {"alive", "other"}
    /\ awaited = "other" => target # "alive"
    /\ kind = "pid" /\ go = "closed" => target # "alive"

EventInv == TypeOK /\ ProcessInv /\ CommandInv /\ HoldInv /\ AwaitInv

\* A process that is gone forwards nothing.
LEMMA NoneIsANumber == 0 \in 0 .. MaxSignals
BY MaxSignalsAssumption

LEMMA InitEventInv == Init => EventInv
<1> SUFFICES ASSUME Init PROVE EventInv
  OBVIOUS
<1>1. wrote \in BOOLEAN /\ (pipe = "file" => wrote)
  BY DEF Init
<1>2. fifo \in BOOLEAN /\ listed \in BOOLEAN /\ cond \in BOOLEAN
  BY DEF Init
<1>3. TypeOK
  <2>1. kind \in Daemons \cup {"run"} /\ sigCh \in {<<>>, <<"signal">>}
    BY DEF Init
  <2>2. /\ signals \in 0 .. MaxSignals
        /\ forward \in 0 .. MaxSignals /\ served \in 0 .. MaxSignals
    BY MaxSignalsAssumption DEF Init
  <2>3. pipe \in {"absent", "fifo", "file"}
    BY DEF Init
  <2> QED BY <1>1, <1>2, <2>1, <2>2, <2>3 DEF Init, TypeOK
<1>4. ProcessInv /\ CommandInv /\ AwaitInv
  BY DEF Init, ProcessInv, CommandInv, AwaitInv, HoldsFifo, Daemons
<1>5. HoldInv
  BY <1>1 DEF Init, HoldInv
<1> QED BY <1>3, <1>4, <1>5 DEF EventInv

\* The steps up to the loop.
LEMMA StartKeepsInv == EventInv /\ Start => EventInv'
<1> SUFFICES ASSUME EventInv, Start PROVE EventInv'
  OBVIOUS
<1> USE DEF EventInv, TypeOK, ProcessInv, CommandInv, HoldInv, AwaitInv, HoldsFifo, Daemons,
        Moves, Exits, GoTo, procVars, dirVars, worldVars, modeVars
<1>1. CASE Begins
  BY <1>1 DEF Begins
<1>2. CASE Publishes
  BY <1>2 DEF Publishes
<1>3. CASE Listens
  BY <1>3 DEF Listens
<1>4. CASE RunsMode
  BY <1>4 DEF RunsMode
<1>5. CASE StartsCommand
  BY <1>5 DEF StartsCommand
<1> QED BY <1>1, <1>2, <1>3, <1>4, <1>5 DEF Start

\* The loop, and startRun's end.
LEMMA LoopKeepsInv == EventInv /\ (Loop \/ Goroutine) => EventInv'
<1> SUFFICES ASSUME EventInv, Loop \/ Goroutine PROVE EventInv'
  OBVIOUS
<1> USE DEF EventInv, TypeOK, ProcessInv, CommandInv, HoldInv, AwaitInv, HoldsFifo, Daemons,
        Moves, Exits, GoTo, procVars, dirVars, worldVars, modeVars
<1>1. CASE ModeDone
  BY <1>1 DEF ModeDone
<1>2. CASE TakesSignal
  BY <1>2 DEF TakesSignal
<1>3. CASE Reaps
  BY <1>3, NoneIsANumber DEF Reaps
<1>4. CASE Receives
  BY <1>4 DEF Receives
<1>5. CASE Forwards
  <2>1. forward' \in 0 .. MaxSignals /\ served' \in 0 .. MaxSignals
    BY <1>5, NoneIsANumber DEF Forwards
  <2>2. UNCHANGED <<kind, at, code, signals, dirVars, worldVars, modeVars>> /\ sigCh' = sigCh
    BY <1>5 DEF Forwards
  <2> QED BY <2>1, <2>2
<1> QED BY <1>1, <1>2, <1>3, <1>4, <1>5 DEF Loop, Goroutine

\* The deferred calls, and the child.
LEMMA LeavingKeepsInv == EventInv /\ (Deferred \/ CatEnds \/ Opens) => EventInv'
<1> SUFFICES ASSUME EventInv, Deferred \/ CatEnds \/ Opens PROVE EventInv'
  OBVIOUS
<1> USE DEF EventInv, TypeOK, ProcessInv, CommandInv, HoldInv, AwaitInv, HoldsFifo, Daemons,
        Moves, Exits, GoTo, procVars, dirVars, worldVars, modeVars
<1>1. CASE Closes
  <2>1. listed' \in BOOLEAN /\ fifo' \in BOOLEAN
    BY <1>1 DEF Closes
  <2> QED BY <1>1, <2>1 DEF Closes
<1>2. CASE Leaves
  <2>1. listed' \in BOOLEAN /\ fifo' \in BOOLEAN
    BY <1>2 DEF Leaves
  <2>2. ~listed' /\ ~fifo'
    BY <1>2 DEF Leaves
  <2>3. wrote' \in BOOLEAN /\ cond' \in BOOLEAN
    BY <1>2 DEF Leaves
  <2> QED BY <1>2, <2>1, <2>2, <2>3, NoneIsANumber DEF Leaves
<1>3. CASE CatEnds
  BY <1>3 DEF CatEnds
<1>4. CASE Opens
  BY <1>4 DEF Opens
<1> QED BY <1>1, <1>2, <1>3, <1>4 DEF Deferred

\* What fails, and what kills.
LEMMA FailureKeepsInv ==
    ASSUME EventInv,
           FailsToStart \/ CannotStartCommand \/ Signalled \/ Killed \/ ChildKilled
    PROVE  EventInv'
<1> USE DEF EventInv, TypeOK, ProcessInv, CommandInv, HoldInv, AwaitInv, HoldsFifo, Daemons,
        Moves, Exits, GoTo, procVars, dirVars, worldVars, modeVars
<1>1. CASE FailsToStart
  <2>1. listed' \in BOOLEAN /\ fifo' \in BOOLEAN
    BY <1>1 DEF FailsToStart
  <2> QED BY <1>1, <2>1, NoneIsANumber DEF FailsToStart
<1>2. CASE CannotStartCommand
  BY <1>2, NoneIsANumber DEF CannotStartCommand
<1>3. CASE Signalled
  <2>1. CASE Deaf
    BY <1>3, <2>1, MaxSignalsAssumption DEF Signalled, Deaf
  <2>2. CASE ~Deaf
    BY <1>3, <2>2, MaxSignalsAssumption DEF Signalled, Deaf, OneSignal
  <2> QED BY <2>1, <2>2
<1>4. CASE Killed
  BY <1>4, NoneIsANumber DEF Killed
<1>5. CASE ChildKilled
  BY <1>5 DEF ChildKilled
<1> QED BY <1>1, <1>2, <1>3, <1>4, <1>5

\* The goroutines of the modes.
LEMMA ModeKeepsInv == EventInv /\ Mode => EventInv'
<1> SUFFICES ASSUME EventInv, Mode PROVE EventInv'
  OBVIOUS
<1> USE DEF EventInv, TypeOK, ProcessInv, CommandInv, HoldInv, AwaitInv, HoldsFifo, Daemons,
        Moves, Exits, GoTo, procVars, dirVars, worldVars, modeVars
<1>1. CASE HoldStats
  BY <1>1 DEF HoldStats
<1>2. CASE HoldMakes
  BY <1>2 DEF HoldMakes
<1>3. CASE HoldOpens
  BY <1>3 DEF HoldOpens
<1>4. CASE HoldReads
  BY <1>4 DEF HoldReads
<1>5. CASE AwaitOpens
  BY <1>5 DEF AwaitOpens
<1>6. CASE AwaitReturns
  BY <1>6 DEF AwaitReturns
<1>7. CASE AwaitPolls
  BY <1>7 DEF AwaitPolls
<1>8. CASE CmdPolls
  BY <1>8 DEF CmdPolls
<1> QED BY <1>1, <1>2, <1>3, <1>4, <1>5, <1>6, <1>7, <1>8 DEF Mode

\* What happens outside.
LEMMA WorldKeepsInv == EventInv /\ (World \/ WriterWrites) => EventInv'
<1> SUFFICES ASSUME EventInv, World \/ WriterWrites PROVE EventInv'
  OBVIOUS
<1> USE DEF EventInv, TypeOK, ProcessInv, CommandInv, HoldInv, AwaitInv, HoldsFifo, Daemons,
        Moves, Exits, GoTo, procVars, dirVars, worldVars, modeVars
<1>1. CASE WriterOpens
  BY <1>1 DEF WriterOpens
<1>2. CASE TargetChanges
  BY <1>2 DEF TargetChanges
<1>3. CASE ConditionChanges
  BY <1>3 DEF ConditionChanges
<1>4. CASE CommandEnds
  BY <1>4 DEF CommandEnds
<1>5. CASE WriterWrites
  BY <1>5 DEF WriterWrites
<1> QED BY <1>1, <1>2, <1>3, <1>4, <1>5 DEF World

LEMMA NextKeepsEventInv == EventInv /\ [Next]_vars => EventInv'
<1> SUFFICES ASSUME EventInv, [Next]_vars PROVE EventInv'
  OBVIOUS
<1>1. CASE Next
  BY <1>1, StartKeepsInv, LoopKeepsInv, LeavingKeepsInv, FailureKeepsInv, ModeKeepsInv,
     WorldKeepsInv DEF Next
<1>2. CASE UNCHANGED vars
  BY <1>2 DEF EventInv, TypeOK, ProcessInv, CommandInv, HoldInv, AwaitInv, vars, procVars,
              dirVars, worldVars, modeVars
<1> QED BY <1>1, <1>2

THEOREM EventInvariant == Spec => []EventInv
<1>1. Init => EventInv
  BY InitEventInv
<1>2. EventInv /\ [Next]_vars => EventInv'
  BY NextKeepsEventInv
<1> QED BY <1>1, <1>2, PTL DEF Spec

\* Every variable stays in its type; in particular one signal at most waits.
THEOREM EventTypes == Spec => []TypeOK
<1>1. EventInv => TypeOK
  BY DEF EventInv
<1> QED BY <1>1, EventInvariant, PTL

\* While the user's command runs there is a lock, and somebody to release it,
\* however many signals come and wherever the start fails.
THEOREM CommandRunsUnderLock == Spec => []HeldWhileCommandRuns
<1>1. EventInv => HeldWhileCommandRuns
  BY DEF EventInv, TypeOK, ProcessInv, CommandInv, HoldsFifo, HeldWhileCommandRuns
<1> QED BY <1>1, EventInvariant, PTL

\* No hold ends before somebody wrote to its path.
THEOREM NoWriteNoEnd == Spec => []HoldEndsByWrite
<1>1. EventInv => HoldEndsByWrite
  BY DEF EventInv, HoldInv, HoldEndsByWrite
<1> QED BY <1>1, EventInvariant, PTL

\* No await ends while its process lives.
THEOREM ProcessAliveNoEnd == Spec => []AwaitOutlivesProcess
<1>1. EventInv => AwaitOutlivesProcess
  BY DEF EventInv, AwaitInv, AwaitOutlivesProcess
<1> QED BY <1>1, EventInvariant, PTL

\* Exit code 0 is given only by a process that has left nothing behind.
THEOREM OkLeavesNothing == Spec => []CleanExitLeavesNothing
<1>1. EventInv => CleanExitLeavesNothing
  BY DEF EventInv, ProcessInv, CleanExitLeavesNothing
<1> QED BY <1>1, EventInvariant, PTL

-----------------------------------------------------------------------------
(***************************************************************************)
(* What SignalReachesCommand rests on, without fairness: no signal that    *)
(* startRun catches is lost on its way to the command.                     *)
(***************************************************************************)

\* Every signal is in the channel, or for one in it; or the goroutine has the one
\* for the last of them; or the command has.
OnItsWay ==
    sigCh # <<>> \/ forward = signals \/ (served = signals /\ forward = 0)

SignalInv ==
    kind = "run" =>
        /\ at \notin {"listening", "loop", "leaving", "closing", "gone"}
             => signals = 0 /\ forward = 0 /\ served = 0
        /\ at = "loop" => command # "none"
        /\ at = "listening" \/ (at = "loop" /\ command = "running") => OnItsWay

\* A block is of one kind.
LEMMA KindStays == [Next]_vars => kind' = kind
<1> SUFFICES ASSUME [Next]_vars PROVE kind' = kind
  OBVIOUS
<1> USE DEF Moves, Exits, GoTo, procVars
<1>1. CASE Start \/ Loop \/ Goroutine \/ Deferred
  BY <1>1 DEF Start, Begins, Publishes, Listens, RunsMode, StartsCommand, Loop, ModeDone,
     TakesSignal, Reaps, Goroutine, Receives, Forwards, Deferred, Closes, Leaves
<1>2. CASE Mode
  BY <1>2 DEF Mode, HoldStats, HoldMakes, HoldOpens, HoldReads, AwaitOpens, AwaitReturns,
     AwaitPolls, CmdPolls
<1>3. CASE CatEnds \/ WriterWrites \/ Opens \/ FailsToStart \/ CannotStartCommand
  BY <1>3 DEF CatEnds, WriterWrites, Opens, FailsToStart, CannotStartCommand
<1>4. CASE Signalled \/ Killed \/ ChildKilled \/ World
  BY <1>4 DEF Signalled, Killed, ChildKilled, World, WriterOpens, TargetChanges,
     ConditionChanges, CommandEnds
<1> QED BY <1>1, <1>2, <1>3, <1>4 DEF Next, vars

LEMMA NextKeepsSignalInv == EventInv /\ SignalInv /\ [Next]_vars => SignalInv'
<1> SUFFICES ASSUME EventInv, SignalInv, [Next]_vars, kind = "run" PROVE SignalInv'
  BY KindStays DEF SignalInv
<1> USE DEF SignalInv, OnItsWay, Moves, Exits, GoTo, procVars, dirVars, worldVars, modeVars
<1>1. CASE Start
  BY <1>1 DEF Start, Begins, Publishes, Listens, RunsMode, StartsCommand
<1>2. CASE Loop
  BY <1>2 DEF Loop, ModeDone, TakesSignal, Reaps
<1>3. CASE Receives
  BY <1>3 DEF Receives, Forwarding
<1>4. CASE Forwards
  BY <1>4 DEF Forwards, Forwarding
<1>5. CASE Deferred \/ CatEnds \/ Opens \/ ChildKilled
  BY <1>5 DEF Deferred, Closes, Leaves, CatEnds, Opens, ChildKilled
<1>6. CASE FailsToStart \/ CannotStartCommand \/ Killed
  BY <1>6 DEF FailsToStart, CannotStartCommand, Killed
<1>7. CASE Signalled
  <2>1. CASE Deaf
    BY <1>7, <2>1 DEF Signalled
  <2>2. CASE ~Deaf
    <3>1. sigCh' = <<"signal">> /\ at' = at
      BY <1>7, <2>2 DEF Signalled, OneSignal
    <3>2. at \in {"listening", "loop"}
      BY <1>7, <2>2 DEF Signalled, Deaf, EventInv, TypeOK
    <3>3. <<"signal">> # <<>>
      OBVIOUS
    <3> QED BY <1>7, <3>1, <3>2, <3>3 DEF Signalled
  <2> QED BY <2>1, <2>2
<1>8. CASE Mode \/ World \/ WriterWrites
  BY <1>8 DEF Mode, HoldStats, HoldMakes, HoldOpens, HoldReads, AwaitOpens, AwaitReturns,
     AwaitPolls, CmdPolls, World, WriterOpens, TargetChanges, ConditionChanges, CommandEnds,
     WriterWrites
<1>9. CASE UNCHANGED vars
  BY <1>9 DEF vars
<1> QED BY <1>1, <1>2, <1>3, <1>4, <1>5, <1>6, <1>7, <1>8, <1>9 DEF Next, Goroutine

\* While the command runs, the last signal of any number has reached it or is on its
\* way, whether it came before the command, while another one waited, or while one
\* was being forwarded.
THEOREM NoSignalIsLost ==
    Spec => [](kind = "run" /\ command = "running" /\ at = "loop" => OnItsWay)
<1>1. Init => SignalInv
  BY DEF Init, SignalInv
<1>2. EventInv /\ SignalInv /\ [Next]_vars => SignalInv'
  BY NextKeepsSignalInv
<1>3. SignalInv => (kind = "run" /\ command = "running" /\ at = "loop" => OnItsWay)
  BY DEF SignalInv
<1> QED BY <1>1, <1>2, <1>3, EventInvariant, PTL DEF Spec

-----------------------------------------------------------------------------
(***************************************************************************)
(* That a block of any kind is a HeldBlock.  Two more facts: no goroutine  *)
(* runs before the loop, and no child before it is started.                *)
(***************************************************************************)
BeforeLoop == {"begin", "opening", "opened", "published", "listening"}

StartInv ==
    /\ at \in BeforeLoop => go = "none"
    /\ at = "begin" => child = "none"

LEMMA NextKeepsStartInv == EventInv /\ StartInv /\ [Next]_vars => StartInv'
<1> SUFFICES ASSUME EventInv, StartInv, [Next]_vars PROVE StartInv'
  OBVIOUS
<1> USE DEF StartInv, BeforeLoop, Moves, Exits, GoTo, procVars, dirVars, worldVars, modeVars
<1>1. CASE Start
  BY <1>1 DEF Start, Begins, Publishes, Listens, RunsMode, StartsCommand
<1>2. CASE Loop \/ Goroutine \/ Deferred
  BY <1>2 DEF Loop, ModeDone, TakesSignal, Reaps, Goroutine, Receives, Forwards, Deferred, Closes, Leaves
<1>3. CASE CatEnds \/ Opens \/ ChildKilled
  BY <1>3 DEF CatEnds, Opens, ChildKilled
<1>4. CASE FailsToStart \/ CannotStartCommand \/ Signalled \/ Killed
  BY <1>4 DEF FailsToStart, CannotStartCommand, Signalled, Killed
<1>5. CASE Mode
  BY <1>5 DEF Mode, HoldStats, HoldMakes, HoldOpens, HoldReads, AwaitOpens,
              AwaitReturns, AwaitPolls, CmdPolls
<1>6. CASE World \/ WriterWrites
  BY <1>6 DEF World, WriterOpens, TargetChanges, ConditionChanges, CommandEnds,
              WriterWrites
<1>7. CASE UNCHANGED vars
  BY <1>7 DEF vars
<1> QED BY <1>1, <1>2, <1>3, <1>4, <1>5, <1>6, <1>7 DEF Next

LEMMA PromiseInit == Init => Promise!Init
BY DEF Init, Promise!Init, BlockStage, BlockReason

\* A step that leaves the process, its goroutine and its child where they are.
LEMMA SameStage ==
    ASSUME UNCHANGED <<kind, at, code, go>>, child' \in {child, "killed"} PROVE Promise!Next
<1>1. BlockStage' = BlockStage
  BY DEF BlockStage
<1>2. BlockStage \in {"before", "on", "over", "perished"}
  BY DEF BlockStage
<1> QED BY <1>1, <1>2 DEF Promise!Next, Promise!Prepare, Promise!Serve, Promise!Clear,
       Promise!Stays, Promise!NothingTaken, BlockReason

LEMMA StartRefines ==
    EventInv /\ StartInv /\ (Start \/ Opens) => Promise!Next
<1> SUFFICES ASSUME EventInv, StartInv, Start \/ Opens PROVE Promise!Next
  OBVIOUS
<1>1. BlockReason' \in BOOLEAN
  BY DEF BlockReason
<1> USE DEF Promise!Next, Promise!Stays, Moves
<1>2. CASE Begins \/ Opens
  <2>1. /\ BlockStage = "before" /\ BlockStage' = "before"
        /\ child # "killed"
    BY <1>2 DEF Begins, Opens, BlockStage, StartInv, BeforeLoop, modeVars, procVars
  <2> QED BY <1>1, <2>1 DEF Promise!Prepare
<1>3. CASE Publishes
  <2>1. child \in {"reading", "killed"} /\ UNCHANGED child
    BY <1>3 DEF Publishes, EventInv, ProcessInv, HoldsFifo
  <2>2. BlockStage = "before" /\ BlockStage' = IF kind = "run" THEN "before" ELSE "on"
    BY <1>3 DEF Publishes, BlockStage, StartInv, BeforeLoop, modeVars
  <2> QED BY <1>1, <2>1, <2>2 DEF Promise!Prepare, Promise!Announce
<1>4. CASE Listens \/ RunsMode
  <2>1. UNCHANGED child /\ BlockStage' = BlockStage /\ BlockStage \in {"before", "on"}
    BY <1>4 DEF Listens, RunsMode, BlockStage, StartInv, BeforeLoop, modeVars, dirVars
  <2> QED BY <1>1, <2>1 DEF Promise!Prepare, Promise!Serve, Promise!NothingTaken
<1>5. CASE StartsCommand
  <2>1. child \in {"reading", "killed"} /\ UNCHANGED child
    BY <1>5 DEF StartsCommand, EventInv, ProcessInv, HoldsFifo, dirVars
  <2>2. BlockStage = "before" /\ BlockStage' = "on"
    BY <1>5 DEF StartsCommand, BlockStage, StartInv, BeforeLoop, modeVars
  <2> QED BY <1>1, <2>1, <2>2 DEF Promise!Announce
<1> QED BY <1>2, <1>3, <1>4, <1>5 DEF Start

\* The loop ends for the event that the mode has seen, or a signal; startRun ends
\* when the command has.
LEMMA LoopRefines == EventInv /\ (Loop \/ Goroutine \/ Deferred) => Promise!Next
<1> SUFFICES ASSUME EventInv, Loop \/ Goroutine \/ Deferred PROVE Promise!Next
  OBVIOUS
<1>1. BlockReason' \in BOOLEAN /\ UNCHANGED child
  BY DEF BlockReason, Loop, ModeDone, TakesSignal, Reaps, Goroutine, Receives, Forwards,
         Deferred, Closes, Leaves, dirVars
<1> USE DEF Promise!Next, Promise!Stays, Promise!NothingTaken, Moves, Exits
<1>2. CASE Goroutine
  BY <1>2, SameStage DEF Goroutine, Receives, Forwards, dirVars, modeVars
<1>3. CASE ModeDone \/ Closes \/ Leaves
  <2>1. BlockStage = "over" /\ BlockStage' = "over"
    BY <1>3 DEF ModeDone, Closes, Leaves, BlockStage, modeVars
  <2> QED BY <1>1, <2>1 DEF Promise!Clear
<1>4. CASE TakesSignal \/ Reaps
  <2>1. BlockReason /\ BlockStage \in {"on", "over"} /\ BlockStage' = "over"
    BY <1>4 DEF TakesSignal, Reaps, BlockStage, BlockReason, EventInv, CommandInv,
                TypeOK, modeVars
  <2> QED BY <1>1, <2>1 DEF Promise!End, Promise!Clear
<1> QED BY <1>2, <1>3, <1>4 DEF Loop, Deferred

\* A start that fails, a signal that kills, and what becomes of the child.
LEMMA FailureRefines ==
    ASSUME EventInv, StartInv,
           FailsToStart \/ CannotStartCommand \/ Signalled \/ Killed \/ ChildKilled \/ CatEnds
    PROVE  Promise!Next
<1>1. BlockReason' \in BOOLEAN
  BY DEF BlockReason
<1> USE DEF Promise!Next, Promise!Stays, Promise!NothingTaken, Exits
<1>2. CASE FailsToStart \/ CannotStartCommand
  <2>1. BlockStage = "before" /\ BlockStage' = "over" /\ UNCHANGED child
    BY <1>2 DEF FailsToStart, CannotStartCommand, BlockStage, StartInv, BeforeLoop, dirVars
  <2> QED BY <1>1, <2>1 DEF Promise!Abandon
<1>3. CASE Killed \/ (Signalled /\ Deaf)
  <2>1. BlockStage # "perished" /\ BlockStage' = "perished" /\ UNCHANGED child
    BY <1>3 DEF Killed, Signalled, BlockStage, dirVars
  <2> QED BY <1>1, <2>1 DEF Promise!Perish
<1>4. CASE ChildKilled \/ (Signalled /\ ~Deaf)
  BY <1>4, SameStage DEF ChildKilled, Signalled, procVars, dirVars, modeVars
<1>5. CASE CatEnds
  <2>1. /\ BlockStage' = BlockStage /\ BlockStage \in {"over", "perished"}
        /\ child = "reading" /\ child' = "ended"
    BY <1>5 DEF CatEnds, BlockStage, procVars, modeVars
  <2> QED BY <1>1, <2>1 DEF Promise!Clear
<1> QED BY <1>2, <1>3, <1>4, <1>5

\* A goroutine closes the channel of the loop when the event has come: a hold's
\* after a write, or because somebody else has made a file of the path; an await's
\* because the process it waits for is none any more.
LEMMA ModeRefines == EventInv /\ StartInv /\ Mode => Promise!Next
<1> SUFFICES ASSUME EventInv, StartInv, Mode PROVE Promise!Next
  OBVIOUS
<1>1. /\ BlockReason' \in BOOLEAN /\ UNCHANGED <<kind, at, code, child>>
      /\ at # "gone"
  BY DEF BlockReason, Mode, HoldStats, HoldMakes, HoldOpens, HoldReads, AwaitOpens,
         AwaitReturns, AwaitPolls, CmdPolls, GoTo, procVars, dirVars
<1>2. go \notin {"none", "closed"}
  BY DEF Mode, HoldStats, HoldMakes, HoldOpens, HoldReads, AwaitOpens,
         AwaitReturns, AwaitPolls, CmdPolls
<1>3. at \notin BeforeLoop
  BY <1>2 DEF StartInv
<1>4. at \in {"loop", "leaving", "closing"}
  BY <1>1, <1>3 DEF BeforeLoop, EventInv, TypeOK
<1>5. BlockStage = IF at = "loop" THEN "on" ELSE "over"
  BY <1>1, <1>2, <1>4 DEF BlockStage
<1>6. CASE go' = "closed"
  <2>1. BlockReason
    BY <1>6 DEF BlockReason, Mode, HoldStats, HoldMakes, HoldOpens, HoldReads, AwaitOpens,
         AwaitReturns, AwaitPolls, CmdPolls, GoTo, EventInv, HoldInv, AwaitInv, TypeOK
  <2>2. BlockStage' = "over"
    BY <1>1, <1>6 DEF BlockStage
  <2> QED BY <1>1, <1>5, <2>1, <2>2 DEF Promise!Next, Promise!End, Promise!Clear,
       Promise!Stays, Promise!NothingTaken
<1>7. CASE go' # "closed"
  <2>1. BlockStage' = BlockStage
    BY <1>1, <1>4, <1>5, <1>7 DEF BlockStage
  <2> QED BY <1>1, <1>5, <2>1 DEF Promise!Next, Promise!Serve, Promise!Clear,
       Promise!Stays, Promise!NothingTaken
<1> QED BY <1>6, <1>7

LEMMA StepRefinesHeldBlock ==
    EventInv /\ StartInv /\ [Next]_vars => [Promise!Next]_(Promise!vars)
<1> SUFFICES ASSUME EventInv, StartInv, [Next]_vars PROVE Promise!Next
  OBVIOUS
<1>1. CASE World \/ WriterWrites \/ UNCHANGED vars
  BY <1>1, SameStage DEF World, WriterOpens, TargetChanges, ConditionChanges, CommandEnds,
     WriterWrites, vars, procVars, dirVars, modeVars
<1> QED BY <1>1, StartRefines, LoopRefines, FailureRefines, ModeRefines DEF Next

\* Every kind of block implements HeldBlock, for any number of signals and whatever
\* happens in the world: shown under a lock, held until its own event or a signal,
\* and nothing is taken after that.
THEOREM EventBlockKeepsPromise == Spec => KeepsBlock
<1>1. Init => Promise!Init /\ StartInv
  BY PromiseInit DEF Init, StartInv
<1>2. EventInv /\ StartInv /\ [Next]_vars => StartInv'
  BY NextKeepsStartInv
<1>3. EventInv /\ StartInv /\ [Next]_vars => [Promise!Next]_(Promise!vars)
  BY StepRefinesHeldBlock
<1> QED BY <1>1, <1>2, <1>3, EventInvariant, PTL DEF Spec, KeepsBlock, Promise!Spec

=============================================================================
