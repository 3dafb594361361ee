------------------------- MODULE BlockDaemonProofs -------------------------
(***************************************************************************)
(* What the client of startBlock is told holds for every duration and for  *)
(* any number of commands: a published PID stands for a lock.              *)
(***************************************************************************)
EXTENDS BlockDaemon, TLAPS

(***************************************************************************)
(* The strengthening.  A PID gets into the state file, and from there into *)
(* a command's memory, only once the daemon has published it; the daemon   *)
(* has the FIFO open from before that until its deferred calls; and a FIFO *)
(* that is open has cat at its other end, or had until somebody killed it. *)
(***************************************************************************)
HasPublished == daemon \in {"published", "loop", "leaving", "unlisted", "closed", "gone"}

HasFifo == daemon \in {"opened", "published", "loop", "leaving", "unlisted"}

PidIsPublished ==
    /\ file \in File /\ cmd \in Cmd /\ endTime \in Nat
    /\ file.pid => HasPublished
    /\ cmd.pid => HasPublished

FifoHasReader ==
    /\ client \in {"idle", "placed"} => daemon = "none"
    /\ HasFifo => writer = "open"
    /\ writer = "open" => child \in {"reading", "killed"}

HeldInv == PidIsPublished /\ FifoHasReader

LEMMA CountDownInNat == ASSUME NEW n \in Nat PROVE CountDown(n) \in Nat
BY DEF CountDown

LEMMA InitHeldInv == Init => HeldInv
BY DEF Init, HeldInv, PidIsPublished, FifoHasReader, HasFifo, NoFile, NoCmd, File, Cmd

\* The steps of startBlock.
LEMMA ClientKeepsHeld == HeldInv /\ Client => HeldInv'
<1> SUFFICES ASSUME HeldInv, Client PROVE HeldInv'
  OBVIOUS
<1> USE DurationAssumption DEF HeldInv, PidIsPublished, FifoHasReader, HasPublished,
        HasFifo, File, NoFile, daemonVars, dirVars, cmdVars
<1>1. CASE ClientPlaces
  BY <1>1 DEF ClientPlaces, TimerState
<1>2. CASE ClientSpawns
  BY <1>2 DEF ClientSpawns
<1>3. CASE ClientCannotSpawn
  BY <1>3 DEF ClientCannotSpawn
<1>4. CASE ClientSeesPID
  BY <1>4 DEF ClientSeesPID
<1>5. CASE ClientGivesUp
  BY <1>5 DEF ClientGivesUp
<1>6. CASE ClientRemoves
  BY <1>6 DEF ClientRemoves
<1> QED BY <1>1, <1>2, <1>3, <1>4, <1>5, <1>6 DEF Client

\* The steps of runDaemon up to its loop.
LEMMA StartupKeepsHeld == HeldInv /\ Startup => HeldInv'
<1> SUFFICES ASSUME HeldInv, Startup PROVE HeldInv'
  OBVIOUS
<1> USE DEF HeldInv, PidIsPublished, FifoHasReader, HasPublished, HasFifo, File,
        daemonVars, dirVars, cmdVars
<1>1. CASE DaemonReads
  BY <1>1 DEF DaemonReads
<1>2. CASE DaemonMakesFifo
  BY <1>2 DEF DaemonMakesFifo
<1>3. CASE DaemonStartsChild
  BY <1>3 DEF DaemonStartsChild
<1>4. CASE WriterBlocks
  BY <1>4 DEF WriterBlocks
<1>5. CASE DaemonOpened
  BY <1>5 DEF DaemonOpened
<1>6. CASE DaemonPublishes
  BY <1>6 DEF DaemonPublishes
<1>7. CASE DaemonListens
  BY <1>7 DEF DaemonListens
<1> QED BY <1>1, <1>2, <1>3, <1>4, <1>5, <1>6, <1>7 DEF Startup

\* The ways out of runDaemon, through its deferred calls or not.
LEMMA EndKeepsHeld ==
    HeldInv /\ (Loop \/ Deferred \/ DaemonFails \/ DaemonTimesOut \/ DaemonKilled)
        => HeldInv'
<1> SUFFICES ASSUME HeldInv,
                    Loop \/ Deferred \/ DaemonFails \/ DaemonTimesOut \/ DaemonKilled
             PROVE HeldInv'
  OBVIOUS
<1> USE DEF HeldInv, PidIsPublished, FifoHasReader, HasPublished, HasFifo, File,
        daemonVars, dirVars, cmdVars, DaemonDies
<1>1. CASE LoopDone
  BY <1>1 DEF LoopDone
<1>2. CASE LoopTerm
  BY <1>2 DEF LoopTerm
<1>3. CASE LoopReload
  BY <1>3 DEF LoopReload
<1>4. CASE DeferRemoveState
  BY <1>4 DEF DeferRemoveState, NoFile
<1>5. CASE DeferClose
  BY <1>5 DEF DeferClose
<1>6. CASE DeferWait
  BY <1>6 DEF DeferWait
<1>7. CASE DaemonFails
  BY <1>7 DEF DaemonFails
<1>8. CASE DaemonTimesOut
  BY <1>8 DEF DaemonTimesOut
<1>9. CASE DaemonKilled
  BY <1>9 DEF DaemonKilled
<1> QED BY <1>1, <1>2, <1>3, <1>4, <1>5, <1>6, <1>7, <1>8, <1>9 DEF Loop, Deferred

\* The steps of the child: none of them ends a cat whose FIFO is open.
LEMMA ChildKeepsHeld ==
    HeldInv /\ (Child \/ SudoRefuses \/ ChildKilled) => HeldInv'
<1> SUFFICES ASSUME HeldInv, Child \/ SudoRefuses \/ ChildKilled PROVE HeldInv'
  OBVIOUS
<1> USE DEF HeldInv, PidIsPublished, FifoHasReader, HasPublished, HasFifo, File,
        daemonVars, dirVars, cmdVars
<1>1. CASE InhibitLocks
  BY <1>1 DEF InhibitLocks
<1>2. CASE CatOpens
  BY <1>2 DEF CatOpens
<1>3. CASE FifoConnects
  BY <1>3 DEF FifoConnects
<1>4. CASE CatEnds
  BY <1>4 DEF CatEnds
<1>5. CASE SudoRefuses
  BY <1>5 DEF SudoRefuses
<1>6. CASE ChildKilled
  BY <1>6 DEF ChildKilled
<1> QED BY <1>1, <1>2, <1>3, <1>4, <1>5, <1>6 DEF Child

\* The other commands, which write back the PID they have read.
LEMMA CommandKeepsHeld == HeldInv /\ (Command \/ CmdReads) => HeldInv'
<1> SUFFICES ASSUME HeldInv, Command \/ CmdReads PROVE HeldInv'
  OBVIOUS
<1> USE ExtensionAssumption DEF HeldInv, PidIsPublished, FifoHasReader, HasPublished,
        HasFifo, File, NoFile, Cmd, NoCmd, daemonVars, dirVars, cmdVars
<1>1. CASE CmdReads
  BY <1>1 DEF CmdReads
<1>2. CASE CmdChecksActive
  BY <1>2 DEF CmdChecksActive
<1>3. CASE CmdCleansUp
  BY <1>3 DEF CmdCleansUp
<1>4. CASE ExtendWrites
  BY <1>4 DEF ExtendWrites
<1>5. CASE ExtendSignals
  BY <1>5 DEF ExtendSignals, Kill, DaemonDies
<1>6. CASE StopSignals
  BY <1>6 DEF StopSignals, Kill, DaemonDies
<1> QED BY <1>1, <1>2, <1>3, <1>4, <1>5, <1>6 DEF Command

\* The goroutines of the mode and the clock.
LEMMA TimeKeepsHeld == HeldInv /\ (Mode \/ Tick) => HeldInv'
<1> SUFFICES ASSUME HeldInv, Mode \/ Tick PROVE HeldInv'
  OBVIOUS
<1> USE DEF HeldInv, PidIsPublished, FifoHasReader, HasPublished, HasFifo, File
<1>1. CASE Mode
  BY <1>1 DEF Mode, ModeReads, ModeFires, sysVars, daemonVars, dirVars, cmdVars
<1>2. CASE Tick
  <2>1. file'.pid = file.pid /\ file' \in File /\ endTime' \in Nat
    BY <1>2, CountDownInNat DEF Tick
  <2> QED BY <1>2, <2>1 DEF Tick, cmdVars
<1> QED BY <1>1, <1>2

LEMMA NextKeepsHeld == HeldInv /\ [Next]_vars => HeldInv'
<1> SUFFICES ASSUME HeldInv, [Next]_vars PROVE HeldInv'
  OBVIOUS
<1>1. CASE Next
  BY <1>1, ClientKeepsHeld, StartupKeepsHeld, EndKeepsHeld, ChildKeepsHeld,
     CommandKeepsHeld, TimeKeepsHeld DEF Next
<1>2. CASE UNCHANGED vars
  BY <1>2 DEF HeldInv, PidIsPublished, FifoHasReader, HasPublished, HasFifo, vars,
              sysVars, daemonVars, dirVars, cmdVars
<1> QED BY <1>1, <1>2

\* The invariant implies the property.
LEMMA HeldInvSuffices == HeldInv => PublishedIsHeld
BY DEF HeldInv, PidIsPublished, FifoHasReader, HasPublished, HasFifo,
       PublishedIsHeld, Ready, Serving, DaemonAlive

\* When startBlock reports a block, because the state file has the daemon's PID,
\* logind has the lock: the daemon opens the FIFO, which takes a cat that
\* systemd-inhibit started, before it publishes.  For every duration, extension
\* and number of commands.
THEOREM BlockPublishedIsHeld == Spec => []PublishedIsHeld
<1>1. Init => HeldInv
  BY InitHeldInv
<1>2. HeldInv /\ [Next]_vars => HeldInv'
  BY NextKeepsHeld
<1>3. HeldInv => PublishedIsHeld
  BY HeldInvSuffices
<1> QED BY <1>1, <1>2, <1>3, PTL DEF Spec

-----------------------------------------------------------------------------
(***************************************************************************)
(* Types: every run of the mode has one timer, one goroutine and one       *)
(* channel, and a goroutine waits on no timer older than its own.          *)
(***************************************************************************)

Timers == Seq(Nat \cup {Off})

LEMMA CountDownIsTimer == ASSUME NEW n \in Nat \cup {Off}
                          PROVE  CountDown(n) \in Nat \cup {Off}
BY DEF CountDown, Off

\* Run adds one of each.
LEMMA RunKeepsTypes ==
    ASSUME TimerTypeOK, NEW ts \in Timers, Len(ts) = Runs, NEW d \in Nat,
           RunOn(ts, d), late' \in BOOLEAN
    PROVE  TimerTypeOK'
<1> USE DEF TimerTypeOK, RunOn, Timers
<1>1. left' \in Timers /\ Runs' = Runs + 1
  BY DEF Runs
<1>2. waitsOn' \in Seq(Nat) /\ Len(waitsOn') = Runs + 1
  BY DEF Unread
<1>3. closed' \in Seq(BOOLEAN) /\ Len(closed') = Runs + 1
  OBVIOUS
<1>4. Runs \in Nat
  BY DEF Runs
<1>5. ASSUME NEW k \in 1 .. Runs + 1
      PROVE  waitsOn'[k] \in {Unread} \cup (k .. Runs + 1)
  <2>1. CASE k = Runs + 1
    BY <1>4, <2>1 DEF Unread
  <2>2. CASE k # Runs + 1
    BY <1>4, <1>5, <2>2
  <2> QED BY <2>1, <2>2
<1>6. failed' \in BOOLEAN
  OBVIOUS
<1> QED BY <1>1, <1>2, <1>3, <1>5, <1>6

\* A timer that is stopped is a timer still.
LEMMA StopIsTimers ==
    ASSUME TimerTypeOK, NEW t \in 1 .. Runs
    PROVE  /\ [left EXCEPT ![t] = Off] \in Timers
           /\ Len([left EXCEPT ![t] = Off]) = Runs
BY DEF TimerTypeOK, Timers, Runs

LEMMA ReloadKeepsTypes ==
    ASSUME TimerTypeOK, Runs > 0, NEW d \in Nat, Reload(d)
    PROVE  TimerTypeOK'
<1>1. Current \in 1 .. Runs
  BY DEF Current, Runs, TimerTypeOK
<1>2. late' \in BOOLEAN
  BY DEF Reload, NoteLate, TimerTypeOK
<1> QED BY <1>1, <1>2, StopIsTimers, RunKeepsTypes DEF Reload

LEMMA ModeKeepsTypes ==
    ASSUME TimerTypeOK, NEW k \in 1 .. Runs, GoReads(k) \/ GoFires(k)
    PROVE  TimerTypeOK'
<1> USE DEF TimerTypeOK
<1>0. Runs \in Nat /\ k \in Nat
  BY DEF Runs
<1>1. CASE GoReads(k)
  BY <1>0, <1>1 DEF GoReads, Current, Runs, Unread
<1>2. CASE GoFires(k)
  <2>1. waitsOn[k] \in 1 .. Runs
    BY <1>0, <1>2 DEF GoFires, Unread
  <2>2. left' \in Timers /\ Runs' = Runs
    BY <1>2, <2>1, StopIsTimers DEF GoFires, Runs
  <2>3. closed' \in Seq(BOOLEAN) /\ Len(closed') = Runs
    BY <1>2 DEF GoFires
  <2> QED BY <1>2, <2>2, <2>3 DEF GoFires, Timers
<1> QED BY <1>1, <1>2

LEMMA TimersTickKeepsTypes == ASSUME TimerTypeOK, TimersTick PROVE TimerTypeOK'
<1> USE DEF TimerTypeOK
<1>1. Runs \in Nat /\ \A t \in 1 .. Runs : left[t] \in Nat \cup {Off}
  BY DEF Runs
<1>2. \A t \in 1 .. Runs : CountDown(left[t]) \in Nat \cup {Off}
  BY <1>1, CountDownIsTimer
<1>3. left' \in Timers /\ Runs' = Runs
  BY <1>1, <1>2 DEF TimersTick, Timers, Runs
<1> QED BY <1>3 DEF TimersTick, Timers

(***************************************************************************)
(* The loop reloads the timer of a run, so there has to be one.            *)
(***************************************************************************)
TypeInv == TypeOK /\ (daemon = "loop" => Runs > 0)

LEMMA InitTypes == Init => TypeInv
<1> SUFFICES ASSUME Init PROVE TypeInv
  OBVIOUS
<1>1. TimerTypeOK
  <2>1. left \in Seq(Nat \cup {Off}) /\ waitsOn \in Seq(Nat) /\ closed \in Seq(BOOLEAN)
    BY DEF Init, TimerInit
  <2>2. Runs = 0 /\ Len(waitsOn) = 0 /\ Len(closed) = 0
    BY DEF Init, TimerInit, Runs
  <2>3. 1 .. Runs = {}
    BY <2>2
  <2> QED BY <2>1, <2>2, <2>3 DEF Init, TimerInit, TimerTypeOK
<1>2. commands \in 0 .. MaxCommands
  BY MaxCommandsAssumption DEF Init
<1> QED BY <1>1, <1>2 DEF Init, TypeInv, TypeOK, File, Cmd, NoFile, NoCmd

\* Steps that leave the mode alone.
LEMMA TimersUnchanged ==
    ASSUME TimerTypeOK, UNCHANGED timerVars PROVE TimerTypeOK' /\ Runs' = Runs
BY DEF TimerTypeOK, timerVars, Runs

LEMMA ClientTypes == TypeInv /\ Client => TypeInv'
<1> SUFFICES ASSUME TypeInv, Client PROVE TypeInv'
  OBVIOUS
<1> USE DurationAssumption DEF TypeInv, TypeOK, File, NoFile, daemonVars, dirVars, cmdVars
<1>1. CASE ClientPlaces
  <2>1. PICK d \in Durations : file' = [there |-> TRUE, pid |-> FALSE, end |-> d]
    BY <1>1 DEF ClientPlaces, TimerState
  <2>2. file' \in File
    BY <2>1
  <2> QED BY <1>1, <2>2, TimersUnchanged DEF ClientPlaces, TimerState
<1>2. CASE ClientSpawns
  BY <1>2, TimersUnchanged DEF ClientSpawns
<1>3. CASE ClientCannotSpawn
  BY <1>3, TimersUnchanged DEF ClientCannotSpawn
<1>4. CASE ClientSeesPID
  BY <1>4, TimersUnchanged DEF ClientSeesPID
<1>5. CASE ClientGivesUp
  BY <1>5, TimersUnchanged DEF ClientGivesUp
<1>6. CASE ClientRemoves
  BY <1>6, TimersUnchanged DEF ClientRemoves
<1> QED BY <1>1, <1>2, <1>3, <1>4, <1>5, <1>6 DEF Client

LEMMA StartupTypes == TypeInv /\ Startup => TypeInv'
<1> SUFFICES ASSUME TypeInv, Startup PROVE TypeInv'
  OBVIOUS
<1> USE DEF TypeInv, TypeOK, File, daemonVars, dirVars, cmdVars
<1>1. CASE DaemonReads
  BY <1>1, TimersUnchanged DEF DaemonReads
<1>2. CASE DaemonMakesFifo
  BY <1>2, TimersUnchanged DEF DaemonMakesFifo
<1>3. CASE DaemonStartsChild
  BY <1>3, TimersUnchanged DEF DaemonStartsChild
<1>4. CASE WriterBlocks
  BY <1>4, TimersUnchanged DEF WriterBlocks
<1>5. CASE DaemonOpened
  BY <1>5, TimersUnchanged DEF DaemonOpened
<1>6. CASE DaemonPublishes
  BY <1>6, TimersUnchanged DEF DaemonPublishes
<1>7. CASE DaemonListens
  <2>1. left \in Timers /\ Len(left) = Runs /\ late' \in BOOLEAN /\ RunOn(left, endTime)
    BY <1>7 DEF DaemonListens, Run, TimerTypeOK, Timers, Runs
  <2>2. TimerTypeOK'
    BY <2>1, RunKeepsTypes
  <2>3. Runs' > 0
    BY <2>1 DEF RunOn, Runs, Timers
  <2> QED BY <1>7, <2>2, <2>3 DEF DaemonListens
<1> QED BY <1>1, <1>2, <1>3, <1>4, <1>5, <1>6, <1>7 DEF Startup

LEMMA EndTypes ==
    TypeInv /\ (Loop \/ Deferred \/ DaemonFails \/ DaemonTimesOut \/ DaemonKilled)
        => TypeInv'
<1> SUFFICES ASSUME TypeInv,
                    Loop \/ Deferred \/ DaemonFails \/ DaemonTimesOut \/ DaemonKilled
             PROVE TypeInv'
  OBVIOUS
<1> USE DEF TypeInv, TypeOK, File, daemonVars, dirVars, cmdVars, DaemonDies
<1>1. CASE LoopDone
  BY <1>1, TimersUnchanged DEF LoopDone
<1>2. CASE LoopTerm
  BY <1>2, TimersUnchanged DEF LoopTerm
<1>3. CASE LoopReload
  <2>1. TimerTypeOK' /\ Runs' > 0
    <3>1. CASE file.there
      <4>1. Reload(file.end)
        BY <1>3, <3>1 DEF LoopReload
      <4>2. TimerTypeOK'
        BY <1>3, <4>1, ReloadKeepsTypes DEF LoopReload
      <4>3. Runs' > 0
        BY <1>3, <4>1, StopIsTimers DEF LoopReload, Reload, RunOn, Runs, Current,
                                        Timers, TimerTypeOK
      <4> QED BY <4>2, <4>3
    <3>2. CASE ~file.there
      BY <1>3, <3>2 DEF LoopReload, ReloadFails, TimerTypeOK, Runs
    <3> QED BY <3>1, <3>2
  <2> QED BY <1>3, <2>1 DEF LoopReload
<1>4. CASE DeferRemoveState
  BY <1>4, TimersUnchanged DEF DeferRemoveState, NoFile
<1>5. CASE DeferClose
  BY <1>5, TimersUnchanged DEF DeferClose
<1>6. CASE DeferWait
  BY <1>6, TimersUnchanged DEF DeferWait
<1>7. CASE DaemonFails
  BY <1>7, TimersUnchanged DEF DaemonFails
<1>8. CASE DaemonTimesOut
  BY <1>8, TimersUnchanged DEF DaemonTimesOut
<1>9. CASE DaemonKilled
  BY <1>9, TimersUnchanged DEF DaemonKilled
<1> QED BY <1>1, <1>2, <1>3, <1>4, <1>5, <1>6, <1>7, <1>8, <1>9 DEF Loop, Deferred

LEMMA ChildTypes == TypeInv /\ (Child \/ SudoRefuses \/ ChildKilled) => TypeInv'
<1> SUFFICES ASSUME TypeInv, Child \/ SudoRefuses \/ ChildKilled PROVE TypeInv'
  OBVIOUS
<1> USE DEF TypeInv, TypeOK, daemonVars, dirVars, cmdVars
<1>1. CASE InhibitLocks
  BY <1>1, TimersUnchanged DEF InhibitLocks
<1>2. CASE CatOpens
  BY <1>2, TimersUnchanged DEF CatOpens
<1>3. CASE FifoConnects
  BY <1>3, TimersUnchanged DEF FifoConnects
<1>4. CASE CatEnds
  BY <1>4, TimersUnchanged DEF CatEnds
<1>5. CASE SudoRefuses
  BY <1>5, TimersUnchanged DEF SudoRefuses
<1>6. CASE ChildKilled
  BY <1>6, TimersUnchanged DEF ChildKilled
<1> QED BY <1>1, <1>2, <1>3, <1>4, <1>5, <1>6 DEF Child

\* A signal fits the channel or is dropped.
LEMMA KillTypes ==
    ASSUME TypeInv, NEW s \in {"USR1", "TERM"}, Kill(s)
    PROVE  /\ sigCh' \in {<<>>} \cup {<<t>> : t \in {"USR1", "TERM"}}
           /\ daemon' \in {daemon, "gone"}
           /\ writer' \in {writer, "none"}
BY DEF Kill, DaemonDies, TypeInv, TypeOK

LEMMA CommandTypes == TypeInv /\ (Command \/ CmdReads) => TypeInv'
<1> SUFFICES ASSUME TypeInv, Command \/ CmdReads PROVE TypeInv'
  OBVIOUS
<1> USE ExtensionAssumption DEF TypeInv, TypeOK, File, NoFile, Cmd, NoCmd, daemonVars,
        dirVars, cmdVars
<1>1. CASE CmdReads
  <2>1. commands' \in 0 .. MaxCommands
    BY <1>1, MaxCommandsAssumption DEF CmdReads
  <2> QED BY <1>1, <2>1, TimersUnchanged DEF CmdReads
<1>2. CASE CmdChecksActive
  BY <1>2, TimersUnchanged DEF CmdChecksActive
<1>3. CASE CmdCleansUp
  BY <1>3, TimersUnchanged DEF CmdCleansUp
<1>4. CASE ExtendWrites
  BY <1>4, TimersUnchanged DEF ExtendWrites
<1>5. CASE ExtendSignals
  <2>1. missed' \in BOOLEAN
    BY <1>5 DEF ExtendSignals
  <2>2. Kill("USR1") /\ UNCHANGED timerVars
    BY <1>5 DEF ExtendSignals
  <2> QED BY <1>5, <2>1, <2>2, KillTypes, TimersUnchanged DEF ExtendSignals
<1>6. CASE StopSignals
  <2>1. Kill("TERM") /\ UNCHANGED timerVars
    BY <1>6 DEF StopSignals
  <2> QED BY <1>6, <2>1, KillTypes, TimersUnchanged DEF StopSignals
<1> QED BY <1>1, <1>2, <1>3, <1>4, <1>5, <1>6 DEF Command

LEMMA TimeTypes == TypeInv /\ (Mode \/ Tick) => TypeInv'
<1> SUFFICES ASSUME TypeInv, Mode \/ Tick PROVE TypeInv'
  OBVIOUS
<1>1. CASE Mode
  <2>1. PICK k \in 1 .. Runs : GoReads(k) \/ GoFires(k)
    BY <1>1 DEF Mode, ModeReads, ModeFires
  <2>2. TimerTypeOK'
    BY <2>1, ModeKeepsTypes DEF TypeInv, TypeOK
  <2>3. Runs' = Runs
    <3>1. CASE GoReads(k)
      BY <3>1 DEF GoReads, Runs
    <3>2. CASE GoFires(k)
      BY <3>2 DEF GoFires, Runs, TypeInv, TypeOK, TimerTypeOK
    <3> QED BY <2>1, <3>1, <3>2
  <2> QED BY <1>1, <2>2, <2>3 DEF Mode, ModeReads, ModeFires, sysVars, daemonVars,
                                 dirVars, cmdVars, TypeInv, TypeOK
<1>2. CASE Tick
  <2>1. TimerTypeOK' /\ Runs' = Runs
    BY <1>2, TimersTickKeepsTypes DEF Tick, TypeInv, TypeOK, TimersTick, Runs,
                                      TimerTypeOK
  <2>2. file' \in File /\ endTime' \in Nat
    BY <1>2, CountDownInNat DEF Tick, TypeInv, TypeOK, File
  <2> QED BY <1>2, <2>1, <2>2 DEF Tick, TypeInv, TypeOK, cmdVars
<1> QED BY <1>1, <1>2

LEMMA NextKeepsTypes == TypeInv /\ [Next]_vars => TypeInv'
<1> SUFFICES ASSUME TypeInv, [Next]_vars PROVE TypeInv'
  OBVIOUS
<1>1. CASE Next
  BY <1>1, ClientTypes, StartupTypes, EndTypes, ChildTypes, CommandTypes, TimeTypes
     DEF Next
<1>2. CASE UNCHANGED vars
  BY <1>2, TimersUnchanged DEF vars, sysVars, daemonVars, dirVars, cmdVars,
                               TypeInv, TypeOK
<1> QED BY <1>1, <1>2

\* Every variable keeps its type, and at most one signal waits in sigCh, for
\* every duration and any number of commands.
THEOREM BlockTypes == Spec => []TypeOK
<1>1. Init => TypeInv
  BY InitTypes
<1>2. TypeInv /\ [Next]_vars => TypeInv'
  BY NextKeepsTypes
<1>3. TypeInv => TypeOK
  BY DEF TypeInv
<1> QED BY <1>1, <1>2, <1>3, PTL DEF Spec

=============================================================================
