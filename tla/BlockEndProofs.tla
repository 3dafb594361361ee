--------------------------- MODULE BlockEndProofs ---------------------------
(***************************************************************************)
(* That the end time in the state file and the timer of the daemon agree,  *)
(* and that a block does not end before it, for every duration and any     *)
(* number of extends, at any moment.                                       *)
(***************************************************************************)
EXTENDS BlockDaemonProofs

(***************************************************************************)
(* The strengthening.  Before the timer is made, the file has to agree     *)
(* with the end time the daemon keeps in memory; and the channel of the    *)
(* last run is closed only after its own timer fired, because its          *)
(* goroutine can wait on no other.                                         *)
(***************************************************************************)
FileAgrees ==
    daemon = "published" /\ file.there /\ cmd.at # "wrote" /\ ~missed
        => file.end = endTime

ClosedIsFired == Runs > 0 /\ closed[Runs] => left[Runs] = Off

Agreement == StatusShowsEnd /\ FileAgrees /\ ClosedIsFired

EndInv == TypeInv /\ HeldInv /\ Agreement

LEMMA InitEndInv == Init => EndInv
<1> SUFFICES ASSUME Init PROVE EndInv
  OBVIOUS
<1>1. Runs = 0
  BY DEF Init, TimerInit, Runs
<1> QED BY <1>1, InitTypes, InitHeldInv DEF Init, EndInv, Agreement, StatusShowsEnd,
                                            FileAgrees, ClosedIsFired

\* A step that leaves the timers and the end in the file alone, unless it
\* removes the file, keeps the agreement, provided that it does not settle an
\* extend.
LEMMA QuietStep ==
    ASSUME Agreement, UNCHANGED <<timerVars, missed>>,
           file' = file \/ ~file'.there,
           daemon' \in {"published", "loop"} =>
               /\ UNCHANGED <<daemon, endTime>>
               /\ sigCh' = <<>> => sigCh = <<>>
               /\ cmd'.at # "wrote" => cmd.at # "wrote"
    PROVE  Agreement'
<1> USE DEF Agreement, timerVars, Runs, Current
<1>1. StatusShowsEnd'
  BY DEF StatusShowsEnd, ExtendSettled
<1>2. FileAgrees'
  BY DEF FileAgrees
<1>3. ClosedIsFired'
  BY DEF ClosedIsFired
<1> QED BY <1>1, <1>2, <1>3

LEMMA ClientAgrees == EndInv /\ Client => Agreement'
<1> SUFFICES ASSUME EndInv, Client PROVE Agreement'
  OBVIOUS
<1>1. Agreement /\ (client \in {"idle", "placed"} => daemon = "none")
  BY DEF EndInv, HeldInv, FifoHasReader
<1> USE <1>1, QuietStep DEF NoFile, daemonVars, dirVars, cmdVars
<1>2. CASE ClientPlaces
  <2>1. daemon' = "none" /\ UNCHANGED timerVars
    BY <1>2 DEF ClientPlaces, TimerState
  <2> QED BY <2>1 DEF Agreement, StatusShowsEnd, FileAgrees, ClosedIsFired, timerVars, Runs
<1>3. CASE ClientSpawns
  BY <1>3 DEF ClientSpawns
<1>4. CASE ClientCannotSpawn
  BY <1>4 DEF ClientCannotSpawn
<1>5. CASE ClientSeesPID
  BY <1>5 DEF ClientSeesPID
<1>6. CASE ClientGivesUp
  BY <1>6 DEF ClientGivesUp
<1>7. CASE ClientRemoves
  BY <1>7 DEF ClientRemoves
<1> QED BY <1>2, <1>3, <1>4, <1>5, <1>6, <1>7 DEF Client

\* The daemon writes the end time it has, and makes its first timer of it.
LEMMA StartupAgrees == EndInv /\ Startup => Agreement'
<1> SUFFICES ASSUME EndInv, Startup PROVE Agreement'
  OBVIOUS
<1>1. Agreement /\ TimerTypeOK /\ endTime \in Nat
  BY DEF EndInv, TypeInv, TypeOK
<1> USE <1>1, QuietStep DEF daemonVars, dirVars, cmdVars
<1>2. CASE DaemonReads
  BY <1>2 DEF DaemonReads
<1>3. CASE DaemonMakesFifo
  BY <1>3 DEF DaemonMakesFifo
<1>4. CASE DaemonStartsChild
  BY <1>4 DEF DaemonStartsChild
<1>5. CASE WriterBlocks
  BY <1>5 DEF WriterBlocks
<1>6. CASE DaemonOpened
  BY <1>6 DEF DaemonOpened
<1>7. CASE DaemonPublishes
  <2>1. daemon' = "published" /\ file'.end = endTime' /\ UNCHANGED timerVars
    BY <1>7 DEF DaemonPublishes
  <2> QED BY <2>1 DEF Agreement, StatusShowsEnd, FileAgrees, ClosedIsFired, timerVars, Runs
<1>8. CASE DaemonListens
  <2>1. /\ left' = Append(left, endTime) /\ closed' = Append(closed, FALSE)
        /\ daemon' = "loop" /\ UNCHANGED <<file, cmd, missed>> /\ daemon = "published"
    BY <1>8 DEF DaemonListens, Run, RunOn
  <2>2. left'[Current'] = endTime /\ ~closed'[Runs']
    BY <2>1 DEF TimerTypeOK, Current, Runs
  <2> QED BY <2>1, <2>2 DEF Agreement, StatusShowsEnd, FileAgrees, ClosedIsFired,
                            ExtendSettled
<1> QED BY <1>2, <1>3, <1>4, <1>5, <1>6, <1>7, <1>8 DEF Startup

\* A reload makes a timer of the end that is in the file.
LEMMA ReloadAgrees == EndInv /\ LoopReload => Agreement'
<1> SUFFICES ASSUME EndInv, LoopReload PROVE Agreement'
  OBVIOUS
<1>1. TimerTypeOK /\ Runs > 0 /\ file \in File /\ daemon' = "loop" /\ UNCHANGED file
  BY DEF EndInv, TypeInv, TypeOK, LoopReload, dirVars
<1>2. CASE file.there
  <2>1. Current \in 1 .. Runs
    BY <1>1 DEF Current, Runs, TimerTypeOK
  <2>2. /\ left' = Append([left EXCEPT ![Current] = Off], file.end)
        /\ closed' = Append(closed, FALSE)
    BY <1>2 DEF LoopReload, Reload, RunOn
  <2>3. left'[Current'] = file.end /\ ~closed'[Runs']
    BY <1>1, <2>1, <2>2, StopIsTimers DEF TimerTypeOK, Timers, Current, Runs, File
  <2> QED BY <1>1, <2>3 DEF Agreement, StatusShowsEnd, FileAgrees, ClosedIsFired
<1>3. CASE ~file.there
  <2>1. failed' /\ UNCHANGED <<left, closed>>
    BY <1>3 DEF LoopReload, ReloadFails
  <2> QED BY <1>1, <2>1 DEF EndInv, Agreement, StatusShowsEnd, FileAgrees, ClosedIsFired, Runs
<1> QED BY <1>2, <1>3

LEMMA EndAgrees ==
    EndInv /\ (Loop \/ Deferred \/ DaemonFails \/ DaemonTimesOut \/ DaemonKilled)
        => Agreement'
<1> SUFFICES ASSUME EndInv,
                    Loop \/ Deferred \/ DaemonFails \/ DaemonTimesOut \/ DaemonKilled
             PROVE Agreement'
  OBVIOUS
<1>1. Agreement
  BY DEF EndInv
<1> USE <1>1, QuietStep DEF NoFile, dirVars, cmdVars, DaemonDies
<1>2. CASE LoopDone
  BY <1>2 DEF LoopDone
<1>3. CASE LoopTerm
  BY <1>3 DEF LoopTerm
<1>4. CASE LoopReload
  BY <1>4, ReloadAgrees
<1>5. CASE DeferRemoveState
  BY <1>5 DEF DeferRemoveState
<1>6. CASE DeferClose
  BY <1>6 DEF DeferClose
<1>7. CASE DeferWait
  BY <1>7 DEF DeferWait
<1>8. CASE DaemonFails
  BY <1>8 DEF DaemonFails
<1>9. CASE DaemonTimesOut
  BY <1>9 DEF DaemonTimesOut
<1>10. CASE DaemonKilled
  BY <1>10 DEF DaemonKilled
<1> QED BY <1>2, <1>3, <1>4, <1>5, <1>6, <1>7, <1>8, <1>9, <1>10 DEF Loop, Deferred

LEMMA ChildAgrees == EndInv /\ (Child \/ SudoRefuses \/ ChildKilled) => Agreement'
<1> SUFFICES ASSUME EndInv, Child \/ SudoRefuses \/ ChildKilled PROVE Agreement'
  OBVIOUS
<1>1. /\ Agreement
      /\ UNCHANGED <<timerVars, missed, file, daemon, endTime, sigCh, cmd>>
  BY DEF EndInv, Child, SudoRefuses, ChildKilled, InhibitLocks, CatOpens, FifoConnects,
         CatEnds, dirVars, daemonVars, cmdVars
<1> QED BY <1>1, QuietStep

\* An extend takes the file and the timer apart when it writes, and leaves it to
\* the reload, or to nobody (missed), when it signals.
LEMMA CommandAgrees == EndInv /\ (Command \/ CmdReads) => Agreement'
<1> SUFFICES ASSUME EndInv, Command \/ CmdReads PROVE Agreement'
  OBVIOUS
<1>1. Agreement /\ cmd \in Cmd
  BY DEF EndInv, TypeInv, TypeOK
<1> USE <1>1, QuietStep DEF NoFile, NoCmd, Cmd, daemonVars, dirVars, cmdVars
<1>2. CASE CmdReads
  BY <1>2 DEF CmdReads
<1>3. CASE CmdChecksActive
  BY <1>3 DEF CmdChecksActive
<1>4. CASE CmdCleansUp
  BY <1>4 DEF CmdCleansUp
<1>5. CASE ExtendWrites
  <2>1. cmd'.at = "wrote" /\ UNCHANGED timerVars
    BY <1>5 DEF ExtendWrites
  <2> QED BY <2>1 DEF Agreement, StatusShowsEnd, FileAgrees, ClosedIsFired,
                      ExtendSettled, timerVars, Runs
<1>6. CASE ExtendSignals
  <2>1. UNCHANGED <<timerVars, file>> /\ Kill("USR1") /\ cmd.at = "wrote"
    BY <1>6 DEF ExtendSignals
  <2>2. daemon' \in {daemon, "gone"} /\ (daemon' = "loop" => sigCh' # <<>>)
    BY <2>1 DEF Kill, DaemonDies, Listening
  <2>3. daemon = "published" => missed'
    BY <1>6 DEF ExtendSignals
  <2>4. StatusShowsEnd' /\ FileAgrees'
    BY <2>2, <2>3 DEF StatusShowsEnd, FileAgrees, ExtendSettled
  <2>5. ClosedIsFired'
    BY <2>1 DEF Agreement, ClosedIsFired, timerVars, Runs
  <2> QED BY <2>4, <2>5 DEF Agreement
<1>7. CASE StopSignals
  <2>1. /\ UNCHANGED <<timerVars, missed, file>> /\ cmd.at # "wrote"
        /\ daemon' \in {"published", "loop"} =>
              UNCHANGED <<daemon, endTime>> /\ (sigCh' = <<>> => sigCh = <<>>)
    BY <1>7 DEF StopSignals, Kill, DaemonDies
  <2> QED BY <2>1
<1> QED BY <1>2, <1>3, <1>4, <1>5, <1>6, <1>7 DEF Command

\* Only a goroutine can take the value of a timer, at its end; the goroutine of
\* the last run waits on the last timer.
LEMMA ModeAgrees == EndInv /\ Mode => Agreement'
<1> SUFFICES ASSUME EndInv, Mode PROVE Agreement'
  OBVIOUS
<1>1. TimerTypeOK /\ Agreement /\ UNCHANGED sysVars
  BY DEF EndInv, TypeInv, TypeOK, Mode, ModeReads, ModeFires
<1>2. PICK k \in 1 .. Runs : GoReads(k) \/ GoFires(k)
  BY DEF Mode, ModeReads, ModeFires
<1>3. CASE GoReads(k)
  BY <1>1, <1>3 DEF GoReads, Agreement, StatusShowsEnd, FileAgrees, ClosedIsFired,
     ExtendSettled, Runs, Current, sysVars, daemonVars, dirVars, cmdVars
<1>4. CASE GoFires(k)
  <2>1. waitsOn[k] \in k .. Runs /\ Runs \in Nat /\ k \in Nat
    BY <1>1, <1>4 DEF GoFires, TimerTypeOK, Runs
  <2>2. /\ left' = [left EXCEPT ![waitsOn[k]] = Off] /\ left[waitsOn[k]] = 0
        /\ closed' = [closed EXCEPT ![k] = TRUE] /\ failed' = failed
    BY <1>4 DEF GoFires
  <2>3. Runs' = Runs
    BY <1>1, <2>2 DEF TimerTypeOK, Runs
  <2>4. \/ left'[Runs] = left[Runs]
        \/ left'[Runs] = Off /\ left[Runs] = 0
    BY <1>1, <2>1, <2>2 DEF TimerTypeOK, Runs
  <2>5. StatusShowsEnd'
    BY <1>1, <2>2, <2>3, <2>4 DEF Agreement, StatusShowsEnd, ExtendSettled, Current, Off,
       sysVars, daemonVars, dirVars, cmdVars
  <2>6. FileAgrees'
    BY <1>1 DEF Agreement, FileAgrees, sysVars, daemonVars, dirVars, cmdVars
  <2>7. ClosedIsFired'
    <3>1. CASE k = Runs
      BY <1>1, <2>1, <2>2, <2>3, <3>1 DEF ClosedIsFired, TimerTypeOK, Runs
    <3>2. CASE k # Runs
      BY <1>1, <2>1, <2>2, <2>3, <2>4, <3>2 DEF Agreement, ClosedIsFired, TimerTypeOK, Runs
    <3> QED BY <3>1, <3>2
  <2> QED BY <2>5, <2>6, <2>7 DEF Agreement
<1> QED BY <1>2, <1>3, <1>4

\* Time takes the same from all of them.
LEMMA TickAgrees == EndInv /\ Tick => Agreement'
<1> SUFFICES ASSUME EndInv, Tick PROVE Agreement'
  OBVIOUS
<1>1. TimerTypeOK /\ Agreement /\ file \in File
  BY DEF EndInv, TypeInv, TypeOK
<1>2. Runs' = Runs /\ UNCHANGED <<closed, failed>>
  BY <1>1 DEF Tick, TimersTick, TimerTypeOK, Runs
<1>3. Runs > 0 => left'[Runs] = CountDown(left[Runs])
  BY <1>1 DEF Tick, TimersTick, TimerTypeOK, Runs
<1>4. /\ file'.end = CountDown(file.end) /\ file'.there = file.there
      /\ endTime' = CountDown(endTime)
      /\ UNCHANGED <<daemon, sigCh, cmd, missed>>
  BY <1>1 DEF Tick, File, cmdVars
<1>5. CountDown(Off) = Off /\ CountDown(0) = 0
  BY DEF CountDown, Off
<1>6. daemon = "loop" => Runs > 0
  BY DEF EndInv, TypeInv
<1>7. StatusShowsEnd'
  BY <1>1, <1>2, <1>3, <1>4, <1>5, <1>6 DEF Agreement, StatusShowsEnd, ExtendSettled, Current
<1>8. FileAgrees'
  BY <1>1, <1>4 DEF Agreement, FileAgrees
<1>9. ClosedIsFired'
  BY <1>1, <1>2, <1>3, <1>5 DEF Agreement, ClosedIsFired
<1> QED BY <1>7, <1>8, <1>9 DEF Agreement

LEMMA NextKeepsEndInv == EndInv /\ [Next]_vars => EndInv'
<1> SUFFICES ASSUME EndInv, [Next]_vars PROVE EndInv'
  OBVIOUS
<1>1. TypeInv' /\ HeldInv'
  BY NextKeepsTypes, NextKeepsHeld DEF EndInv
<1>2. Agreement'
  <2>1. CASE Next
    BY <2>1, ClientAgrees, StartupAgrees, EndAgrees, ChildAgrees, CommandAgrees,
       ModeAgrees, TickAgrees DEF Next
  <2>2. CASE UNCHANGED vars
    BY <2>2, QuietStep DEF EndInv, vars, sysVars, daemonVars, dirVars, cmdVars
  <2> QED BY <2>1, <2>2
<1> QED BY <1>1, <1>2 DEF EndInv

THEOREM EndInvariant == Spec => []EndInv
<1>1. Init => EndInv
  BY InitEndInv
<1>2. EndInv /\ [Next]_vars => EndInv'
  BY NextKeepsEndInv
<1> QED BY <1>1, <1>2, PTL DEF Spec

\* Once an extend is through, status prints the end that the timer runs to.
THEOREM BlockStatusShowsEnd == Spec => []StatusShowsEnd
<1>1. EndInv => StatusShowsEnd
  BY DEF EndInv, Agreement
<1> QED BY <1>1, EndInvariant, PTL

\* The loop returns on doneCh only when the end that status prints has come.
THEOREM BlockNeverEndsEarly == Spec => NeverEndsEarly
<1> DEFINE Early ==
      daemon = "loop" /\ daemon' = "leaving" /\ ExtendSettled /\ ~missed /\ ~failed
        => ~file.there \/ file.end = 0
<1>1. EndInv /\ [Next]_vars => [Early]_vars
  <2> SUFFICES ASSUME EndInv, Next, daemon = "loop", daemon' = "leaving", ExtendSettled,
                      ~missed, ~failed, file.there
               PROVE  file.end = 0
    OBVIOUS
  <2>1. LoopDone
    BY DEF Next, Client, Startup, Loop, Deferred, Mode, Child, Command, ExtendSettled,
       ClientPlaces, TimerState, ClientSpawns, ClientCannotSpawn, ClientSeesPID, ClientGivesUp,
       ClientRemoves, DaemonReads, DaemonMakesFifo, DaemonStartsChild, WriterBlocks,
       DaemonOpened, DaemonPublishes, DaemonListens, LoopTerm, LoopReload,
       DeferRemoveState, DeferClose, DeferWait, ModeReads, ModeFires, InhibitLocks,
       CatOpens, FifoConnects, CatEnds, CmdChecksActive, CmdCleansUp, ExtendWrites,
       ExtendSignals, StopSignals, Kill, CmdReads, DaemonFails, DaemonTimesOut,
       DaemonKilled, SudoRefuses, ChildKilled, Tick, DaemonDies, sysVars, daemonVars
  <2>2. Runs > 0 /\ closed[Runs]
    BY <2>1 DEF LoopDone, Done
  <2>3. left[Current] = Off
    BY <2>2 DEF EndInv, Agreement, ClosedIsFired, Current
  <2>4. file.end \in Nat
    BY DEF EndInv, TypeInv, TypeOK, File
  <2> QED BY <2>3, <2>4 DEF EndInv, Agreement, StatusShowsEnd, Off
<1> QED BY <1>1, EndInvariant, PTL DEF Spec, NeverEndsEarly

-----------------------------------------------------------------------------
(***************************************************************************)
(* That the loop does not wait for a value somebody else gets.  As long as *)
(* no Reload came before a goroutine had read m.timer, every goroutine but *)
(* the last waits on the timer of its own Run, and the last one does or    *)
(* will; so only the last one can receive from the last timer.             *)
(***************************************************************************)
NoRunYet == daemon \in {"none", "spawned", "read", "fifo", "waiting", "opened", "published"}
              => Runs = 0

EarlierRunsApart == ~late => \A k \in 1 .. Runs : k # Runs => waitsOn[k] = k

LastTimerKept ==
    ~late /\ Runs > 0 => /\ waitsOn[Runs] \in {Unread, Runs}
                         /\ ~closed[Runs] => left[Runs] # Off

OwnTimer == NoRunYet /\ EarlierRunsApart /\ LastTimerKept

\* The loop's channel is closed, or will be: its timer runs, its goroutine
\* receives from that timer, and no other one does.
TimerReachesLoop ==
    daemon = "loop" /\ ~late
        => \/ Done
           \/ /\ left[Current] \in Nat
              /\ waitsOn[Current] \in {Unread, Current}
              /\ \A k \in 1 .. Runs : k # Current => waitsOn[k] # Current

LEMMA InitOwnTimer == Init => OwnTimer
<1> SUFFICES ASSUME Init PROVE OwnTimer
  OBVIOUS
<1>1. Runs = 0
  BY DEF Init, TimerInit, Runs
<1> QED BY <1>1 DEF OwnTimer, NoRunYet, EarlierRunsApart, LastTimerKept

\* Steps of others than the mode.
LEMMA TimersApart ==
    ASSUME OwnTimer, UNCHANGED timerVars,
           daemon' = daemon \/ daemon \in {"none", "spawned", "read", "fifo", "waiting", "opened"}
             \/ daemon' \notin {"none", "spawned", "read", "fifo", "waiting", "opened", "published"}
    PROVE  OwnTimer'
BY DEF OwnTimer, NoRunYet, EarlierRunsApart, LastTimerKept, timerVars, Runs

\* A new run: the earlier goroutines have all read m.timer, or this is late.
LEMMA RunKeepsOwnTimer ==
    ASSUME TimerTypeOK, NEW ts \in Timers, Len(ts) = Runs, NEW d \in Nat, RunOn(ts, d),
           daemon' = "loop",
           ~late' => /\ ~late
                     /\ \A k \in 1 .. Runs : waitsOn[k] = k
    PROVE  OwnTimer'
<1>1. Runs \in Nat /\ Runs' = Runs + 1
  BY DEF Runs, RunOn, Timers
<1>2. waitsOn' = Append(waitsOn, Unread) /\ waitsOn \in Seq(Nat) /\ Len(waitsOn) = Runs
  BY DEF RunOn, TimerTypeOK
<1>3. waitsOn'[Runs + 1] = Unread /\ \A k \in 1 .. Runs : waitsOn'[k] = waitsOn[k]
  BY <1>1, <1>2 DEF Unread
<1>4. left'[Runs + 1] = d
  BY <1>1 DEF RunOn, Timers
<1>5. EarlierRunsApart'
  <2> SUFFICES ASSUME ~late', NEW k \in 1 .. Runs', k # Runs' PROVE waitsOn'[k] = k
    BY DEF EarlierRunsApart
  <2> QED BY <1>1, <1>3
<1>6. LastTimerKept'
  BY <1>1, <1>3, <1>4 DEF LastTimerKept, Off
<1>7. NoRunYet'
  BY DEF NoRunYet
<1> QED BY <1>5, <1>6, <1>7 DEF OwnTimer

LEMMA ReloadKeepsOwnTimer == TypeInv /\ OwnTimer /\ LoopReload => OwnTimer'
<1> SUFFICES ASSUME TypeInv, OwnTimer, LoopReload PROVE OwnTimer'
  OBVIOUS
<1>1. /\ TimerTypeOK /\ Runs \in Nat /\ Runs > 0 /\ file \in File
      /\ daemon = "loop" /\ daemon' = "loop"
  BY DEF TypeInv, TypeOK, LoopReload, TimerTypeOK, Runs
<1>2. CASE file.there
  <2>1. /\ RunOn([left EXCEPT ![Current] = Off], file.end)
        /\ late' = (late \/ \E k \in 1 .. Runs : waitsOn[k] = Unread)
    BY <1>2 DEF LoopReload, Reload, NoteLate
  <2>2. ~late' => ~late /\ \A k \in 1 .. Runs : waitsOn[k] = k
    BY <1>1, <2>1 DEF OwnTimer, EarlierRunsApart, LastTimerKept
  <2>3. file.end \in Nat /\ Current \in 1 .. Runs
    BY <1>1 DEF File, Current
  <2> QED BY <1>1, <2>1, <2>2, <2>3, StopIsTimers, RunKeepsOwnTimer
<1>3. CASE ~file.there
  BY <1>1, <1>3 DEF LoopReload, ReloadFails, OwnTimer, NoRunYet, EarlierRunsApart,
                    LastTimerKept, Runs
<1> QED BY <1>2, <1>3

\* The only goroutine that may still have to read m.timer is the last one; and a
\* goroutine that fires takes the value of its own timer.
LEMMA ModeKeepsOwnTimer == TypeInv /\ OwnTimer /\ Mode => OwnTimer'
<1> SUFFICES ASSUME TypeInv, OwnTimer, Mode PROVE OwnTimer'
  OBVIOUS
<1>1. TimerTypeOK /\ Runs \in Nat /\ UNCHANGED daemon
  BY DEF TypeInv, TypeOK, TimerTypeOK, Runs, Mode, ModeReads, ModeFires, sysVars,
         daemonVars
<1>2. PICK k \in 1 .. Runs : GoReads(k) \/ GoFires(k)
  BY DEF Mode, ModeReads, ModeFires
<1>3. Runs' = Runs /\ UNCHANGED late
  BY <1>1, <1>2 DEF GoReads, GoFires, Runs, TimerTypeOK
<1>4. CASE late
  BY <1>1, <1>3, <1>4 DEF OwnTimer, NoRunYet, EarlierRunsApart, LastTimerKept
<1>5. CASE ~late /\ GoReads(k)
  <2>1. k = Runs /\ waitsOn' = [waitsOn EXCEPT ![k] = Runs] /\ UNCHANGED <<left, closed>>
    BY <1>1, <1>2, <1>5 DEF GoReads, OwnTimer, EarlierRunsApart, Current, Unread
  <2>2. /\ waitsOn'[Runs] = Runs
        /\ \A j \in 1 .. Runs : j # Runs => waitsOn'[j] = waitsOn[j]
    BY <1>1, <1>2, <2>1 DEF TimerTypeOK
  <2> QED BY <1>1, <1>3, <1>5, <2>1, <2>2 DEF OwnTimer, NoRunYet, EarlierRunsApart,
                                             LastTimerKept
<1>6. CASE ~late /\ GoFires(k)
  <2>1. waitsOn[k] = k
    BY <1>1, <1>2, <1>6 DEF GoFires, OwnTimer, EarlierRunsApart, LastTimerKept
  <2>2. /\ left' = [left EXCEPT ![k] = Off] /\ closed' = [closed EXCEPT ![k] = TRUE]
        /\ UNCHANGED waitsOn
    BY <1>6, <2>1 DEF GoFires
  <2>3. k # Runs => left'[Runs] = left[Runs] /\ closed'[Runs] = closed[Runs]
    <3>1. DOMAIN left = 1 .. Runs /\ DOMAIN closed = 1 .. Runs /\ Runs \in 1 .. Runs
      BY <1>1, <1>2 DEF TimerTypeOK, Runs
    <3> QED BY <2>2, <3>1
  <2>4. k = Runs => closed'[Runs]
    BY <1>1, <1>2, <2>2 DEF TimerTypeOK
  <2> QED BY <1>1, <1>3, <1>6, <2>2, <2>3, <2>4 DEF OwnTimer, NoRunYet,
                                             EarlierRunsApart, LastTimerKept
<1> QED BY <1>2, <1>4, <1>5, <1>6

LEMMA TickKeepsOwnTimer == TypeInv /\ OwnTimer /\ Tick => OwnTimer'
<1> SUFFICES ASSUME TypeInv, OwnTimer, Tick PROVE OwnTimer'
  OBVIOUS
<1>1. TimerTypeOK /\ Runs \in Nat
  BY DEF TypeInv, TypeOK, TimerTypeOK, Runs
<1>2. /\ Runs' = Runs /\ UNCHANGED <<waitsOn, closed, late, daemon>>
      /\ Runs > 0 => left'[Runs] = CountDown(left[Runs]) /\ left[Runs] \in Nat \cup {Off}
  BY <1>1 DEF Tick, TimersTick, TimerTypeOK, Runs
<1>3. Runs > 0 => (left'[Runs] = Off => left[Runs] = Off)
  BY <1>2 DEF CountDown, Off
<1> QED BY <1>2, <1>3 DEF OwnTimer, NoRunYet, EarlierRunsApart, LastTimerKept

LEMMA NextKeepsOwnTimer == TypeInv /\ HeldInv /\ OwnTimer /\ [Next]_vars => OwnTimer'
<1> SUFFICES ASSUME TypeInv, HeldInv, OwnTimer, [Next]_vars PROVE OwnTimer'
  OBVIOUS
<1> USE TimersApart DEF daemonVars, dirVars, cmdVars
<1>1. CASE Client
  BY <1>1 DEF HeldInv, FifoHasReader, Client, ClientPlaces, ClientSpawns, ClientCannotSpawn,
              ClientSeesPID, ClientGivesUp, ClientRemoves
<1>2. CASE Startup
  <2>1. CASE DaemonListens
    <3>1. /\ TimerTypeOK /\ Runs = 0 /\ endTime \in Nat /\ RunOn(left, endTime)
          /\ daemon' = "loop" /\ UNCHANGED late
      BY <2>1 DEF DaemonListens, Run, TypeInv, TypeOK, OwnTimer, NoRunYet
    <3>2. left \in Timers /\ Len(left) = Runs
      BY <3>1 DEF TimerTypeOK, Timers, Runs
    <3>3. \A k \in 1 .. Runs : waitsOn[k] = k
      BY <3>1
    <3>4. CASE late
      BY <3>1, <3>2, <3>4, RunKeepsOwnTimer
    <3>5. CASE ~late
      BY <3>1, <3>2, <3>3, <3>5, RunKeepsOwnTimer
    <3> QED BY <3>4, <3>5
  <2>2. CASE ~DaemonListens
    BY <1>2, <2>2 DEF Startup, DaemonReads, DaemonMakesFifo, DaemonStartsChild,
                      WriterBlocks, DaemonOpened, DaemonPublishes
  <2> QED BY <2>1, <2>2
<1>3. CASE Loop \/ Deferred \/ DaemonFails \/ DaemonTimesOut \/ DaemonKilled
  <2>1. CASE LoopReload
    BY <2>1, ReloadKeepsOwnTimer
  <2>2. CASE ~LoopReload
    BY <1>3, <2>2 DEF Loop, LoopDone, LoopTerm, Deferred, DeferRemoveState, DeferClose,
                      DeferWait, DaemonFails, DaemonTimesOut, DaemonKilled, DaemonDies
  <2> QED BY <2>1, <2>2
<1>4. CASE Child \/ SudoRefuses \/ ChildKilled
  BY <1>4 DEF Child, InhibitLocks, CatOpens, FifoConnects, CatEnds, SudoRefuses, ChildKilled
<1>5. CASE Command \/ CmdReads
  BY <1>5 DEF Command, CmdReads, CmdChecksActive, CmdCleansUp, ExtendWrites,
              ExtendSignals, StopSignals, Kill, DaemonDies
<1>6. CASE Mode \/ Tick
  BY <1>6, ModeKeepsOwnTimer, TickKeepsOwnTimer
<1>7. CASE UNCHANGED vars
  BY <1>7 DEF vars, sysVars
<1> QED BY <1>1, <1>2, <1>3, <1>4, <1>5, <1>6, <1>7 DEF Next

\* The loop of a daemon waits on a channel that is going to be closed, unless a
\* Reload came before a goroutine had read m.timer, however many reloads there
\* were.  This is the safety core of EndsUnlessLate.
THEOREM LastTimerReachesLoop == Spec => []TimerReachesLoop
<1>1. Init => TypeInv /\ HeldInv /\ OwnTimer
  BY InitTypes, InitHeldInv, InitOwnTimer
<1>2. TypeInv /\ HeldInv /\ OwnTimer /\ [Next]_vars => (TypeInv /\ HeldInv /\ OwnTimer)'
  BY NextKeepsTypes, NextKeepsHeld, NextKeepsOwnTimer
<1>3. TypeInv /\ HeldInv /\ OwnTimer => TimerReachesLoop
  <2> SUFFICES ASSUME TypeInv, OwnTimer, daemon = "loop", ~late, ~Done
               PROVE  /\ left[Current] \in Nat
                      /\ waitsOn[Current] \in {Unread, Current}
                      /\ \A k \in 1 .. Runs : k # Current => waitsOn[k] # Current
    BY DEF TimerReachesLoop
  <2>1. Runs > 0 /\ Runs \in Nat /\ left[Runs] \in Nat \cup {Off}
    BY DEF TypeInv, TypeOK, TimerTypeOK, Runs
  <2> QED BY <2>1 DEF OwnTimer, EarlierRunsApart, LastTimerKept, Done, Current
<1> QED BY <1>1, <1>2, <1>3, PTL DEF Spec

-----------------------------------------------------------------------------
(***************************************************************************)
(* That a block is a HeldBlock.  The lock is in the hands of three         *)
(* processes that do not watch each other, so what is needed is where they *)
(* can be together: there is no child before the daemon starts one, and    *)
(* when the daemon waits for its child, or has been killed, the FIFO is    *)
(* closed and the child is a cat that had it open, or what is left of one. *)
(***************************************************************************)
NoChildYet == daemon \in {"none", "spawned", "read", "fifo"} => child = "none"

ClosedUnderCat ==
    daemon = "closed" => writer = "closed" /\ child \in {"reading", "ended", "killed"}

SlainUnderCat == slain => daemon = "gone" /\ child \in {"reading", "ended", "killed"}

ChildInv == NoChildYet /\ ClosedUnderCat /\ SlainUnderCat

BlockInv == TypeInv /\ HeldInv /\ ChildInv

LEMMA InitBlockInv == Init => BlockInv
BY InitTypes, InitHeldInv DEF Init, BlockInv, ChildInv, NoChildYet, ClosedUnderCat,
                                    SlainUnderCat

\* Only one step makes a child, and only one closes the FIFO.
LEMMA NextKeepsChildInv == BlockInv /\ [Next]_vars => ChildInv'
<1> SUFFICES ASSUME BlockInv, [Next]_vars PROVE ChildInv'
  OBVIOUS
<1>1. /\ ChildInv /\ (client \in {"idle", "placed"} => daemon = "none")
      /\ daemon \in {"published", "loop", "leaving", "unlisted"}
           => child \in {"reading", "killed"}
  BY DEF BlockInv, HeldInv, FifoHasReader, HasFifo
<1> USE <1>1 DEF ChildInv, NoChildYet, ClosedUnderCat, SlainUnderCat, daemonVars, dirVars,
        cmdVars
<1>2. CASE Client
  BY <1>2 DEF Client, ClientPlaces, ClientSpawns, ClientCannotSpawn, ClientSeesPID,
              ClientGivesUp, ClientRemoves
<1>3. CASE Startup
  BY <1>3 DEF Startup, DaemonReads, DaemonMakesFifo, DaemonStartsChild, WriterBlocks,
              DaemonOpened, DaemonPublishes, DaemonListens
<1>4. CASE Loop \/ Deferred \/ DaemonFails \/ DaemonTimesOut \/ DaemonKilled
  BY <1>4 DEF Loop, LoopDone, LoopTerm, LoopReload, Deferred, DeferRemoveState,
              DeferClose, DeferWait, DaemonFails, DaemonTimesOut, DaemonKilled, DaemonDies
<1>5. CASE Child \/ SudoRefuses \/ ChildKilled
  BY <1>5 DEF Child, InhibitLocks, CatOpens, FifoConnects, CatEnds, SudoRefuses, ChildKilled
<1>6. CASE Command \/ CmdReads
  BY <1>6 DEF Command, CmdReads, CmdChecksActive, CmdCleansUp, ExtendWrites,
              ExtendSignals, StopSignals, Kill, DaemonDies
<1>7. CASE Mode \/ Tick
  BY <1>7 DEF Mode, ModeReads, ModeFires, Tick, sysVars
<1>8. CASE UNCHANGED vars
  BY <1>8 DEF vars, sysVars
<1> QED BY <1>2, <1>3, <1>4, <1>5, <1>6, <1>7, <1>8 DEF Next

LEMMA NextKeepsBlockInv == BlockInv /\ [Next]_vars => BlockInv'
BY NextKeepsTypes, NextKeepsHeld, NextKeepsChildInv DEF BlockInv

THEOREM BlockInvariant == Spec => []BlockInv
<1>1. Init => BlockInv
  BY InitBlockInv
<1>2. BlockInv /\ [Next]_vars => BlockInv'
  BY NextKeepsBlockInv
<1> QED BY <1>1, <1>2, PTL DEF Spec

\* The daemon's last wait is for a child that is gone, or for a cat that reads a
\* FIFO nobody has open for writing, which CatEnds ends: cmd.Wait returns.  This
\* is the safety core of LoopEndReleases.
WaitWillReturn ==
    daemon = "closed" => child \in {"ended", "killed"} \/ (child = "reading" /\ writer # "open")

THEOREM BlockWaitWillReturn == Spec => []WaitWillReturn
<1>1. BlockInv => WaitWillReturn
  BY DEF BlockInv, ChildInv, ClosedUnderCat, WaitWillReturn
<1> QED BY <1>1, BlockInvariant, PTL

-----------------------------------------------------------------------------

LEMMA PromiseInit == Init => Promise!Init
BY DEF Init, TimerInit, Promise!Init, BlockStage, BlockReason, Held

\* A step that leaves daemon and child where they are moves no stage.
LEMMA SameStage ==
    ASSUME BlockInv, UNCHANGED <<daemon, child, slain>>
    PROVE  Promise!Next
<1>1. BlockStage' = BlockStage /\ Held' = Held
  BY DEF BlockStage, Unconnected, Held
<1>2. BlockStage \in {"before", "on", "over", "perished"}
  BY DEF BlockStage
<1>3. Promise!Prepare \/ Promise!Serve \/ Promise!Clear
  BY <1>1, <1>2 DEF Promise!Prepare, Promise!Serve, Promise!Clear, Promise!Stays,
                    Promise!NothingTaken, Held
<1> QED BY <1>3 DEF Promise!Next, BlockReason

\* The steps of runDaemon up to its loop.
LEMMA StartupRefines == BlockInv /\ Startup => Promise!Next
<1> SUFFICES ASSUME BlockInv, Startup PROVE Promise!Next
  OBVIOUS
<1>1. BlockReason' \in BOOLEAN
  BY DEF BlockReason
<1>2. CASE DaemonReads \/ DaemonMakesFifo \/ DaemonStartsChild \/ DaemonOpened
  <2>1. BlockStage = "before" /\ BlockStage' = "before"
    BY <1>2 DEF DaemonReads, DaemonMakesFifo, DaemonStartsChild, DaemonOpened, BlockStage
  <2>2. child = "killed" => child' = "killed"
    BY <1>2 DEF DaemonReads, DaemonMakesFifo, DaemonStartsChild, DaemonOpened,
                BlockInv, ChildInv, NoChildYet
  <2> QED BY <1>1, <2>1, <2>2 DEF Promise!Next, Promise!Prepare, Promise!Stays, Held
<1>3. CASE WriterBlocks
  BY <1>3, SameStage DEF WriterBlocks, cmdVars
<1>4. CASE DaemonPublishes
  <2>1. BlockStage = "before" /\ BlockStage' = "on" /\ UNCHANGED child
    BY <1>4 DEF DaemonPublishes, BlockStage
  <2>2. child \in {"reading", "killed"}
    BY <1>4 DEF DaemonPublishes, BlockInv, HeldInv, FifoHasReader, HasFifo
  <2> QED BY <1>1, <2>1, <2>2 DEF Promise!Next, Promise!Announce, Held
<1>5. CASE DaemonListens
  <2>1. BlockStage = "on" /\ BlockStage' = "on" /\ UNCHANGED child
    BY <1>5 DEF DaemonListens, BlockStage
  <2> QED BY <1>1, <2>1 DEF Promise!Next, Promise!Serve, Promise!Stays,
                            Promise!NothingTaken, Held
<1> QED BY <1>2, <1>3, <1>4, <1>5 DEF Startup

\* A start that fails: no stage is reached, and the child goes its own way.
LEMMA FailureRefines == BlockInv /\ (DaemonFails \/ DaemonTimesOut) => Promise!Next
<1> SUFFICES ASSUME BlockInv, DaemonFails \/ DaemonTimesOut PROVE Promise!Next
  OBVIOUS
<1>1. BlockReason' \in BOOLEAN
  BY DEF BlockReason
<1>2. /\ BlockStage = "before" /\ BlockStage' \in {"before", "over"} /\ UNCHANGED child
  BY DEF DaemonFails, DaemonTimesOut, DaemonDies, BlockStage, cmdVars, BlockInv, ChildInv,
         SlainUnderCat
<1> QED BY <1>1, <1>2 DEF Promise!Next, Promise!Prepare, Promise!Abandon, Promise!Stays,
                          Promise!NothingTaken, Held

\* A killed daemon leaves the child to the kernel, which closes the FIFO.
LEMMA DaemonKilledRefines == BlockInv /\ DaemonKilled => Promise!Next
<1> SUFFICES ASSUME BlockInv, DaemonKilled PROVE Promise!Next
  OBVIOUS
<1>1. BlockStage # "perished" /\ BlockStage' = "perished" /\ UNCHANGED child
  BY DEF DaemonKilled, DaemonDies, BlockStage
<1> QED BY <1>1 DEF Promise!Next, Promise!Perish, Held, BlockReason

\* The loop ends for a reason: the timer of its last run has run down, because
\* the channel it returns on is closed by nothing else, or there is a signal.
LEMMA LoopRefines == EndInv /\ BlockInv /\ (Loop \/ Deferred) => Promise!Next
<1> SUFFICES ASSUME EndInv, BlockInv, Loop \/ Deferred PROVE Promise!Next
  OBVIOUS
<1>1. BlockReason' \in BOOLEAN
  BY DEF BlockReason
<1>2. CASE LoopDone \/ LoopTerm
  <2>1. BlockStage = "on" /\ BlockStage' = "over" /\ UNCHANGED child
    BY <1>2 DEF LoopDone, LoopTerm, BlockStage
  <2>2. BlockReason
    BY <1>2 DEF LoopDone, LoopTerm, Done, BlockReason, Current, EndInv, Agreement,
                ClosedIsFired
  <2> QED BY <1>1, <2>1, <2>2 DEF Promise!Next, Promise!End, Held
<1>3. CASE LoopReload
  BY <1>3, SameStage DEF LoopReload, cmdVars
<1>4. CASE DeferRemoveState \/ DeferClose \/ DeferWait
  <2>1. BlockStage = "over" /\ BlockStage' = "over" /\ UNCHANGED child
    BY <1>4 DEF DeferRemoveState, DeferClose, DeferWait, DaemonDies, BlockStage,
                Unconnected, cmdVars, BlockInv, ChildInv, SlainUnderCat
  <2> QED BY <1>1, <2>1 DEF Promise!Next, Promise!Clear, Promise!Stays,
                            Promise!NothingTaken, Held
<1> QED BY <1>2, <1>3, <1>4 DEF Loop, Deferred

\* The child takes the lock in the stage "before" only, and gives it back in the
\* stage "on" only when it is killed, because the FIFO is open.
LEMMA ChildRefines == BlockInv /\ (Child \/ SudoRefuses \/ ChildKilled) => Promise!Next
<1> SUFFICES ASSUME BlockInv, Child \/ SudoRefuses \/ ChildKilled PROVE Promise!Next
  OBVIOUS
<1>1. /\ BlockReason' \in BOOLEAN /\ UNCHANGED <<daemon, slain>>
      /\ child = "killed" => child' = "killed"
  BY DEF BlockReason, Child, InhibitLocks, CatOpens, FifoConnects, CatEnds, SudoRefuses,
         ChildKilled, daemonVars, cmdVars
<1>2. Held' => Held \/ child = "sudo"
  BY DEF Child, InhibitLocks, CatOpens, FifoConnects, CatEnds, SudoRefuses,
         ChildKilled, Held
<1>3. CASE BlockStage = "before"
  <2>1. BlockStage' \in {"before", "over"}
    BY <1>1, <1>3 DEF BlockStage
  <2>2. BlockStage' = "over" => (Held' => Held)
    BY <1>1, <1>3 DEF BlockStage, Unconnected, Child, InhibitLocks, CatOpens,
       FifoConnects, CatEnds, SudoRefuses, ChildKilled, Held
  <2> QED BY <1>1, <1>3, <2>1, <2>2 DEF Promise!Next, Promise!Prepare, Promise!Abandon,
       Promise!Stays, Promise!NothingTaken, Held
<1>4. CASE BlockStage = "on"
  <2>1. BlockStage' = "on" /\ daemon \in {"published", "loop"}
    BY <1>1, <1>4 DEF BlockStage
  <2>2. writer = "open" /\ child \in {"reading", "killed"}
    BY <2>1 DEF BlockInv, HeldInv, FifoHasReader, HasFifo
  <2>3. child' \in {child, "killed"}
    BY <2>2 DEF Child, InhibitLocks, CatOpens, FifoConnects, CatEnds, SudoRefuses,
                ChildKilled
  <2> QED BY <1>1, <1>4, <2>1, <2>2, <2>3 DEF Promise!Next, Promise!Serve, Promise!Stays,
       Promise!NothingTaken, Held
<1>5. CASE BlockStage = "over"
  <2>1. child # "sudo"
    BY <1>5 DEF BlockStage, Unconnected, BlockInv, HeldInv, FifoHasReader, HasFifo,
                ChildInv, ClosedUnderCat
  <2>2. ~Unconnected /\ ~Unconnected'
    BY <1>5 DEF BlockStage, Unconnected, BlockInv, HeldInv, FifoHasReader, HasFifo,
       ChildInv, ClosedUnderCat, Child, InhibitLocks, CatOpens, FifoConnects, CatEnds,
       SudoRefuses, ChildKilled
  <2>3. BlockStage' = "over"
    BY <1>1, <1>5, <2>2 DEF BlockStage
  <2> QED BY <1>1, <1>2, <1>5, <2>1, <2>3 DEF Promise!Next, Promise!Clear, Promise!Stays,
       Promise!NothingTaken, Held
<1>6. CASE BlockStage = "perished"
  <2>1. BlockStage' = "perished" /\ child # "sudo"
    BY <1>1, <1>6 DEF BlockStage, BlockInv, ChildInv, SlainUnderCat
  <2> QED BY <1>1, <1>2, <1>6, <2>1 DEF Promise!Next, Promise!Clear, Promise!Stays,
       Promise!NothingTaken, Held
<1> QED BY <1>3, <1>4, <1>5, <1>6 DEF BlockStage

\* Another command ends a block only by a SIGTERM before signal.Notify.
LEMMA CommandRefines == BlockInv /\ (Command \/ CmdReads) => Promise!Next
<1> SUFFICES ASSUME BlockInv, Command \/ CmdReads PROVE Promise!Next
  OBVIOUS
<1>1. CASE UNCHANGED daemon
  <2>1. UNCHANGED <<child, slain>>
    BY DEF Command, CmdReads, CmdChecksActive, CmdCleansUp, ExtendWrites, ExtendSignals,
           StopSignals
  <2> QED BY <1>1, <2>1, SameStage
<1>2. CASE daemon' # daemon
  <2>1. StopSignals /\ daemon = "published" /\ daemon' = "gone" /\ UNCHANGED slain
    BY <1>2 DEF Command, CmdReads, CmdChecksActive, CmdCleansUp, ExtendWrites,
       ExtendSignals, StopSignals, Kill, DaemonDies, daemonVars
  <2>2. child \in {"reading", "killed"} /\ UNCHANGED child /\ BlockReason
    BY <2>1 DEF StopSignals, BlockReason, BlockInv, HeldInv, FifoHasReader, HasFifo
  <2>3. BlockStage = "on" /\ BlockStage' = "over"
    BY <2>1, <2>2 DEF BlockStage, Unconnected, BlockInv, ChildInv, SlainUnderCat
  <2> QED BY <2>2, <2>3 DEF Promise!Next, Promise!End, Held, BlockReason
<1> QED BY <1>1, <1>2

LEMMA StepRefinesHeldBlock ==
    EndInv /\ BlockInv /\ [Next]_vars => [Promise!Next]_(Promise!vars)
<1> SUFFICES ASSUME EndInv, BlockInv, [Next]_vars PROVE Promise!Next
  OBVIOUS
<1>1. CASE Client
  <2>1. CASE ClientSpawns
    <3>1. daemon = "none" /\ daemon' = "spawned" /\ UNCHANGED child
      BY <2>1 DEF ClientSpawns, BlockInv, HeldInv, FifoHasReader
    <3> QED BY <3>1 DEF BlockStage, Promise!Next, Promise!Prepare, Promise!Stays, Held,
                        BlockReason
  <2>2. CASE ~ClientSpawns
    BY <1>1, <2>2, SameStage DEF Client, ClientPlaces, ClientCannotSpawn, ClientSeesPID,
                                 ClientGivesUp, ClientRemoves, daemonVars, cmdVars
  <2> QED BY <2>1, <2>2
<1>2. CASE Mode \/ Tick
  BY <1>2, SameStage DEF Mode, ModeReads, ModeFires, Tick, sysVars, daemonVars, cmdVars
<1>3. CASE UNCHANGED vars
  BY <1>3, SameStage DEF vars, sysVars, daemonVars, cmdVars
<1> QED BY <1>1, <1>2, <1>3, StartupRefines, FailureRefines, DaemonKilledRefines, LoopRefines,
           ChildRefines, CommandRefines DEF Next

\* A block of `for` and `until` implements HeldBlock, for every duration and any
\* number of commands at any moment: published under a lock, held until its own
\* timer has run down or it is stopped, and nothing is taken after that.
THEOREM BlockKeepsPromise == Spec => KeepsBlock
<1>1. Init => Promise!Init
  BY PromiseInit
<1>2. EndInv /\ BlockInv /\ [Next]_vars => [Promise!Next]_(Promise!vars)
  BY StepRefinesHeldBlock
<1> QED BY <1>1, <1>2, EndInvariant, BlockInvariant, PTL DEF Spec, KeepsBlock, Promise!Spec

=============================================================================
