---------------------------- MODULE BlockDaemon ----------------------------
(***************************************************************************)
(* One block of `block-sleep for` or `until`, from the command that starts *)
(* it to its end:                                                          *)
(*                                                                         *)
(*   - the client, startBlock (daemon.go), which writes the state file,    *)
(*     spawns the daemon and waits for the daemon's PID in the file;       *)
(*   - the daemon, runDaemon (daemon.go), which makes the FIFO, starts     *)
(*     `sudo systemd-inhibit cat FIFO`, opens the FIFO for writing,        *)
(*     publishes its PID, runs the mode and returns through its deferred   *)
(*     calls;                                                              *)
(*   - the child: sudo, then systemd-inhibit holding the lock, then cat;   *)
(*   - the other commands, one at a time, that read and rewrite the state  *)
(*     file, signal the daemon, or clean up (main.go, state.go).           *)
(*                                                                         *)
(* No process knows how far another one is, and the two limits of five     *)
(* seconds run in different processes: each may strike at any moment.      *)
(***************************************************************************)
EXTENDS TimerMode

CONSTANTS
    Durations,    \* ticks a block may be started for; 0 for none and for less
    Extensions,   \* ticks an extend may ask for; so is 0
    MaxCommands   \* bound: commands given while the block exists

ASSUME DurationAssumption == Durations \subseteq Nat
ASSUME ExtensionAssumption == Extensions \subseteq Nat
ASSUME MaxCommandsAssumption == MaxCommands \in Nat

VARIABLES
    client,       \* where startBlock is
    daemon,       \* where runDaemon is
    endTime,      \* ticks to the EndTime the daemon read when it started
    sigCh,        \* sigCh: at most one signal waits
    writer,       \* the daemon's end of the FIFO and the goroutine opening it
    child,        \* sudo, systemd-inhibit and cat
    fifoPath,     \* the FIFO is in the directory
    file,         \* the state file
    cmd,          \* the other command that is running
    commands,     \* commands so far
    missed,       \* auxiliary: an extend's SIGUSR1 came before signal.Notify
    slain         \* auxiliary: somebody killed the daemon of a published block

daemonVars == <<daemon, endTime, sigCh, writer>>
dirVars == <<fifoPath, file>>
cmdVars == <<cmd, commands, missed, slain>>

sysVars == <<client, daemonVars, child, dirVars, cmdVars>>

vars == <<timerVars, sysVars>>

-----------------------------------------------------------------------------

\* The state file by what is read back from it: whether its PID is the
\* daemon's (a placeholder has PID 0), and the ticks to its EndTime.
File == [there : BOOLEAN, pid : BOOLEAN, end : Nat]

NoFile == [there |-> FALSE, pid |-> FALSE, end |-> 0]

Ready == file.there /\ file.pid

\* A command: what it was asked, how far it is, and the PID it has read.
Cmd == [op : {"none", "status", "extend", "stop"},
        at : {"read", "active", "stale", "wrote"}, pid : BOOLEAN]

NoCmd == [op |-> "none", at |-> "read", pid |-> FALSE]

DaemonAlive == daemon \notin {"none", "gone"}

\* signal.Notify has been called.
Listening == daemon \in {"loop", "leaving", "unlisted", "closed"}

\* logind has the lock from the moment systemd-inhibit took it.
Held == child \in {"locked", "opening", "reading"}

TypeOK ==
    /\ TimerTypeOK
    /\ client \in {"idle", "placed", "polling", "leaving", "reported", "failed"}
    /\ daemon \in {"none", "spawned", "read", "fifo", "waiting", "opened",
                   "published", "loop", "leaving", "unlisted", "closed", "gone"}
    /\ endTime \in Nat
    /\ sigCh \in {<<>>} \cup {<<s>> : s \in {"USR1", "TERM"}}
    /\ writer \in {"none", "trying", "blocked", "open", "closed", "failed"}
    /\ child \in {"none", "sudo", "locked", "opening", "reading", "ended", "killed"}
    /\ fifoPath \in BOOLEAN
    /\ file \in File
    /\ cmd \in Cmd
    /\ commands \in 0 .. MaxCommands
    /\ missed \in BOOLEAN /\ slain \in BOOLEAN

Init ==
    /\ TimerInit
    /\ client = "idle"
    /\ daemon = "none"
    /\ endTime = 0
    /\ sigCh = <<>>
    /\ writer = "none"
    /\ child = "none"
    /\ fifoPath = FALSE
    /\ file = NoFile
    /\ cmd = NoCmd
    /\ commands = 0
    /\ missed = FALSE /\ slain = FALSE

-----------------------------------------------------------------------------
(***************************************************************************)
(* The client: startBlock                                                  *)
(***************************************************************************)

\* What startFor and startUntil hand to startBlock, which clears the PID.
TimerState(d) == [there |-> TRUE, pid |-> FALSE, end |-> d]

\* parseDuration takes any number; writeState with PID 0.
ClientPlaces ==
    /\ client = "idle"
    /\ client' = "placed"
    /\ \E d \in Durations : file' = TimerState(d)
    /\ UNCHANGED <<timerVars, daemonVars, child, fifoPath, cmdVars>>

\* cmd.Start
ClientSpawns ==
    /\ client = "placed"
    /\ client' = "polling"
    /\ daemon' = "spawned"
    /\ UNCHANGED <<timerVars, endTime, sigCh, writer, child, dirVars, cmdVars>>

\* The executable, /dev/null or the process cannot be had: removeState, fatalf.
ClientCannotSpawn ==
    /\ client = "placed"
    /\ client' = "failed"
    /\ file' = NoFile
    /\ UNCHANGED <<timerVars, daemonVars, child, fifoPath, cmdVars>>

\* A poll finds the daemon's PID.
ClientSeesPID ==
    /\ client = "polling" /\ Ready
    /\ client' = "reported"
    /\ UNCHANGED <<timerVars, daemonVars, child, dirVars, cmdVars>>

\* The last of the fifty polls does not.
ClientGivesUp ==
    /\ client = "polling" /\ ~Ready
    /\ client' = "leaving"
    /\ UNCHANGED <<timerVars, daemonVars, child, dirVars, cmdVars>>

\* removeState after the last sleep, and fatalf.
ClientRemoves ==
    /\ client = "leaving"
    /\ client' = "failed"
    /\ file' = NoFile
    /\ UNCHANGED <<timerVars, daemonVars, child, fifoPath, cmdVars>>

-----------------------------------------------------------------------------
(***************************************************************************)
(* The daemon: runDaemon                                                   *)
(***************************************************************************)

\* The process ends without its deferred calls; the kernel closes what it has.
DaemonDies ==
    /\ daemon' = "gone"
    /\ writer' = "none"
    /\ sigCh' = <<>>

\* readState and NewTimerMode; without a file, fatalf.
DaemonReads ==
    /\ daemon = "spawned" /\ file.there
    /\ daemon' = "read"
    /\ endTime' = file.end
    /\ UNCHANGED <<timerVars, client, sigCh, writer, child, dirVars, cmdVars>>

\* os.Remove and syscall.Mkfifo
DaemonMakesFifo ==
    /\ daemon = "read"
    /\ daemon' = "fifo"
    /\ fifoPath' = TRUE
    /\ UNCHANGED <<timerVars, client, endTime, sigCh, writer, child, file,
                   cmdVars>>

\* cmd.Start, and the goroutine that opens the FIFO.
DaemonStartsChild ==
    /\ daemon = "fifo"
    /\ daemon' = "waiting"
    /\ child' = "sudo"
    /\ writer' = "trying"
    /\ UNCHANGED <<timerVars, client, endTime, sigCh, dirVars, cmdVars>>

\* os.OpenFile(fp, os.O_WRONLY, 0) finds the path, and waits for a reader.
WriterBlocks ==
    /\ writer = "trying"
    /\ writer' = IF fifoPath THEN "blocked" ELSE "failed"
    /\ UNCHANGED <<timerVars, client, daemon, endTime, sigCh, child, dirVars,
                   cmdVars>>

\* case r := <-ch, without an error.
DaemonOpened ==
    /\ daemon = "waiting" /\ writer = "open"
    /\ daemon' = "opened"
    /\ UNCHANGED <<timerVars, client, endTime, sigCh, writer, child, dirVars,
                   cmdVars>>

\* Variant: the PID is published as soon as the child has been started.
DaemonPublishesEarly ==
    /\ daemon = "waiting"
    /\ daemon' = "published"
    /\ file' = [there |-> TRUE, pid |-> TRUE, end |-> endTime]
    /\ UNCHANGED <<timerVars, client, endTime, sigCh, writer, child, fifoPath,
                   cmdVars>>

\* writeState with the daemon's PID, and the EndTime it read at the start.
DaemonPublishes ==
    /\ daemon = "opened"
    /\ daemon' = "published"
    /\ file' = [there |-> TRUE, pid |-> TRUE, end |-> endTime]
    /\ UNCHANGED <<timerVars, client, endTime, sigCh, writer, child, fifoPath,
                   cmdVars>>

\* fatalf, at each of the places before the loop: no state file, no FIFO, no
\* child, a failed open, a state file that cannot be written.
DaemonFails ==
    /\ \/ daemon = "spawned" /\ ~file.there
       \/ daemon \in {"read", "fifo", "opened"}
       \/ daemon = "waiting" /\ writer = "failed"
    /\ DaemonDies
    /\ UNCHANGED <<timerVars, client, endTime, child, dirVars, cmdVars>>

\* case <-time.After(5 * time.Second), and fatalf.
DaemonTimesOut ==
    /\ daemon = "waiting"
    /\ DaemonDies
    /\ UNCHANGED <<timerVars, client, endTime, child, dirVars, cmdVars>>

\* signal.Notify and mode.Run.
DaemonListens ==
    /\ daemon = "published"
    /\ daemon' = "loop"
    /\ Run(endTime)
    /\ UNCHANGED <<client, endTime, sigCh, writer, child, dirVars, cmdVars>>

\* case <-doneCh
LoopDone ==
    /\ daemon = "loop" /\ Done
    /\ daemon' = "leaving"
    /\ UNCHANGED <<timerVars, client, endTime, sigCh, writer, child, dirVars,
                   cmdVars>>

\* Variant: any signal ends the loop.
LoopAnySignal ==
    /\ daemon = "loop" /\ sigCh # <<>>
    /\ daemon' = "leaving"
    /\ sigCh' = <<>>
    /\ UNCHANGED <<timerVars, client, endTime, writer, child, dirVars, cmdVars>>

\* case sig := <-sigCh, a SIGTERM.
LoopTerm ==
    /\ daemon = "loop" /\ sigCh = <<"TERM">>
    /\ daemon' = "leaving"
    /\ sigCh' = <<>>
    /\ UNCHANGED <<timerVars, client, endTime, writer, child, dirVars, cmdVars>>

\* case sig := <-sigCh, a SIGUSR1.
LoopReload ==
    /\ daemon = "loop" /\ sigCh = <<"USR1">>
    /\ sigCh' = <<>>
    /\ IF file.there THEN Reload(file.end) ELSE ReloadFails
    /\ UNCHANGED <<client, daemon, endTime, writer, child, dirVars, cmdVars>>

\* The deferred calls, last one first: removeState(id),
DeferRemoveState ==
    /\ daemon = "leaving"
    /\ daemon' = "unlisted"
    /\ file' = NoFile
    /\ UNCHANGED <<timerVars, client, endTime, sigCh, writer, child, fifoPath,
                   cmdVars>>

\* Variant: nothing closes the FIFO before the daemon waits for the child.
DeferCloseNothing ==
    /\ daemon = "unlisted"
    /\ daemon' = "closed"
    /\ UNCHANGED <<timerVars, client, endTime, sigCh, writer, child, dirVars,
                   cmdVars>>

\* fifo.Close(),
DeferClose ==
    /\ daemon = "unlisted"
    /\ daemon' = "closed"
    /\ writer' = "closed"
    /\ UNCHANGED <<timerVars, client, endTime, sigCh, child, dirVars, cmdVars>>

\* cmd.Wait(), cmd.Process.Kill(), which finds the child ended, os.Remove(fp).
DeferWait ==
    /\ daemon = "closed" /\ child \in {"ended", "killed"}
    /\ fifoPath' = FALSE
    /\ DaemonDies
    /\ UNCHANGED <<timerVars, client, endTime, child, file, cmdVars>>

\* SIGKILL or a panic, once the block has been published; before that it is
\* what DaemonFails and DaemonTimesOut do.
DaemonKilled ==
    /\ daemon \in {"published", "loop", "leaving", "unlisted", "closed"}
    /\ DaemonDies
    /\ slain' = TRUE
    /\ UNCHANGED <<timerVars, client, endTime, child, dirVars, cmd, commands, missed>>

-----------------------------------------------------------------------------
(***************************************************************************)
(* The child: sudo, systemd-inhibit and cat                                *)
(***************************************************************************)

SudoRefuses ==
    /\ child = "sudo"
    /\ child' = "ended"
    /\ UNCHANGED <<timerVars, client, daemonVars, dirVars, cmdVars>>

\* systemd-inhibit takes the lock, then starts cat.
InhibitLocks ==
    /\ child = "sudo"
    /\ child' = "locked"
    /\ UNCHANGED <<timerVars, client, daemonVars, dirVars, cmdVars>>

\* cat opens the FIFO for reading and waits for a writer; without the path it
\* ends, and systemd-inhibit with it.
CatOpens ==
    /\ child = "locked"
    /\ child' = IF fifoPath THEN "opening" ELSE "ended"
    /\ UNCHANGED <<timerVars, client, daemonVars, dirVars, cmdVars>>

\* Both ends are there: the two open calls return.
FifoConnects ==
    /\ child = "opening" /\ writer = "blocked"
    /\ child' = "reading"
    /\ writer' = "open"
    /\ UNCHANGED <<timerVars, client, daemon, endTime, sigCh, dirVars, cmdVars>>

\* cat gets EOF and ends, and systemd-inhibit with it.
CatEnds ==
    /\ child = "reading" /\ writer # "open"
    /\ child' = "ended"
    /\ UNCHANGED <<timerVars, client, daemonVars, dirVars, cmdVars>>

\* Somebody kills it.
ChildKilled ==
    /\ child \in {"sudo", "locked", "opening", "reading"}
    /\ child' = "killed"
    /\ UNCHANGED <<timerVars, client, daemonVars, dirVars, cmdVars>>

-----------------------------------------------------------------------------
(***************************************************************************)
(* Another command: status (activeStates, which list, extend without an ID *)
(* and stop without one call too), extend and stop with an ID              *)
(***************************************************************************)

\* readState finds the file.
CmdReads ==
    /\ cmd = NoCmd /\ file.there /\ commands < MaxCommands
    /\ commands' = commands + 1
    /\ \E op \in {"status", "extend", "stop"} :
         cmd' = [op |-> op, at |-> "read", pid |-> file.pid]
    /\ UNCHANGED <<timerVars, client, daemonVars, child, dirVars, missed, slain>>

\* isBlockActive, on the PID that was read.
CmdChecksActive ==
    /\ cmd.op # "none" /\ cmd.at = "read"
    /\ cmd' = IF cmd.pid /\ DaemonAlive
                THEN IF cmd.op = "status" THEN NoCmd ELSE [cmd EXCEPT !.at = "active"]
                ELSE [cmd EXCEPT !.at = "stale"]
    /\ UNCHANGED <<timerVars, client, daemonVars, child, dirVars, commands,
                   missed, slain>>

\* removeState, and the FIFO too unless the command is extend.
CmdCleansUp ==
    /\ cmd.at = "stale"
    /\ file' = NoFile
    /\ fifoPath' = (fifoPath /\ cmd.op = "extend")
    /\ cmd' = NoCmd
    /\ UNCHANGED <<timerVars, client, daemonVars, child, commands, missed, slain>>

\* extendByID: writeState of what it read, with the new end.
ExtendWrites ==
    /\ cmd.op = "extend" /\ cmd.at = "active"
    /\ \E d \in Extensions : file' = [there |-> TRUE, pid |-> cmd.pid, end |-> d]
    /\ cmd' = [cmd EXCEPT !.at = "wrote"]
    /\ UNCHANGED <<timerVars, client, daemonVars, child, fifoPath, commands,
                   missed, slain>>

\* Variant: a channel without a limit.
KillQueued(s) ==
    IF daemon = "published" /\ s = "TERM"
      THEN DaemonDies
      ELSE /\ sigCh' = IF Listening THEN Append(sigCh, s) ELSE sigCh
           /\ UNCHANGED <<daemon, writer>>

\* A signal to the daemon.  Before signal.Notify a Go process dies of SIGTERM
\* and takes no notice of SIGUSR1; after it, a full channel drops the signal.
Kill(s) ==
    IF daemon = "published" /\ s = "TERM"
      THEN DaemonDies
      ELSE /\ sigCh' = IF Listening /\ sigCh = <<>> THEN <<s>> ELSE sigCh
           /\ UNCHANGED <<daemon, writer>>

\* extendByID: syscall.Kill(s.PID, syscall.SIGUSR1)
ExtendSignals ==
    /\ cmd.op = "extend" /\ cmd.at = "wrote"
    /\ Kill("USR1")
    /\ cmd' = NoCmd
    /\ missed' = (missed \/ daemon = "published")
    /\ UNCHANGED <<timerVars, client, endTime, child, dirVars, commands, slain>>

\* stopByID: syscall.Kill(s.PID, syscall.SIGTERM); then it only waits.
StopSignals ==
    /\ cmd.op = "stop" /\ cmd.at = "active"
    /\ Kill("TERM")
    /\ cmd' = NoCmd
    /\ UNCHANGED <<timerVars, client, endTime, child, dirVars, commands, missed,
                   slain>>

-----------------------------------------------------------------------------

\* A goroutine of the mode runs, as long as the process does.
ModeReads ==
    /\ DaemonAlive
    /\ \E k \in 1 .. Runs : GoReads(k)
    /\ UNCHANGED sysVars

ModeFires ==
    /\ DaemonAlive
    /\ \E k \in 1 .. Runs : GoFires(k)
    /\ UNCHANGED sysVars

\* Time passes: for the timers, and for what is left to the end times.
Tick ==
    /\ TimersTick
    /\ endTime' = CountDown(endTime)
    /\ file' = [file EXCEPT !.end = CountDown(@)]
    /\ UNCHANGED <<client, daemon, sigCh, writer, child, fifoPath, cmdVars>>
    /\ vars' # vars

Client == ClientPlaces \/ ClientSpawns \/ ClientCannotSpawn \/ ClientSeesPID
          \/ ClientGivesUp \/ ClientRemoves

Startup == DaemonReads \/ DaemonMakesFifo \/ DaemonStartsChild \/ WriterBlocks
           \/ DaemonOpened \/ DaemonPublishes \/ DaemonListens

Loop == LoopDone \/ LoopTerm \/ LoopReload

Deferred == DeferRemoveState \/ DeferClose \/ DeferWait

Mode == ModeReads \/ ModeFires

Child == InhibitLocks \/ CatOpens \/ FifoConnects \/ CatEnds

Command == CmdChecksActive \/ CmdCleansUp \/ ExtendWrites
           \/ ExtendSignals \/ StopSignals

Next ==
    \/ Client \/ Startup \/ Loop \/ Deferred \/ Mode \/ Child \/ Command
    \/ CmdReads \/ DaemonFails \/ DaemonTimesOut \/ DaemonKilled
    \/ SudoRefuses \/ ChildKilled \/ Tick

Spec == Init /\ [][Next]_vars

(***************************************************************************)
(* Time passes and every process gets to run; nothing is assumed of what   *)
(* may fail, of other commands being given, or of who wins a race.         *)
(***************************************************************************)
Fairness ==
    /\ WF_vars(Client) /\ WF_vars(Startup) /\ WF_vars(Loop) /\ WF_vars(Deferred)
    /\ WF_vars(ModeReads) /\ WF_vars(ModeFires)
    /\ WF_vars(Child) /\ WF_vars(Command) /\ WF_vars(Tick)

FairSpec == Spec /\ Fairness

-----------------------------------------------------------------------------
(***************************************************************************)
(* Safety                                                                  *)
(***************************************************************************)

\* The daemon has not begun its deferred calls.
Serving == DaemonAlive /\ daemon \notin {"unlisted", "closed"}

\* A state file with the daemon's PID, which makes startBlock report success,
\* stands for a lock that logind has, unless somebody killed the child, which
\* the daemon does not notice.
PublishedIsHeld ==
    Ready /\ Serving => child \in {"reading", "killed"}

\* No extend is between its write and the reload that answers it.
ExtendSettled == cmd.at # "wrote" /\ sigCh = <<>>

\* The end that status prints is the one the timer runs to, except after an
\* extend whose SIGUSR1 came before signal.Notify.
StatusShowsEnd ==
    daemon = "loop" /\ file.there /\ ExtendSettled /\ ~missed /\ ~failed
        => \/ left[Current] = file.end
           \/ left[Current] = Off /\ file.end = 0

\* The loop does not return on doneCh before the end that status prints; a
\* reload that found no state file has ended the block at once.
NeverEndsEarly ==
    [][ daemon = "loop" /\ daemon' = "leaving" /\ ExtendSettled /\ ~missed /\ ~failed
        => ~file.there \/ file.end = 0 ]_vars

(***************************************************************************)
(* The block as HeldBlock promises it.  A daemon that is gone has either   *)
(* published, or left a child behind that cat's open of the FIFO has not   *)
(* got past: that child may still take the lock, or give it back.          *)
(***************************************************************************)
Unconnected == child \in {"sudo", "locked", "opening"}

BlockStage ==
    CASE daemon \in {"published", "loop"} -> "on"
      [] daemon \in {"leaving", "unlisted", "closed"} -> "over"
      [] daemon = "gone" /\ slain -> "perished"
      [] daemon = "gone" /\ ~slain /\ ~Unconnected -> "over"
      [] OTHER -> "before"

\* The timer has run down, a reload found no state file, or somebody stops it.
BlockReason ==
    \/ daemon = "loop" /\ (left[Current] \in {0, Off} \/ failed)
    \/ sigCh = <<"TERM">>
    \/ cmd.op = "stop" /\ cmd.at = "active"

Promise == INSTANCE HeldBlock
             WITH stage <- BlockStage, lock <- Held, killed <- (child = "killed"),
                  reason <- BlockReason

\* A block is published under a lock, keeps it until its own timer has run down
\* or it is stopped, and no step of the daemon or of its child takes the lock
\* again when the deferred calls have begun.
KeepsBlock == Promise!Spec

-----------------------------------------------------------------------------
(***************************************************************************)
(* Liveness, under FairSpec                                                *)
(***************************************************************************)

\* A SIGTERM that got into sigCh, or a mode that is done, ends the daemon, and
\* its deferred calls release the lock and remove the FIFO.  A SIGKILL releases
\* the lock too: the kernel closes the FIFO, which stays for activeStates.
LoopEndReleases ==
    (daemon = "leaving" \/ sigCh = <<"TERM">> \/ slain)
        ~> (daemon = "gone" /\ ~Held /\ (~fifoPath \/ slain))

\* The block ends by itself, through extends too, provided that no reload came
\* before a goroutine of the mode had read m.timer.
EndsUnlessLate ==
    (<>late) \/ (daemon = "loop" ~> daemon = "gone")

=============================================================================
