---------------------------- MODULE WhenWatcher ----------------------------
(***************************************************************************)
(* The watcher of `block-sleep when`: runWhen (when.go), the process that  *)
(* a systemd user unit starts.  Its event loop owns the controller of      *)
(* WhenController; a goroutine runs the check, fed by a channel of one     *)
(* token; signals come from D-Bus and from the operating system; the state *)
(* file tells the command line what the watcher is doing.                  *)
(*                                                                         *)
(* The module composes the watcher with what it runs in: the world whose   *)
(* condition the check tests, suspend and resume, logind, and the unit     *)
(* that restarts it on failure.                                            *)
(***************************************************************************)
EXTENDS WhenController, Sequences

CONSTANTS
    SessionBus,   \* --on-dbus-session is used
    Every,        \* --every is used
    BusCap,       \* bound: signals waiting on each bus
    OsSigCap,     \* capacity of osSig
    StartLimit    \* starts before systemd gives the unit up

ASSUME SessionBusAssumption == SessionBus \in BOOLEAN
ASSUME EveryAssumption == Every \in BOOLEAN

Bus == IF SessionBus THEN {"system", "session"} ELSE {"system"}

ASSUME CapAssumption == BusCap \in [Bus -> Nat] /\ OsSigCap \in Nat \ {0}
ASSUME StartLimitAssumption == StartLimit \in Nat \ {0}

(***************************************************************************)
(* D-Bus signals by what the loop does with them: one that matches a rule  *)
(* of the user, NameAcquired or NameLost, the two halves of                *)
(* PrepareForSleep, and the closing of the connection, after which nothing *)
(* more arrives.                                                           *)
(***************************************************************************)
Signal == {"match", "name", "sleep", "resume", "closed"}

IsTrigger(s) == s \in {"match", "resume"}

\* Variant: any trigger counts as a resume.
IsResumeAny(s) == s \in {"match", "resume"}

IsResume(s) == s = "resume"

VARIABLES
    phase,        \* where the unit's process is
    sig,          \* sysSig and sessSig: signals received, not yet selected
    osSig,        \* osSig: process signals, not yet selected
    tick,         \* a tick of the --every ticker waits
    trig,         \* the token in trig
    worker,       \* the goroutine that runs checks, and what it has to send
    file          \* the state file of the block

procVars == <<phase, sig, osSig, tick, trig, worker, file>>

VARIABLES
    cond,         \* the user's command would succeed now
    asleep,       \* the machine is suspended
    stopping,     \* systemctl stop was asked
    starts,       \* starts of the unit, the number of the process
    recheck       \* the process whose PID a recheck command has read, or 0

envVars == <<cond, asleep, stopping, starts, recheck>>

(***************************************************************************)
(* Auxiliary: what happened since a check last looked at the condition.    *)
(***************************************************************************)
VARIABLES
    owed,         \* something that must cause a check
    drift,        \* the condition changed with nothing announcing it since
    timedOut      \* the last check was killed, so it says nothing of cond

seenVars == <<owed, drift, timedOut>>

vars == <<ctlVars, auxVars, procVars, envVars, seenVars>>

-----------------------------------------------------------------------------

(***************************************************************************)
(* The fields of the state file this module is about.  "own" says that the *)
(* PID in it is the running watcher's.                                     *)
(***************************************************************************)
NoFile == [present |-> FALSE, own |-> FALSE, armed |-> FALSE,
           releasing |-> FALSE, exit |-> "none"]

\* The file startWhenTransient writes before the unit exists: PID 0.
Placeholder == [NoFile EXCEPT !.present = TRUE]

File == [present : BOOLEAN, own : BOOLEAN, armed : BOOLEAN,
         releasing : BOOLEAN, exit : {"none", "pass", "fail"}]

\* save: the exit code is state.LastExit, nil until a result was handled.
Save(exit) ==
    file' = [present |-> TRUE, own |-> TRUE, armed |-> Armed',
             releasing |-> Releasing', exit |-> exit]

Listening == phase \in {"subscribed", "loop"}

Running == phase \in {"booting", "subscribed", "loop"}

TypeOK ==
    /\ CtlTypeOK
    /\ phase \in {"down", "booting", "subscribed", "loop", "stopped", "failed"}
    /\ sig \in [Bus -> Seq(Signal)]
    /\ osSig \in Seq({"USR1", "TERM"})
    /\ Len(osSig) <= OsSigCap
    /\ tick \in BOOLEAN
    /\ trig \in BOOLEAN
    /\ worker \in {"idle", "running", "pass", "fail", "timeout"}
    /\ file \in File
    /\ cond \in BOOLEAN /\ asleep \in BOOLEAN /\ stopping \in BOOLEAN
    /\ starts \in 0 .. StartLimit /\ recheck \in 0 .. StartLimit
    /\ owed \in BOOLEAN /\ drift \in BOOLEAN /\ timedOut \in BOOLEAN

\* The unit is about to start; --persist leaves no state file before that.
Init ==
    /\ CtlInit /\ AuxInit
    /\ phase = "down"
    /\ sig = [b \in Bus |-> <<>>]
    /\ osSig = <<>>
    /\ tick = FALSE
    /\ trig = FALSE
    /\ worker = "idle"
    /\ file \in {NoFile, Placeholder}
    /\ cond \in BOOLEAN
    /\ asleep = FALSE
    /\ stopping = FALSE
    /\ starts = 0 /\ recheck = 0
    /\ owed = TRUE /\ drift = FALSE /\ timedOut = FALSE

-----------------------------------------------------------------------------
(***************************************************************************)
(* The process comes and goes                                              *)
(***************************************************************************)

\* systemd starts the process: runWhen up to the connection to the bus.
Start ==
    /\ phase = "down" /\ ~asleep /\ ~stopping
    /\ starts < StartLimit
    /\ phase' = "booting"
    /\ starts' = starts + 1
    /\ UNCHANGED <<ctlVars, auxVars, sig, osSig, tick, trig, worker, file,
                   cond, asleep, stopping, recheck, seenVars>>

\* The match rules are in place and the signal channels registered.
Subscribe ==
    /\ phase = "booting" /\ ~asleep
    /\ phase' = "subscribed"
    /\ UNCHANGED <<ctlVars, auxVars, sig, osSig, tick, trig, worker, file,
                   envVars, seenVars>>

\* signal.Notify, the first save, the check goroutine and the first poke.
EnterLoop ==
    /\ phase = "subscribed" /\ ~asleep
    /\ phase' = "loop"
    /\ trig' = TRUE
    /\ UNCHANGED <<ctlVars, auxVars, sig, osSig, tick, worker, envVars, seenVars>>
    /\ Save("none")

\* What the process's death takes with it, and the phase systemd leaves.
ProcessEnds(next) ==
    /\ phase' = next
    /\ sig' = [b \in Bus |-> <<>>]
    /\ osSig' = <<>>
    /\ tick' = FALSE
    /\ trig' = FALSE
    /\ worker' = "idle"
    /\ NoteEnd

\* Restart=on-failure within the start limit.
AfterFailure ==
    IF stopping THEN "stopped" ELSE IF starts < StartLimit THEN "down" ELSE "failed"

\* exit(1), and fatalf before the loop: the state file stays.
ExitFailure ==
    /\ Stop
    /\ ProcessEnds(AfterFailure)
    /\ file' = [file EXCEPT !.own = FALSE]

\* exit(0): removeState.
ExitClean ==
    /\ Stop
    /\ ProcessEnds("stopped")
    /\ file' = NoFile

\* fatalf: a bus that cannot be reached or a match rule it refuses.
SubscribeFails ==
    /\ phase = "booting" /\ ~asleep
    /\ ExitFailure
    /\ UNCHANGED <<envVars, seenVars>>

\* A panic or a kill from outside.
Crash ==
    /\ Running /\ ~asleep
    /\ Die
    /\ ProcessEnds(AfterFailure)
    /\ file' = [file EXCEPT !.own = FALSE]
    /\ UNCHANGED <<envVars, seenVars>>

-----------------------------------------------------------------------------
(***************************************************************************)
(* The check goroutine                                                     *)
(***************************************************************************)

\* for range trig
TakeTrigger ==
    /\ phase = "loop" /\ ~asleep
    /\ worker = "idle" /\ trig
    /\ trig' = FALSE
    /\ worker' = "running"
    /\ UNCHANGED <<ctlVars, auxVars, phase, sig, osSig, tick, file, envVars, seenVars>>

\* runCheck: the command ends by itself and tells what the condition is.
CheckExits ==
    /\ phase = "loop" /\ ~asleep
    /\ worker = "running"
    /\ worker' = IF cond THEN "pass" ELSE "fail"
    /\ owed' = FALSE /\ drift' = FALSE /\ timedOut' = FALSE
    /\ UNCHANGED <<ctlVars, auxVars, phase, sig, osSig, tick, trig, file, envVars>>

\* runCheck: the timer kills the command's process group, or sh does not start.
CheckTimesOut ==
    /\ phase = "loop" /\ ~asleep
    /\ worker = "running"
    /\ worker' = "timeout"
    /\ owed' = FALSE /\ drift' = FALSE /\ timedOut' = TRUE
    /\ UNCHANGED <<ctlVars, auxVars, phase, sig, osSig, tick, trig, file, envVars>>

-----------------------------------------------------------------------------
(***************************************************************************)
(* The event loop: one action per case of the select                       *)
(***************************************************************************)

\* Variant: a send that only an idle check goroutine receives.
PokeIdleWorker == trig' = (trig \/ worker = "idle")

\* A non-blocking send: with a token waiting, that one serves both.
Poke == trig' = TRUE

InLoop == phase = "loop" /\ ~asleep

\* case r := <-results, when the check passed.
HandlePass ==
    /\ InLoop /\ worker = "pass"
    /\ OnPass /\ NotePass
    /\ Save("pass")
    /\ worker' = "idle"
    /\ UNCHANGED <<phase, sig, osSig, tick, trig, envVars, seenVars>>

\* Variant: the exit code is saved before the block is taken.
HandlePassRefusedSaved ==
    /\ InLoop /\ worker = "pass" /\ ~Armed
    /\ Stop
    /\ ProcessEnds(AfterFailure)
    /\ file' = [file EXCEPT !.own = FALSE, !.exit = "pass"]
    /\ UNCHANGED <<envVars, seenVars>>

\* case r := <-results, when the check passed and acquire returns an error.
HandlePassRefused ==
    /\ InLoop /\ worker = "pass" /\ ~Armed
    /\ ExitFailure
    /\ UNCHANGED <<envVars, seenVars>>

\* case r := <-results, when the check failed or was killed.
HandleFail ==
    /\ InLoop /\ worker \in {"fail", "timeout"}
    /\ OnFail /\ NoteFail
    /\ Save("fail")
    /\ worker' = "idle"
    /\ UNCHANGED <<phase, sig, osSig, tick, trig, envVars, seenVars>>

\* Variant: no save.
HandleGraceUnsaved ==
    /\ InLoop
    /\ OnGraceExpired
    /\ UNCHANGED <<auxVars, phase, sig, osSig, tick, trig, worker, file, envVars, seenVars>>

\* case <-ctl.graceC
HandleGrace ==
    /\ InLoop
    /\ OnGraceExpired
    /\ Save(file.exit)
    /\ UNCHANGED <<auxVars, phase, sig, osSig, tick, trig, worker, envVars, seenVars>>

\* Variant: forget the inhibitor and wait for the next trigger.
HandleLostForgotten ==
    /\ InLoop /\ lostC
    /\ CancelGrace /\ Release
    /\ Save(file.exit)
    /\ UNCHANGED <<holdLeft, auxVars, phase, sig, osSig, tick, trig, worker, envVars, seenVars>>

\* case <-ctl.lost()
HandleLost ==
    /\ InLoop /\ lostC
    /\ ExitFailure
    /\ UNCHANGED <<envVars, seenVars>>

\* Variant: a suspend stops the grace timer.
HandleSignalPausing(b) ==
    /\ InLoop /\ sig[b] # <<>> /\ Head(sig[b]) # "closed"
    /\ LET s == Head(sig[b]) IN
       /\ IF s = "sleep"
            THEN CancelGrace /\ UNCHANGED <<inh, holdLeft, lostC, locks, auxVars>>
            ELSE UNCHANGED <<ctlVars, auxVars>>
       /\ IF IsTrigger(s) THEN Poke ELSE UNCHANGED trig
    /\ sig' = [sig EXCEPT ![b] = Tail(@)]
    /\ UNCHANGED <<phase, osSig, tick, worker, file, envVars, seenVars>>

\* Variant: the session bus causes no check.
HandleSignalSystemOnly(b) ==
    /\ InLoop /\ sig[b] # <<>> /\ Head(sig[b]) # "closed"
    /\ LET s == Head(sig[b]) IN
       /\ IF IsResume(s) THEN OnResume /\ NoteResume ELSE UNCHANGED <<ctlVars, auxVars>>
       /\ IF b = "system" /\ IsTrigger(s) THEN Poke ELSE UNCHANGED trig
    /\ sig' = [sig EXCEPT ![b] = Tail(@)]
    /\ UNCHANGED <<phase, osSig, tick, worker, file, envVars, seenVars>>

\* case s, ok := <-sysSig and <-sessSig; only the system bus has the resume.
HandleSignal(b) ==
    /\ InLoop /\ sig[b] # <<>> /\ Head(sig[b]) # "closed"
    /\ LET s == Head(sig[b]) IN
       /\ IF b = "system" /\ IsResume(s)
            THEN OnResume /\ NoteResume
            ELSE UNCHANGED <<ctlVars, auxVars>>
       /\ IF IsTrigger(s) THEN Poke ELSE UNCHANGED trig
    /\ sig' = [sig EXCEPT ![b] = Tail(@)]
    /\ UNCHANGED <<phase, osSig, tick, worker, file, envVars, seenVars>>

\* The same two cases when the channel is closed.
HandleBusClosed(b) ==
    /\ InLoop /\ sig[b] # <<>> /\ Head(sig[b]) = "closed"
    /\ ExitFailure
    /\ UNCHANGED <<envVars, seenVars>>

\* case <-tick
HandleTick ==
    /\ InLoop /\ tick
    /\ tick' = FALSE
    /\ Poke
    /\ UNCHANGED <<ctlVars, auxVars, phase, sig, osSig, worker, file, envVars, seenVars>>

\* Variant: a recheck takes all that wait.
HandleRecheckDraining ==
    /\ InLoop /\ osSig # <<>> /\ Head(osSig) = "USR1"
    /\ osSig' = <<>>
    /\ Poke
    /\ UNCHANGED <<ctlVars, auxVars, phase, sig, tick, worker, file, envVars, seenVars>>

\* case sig := <-osSig, a recheck.
HandleRecheck ==
    /\ InLoop /\ osSig # <<>> /\ Head(osSig) = "USR1"
    /\ osSig' = Tail(osSig)
    /\ Poke
    /\ UNCHANGED <<ctlVars, auxVars, phase, sig, tick, worker, file, envVars, seenVars>>

\* case sig := <-osSig, any other signal.
HandleTerm ==
    /\ InLoop /\ osSig # <<>> /\ Head(osSig) = "TERM"
    /\ ExitClean
    /\ UNCHANGED <<envVars, seenVars>>

-----------------------------------------------------------------------------
(***************************************************************************)
(* The world                                                               *)
(***************************************************************************)

\* From here on a check must follow, and it will see every change so far.
Owe == owed' = TRUE /\ drift' = FALSE

HasRoom(b, n) == Len(sig[b]) + n <= BusCap[b]

Open(b) == \A i \in 1 .. Len(sig[b]) : sig[b][i] # "closed"

\* What a signal on bus b does to the channel the watcher registered, if any.
Deliver(b, s) ==
    IF Listening /\ Open(b)
      THEN HasRoom(b, 1) /\ sig' = [sig EXCEPT ![b] = Append(@, s)]
      ELSE UNCHANGED sig

\* A signal matches a rule; the condition may have changed with it.
Announce(b) ==
    /\ ~asleep
    /\ cond' \in BOOLEAN
    /\ Deliver(b, "match")
    /\ Owe
    /\ UNCHANGED <<ctlVars, auxVars, phase, osSig, tick, trig, worker, file,
                   asleep, stopping, starts, recheck, timedOut>>

\* Bus housekeeping.
NameSignal(b) ==
    /\ ~asleep /\ Listening /\ Open(b)
    /\ Deliver(b, "name")
    /\ UNCHANGED <<ctlVars, auxVars, phase, osSig, tick, trig, worker, file,
                   envVars, seenVars>>

\* A change that only --every can notice, or one while suspended.
ChangeSilently ==
    /\ Every \/ asleep
    /\ cond' = ~cond
    /\ drift' = TRUE
    /\ UNCHANGED <<ctlVars, auxVars, procVars, asleep, stopping, starts, recheck,
                   owed, timedOut>>

BusCloses(b) ==
    /\ ~asleep /\ Listening /\ Open(b) /\ HasRoom(b, 1)
    /\ sig' = [sig EXCEPT ![b] = Append(@, "closed")]
    /\ UNCHANGED <<ctlVars, auxVars, phase, osSig, tick, trig, worker, file,
                   envVars, seenVars>>

\* logind announces the suspend, then the machine freezes.
Suspend ==
    /\ ~asleep
    /\ Listening /\ Open("system") => HasRoom("system", 2)
    /\ asleep' = TRUE
    /\ Deliver("system", "sleep")
    /\ UNCHANGED <<ctlVars, auxVars, phase, osSig, tick, trig, worker, file,
                   cond, stopping, starts, recheck, seenVars>>

Wake ==
    /\ asleep
    /\ asleep' = FALSE
    /\ Deliver("system", "resume")
    /\ Owe
    /\ UNCHANGED <<ctlVars, auxVars, phase, osSig, tick, trig, worker, file,
                   cond, stopping, starts, recheck, timedOut>>

\* The kernel delivers s; the Go runtime drops it when osSig is full.
Notify(s) ==
    osSig' = IF Len(osSig) < OsSigCap THEN Append(osSig, s) ELSE osSig

(***************************************************************************)
(* `block-sleep recheck` reads the state file, asks systemctl whether the  *)
(* unit is up, and signals the PID.  The watcher may end and be restarted  *)
(* in between, and the PID may have been stale from the start, while a new *)
(* process is on its way to its first save.  The command counts from the   *)
(* moment it reads: a check must follow, unless the unit is being stopped. *)
(* The clean-up that comes with the reading is in WhenUnit.                *)
(***************************************************************************)
RecheckReads ==
    /\ ~asleep /\ recheck = 0
    /\ file.present /\ phase \notin {"stopped", "failed"}
    /\ recheck' = IF file.own THEN starts ELSE 0
    /\ IF stopping THEN UNCHANGED <<owed, drift>> ELSE Owe
    /\ UNCHANGED <<ctlVars, auxVars, procVars, cond, asleep, stopping, starts, timedOut>>

\* Nothing is sent while the unit restarts, or to a process that is gone.  Of a
\* unit that is deactivating unitRunning says no, or trusts the PID.
RecheckSignals ==
    /\ ~asleep /\ recheck # 0
    /\ recheck' = 0
    /\ IF phase = "loop" /\ recheck = starts
         THEN Notify("USR1") \/ (stopping /\ UNCHANGED osSig)
         ELSE UNCHANGED osSig
    /\ UNCHANGED <<ctlVars, auxVars, phase, sig, tick, trig, worker, file,
                   cond, asleep, stopping, starts, seenVars>>

\* systemctl stop, while the watcher handles signals.
StopUnit ==
    /\ ~asleep /\ phase = "loop" /\ ~stopping
    /\ stopping' = TRUE
    /\ Notify("TERM")
    /\ UNCHANGED <<ctlVars, auxVars, phase, sig, tick, trig, worker, file,
                   cond, asleep, starts, recheck, seenVars>>

\* systemctl stop, before signal.Notify: SIGTERM kills, the file stays.
StopEarly ==
    /\ ~asleep /\ phase \in {"down", "booting", "subscribed"}
    /\ stopping' = TRUE
    /\ Die
    /\ ProcessEnds("stopped")
    /\ UNCHANGED <<file, cond, asleep, starts, recheck, seenVars>>

\* The unit's stop timeout: SIGKILL.
StopTimesOut ==
    /\ ~asleep /\ phase = "loop" /\ stopping
    /\ Die
    /\ ProcessEnds("stopped")
    /\ file' = [file EXCEPT !.own = FALSE]
    /\ UNCHANGED <<envVars, seenVars>>

Tick ==
    /\ ~asleep
    /\ ClockTick /\ NoteTick
    /\ UNCHANGED <<procVars, envVars, seenVars>>

TickerFires ==
    /\ Every /\ ~asleep /\ phase = "loop"
    /\ tick' = TRUE
    /\ Owe
    /\ UNCHANGED <<ctlVars, auxVars, phase, sig, osSig, trig, worker, file,
                   envVars, timedOut>>

SudoDies ==
    /\ ~asleep
    /\ InhibitorDies
    /\ UNCHANGED <<auxVars, procVars, envVars, seenVars>>

-----------------------------------------------------------------------------

Process ==
    Start \/ Subscribe \/ SubscribeFails \/ EnterLoop

Worker == TakeTrigger \/ CheckExits \/ CheckTimesOut

Select ==
    \/ HandlePass
    \/ HandlePassRefused
    \/ HandleFail
    \/ HandleGrace
    \/ HandleLost
    \/ \E b \in Bus : HandleSignal(b)
    \/ \E b \in Bus : HandleBusClosed(b)
    \/ HandleTick
    \/ HandleRecheck
    \/ HandleTerm

World ==
    \/ \E b \in Bus : Announce(b)
    \/ \E b \in Bus : NameSignal(b)
    \/ \E b \in Bus : BusCloses(b)
    \/ ChangeSilently
    \/ Suspend
    \/ Wake
    \/ RecheckReads
    \/ RecheckSignals
    \/ StopUnit
    \/ StopEarly
    \/ StopTimesOut
    \/ Tick
    \/ TickerFires
    \/ SudoDies
    \/ Crash

Next == Process \/ Worker \/ Select \/ World

Spec == Init /\ [][Next]_vars

(***************************************************************************)
(* Fairness.  The processes and the goroutines run while the machine is    *)
(* awake, and time passes.  Go's select picks at random among the cases    *)
(* that are ready, so a case that stays ready is taken: weak fairness of   *)
(* each case.  A check ends, by itself or by its timeout.  Nothing is      *)
(* assumed of the world: not that the machine wakes up, that a signal      *)
(* comes, or that SIGKILL follows a stop.                                  *)
(***************************************************************************)
Fairness ==
    /\ WF_vars(Process) /\ WF_vars(Worker)
    /\ WF_vars(HandlePass \/ HandlePassRefused \/ HandleFail)
    /\ WF_vars(HandleGrace) /\ WF_vars(HandleLost)
    /\ \A b \in Bus : WF_vars(HandleSignal(b) \/ HandleBusClosed(b))
    /\ WF_vars(HandleTick) /\ WF_vars(HandleRecheck \/ HandleTerm)
    /\ WF_vars(Tick) /\ WF_vars(TickerFires)

FairSpec == Spec /\ Fairness

-----------------------------------------------------------------------------
(***************************************************************************)
(* Safety                                                                  *)
(***************************************************************************)

\* A queue holds a signal that causes a check, or the end of the process.
TriggerWaits(queue) ==
    \E i \in 1 .. Len(queue) : IsTrigger(queue[i]) \/ queue[i] = "closed"

\* A recheck has read the PID of the running process and is yet to signal it.
RecheckComes == recheck = starts /\ ~stopping

(***************************************************************************)
(* No trigger is lost.  A D-Bus signal, resume, recheck or tick that came  *)
(* after the last look at the condition is still on its way to a check: in *)
(* a queue of the loop, as the token, or as a check that has not looked    *)
(* yet, even when it came while a check ran, while another token waited,   *)
(* during suspend or before the process listened.  A recheck that has read *)
(* the PID of the process before counts on the first check of the new one. *)
(***************************************************************************)
NoLostTrigger ==
    phase = "loop" /\ owed =>
        \/ trig \/ tick
        \/ worker = "running"
        \/ \E b \in Bus : TriggerWaits(sig[b])
        \/ osSig # <<>>
        \/ RecheckComes

Quiet ==
    /\ InLoop
    /\ ~trig /\ ~tick /\ worker = "idle" /\ osSig = <<>>
    /\ \A b \in Bus : sig[b] = <<>>
    /\ ~RecheckComes

(***************************************************************************)
(* With nothing left to handle, the block is what the condition asks for:  *)
(* held for good when it holds; not held, or about to be released, when it *)
(* does not.  Only a change nothing announced or a check that was killed   *)
(* excuses a difference.                                                   *)
(***************************************************************************)
SettledIsRight ==
    Quiet /\ ~drift /\ ~timedOut =>
        /\ cond => Armed /\ ~Releasing
        /\ ~cond => (Armed => Releasing)

(***************************************************************************)
(* What `block-sleep status` reads is so: while the loop runs, the state   *)
(* file has the watcher's PID, says "releasing" exactly while the grace    *)
(* timer runs, and says "armed" exactly while logind holds the lock, but   *)
(* for the moment between the death of a sudo inhibitor and its handling.  *)
(***************************************************************************)
StatusIsTruthful ==
    phase = "loop" =>
        /\ file.own
        /\ file.releasing = Releasing
        /\ lostC \/ (file.armed <=> locks = 1)

(***************************************************************************)
(* A last exit code of 0 is in the state file only together with the block *)
(* it took, even across restarts: `when` reports "blocking now" from the   *)
(* file (waitForFirstCheck), so a refused inhibitor must not show as a     *)
(* check that passed.                                                      *)
(***************************************************************************)
FirstCheckIsHonest == file.exit = "pass" => file.armed

(***************************************************************************)
(* logind holds one lock exactly while the loop runs with an inhibitor     *)
(* that lives: no way out of the loop, restart or crash leaves one behind, *)
(* and no way round it takes a second.                                     *)
(***************************************************************************)
LockIsAccountedFor ==
    locks = IF phase = "loop" /\ Armed /\ ~lostC THEN 1 ELSE 0

(***************************************************************************)
(* The loop uses its controller only as WhenController says: whatever the  *)
(* order in which the cases are taken, each is one of its steps.           *)
(***************************************************************************)
DrivesController == CtlSpec

(***************************************************************************)
(* The watcher from outside: the process of the unit, its inhibitor, and   *)
(* the state file.                                                         *)
(***************************************************************************)
OutsideProc ==
    IF phase \in {"booting", "subscribed"} THEN "starting"
    ELSE IF phase = "loop" THEN "up"
    ELSE "none"

OutsideFile ==
    IF ~file.present THEN "absent"
    ELSE IF ~file.own THEN "other"
    ELSE IF file.exit = "none" THEN "unchecked"
    ELSE IF file.armed THEN "blocking"
    ELSE "waiting"

Outside == INSTANCE WatcherProcess
             WITH proc <- OutsideProc, lock <- Armed, file <- OutsideFile

(***************************************************************************)
(* Whatever happens inside, the commands see a process that announces      *)
(* itself, takes and gives back the lock together with the file, and       *)
(* leaves neither a lock nor a file of its own.  This is what WhenUnit     *)
(* takes the watcher for.                                                  *)
(***************************************************************************)
ActsAsProcess == Outside!Spec

-----------------------------------------------------------------------------
(***************************************************************************)
(* Liveness, of FairSpec                                                   *)
(***************************************************************************)

(***************************************************************************)
(* Once the condition holds for good, the machine stays awake, checks are  *)
(* not killed and the unit is not given up or stopped, the block is taken  *)
(* and kept, through restarts, lost inhibitors and grace periods.          *)
(***************************************************************************)
EventuallyBlocks ==
    <>[](cond /\ ~asleep /\ ~timedOut /\ phase \notin {"stopped", "failed"})
        => <>[](locks = 1)

(***************************************************************************)
(* Once the condition is false for good and the machine stays awake, the   *)
(* block is released: triggers and failing checks cannot put it off.       *)
(***************************************************************************)
EventuallyReleases == <>[](~cond /\ ~asleep) => <>[](locks = 0)

TermWaits == \E i \in 1 .. Len(osSig) : osSig[i] = "TERM"

(***************************************************************************)
(* A SIGTERM that reached osSig stops the watcher for good and drops the   *)
(* lock, whatever else is ready in the loop, with no need of SIGKILL.      *)
(***************************************************************************)
StopIsHonoured ==
    <>[]~asleep => (TermWaits ~> [](phase = "stopped" /\ locks = 0))

=============================================================================
