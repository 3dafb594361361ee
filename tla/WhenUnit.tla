------------------------------ MODULE WhenUnit ------------------------------
(***************************************************************************)
(* The user unit around a watcher, and the commands that start it, look at *)
(* it and stop it (when.go, and its part of main.go and state.go).         *)
(*                                                                         *)
(*   - kind "transient": `block-sleep when` (startWhenTransient) writes a  *)
(*     placeholder state file, has systemd-run make the unit and waits for *)
(*     the watcher's first check;                                          *)
(*   - kind "persistent": `when --persist` (persistWhen) installs a unit   *)
(*     file and restarts the unit, which is started at every login too,    *)
(*     until `when --unpersist`.                                           *)
(*                                                                         *)
(* WhenWatcher is the inside of the process; here it is starting, or up,   *)
(* and every save tells what it has (StatusIsTruthful, FirstCheckIsHonest).*)
(* systemctl may have no answer.  Left to systemd's job queue, and not     *)
(* here: a stop that is given while a persist restarts the unit.           *)
(***************************************************************************)
EXTENDS Integers

CONSTANTS
    StartLimit,   \* starts that systemd allows before it gives the unit up
    MaxRuns       \* bound: processes there will have been

ASSUME StartLimitAssumption == StartLimit \in Nat \ {0}
ASSUME MaxRunsAssumption == MaxRuns \in Nat

VARIABLES
    kind,         \* of the block
    installed,    \* the unit file is there and enabled
    unit,         \* as in `systemctl is-active`
    proc,         \* the unit's process
    run,          \* its number, in the place of its PID
    starts,       \* starts that count against StartLimit
    lock,         \* the process has the inhibitor
    file,         \* the state file
    client,       \* where startWhenTransient or persistWhen is
    since,        \* runs up to this one are too old for the client
    said,         \* what the client reported
    cmd,          \* the other command that is running
    stopped,      \* auxiliary: what a stop has said and nothing has undone
    early,        \* auxiliary: that stop came before there was a unit
    saved,        \* auxiliary: the unit has saved since it was last started
    swept,        \* auxiliary: a clean-up took the file from a live unit
    took          \* auxiliary: a run after `since` has taken the lock

unitVars == <<kind, installed, unit, proc, run, starts, lock>>
clientVars == <<client, since, said>>
auxVars == <<stopped, early, saved, swept, took>>

vars == <<unitVars, file, clientVars, cmd, auxVars>>

-----------------------------------------------------------------------------

\* PID 0 is the placeholder's; fresh: started less than ten seconds ago, which
\* counts for a placeholder only; checked: LastExit is set.
File == [there : BOOLEAN, pid : 0 .. MaxRuns, fresh : BOOLEAN,
         armed : BOOLEAN, checked : BOOLEAN]

NoFile == [there |-> FALSE, pid |-> 0, fresh |-> FALSE,
           armed |-> FALSE, checked |-> FALSE]

Placeholder == [NoFile EXCEPT !.there = TRUE, !.fresh = TRUE]

Saved(armed, checked) ==
    [there |-> TRUE, pid |-> run, fresh |-> FALSE,
     armed |-> armed, checked |-> checked]

\* A command: how far it is, what it read, and (auxiliary) whether since then
\* the lock was held, or a process had yet to save for the first time.
Cmd == [op : {"none", "status", "stop", "stopAll"},
        at : {"read", "judged", "stale", "restarting", "blocking", "waiting"},
        saw : File,
        locked : BOOLEAN, gap : BOOLEAN]

NoCmd == [op |-> "none", at |-> "read", saw |-> NoFile,
          locked |-> FALSE, gap |-> FALSE]

\* systemctl is-active, or "" when it cannot reach the user manager.
Answers == {unit, ""}

PIDRuns(f) == f.pid > 0 /\ f.pid = run /\ proc # "none"

unitAlive(f, answer) ==
    \/ f.pid = 0 /\ f.fresh
    \/ answer \in {"active", "activating", "deactivating"}
    \/ answer = "" /\ PIDRuns(f)

unitRunning(f, answer) ==
    answer = "active" \/ (answer = "" /\ PIDRuns(f))

TypeOK ==
    /\ kind \in {"transient", "persistent"}
    /\ installed \in BOOLEAN
    /\ unit \in {"inactive", "activating", "active", "deactivating"}
    /\ proc \in {"none", "starting", "up"}
    /\ run \in 0 .. MaxRuns /\ starts \in 0 .. StartLimit
    /\ lock \in BOOLEAN
    /\ file \in File
    /\ client \in {"idle", "placed", "installed", "restarting", "polling",
                   "givenUp", "stopping", "reported", "failed"}
    /\ since \in 0 .. MaxRuns
    /\ said \in {"nothing", "blocking", "waiting"}
    /\ cmd \in Cmd
    /\ stopped \in {"no", "stopped", "unpersisted"}
    /\ early \in BOOLEAN /\ saved \in BOOLEAN /\ swept \in BOOLEAN
    /\ took \in BOOLEAN

Init ==
    /\ kind \in {"transient", "persistent"}
    /\ installed = FALSE /\ unit = "inactive" /\ proc = "none"
    /\ run = 0 /\ starts = 0 /\ lock = FALSE
    /\ file = NoFile
    /\ client = "idle" /\ since = 0 /\ said = "nothing"
    /\ cmd = NoCmd
    /\ stopped = "no" /\ early = FALSE /\ saved = FALSE /\ swept = FALSE
    /\ took = FALSE

\* What the other command sees go by.
CmdWatches ==
    cmd' = IF cmd.op = "none" THEN cmd
           ELSE [cmd EXCEPT !.locked = (@ \/ lock'),
                            !.gap = (@ \/ proc' = "starting")]

-----------------------------------------------------------------------------
(***************************************************************************)
(* systemd                                                                 *)
(***************************************************************************)

\* A process is forked; with the n-th start that counts against the limit.
Launch(n) ==
    /\ run < MaxRuns
    /\ unit' = "active" /\ proc' = "starting"
    /\ run' = run + 1 /\ starts' = n
    /\ UNCHANGED <<kind, lock>>
    /\ CmdWatches

\* RestartSec is over.
AutoRestart ==
    /\ unit = "activating"
    /\ Launch(starts + 1)
    /\ UNCHANGED <<installed, file, clientVars, auxVars>>

\* WantedBy=default.target
Login ==
    /\ installed /\ unit = "inactive" /\ client \notin {"installed", "restarting"}
    /\ Launch(1)
    /\ stopped' = IF stopped = "stopped" THEN "no" ELSE stopped
    /\ saved' = FALSE
    /\ UNCHANGED <<installed, file, clientVars, early, swept, took>>

\* The process and its lock are gone, and the unit is what the argument says.
Ends(becomes) ==
    /\ proc' = "none" /\ lock' = FALSE /\ unit' = becomes
    /\ UNCHANGED <<kind, installed, run, starts>>
    /\ CmdWatches

\* Variant: no limit on the starts.
RestartsAlways ==
    IF unit = "deactivating" THEN "inactive" ELSE "activating"

\* Restart=on-failure and StartLimitBurst.
AfterFailure ==
    IF unit = "deactivating" \/ starts >= StartLimit THEN "inactive" ELSE "activating"

\* Variant: the state file goes with every exit.
FailsRemoving ==
    /\ proc # "none"
    /\ Ends(AfterFailure)
    /\ file' = NoFile
    /\ UNCHANGED <<clientVars, auxVars>>

\* exit(1), fatalf or a crash: the state file stays.
Fails ==
    /\ proc # "none"
    /\ Ends(AfterFailure)
    /\ UNCHANGED <<file, clientVars, auxVars>>

\* SIGTERM: exit(0) removes the state file; before signal.Notify, and at the
\* SIGKILL of a stop that takes too long, nothing does.
Terminates ==
    /\ unit = "deactivating" /\ proc # "none"
    /\ Ends("inactive")
    /\ \/ proc = "up" /\ file' = NoFile
       \/ UNCHANGED file
    /\ UNCHANGED <<clientVars, auxVars>>

\* systemctl stop, up to the signal; Terminates is the rest of it.
StopJob ==
    /\ unit' = IF proc = "none" THEN "inactive" ELSE "deactivating"
    /\ UNCHANGED <<kind, proc, run, starts, lock>>

-----------------------------------------------------------------------------
(***************************************************************************)
(* The watcher                                                             *)
(***************************************************************************)

\* Variant: the first save keeps what the watcher before had found.
AnnouncesOldResult ==
    /\ proc = "starting"
    /\ proc' = "up"
    /\ file' = Saved(file.armed, file.checked)
    /\ saved' = TRUE /\ swept' = FALSE
    /\ UNCHANGED <<kind, installed, unit, run, starts, lock, clientVars,
                   stopped, early, took>>
    /\ CmdWatches

\* The first save, before the first check.
Announces ==
    /\ proc = "starting"
    /\ proc' = "up"
    /\ file' = Saved(FALSE, FALSE)
    /\ saved' = TRUE /\ swept' = FALSE
    /\ UNCHANGED <<kind, installed, unit, run, starts, lock, clientVars,
                   stopped, early, took>>
    /\ CmdWatches

\* A check passed, and the block is taken unless it is held, or what was held
\* is released.
Checks(held) ==
    /\ proc = "up"
    /\ lock' = held
    /\ file' = Saved(held, TRUE)
    /\ swept' = FALSE
    /\ took' = (took \/ (held /\ run > since))
    /\ UNCHANGED <<kind, installed, unit, proc, run, starts, clientVars,
                   stopped, early, saved>>
    /\ CmdWatches

-----------------------------------------------------------------------------
(***************************************************************************)
(* The clients: startWhenTransient and persistWhen                         *)
(***************************************************************************)

\* The state file before there is a unit.
Places ==
    /\ kind = "transient" /\ client = "idle"
    /\ client' = "placed"
    /\ file' = Placeholder
    /\ UNCHANGED <<unitVars, since, said, cmd, auxVars>>

\* systemd-run
RunsUnit ==
    /\ client = "placed"
    /\ Launch(1)
    /\ client' = "polling"
    /\ saved' = FALSE
    /\ UNCHANGED <<installed, file, since, said, stopped, early, swept, took>>

\* os.Executable or systemd-run fails: removeState, fatalf.
CannotRun ==
    /\ client = "placed"
    /\ client' = "failed"
    /\ file' = NoFile
    /\ UNCHANGED <<unitVars, since, said, cmd, auxVars>>

\* The unit file and restartedAt; again after an earlier --persist.  Started is
\* set just before the first save, so a process that has yet to save is not
\* too old.
Installs ==
    /\ kind = "persistent"
    /\ client \in {"idle", "reported", "failed"}
    /\ client' = "installed"
    /\ installed' = TRUE
    /\ since' = IF proc = "starting" THEN run - 1 ELSE run
    /\ said' = "nothing" /\ took' = FALSE
    /\ stopped' = "no"
    /\ UNCHANGED <<kind, unit, proc, run, starts, lock, file, cmd, early,
                   saved, swept>>

\* systemctl daemon-reload, enable, and restart up to the stop of what runs.
Restarts ==
    /\ client = "installed"
    /\ client' = "restarting"
    /\ StopJob
    /\ UNCHANGED <<installed, file, since, said, cmd, auxVars>>

\* The rest of systemctl restart.
Starts ==
    /\ client = "restarting" /\ unit = "inactive"
    /\ Launch(1)
    /\ client' = "polling"
    /\ saved' = FALSE
    /\ UNCHANGED <<installed, file, since, said, stopped, early, swept, took>>

\* One of the three systemctl fails: fatalf.
CannotInstall ==
    /\ client = "installed"
    /\ client' = "failed"
    /\ UNCHANGED <<unitVars, file, since, said, cmd, auxVars>>

\* Variant: a state file of any run will do.
FirstCheckOfAny == file.there /\ file.pid > 0 /\ file.checked

\* waitForFirstCheck, and waitForPersistentCheck with the time of the restart.
FirstCheck == file.there /\ file.pid > since /\ file.checked

Reports ==
    /\ client = "polling" /\ FirstCheck
    /\ client' = "reported"
    /\ said' = IF file.armed THEN "blocking" ELSE "waiting"
    /\ UNCHANGED <<unitVars, file, since, cmd, auxVars>>

\* The limit is over; persistWhen leaves it at the message.
GivesUp ==
    /\ client = "polling" /\ ~FirstCheck
    /\ client' = IF kind = "transient" THEN "givenUp" ELSE "failed"
    /\ UNCHANGED <<unitVars, file, since, said, cmd, auxVars>>

\* Variant: the unit is not stopped.
StopsNothing ==
    /\ client = "givenUp"
    /\ client' = "stopping"
    /\ UNCHANGED <<unitVars, file, since, said, cmd, auxVars>>

\* startWhenTransient, after the limit: systemctl stop,
Stops ==
    /\ client = "givenUp"
    /\ client' = "stopping"
    /\ StopJob
    /\ UNCHANGED <<installed, file, since, said, cmd, auxVars>>

\* and when it is through, removeState and fatalf.
Removes ==
    /\ client = "stopping" /\ unit # "deactivating"
    /\ client' = "failed"
    /\ file' = NoFile
    /\ UNCHANGED <<unitVars, since, said, cmd, auxVars>>

\* Ten seconds are over.
PlaceholderAges ==
    /\ file.fresh \/ cmd.saw.fresh
    /\ file' = [file EXCEPT !.fresh = FALSE]
    /\ cmd' = [cmd EXCEPT !.saw.fresh = FALSE]
    /\ UNCHANGED <<unitVars, clientVars, auxVars>>

-----------------------------------------------------------------------------
(***************************************************************************)
(* The other commands: status, stop with and without an ID, --unpersist    *)
(***************************************************************************)

\* allStates, or readState.
CmdReads ==
    /\ cmd = NoCmd /\ file.there
    /\ \E op \in {"status", "stop", "stopAll"} :
         cmd' = [op |-> op, at |-> "read", saw |-> file,
                 locked |-> lock, gap |-> proc = "starting"]
    /\ UNCHANGED <<unitVars, file, clientVars, auxVars>>

\* isBlockActive
CmdJudges ==
    /\ cmd.op # "none" /\ cmd.at = "read"
    /\ \E answer \in Answers :
         cmd' = [cmd EXCEPT !.at = IF unitAlive(cmd.saw, answer)
                                     THEN "judged" ELSE "stale"]
    /\ UNCHANGED <<unitVars, file, clientVars, auxVars>>

\* activeStates and stopByID: removeState.
CmdCleansUp ==
    /\ cmd.at = "stale"
    /\ file' = NoFile
    /\ cmd' = NoCmd
    /\ swept' = (swept \/ unit # "inactive")
    /\ UNCHANGED <<unitVars, clientVars, stopped, early, saved, took>>

\* Variant: what the state file says, whatever the unit does.
DescriptionsOfFile == {IF cmd.saw.armed THEN "blocking" ELSE "waiting"}

\* describeWhen, over the answers systemctl may give now.
Descriptions ==
    {IF ~unitRunning(cmd.saw, answer) THEN "restarting"
     ELSE IF cmd.saw.armed THEN "blocking" ELSE "waiting" : answer \in Answers}

StatusPrints ==
    /\ cmd.op = "status" /\ cmd.at = "judged"
    /\ \E d \in Descriptions : cmd' = [cmd EXCEPT !.at = d]
    /\ UNCHANGED <<unitVars, file, clientVars, auxVars>>

CmdEnds ==
    /\ cmd.at \in {"restarting", "blocking", "waiting"}
    /\ cmd' = NoCmd
    /\ UNCHANGED <<unitVars, file, clientVars, auxVars>>

\* Variant: SIGTERM to the PID in the state file.
StopUnitByPID ==
    /\ unit' = IF PIDRuns(cmd.saw) THEN "deactivating" ELSE unit
    /\ UNCHANGED <<kind, proc, run, starts, lock>>

\* stopUnit
StopUnit == StopJob

\* stopByID and stopAll, but for what stopAll keeps.
CmdStops ==
    /\ cmd.at = "judged"
    /\ \/ cmd.op = "stop"
       \/ cmd.op = "stopAll" /\ kind = "transient"
    /\ client \notin {"installed", "restarting"}
    /\ StopUnit
    /\ stopped' = "stopped" /\ early' = (client = "placed")
    /\ cmd' = NoCmd
    /\ UNCHANGED <<installed, file, clientVars, saved, swept, took>>

\* stopAll leaves the persistent unit alone.
CmdKeeps ==
    /\ cmd.op = "stopAll" /\ cmd.at = "judged" /\ kind = "persistent"
    /\ cmd' = NoCmd
    /\ UNCHANGED <<unitVars, file, clientVars, auxVars>>

\* unpersistWhen: systemctl disable --now, os.Remove, daemon-reload.
Unpersists ==
    /\ installed /\ cmd = NoCmd /\ client \notin {"installed", "restarting"}
    /\ installed' = FALSE
    /\ StopJob
    /\ stopped' = "unpersisted" /\ early' = FALSE
    /\ UNCHANGED <<file, clientVars, cmd, saved, swept, took>>

-----------------------------------------------------------------------------

Systemd == AutoRestart \/ Login \/ Fails \/ Terminates

Watcher == Announces \/ \E held \in BOOLEAN : Checks(held)

Client ==
    \/ Places \/ RunsUnit \/ CannotRun
    \/ Installs \/ Restarts \/ Starts \/ CannotInstall
    \/ Reports \/ GivesUp \/ Stops \/ Removes

Command ==
    \/ CmdReads \/ CmdJudges \/ CmdCleansUp \/ StatusPrints \/ CmdEnds
    \/ CmdStops \/ CmdKeeps \/ Unpersists

Next == Systemd \/ Watcher \/ Client \/ PlaceholderAges \/ Command

Spec == Init /\ [][Next]_vars

-----------------------------------------------------------------------------

\* when.go:501: a unit that is active or restarting, and has saved once, keeps
\* its state file, and so nobody else gets its ID; but for a clean-up that had
\* no answer from systemctl, or an answer older than the unit's start.
KeepsItsID ==
    unit \in {"active", "activating"} /\ saved => file.there \/ swept

\* A start that fails leaves no process, no lock, no unit that systemd would
\* start again, and no state file.
FailedStartLeavesNothing ==
    kind = "transient" /\ client = "failed"
        => unit = "inactive" /\ ~lock /\ ~file.there

\* when.go:836 and main's report: who is told "blocking now" was told of a lock
\* that was taken after the command began, not of one of an earlier run.
ReportIsTrue == said = "blocking" => took

\* status says blocking only if the lock was held at some moment while the
\* command ran, or a restarted watcher had yet to save for the first time.
BlockingIsReal == cmd.at = "blocking" => cmd.locked \/ cmd.gap

\* A unit that a command stopped stays down until the next login or persist,
\* and for good after --unpersist; unless the stop came before systemd-run.
StoppedStaysStopped ==
    stopped # "no" /\ ~early => unit \in {"deactivating", "inactive"}

\* The process, its lock, and what the state file says of it.
OutsideFile ==
    IF ~file.there THEN "absent"
    ELSE IF proc # "up" \/ file.pid # run THEN "other"
    ELSE IF ~file.checked THEN "unchecked"
    ELSE IF file.armed THEN "blocking"
    ELSE "waiting"

Outside == INSTANCE WatcherProcess WITH file <- OutsideFile

\* Around the process, too, nothing but the process takes the lock or tells of
\* it: systemd, the clients and the clean-ups only start it, end it and remove
\* the file, and the unit never has two processes.
ActsAsProcess == Outside!Spec

=============================================================================
