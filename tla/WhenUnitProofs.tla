--------------------------- MODULE WhenUnitProofs ---------------------------
(***************************************************************************)
(* What WhenUnit promises, for every limit on the starts and any number of *)
(* runs: the unit, its process, the state file and the clients agree in    *)
(* one inductive invariant, and the safety properties follow from it.      *)
(***************************************************************************)
EXTENDS WhenUnit, TLAPS

\* The unit says of the process whether there is one, and only a process that
\* has saved holds the lock.
UnitInv ==
    /\ unit \in {"active", "deactivating"} <=> proc # "none"
    /\ proc # "none" => run > 0
    /\ unit = "activating" => starts < StartLimit
    /\ lock => proc = "up"

\* Which client there is, and what its part leaves until it is done.
ClientInv ==
    /\ installed => kind = "persistent"
    /\ kind = "transient" => client \notin {"installed", "restarting"}
    /\ kind = "persistent" => client \notin {"placed", "givenUp", "stopping"}
    /\ client = "placed" => unit = "inactive" /\ ~saved
    /\ kind = "transient" /\ client = "idle"
         => unit = "inactive" /\ ~saved /\ ~file.there /\ cmd.op = "none"
    /\ client = "stopping" => unit \in {"deactivating", "inactive"}

\* The state file is of this run or of one before, and if the process has saved
\* it says whether there is a lock.
FileInv ==
    /\ file.pid <= run
    /\ proc = "starting" => file.pid < run
    /\ file.armed /\ proc = "up" => lock
    /\ file.armed /\ file.pid > since => took

\* What a command has read was true once since then, or there is no process.
CmdInv ==
    cmd.op # "none" /\ cmd.saw.armed => cmd.locked \/ cmd.gap \/ proc = "none"

\* What a stop has said, while a client may still start the unit.
StopInv ==
    /\ stopped = "unpersisted" => ~installed
    /\ kind = "transient" /\ client \in {"idle", "placed"} => stopped = "no" \/ early
    /\ client \in {"installed", "restarting"} => stopped = "no"

Promises ==
    KeepsItsID /\ FailedStartLeavesNothing /\ ReportIsTrue /\ BlockingIsReal
    /\ StoppedStaysStopped

WhenUnitInv ==
    TypeOK /\ UnitInv /\ ClientInv /\ FileInv /\ CmdInv /\ StopInv /\ Promises

\* The records are what File and Cmd say.
LEMMA RecordTypes ==
    /\ NoFile \in File /\ Placeholder \in File /\ NoCmd \in Cmd
    /\ \A a, c \in BOOLEAN : TypeOK => Saved(a, c) \in File
<1>1. NoFile \in File /\ Placeholder \in File
  <2>1. NoFile \in File
    BY MaxRunsAssumption DEF NoFile, File
  <2> QED BY <2>1 DEF Placeholder, File
<1>2. NoCmd \in Cmd
  BY <1>1 DEF NoCmd, Cmd
<1>3. ASSUME NEW a \in BOOLEAN, NEW c \in BOOLEAN, TypeOK PROVE Saved(a, c) \in File
  BY <1>3 DEF Saved, File, TypeOK
<1> QED BY <1>1, <1>2, <1>3

LEMMA WatchTypes ==
    ASSUME TypeOK, CmdWatches, lock' \in BOOLEAN PROVE cmd' \in Cmd
<1>1. CASE cmd.op = "none"
  BY <1>1 DEF TypeOK, CmdWatches
<1>2. CASE cmd.op # "none"
  <2>1. (cmd.locked \/ lock') \in BOOLEAN /\ (cmd.gap \/ proc' = "starting") \in BOOLEAN
    OBVIOUS
  <2> QED BY <1>2, <2>1 DEF TypeOK, CmdWatches, Cmd
<1> QED BY <1>1, <1>2

LEMMA LaunchTypes ==
    ASSUME TypeOK, NEW n \in 0 .. StartLimit, Launch(n), UNCHANGED installed
    PROVE  /\ kind' \in {"transient", "persistent"} /\ installed' \in BOOLEAN
           /\ unit' = "active" /\ proc' = "starting"
           /\ run' \in 0 .. MaxRuns /\ starts' \in 0 .. StartLimit
           /\ lock' \in BOOLEAN /\ cmd' \in Cmd
<1>1. run' \in 0 .. MaxRuns
  BY MaxRunsAssumption DEF TypeOK, Launch
<1>2. lock' \in BOOLEAN /\ installed' \in BOOLEAN
  BY DEF TypeOK, Launch
<1>3. cmd' \in Cmd
  BY <1>2, WatchTypes DEF Launch
<1> QED BY <1>1, <1>2, <1>3 DEF TypeOK, Launch

LEMMA EndsTypes ==
    ASSUME TypeOK, NEW u \in {"inactive", "activating"}, Ends(u)
    PROVE  /\ kind' \in {"transient", "persistent"} /\ installed' \in BOOLEAN
           /\ unit' = u /\ proc' = "none"
           /\ run' \in 0 .. MaxRuns /\ starts' \in 0 .. StartLimit
           /\ lock' = FALSE /\ cmd' \in Cmd
<1>1. cmd' \in Cmd
  BY WatchTypes DEF Ends
<1>2. lock' = FALSE /\ installed' \in BOOLEAN
  BY DEF TypeOK, Ends
<1> QED BY <1>1, <1>2 DEF TypeOK, Ends

LEMMA SystemdTypes == TypeOK /\ UnitInv /\ Systemd => TypeOK'
<1> SUFFICES ASSUME TypeOK, UnitInv, Systemd PROVE TypeOK'
  OBVIOUS
<1> USE StartLimitAssumption, MaxRunsAssumption DEF TypeOK, UnitInv, unitVars, clientVars, auxVars
<1>1. CASE AutoRestart
  <2>1. starts + 1 \in 0 .. StartLimit
    BY <1>1 DEF AutoRestart
  <2> QED BY <1>1, <2>1, LaunchTypes DEF AutoRestart
<1>2. CASE Login
  <2>1. 1 \in 0 .. StartLimit
    OBVIOUS
  <2>2. stopped' \in {"no", "stopped", "unpersisted"}
    BY <1>2 DEF Login
  <2> QED BY <1>2, <2>1, <2>2, LaunchTypes DEF Login
<1>3. CASE Fails
  <2>1. PICK u \in {"inactive", "activating"} : Ends(u)
    BY <1>3 DEF Fails, AfterFailure
  <2>2. unit' \in {"inactive", "activating"} /\ proc' = "none" /\ cmd' \in Cmd
    BY <2>1, EndsTypes
  <2>3. lock' \in BOOLEAN /\ installed' \in BOOLEAN /\ starts' \in 0 .. StartLimit
    BY <2>1, EndsTypes
  <2>4. kind' \in {"transient", "persistent"} /\ run' \in 0 .. MaxRuns
    BY <2>1, EndsTypes
  <2>5. UNCHANGED <<file, clientVars, auxVars>>
    BY <1>3 DEF Fails
  <2> QED BY <2>2, <2>3, <2>4, <2>5
<1>4. CASE Terminates
  <2>1. file' \in File
    BY <1>4, RecordTypes DEF Terminates
  <2> QED BY <1>4, <2>1, EndsTypes DEF Terminates
<1> QED BY <1>1, <1>2, <1>3, <1>4 DEF Systemd

LEMMA WatcherTypes == TypeOK /\ UnitInv /\ Watcher => TypeOK'
<1> SUFFICES ASSUME TypeOK, UnitInv, Watcher PROVE TypeOK'
  OBVIOUS
<1> USE StartLimitAssumption, MaxRunsAssumption DEF TypeOK, UnitInv, unitVars, clientVars, auxVars
<1>1. CASE Announces
  <2>1. file' \in File /\ cmd' \in Cmd
    BY <1>1, RecordTypes, WatchTypes DEF Announces
  <2> QED BY <1>1, <2>1 DEF Announces
<1>2. ASSUME NEW held \in BOOLEAN, Checks(held) PROVE TypeOK'
  <2>1. file' \in File /\ cmd' \in Cmd
    BY <1>2, RecordTypes, WatchTypes DEF Checks
  <2>2. took' \in BOOLEAN
    BY <1>2 DEF Checks
  <2>3. lock' \in BOOLEAN /\ installed' \in BOOLEAN /\ swept' \in BOOLEAN
    BY <1>2 DEF Checks
  <2>4. early' \in BOOLEAN /\ saved' \in BOOLEAN
    BY <1>2 DEF Checks
  <2> HIDE DEF TypeOK
  <2>5. UNCHANGED <<kind, unit, proc, run, starts, client, since, said, stopped>>
    BY <1>2 DEF Checks
  <2> QED BY <2>1, <2>2, <2>3, <2>4, <2>5 DEF TypeOK
<1> QED BY <1>1, <1>2 DEF Watcher

LEMMA ClientTypes == TypeOK /\ UnitInv /\ Client => TypeOK'
<1> SUFFICES ASSUME TypeOK, UnitInv, Client PROVE TypeOK'
  OBVIOUS
<1> USE StartLimitAssumption, MaxRunsAssumption DEF TypeOK, UnitInv, unitVars, clientVars, auxVars
<1>1. CASE Places
  BY <1>1, RecordTypes DEF Places
<1>2. CASE RunsUnit
  <2>1. 1 \in 0 .. StartLimit
    OBVIOUS
  <2> QED BY <1>2, <2>1, LaunchTypes DEF RunsUnit
<1>3. CASE CannotRun
  BY <1>3, RecordTypes DEF CannotRun
<1>4. CASE Installs
  <2>1. since' \in 0 .. MaxRuns
    BY <1>4 DEF Installs
  <2> QED BY <1>4, <2>1 DEF Installs
<1>5. CASE Restarts
  BY <1>5 DEF Restarts, StopJob
<1>6. CASE Starts
  <2>1. 1 \in 0 .. StartLimit
    OBVIOUS
  <2> QED BY <1>6, <2>1, LaunchTypes DEF Starts
<1>7. CASE CannotInstall
  BY <1>7 DEF CannotInstall
<1>8. CASE Reports
  BY <1>8 DEF Reports, FirstCheck
<1>9. CASE GivesUp
  BY <1>9 DEF GivesUp
<1>10. CASE Stops
  BY <1>10 DEF Stops, StopJob
<1>11. CASE Removes
  BY <1>11, RecordTypes DEF Removes
<1> QED BY <1>1, <1>2, <1>3, <1>4, <1>5, <1>6, <1>7, <1>8, <1>9, <1>10, <1>11 DEF Client

LEMMA CommandTypes == TypeOK /\ UnitInv /\ Command => TypeOK'
<1> SUFFICES ASSUME TypeOK, UnitInv, Command PROVE TypeOK'
  OBVIOUS
<1> USE StartLimitAssumption, MaxRunsAssumption DEF TypeOK, UnitInv, unitVars, clientVars, auxVars
<1>1. CASE CmdReads
  BY <1>1 DEF CmdReads, Cmd, File
<1>2. CASE CmdJudges
  BY <1>2 DEF CmdJudges, Cmd, File
<1>3. CASE CmdCleansUp
  BY <1>3, RecordTypes DEF CmdCleansUp
<1>4. CASE StatusPrints
  <2>1. PICK d \in {"restarting", "blocking", "waiting"} : cmd' = [cmd EXCEPT !.at = d]
    BY <1>4 DEF StatusPrints, Descriptions
  <2>2. cmd' \in Cmd
    BY <2>1 DEF Cmd
  <2> QED BY <1>4, <2>2 DEF StatusPrints
<1>5. CASE CmdEnds
  BY <1>5, RecordTypes DEF CmdEnds
<1>6. CASE CmdStops
  BY <1>6, RecordTypes DEF CmdStops, StopUnit, StopJob
<1>7. CASE CmdKeeps
  BY <1>7, RecordTypes DEF CmdKeeps
<1>8. CASE Unpersists
  <2>1. unit' \in {"inactive", "deactivating"}
    BY <1>8 DEF Unpersists, StopJob
  <2> QED BY <1>8, <2>1 DEF Unpersists, StopJob
<1> QED BY <1>1, <1>2, <1>3, <1>4, <1>5, <1>6, <1>7, <1>8 DEF Command

LEMMA AgesTypes == TypeOK /\ PlaceholderAges => TypeOK'
<1> SUFFICES ASSUME TypeOK, PlaceholderAges PROVE TypeOK'
  OBVIOUS
<1>1. file' \in File
  BY DEF TypeOK, PlaceholderAges, File
<1>2. cmd' \in Cmd
  BY DEF TypeOK, PlaceholderAges, File, Cmd
<1> QED BY <1>1, <1>2 DEF TypeOK, PlaceholderAges, unitVars, clientVars, auxVars

LEMMA FileFields ==
    ASSUME TypeOK
    PROVE  /\ file.pid \in Nat /\ file.there \in BOOLEAN /\ file.armed \in BOOLEAN
           /\ run \in Nat /\ since \in Nat /\ starts \in Nat
           /\ cmd \in Cmd
BY DEF TypeOK, File

\* What the invariant adds to the types.
Parts == UnitInv /\ ClientInv /\ FileInv /\ CmdInv /\ StopInv /\ Promises

\* What goes by while a command runs only adds to what it has seen.
LEMMA WatchKeeps ==
    ASSUME TypeOK, CmdInv, BlockingIsReal, CmdWatches, lock' \in BOOLEAN,
           proc = "none" => proc' \in {"none", "starting"}
    PROVE  CmdInv' /\ BlockingIsReal' /\ (cmd.op = "none" => cmd'.op = "none")
<1>1. CASE cmd.op = "none"
  BY <1>1 DEF CmdInv, BlockingIsReal, CmdWatches, NoCmd
<1>2. CASE cmd.op # "none"
  <2>1. cmd \in Cmd
    BY <1>2 DEF TypeOK
  <2>2. /\ cmd'.op = cmd.op /\ cmd'.at = cmd.at /\ cmd'.saw = cmd.saw
        /\ cmd'.locked = (cmd.locked \/ lock')
        /\ cmd'.gap = (cmd.gap \/ proc' = "starting")
    BY <1>2, <2>1 DEF CmdWatches, Cmd
  <2>3. CmdInv'
    BY <1>2, <2>2 DEF CmdInv
  <2>4. BlockingIsReal'
    BY <2>2 DEF BlockingIsReal
  <2> QED BY <1>2, <2>3, <2>4
<1> QED BY <1>1, <1>2

LEMMA SystemdKeepsInv ==
    ASSUME WhenUnitInv, TypeOK', Systemd PROVE Parts'
<1> USE StartLimitAssumption, MaxRunsAssumption, FileFields
    DEF WhenUnitInv, Parts, TypeOK, UnitInv, ClientInv, FileInv, CmdInv,
        StopInv, Promises, KeepsItsID, FailedStartLeavesNothing, ReportIsTrue,
        BlockingIsReal, StoppedStaysStopped, NoFile, NoCmd, unitVars, clientVars, auxVars
<1>1. CASE AutoRestart
  <2>1. CmdInv' /\ BlockingIsReal' /\ (cmd.op = "none" => cmd'.op = "none")
    BY <1>1, WatchKeeps DEF AutoRestart, Launch
  <2>2. UnitInv' /\ ClientInv' /\ FileInv' /\ StopInv'
    BY <1>1, <2>1 DEF AutoRestart, Launch
  <2>3. KeepsItsID' /\ FailedStartLeavesNothing' /\ ReportIsTrue' /\ StoppedStaysStopped'
    BY <1>1 DEF AutoRestart, Launch
  <2> QED BY <2>1, <2>2, <2>3
<1>2. CASE Login
  <2>1. CmdInv' /\ BlockingIsReal' /\ (cmd.op = "none" => cmd'.op = "none")
    BY <1>2, WatchKeeps DEF Login, Launch
  <2>2. UnitInv' /\ ClientInv' /\ FileInv' /\ StopInv'
    BY <1>2, <2>1 DEF Login, Launch
  <2>3. KeepsItsID' /\ FailedStartLeavesNothing' /\ ReportIsTrue' /\ StoppedStaysStopped'
    BY <1>2 DEF Login, Launch
  <2> QED BY <2>1, <2>2, <2>3
<1>3. CASE Fails
  <2>1. CmdInv' /\ BlockingIsReal' /\ (cmd.op = "none" => cmd'.op = "none")
    BY <1>3, WatchKeeps DEF Fails, Ends
  <2>2. /\ unit' \in {"inactive", "activating"}
        /\ unit = "deactivating" => unit' = "inactive"
        /\ unit' = "activating" => starts < StartLimit
    BY <1>3 DEF Fails, Ends, AfterFailure
  <2>3. /\ proc' = "none" /\ ~lock'
        /\ UNCHANGED <<kind, installed, run, starts, file, client, since, said, stopped,
                        early, saved, swept, took>>
    BY <1>3 DEF Fails, Ends
  <2>4. UnitInv' /\ FileInv' /\ StopInv'
    BY <2>2, <2>3
  <2>8. unit \in {"active", "deactivating"}
    BY <1>3 DEF Fails
  <2>5. ClientInv'
    BY <2>1, <2>2, <2>3, <2>8
  <2>6. KeepsItsID' /\ FailedStartLeavesNothing'
    BY <2>2, <2>3, <2>8
  <2>7. ReportIsTrue' /\ StoppedStaysStopped'
    BY <2>2, <2>3, <2>8
  <2> QED BY <2>1, <2>4, <2>5, <2>6, <2>7
<1>4. CASE Terminates
  <2>1. CmdInv' /\ BlockingIsReal' /\ (cmd.op = "none" => cmd'.op = "none")
    BY <1>4, WatchKeeps DEF Terminates, Ends
  <2>2. UnitInv' /\ ClientInv' /\ FileInv' /\ StopInv'
    BY <1>4, <2>1 DEF Terminates, Ends
  <2>3. KeepsItsID' /\ FailedStartLeavesNothing' /\ ReportIsTrue' /\ StoppedStaysStopped'
    BY <1>4 DEF Terminates, Ends
  <2> QED BY <2>1, <2>2, <2>3
<1> QED BY <1>1, <1>2, <1>3, <1>4 DEF Systemd

LEMMA WatcherKeepsInv ==
    ASSUME WhenUnitInv, TypeOK', Watcher PROVE Parts'
<1> USE StartLimitAssumption, MaxRunsAssumption, FileFields
    DEF WhenUnitInv, Parts, TypeOK, UnitInv, ClientInv, FileInv, CmdInv,
        StopInv, Promises, KeepsItsID, FailedStartLeavesNothing, ReportIsTrue,
        BlockingIsReal, StoppedStaysStopped, NoFile, NoCmd, unitVars, clientVars, auxVars
<1>1. CASE Announces
  <2>1. CmdInv' /\ BlockingIsReal' /\ (cmd.op = "none" => cmd'.op = "none")
    BY <1>1, WatchKeeps DEF Announces
  <2>2. UnitInv' /\ ClientInv' /\ FileInv' /\ StopInv'
    BY <1>1, <2>1 DEF Announces, Saved
  <2>3. KeepsItsID' /\ FailedStartLeavesNothing' /\ ReportIsTrue' /\ StoppedStaysStopped'
    BY <1>1 DEF Announces, Saved
  <2> QED BY <2>1, <2>2, <2>3
<1>2. ASSUME NEW held \in BOOLEAN, Checks(held) PROVE Parts'
  <2>1. CmdInv' /\ BlockingIsReal' /\ (cmd.op = "none" => cmd'.op = "none")
    BY <1>2, WatchKeeps DEF Checks
  <2>2. UnitInv' /\ ClientInv' /\ FileInv' /\ StopInv'
    BY <1>2, <2>1 DEF Checks, Saved
  <2>3. KeepsItsID' /\ FailedStartLeavesNothing' /\ ReportIsTrue' /\ StoppedStaysStopped'
    BY <1>2 DEF Checks, Saved
  <2> QED BY <2>1, <2>2, <2>3
<1> QED BY <1>1, <1>2 DEF Watcher

LEMMA ClientKeepsInv ==
    ASSUME WhenUnitInv, TypeOK', Client PROVE Parts'
<1> USE StartLimitAssumption, MaxRunsAssumption, FileFields
    DEF WhenUnitInv, Parts, TypeOK, UnitInv, ClientInv, FileInv, CmdInv,
        StopInv, Promises, KeepsItsID, FailedStartLeavesNothing, ReportIsTrue,
        BlockingIsReal, StoppedStaysStopped, NoFile, NoCmd, unitVars, clientVars, auxVars
<1>1. CASE Places
  <2>1. file' = [there |-> TRUE, pid |-> 0, fresh |-> TRUE, armed |-> FALSE, checked |-> FALSE]
    BY <1>1 DEF Places, Placeholder
  <2>2. ~file'.armed /\ file'.there /\ file'.pid = 0
    BY <2>1
  <2>3. client' = "placed" /\ kind = "transient" /\ client = "idle"
    BY <1>1 DEF Places
  <2>4. UNCHANGED <<unitVars, since, said, cmd, auxVars>>
    BY <1>1 DEF Places
  <2> HIDE DEF NoFile
  <2>5. UnitInv' /\ ClientInv' /\ FileInv'
    BY <2>2, <2>3, <2>4
  <2>6. CmdInv' /\ StopInv'
    BY <2>3, <2>4
  <2> QED BY <2>2, <2>3, <2>4, <2>5, <2>6
<1>2. CASE RunsUnit
  <2>1. CmdInv' /\ BlockingIsReal' /\ (cmd.op = "none" => cmd'.op = "none")
    BY <1>2, WatchKeeps DEF RunsUnit, Launch
  <2>2. UnitInv' /\ ClientInv' /\ FileInv' /\ StopInv'
    BY <1>2, <2>1 DEF RunsUnit, Launch
  <2>3. KeepsItsID' /\ FailedStartLeavesNothing' /\ ReportIsTrue' /\ StoppedStaysStopped'
    BY <1>2 DEF RunsUnit, Launch
  <2> QED BY <2>1, <2>2, <2>3
<1>3. CASE CannotRun
  BY <1>3 DEF CannotRun
<1>4. CASE Installs
  BY <1>4 DEF Installs
<1>5. CASE Restarts
  BY <1>5 DEF Restarts, StopJob
<1>6. CASE Starts
  <2>1. CmdInv' /\ BlockingIsReal' /\ (cmd.op = "none" => cmd'.op = "none")
    BY <1>6, WatchKeeps DEF Starts, Launch
  <2>2. UnitInv' /\ ClientInv' /\ FileInv' /\ StopInv'
    BY <1>6, <2>1 DEF Starts, Launch
  <2>3. KeepsItsID' /\ FailedStartLeavesNothing' /\ ReportIsTrue' /\ StoppedStaysStopped'
    BY <1>6 DEF Starts, Launch
  <2> QED BY <2>1, <2>2, <2>3
<1>7. CASE CannotInstall
  BY <1>7 DEF CannotInstall
<1>8. CASE Reports
  BY <1>8 DEF Reports, FirstCheck
<1>9. CASE GivesUp
  BY <1>9 DEF GivesUp
<1>10. CASE Stops
  BY <1>10 DEF Stops, StopJob
<1>11. CASE Removes
  BY <1>11 DEF Removes
<1> QED BY <1>1, <1>2, <1>3, <1>4, <1>5, <1>6, <1>7, <1>8, <1>9, <1>10, <1>11 DEF Client

LEMMA CommandKeepsInv ==
    ASSUME WhenUnitInv, TypeOK', Command PROVE Parts'
<1> USE StartLimitAssumption, MaxRunsAssumption, FileFields
    DEF WhenUnitInv, Parts, TypeOK, UnitInv, ClientInv, FileInv, CmdInv,
        StopInv, Promises, KeepsItsID, FailedStartLeavesNothing, ReportIsTrue,
        BlockingIsReal, StoppedStaysStopped, NoFile, NoCmd, unitVars, clientVars, auxVars
<1>1. CASE CmdReads
  BY <1>1 DEF CmdReads
<1>2. CASE CmdJudges
  BY <1>2 DEF CmdJudges
<1>3. CASE CmdCleansUp
  BY <1>3 DEF CmdCleansUp
<1>4. CASE StatusPrints
  <2>1. PICK d \in Descriptions : cmd' = [cmd EXCEPT !.at = d]
    BY <1>4 DEF StatusPrints
  <2>2. cmd'.at = d /\ cmd'.op = cmd.op /\ cmd'.saw = cmd.saw /\ cmd'.locked = cmd.locked
        /\ cmd'.gap = cmd.gap
    BY <2>1 DEF Cmd
  <2>3. d = "blocking" => cmd.saw.armed /\ proc # "none"
    BY DEF Descriptions, Answers, unitRunning, PIDRuns
  <2>4. CmdInv' /\ BlockingIsReal'
    BY <1>4, <2>2, <2>3 DEF StatusPrints
  <2>5. UnitInv' /\ ClientInv' /\ FileInv' /\ StopInv'
    BY <1>4 DEF StatusPrints
  <2> QED BY <1>4, <2>4, <2>5 DEF StatusPrints
<1>5. CASE CmdEnds
  BY <1>5 DEF CmdEnds
<1>6. CASE CmdStops
  <2>1. cmd' = NoCmd /\ UNCHANGED <<file, saved, swept, took, client, kind, installed, proc, run, starts, lock>>
    BY <1>6 DEF CmdStops, StopUnit, StopJob
  <2>2. unit' = IF proc = "none" THEN "inactive" ELSE "deactivating"
    BY <1>6 DEF CmdStops, StopUnit, StopJob
  <2>3. stopped' = "stopped" /\ (client = "placed" => early') /\ client \notin {"installed", "restarting"}
    BY <1>6 DEF CmdStops
  <2>4. UnitInv' /\ ClientInv' /\ FileInv'
    BY <1>6, <2>1, <2>2 DEF CmdStops
  <2>5. CmdInv' /\ StopInv' /\ BlockingIsReal'
    BY <1>6, <2>1, <2>3 DEF CmdStops
  <2>6. KeepsItsID' /\ FailedStartLeavesNothing' /\ StoppedStaysStopped'
    BY <2>1, <2>2
  <2> QED BY <1>6, <2>4, <2>5, <2>6 DEF CmdStops
<1>7. CASE CmdKeeps
  BY <1>7 DEF CmdKeeps
<1>8. CASE Unpersists
  BY <1>8 DEF Unpersists, StopJob
<1> QED BY <1>1, <1>2, <1>3, <1>4, <1>5, <1>6, <1>7, <1>8 DEF Command

LEMMA PlaceholderAgesKeepsInv ==
    ASSUME WhenUnitInv, TypeOK', PlaceholderAges PROVE Parts'
<1> USE StartLimitAssumption, MaxRunsAssumption, FileFields
    DEF WhenUnitInv, Parts, TypeOK, UnitInv, ClientInv, FileInv, CmdInv,
        StopInv, Promises, KeepsItsID, FailedStartLeavesNothing, ReportIsTrue,
        BlockingIsReal, StoppedStaysStopped, NoFile, NoCmd, unitVars, clientVars, auxVars
<1>1. CASE PlaceholderAges
  <2>1. file'.there = file.there /\ file'.pid = file.pid /\ file'.armed = file.armed
    BY <1>1 DEF PlaceholderAges, File
  <2>2. cmd'.op = cmd.op /\ cmd'.at = cmd.at /\ cmd'.saw.armed = cmd.saw.armed
        /\ cmd'.locked = cmd.locked /\ cmd'.gap = cmd.gap
    BY <1>1 DEF PlaceholderAges, Cmd, File
  <2>4. UnitInv' /\ StopInv' /\ FileInv'
    BY <1>1, <2>1 DEF PlaceholderAges
  <2>5. ClientInv' /\ CmdInv'
    BY <1>1, <2>1, <2>2 DEF PlaceholderAges
  <2>6. Promises'
    BY <1>1, <2>1, <2>2 DEF PlaceholderAges
  <2> QED BY <2>4, <2>5, <2>6
<1> QED BY <1>1

LEMMA InitWhenUnitInv == Init => WhenUnitInv
<1> SUFFICES ASSUME Init PROVE WhenUnitInv
  OBVIOUS
<1>1. TypeOK
  <2>1. file \in File /\ cmd \in Cmd
    BY RecordTypes DEF Init
  <2>2. run \in 0 .. MaxRuns /\ starts \in 0 .. StartLimit /\ since \in 0 .. MaxRuns
    BY MaxRunsAssumption, StartLimitAssumption DEF Init
  <2> QED BY <2>1, <2>2 DEF Init, TypeOK
<1>2. UnitInv /\ ClientInv /\ FileInv /\ CmdInv /\ StopInv
  BY DEF Init, UnitInv, ClientInv, FileInv, CmdInv, StopInv, NoFile, NoCmd
<1>3. Promises
  BY DEF Init, Promises, KeepsItsID, FailedStartLeavesNothing, ReportIsTrue, BlockingIsReal,
         StoppedStaysStopped, NoCmd
<1> QED BY <1>1, <1>2, <1>3 DEF WhenUnitInv

LEMMA NextKeepsWhenUnitInv == WhenUnitInv /\ [Next]_vars => WhenUnitInv'
<1> SUFFICES ASSUME WhenUnitInv, [Next]_vars PROVE WhenUnitInv'
  OBVIOUS
<1>1. CASE Next
  <2>1. TypeOK /\ UnitInv
    BY DEF WhenUnitInv
  <2>2. TypeOK'
    BY <1>1, <2>1, SystemdTypes, WatcherTypes, ClientTypes, CommandTypes, AgesTypes DEF Next
  <2>3. Parts'
    BY <1>1, <2>2, SystemdKeepsInv, WatcherKeepsInv, ClientKeepsInv, CommandKeepsInv,
       PlaceholderAgesKeepsInv DEF Next
  <2> QED BY <2>2, <2>3 DEF Parts, WhenUnitInv
<1>2. CASE UNCHANGED vars
  BY <1>2 DEF WhenUnitInv, TypeOK, UnitInv, ClientInv, FileInv, CmdInv, StopInv, Promises,
              KeepsItsID, FailedStartLeavesNothing, ReportIsTrue, BlockingIsReal,
              StoppedStaysStopped, vars, unitVars, clientVars, auxVars
<1> QED BY <1>1, <1>2

THEOREM WhenUnitInvariant == Spec => []WhenUnitInv
<1>1. Init => WhenUnitInv
  BY InitWhenUnitInv
<1>2. WhenUnitInv /\ [Next]_vars => WhenUnitInv'
  BY NextKeepsWhenUnitInv
<1> QED BY <1>1, <1>2, PTL DEF Spec

\* Every variable stays in its type; in particular systemd starts the unit no
\* more often than the limit allows.
THEOREM UnitTypes == Spec => []TypeOK
<1>1. WhenUnitInv => TypeOK
  BY DEF WhenUnitInv
<1> QED BY <1>1, WhenUnitInvariant, PTL

\* A unit that runs or restarts keeps its state file, and so its ID.
THEOREM UnitKeepsItsID == Spec => []KeepsItsID
<1>1. WhenUnitInv => KeepsItsID
  BY DEF WhenUnitInv, Promises
<1> QED BY <1>1, WhenUnitInvariant, PTL

\* A start that fails leaves nothing, however late the watcher is.
THEOREM UnitFailedStart == Spec => []FailedStartLeavesNothing
<1>1. WhenUnitInv => FailedStartLeavesNothing
  BY DEF WhenUnitInv, Promises
<1> QED BY <1>1, WhenUnitInvariant, PTL

\* "Blocking now" is of a lock taken since the command began.
THEOREM UnitReportIsTrue == Spec => []ReportIsTrue
<1>1. WhenUnitInv => ReportIsTrue
  BY DEF WhenUnitInv, Promises
<1> QED BY <1>1, WhenUnitInvariant, PTL

\* status says blocking only of a lock that it could have seen.
THEOREM UnitBlockingIsReal == Spec => []BlockingIsReal
<1>1. WhenUnitInv => BlockingIsReal
  BY DEF WhenUnitInv, Promises
<1> QED BY <1>1, WhenUnitInvariant, PTL

\* What was stopped stays down, whatever systemd has scheduled.
THEOREM UnitStaysStopped == Spec => []StoppedStaysStopped
<1>1. WhenUnitInv => StoppedStaysStopped
  BY DEF WhenUnitInv, Promises
<1> QED BY <1>1, WhenUnitInvariant, PTL

-----------------------------------------------------------------------------
(***************************************************************************)
(* The unit implements WatcherProcess.  Of the unit's steps, the starts of *)
(* systemd begin a process, its exits end one, the watcher's own saves are *)
(* the only ones that touch the lock, and a command at most writes a       *)
(* placeholder or removes the file.                                        *)
(***************************************************************************)

\* What leaves the process, the lock and the file alone is not seen.
LEMMA Unseen ==
    ASSUME UNCHANGED <<proc, run, lock, file>> PROVE UNCHANGED Outside!vars
BY DEF Outside!vars, OutsideFile

LEMMA LaunchIsBegin ==
    ASSUME UnitInv, unit \in {"inactive", "activating"}, NEW n, Launch(n), UNCHANGED file
    PROVE  Outside!Begin
<1>1. proc = "none" /\ proc' = "starting" /\ UNCHANGED lock
  BY DEF UnitInv, Launch
<1>2. UNCHANGED OutsideFile
  BY <1>1 DEF OutsideFile
<1> QED BY <1>1, <1>2 DEF Outside!Begin

LEMMA EndsIsEnd ==
    ASSUME proc # "none", NEW u, Ends(u),
           UNCHANGED file \/ (proc = "up" /\ file' = NoFile)
    PROVE  Outside!End
<1>1. proc' = "none" /\ lock' = FALSE
  BY DEF Ends
<1>2. CASE UNCHANGED file
  <2>1. OutsideFile' = IF file.there THEN "other" ELSE "absent"
    BY <1>1, <1>2 DEF OutsideFile
  <2>2. OutsideFile' = IF OutsideFile \in Outside!Own THEN "other" ELSE OutsideFile
    BY <2>1 DEF OutsideFile, Outside!Own
  <2> QED BY <1>1, <2>2 DEF Outside!End
<1>3. CASE proc = "up" /\ file' = NoFile
  BY <1>1, <1>3 DEF Outside!End, OutsideFile, NoFile
<1> QED BY <1>2, <1>3

LEMMA RemovalIsSweep ==
    ASSUME file' = NoFile, UNCHANGED <<proc, lock>> PROVE Outside!Sweep
BY DEF Outside!Sweep, OutsideFile, NoFile

LEMMA SystemdIsSeen == UnitInv /\ Systemd => Outside!Next
<1> SUFFICES ASSUME UnitInv, Systemd PROVE Outside!Begin \/ Outside!End
  BY DEF Outside!Next
<1>1. CASE AutoRestart
  BY <1>1, LaunchIsBegin DEF AutoRestart
<1>2. CASE Login
  BY <1>2, LaunchIsBegin DEF Login
<1>3. CASE Fails
  BY <1>3, EndsIsEnd DEF Fails
<1>4. CASE Terminates
  BY <1>4, EndsIsEnd DEF Terminates
<1> QED BY <1>1, <1>2, <1>3, <1>4 DEF Systemd

LEMMA WatcherIsSeen == UnitInv /\ Watcher => Outside!Next
<1> SUFFICES ASSUME UnitInv, Watcher PROVE Outside!Next
  OBVIOUS
<1>1. CASE Announces
  <2>1. OutsideFile' = "unchecked"
    BY <1>1 DEF Announces, Saved, OutsideFile
  <2>2. ~lock /\ UNCHANGED lock
    BY <1>1 DEF Announces, UnitInv
  <2> QED BY <1>1, <2>1, <2>2 DEF Announces, UnitInv, Outside!Next, Outside!Announce
<1>2. ASSUME NEW held \in BOOLEAN, Checks(held) PROVE Outside!Next
  <2>1. OutsideFile' = IF held THEN "blocking" ELSE "waiting"
    BY <1>2 DEF Checks, Saved, OutsideFile
  <2>2. Outside!Check(held)
    BY <1>2, <2>1 DEF Checks, Outside!Check
  <2> QED BY <2>2 DEF Outside!Next
<1> QED BY <1>1, <1>2 DEF Watcher

LEMMA ClientIsSeen ==
    ASSUME UnitInv, ClientInv, Client PROVE Outside!Next \/ UNCHANGED Outside!vars
<1>1. CASE Places
  <2>1. proc = "none" /\ UNCHANGED <<proc, lock>>
    BY <1>1 DEF Places, UnitInv, ClientInv, unitVars
  <2>2. OutsideFile' = "other"
    BY <1>1, <2>1 DEF Places, Placeholder, NoFile, OutsideFile
  <2> QED BY <2>1, <2>2 DEF Outside!Next, Outside!Place
<1>2. CASE RunsUnit \/ Starts
  BY <1>2, LaunchIsBegin DEF RunsUnit, Starts, ClientInv, Outside!Next
<1>3. CASE CannotRun \/ Removes
  BY <1>3, RemovalIsSweep DEF CannotRun, Removes, unitVars, Outside!Next
<1>4. CASE Installs \/ Restarts \/ CannotInstall \/ Reports \/ GivesUp \/ Stops
  BY <1>4, Unseen DEF Installs, Restarts, CannotInstall, Reports, GivesUp, Stops, StopJob,
     unitVars
<1> QED BY <1>1, <1>2, <1>3, <1>4 DEF Client

LEMMA CommandIsSeen ==
    ASSUME Command PROVE Outside!Next \/ UNCHANGED Outside!vars
<1>1. CASE CmdCleansUp
  BY <1>1, RemovalIsSweep DEF CmdCleansUp, unitVars, Outside!Next
<1>2. CASE CmdReads \/ CmdJudges \/ StatusPrints \/ CmdEnds \/ CmdKeeps
  BY <1>2, Unseen DEF CmdReads, CmdJudges, StatusPrints, CmdEnds, CmdKeeps, unitVars
<1>3. CASE CmdStops \/ Unpersists
  BY <1>3, Unseen DEF CmdStops, Unpersists, StopUnit, StopJob
<1> QED BY <1>1, <1>2, <1>3 DEF Command

LEMMA AgeIsUnseen == TypeOK /\ PlaceholderAges => UNCHANGED Outside!vars
<1> SUFFICES ASSUME TypeOK, PlaceholderAges PROVE UNCHANGED Outside!vars
  OBVIOUS
<1>1. /\ UNCHANGED <<proc, run, lock>>
      /\ file'.there = file.there /\ file'.pid = file.pid
      /\ file'.armed = file.armed /\ file'.checked = file.checked
  BY DEF TypeOK, File, PlaceholderAges, unitVars
<1> QED BY <1>1 DEF Outside!vars, OutsideFile

\* Whatever systemd and the commands do to the unit, from outside there is one
\* process at a time, and the lock and the file change as it says.
THEOREM UnitActsAsProcess == Spec => ActsAsProcess
<1>1. Init => Outside!Init
  BY DEF Init, Outside!Init, OutsideFile, NoFile
<1>2. WhenUnitInv /\ [Next]_vars => [Outside!Next]_(Outside!vars)
  <2> SUFFICES ASSUME TypeOK, UnitInv, ClientInv, [Next]_vars
               PROVE  Outside!Next \/ UNCHANGED Outside!vars
    BY DEF WhenUnitInv
  <2>1. CASE UNCHANGED vars
    BY <2>1, Unseen DEF vars, unitVars
  <2> QED BY <2>1, SystemdIsSeen, WatcherIsSeen, ClientIsSeen, CommandIsSeen, AgeIsUnseen
      DEF Next
<1> QED BY <1>1, <1>2, WhenUnitInvariant, PTL DEF Spec, ActsAsProcess, Outside!Spec

=============================================================================
