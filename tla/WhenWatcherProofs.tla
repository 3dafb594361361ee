------------------------- MODULE WhenWatcherProofs -------------------------
(***************************************************************************)
(* Proofs about WhenWatcher, for any number of waiting signals, any start  *)
(* limit, with and without a session bus and a ticker: the loop drives its *)
(* controller as WhenController says, so all that is proved of it holds of *)
(* the watcher; and the lock and the state file agree with it throughout.  *)
(***************************************************************************)
EXTENDS WhenWatcher, WhenControllerProofs

-----------------------------------------------------------------------------
(***************************************************************************)
(* The watcher implements the controller's specification                   *)
(***************************************************************************)

ctl == <<ctlVars, auxVars>>

LEMMA ExitFailureIsStop == ExitFailure => Stop /\ NoteEnd
BY DEF ExitFailure, ProcessEnds

LEMMA ProcessDrives == Process => [CtlNext]_ctl
<1>1. CASE Start
  BY <1>1 DEF Start, ctl
<1>2. CASE Subscribe
  BY <1>2 DEF Subscribe, ctl
<1>3. CASE SubscribeFails
  BY <1>3, ExitFailureIsStop DEF SubscribeFails, CtlNext
<1>4. CASE EnterLoop
  BY <1>4 DEF EnterLoop, ctl
<1> QED BY <1>1, <1>2, <1>3, <1>4 DEF Process

LEMMA WorkerDrives == Worker => [CtlNext]_ctl
BY DEF Worker, TakeTrigger, CheckExits, CheckTimesOut, ctl

LEMMA SelectDrives == Select => [CtlNext]_ctl
<1>1. CASE HandlePass
  BY <1>1 DEF HandlePass, CtlNext
<1>2. CASE HandlePassRefused
  BY <1>2, ExitFailureIsStop DEF HandlePassRefused, CtlNext
<1>3. CASE HandleFail
  BY <1>3 DEF HandleFail, CtlNext
<1>4. CASE HandleGrace
  BY <1>4 DEF HandleGrace, CtlNext
<1>5. CASE HandleLost
  BY <1>5, ExitFailureIsStop DEF HandleLost, CtlNext
<1>6. ASSUME NEW b \in Bus, HandleSignal(b) PROVE [CtlNext]_ctl
  BY <1>6 DEF HandleSignal, CtlNext, ctl
<1>7. ASSUME NEW b \in Bus, HandleBusClosed(b) PROVE [CtlNext]_ctl
  BY <1>7, ExitFailureIsStop DEF HandleBusClosed, CtlNext
<1>8. CASE HandleTick
  BY <1>8 DEF HandleTick, ctl
<1>9. CASE HandleRecheck
  BY <1>9 DEF HandleRecheck, ctl
<1>10. CASE HandleTerm
  BY <1>10 DEF HandleTerm, ExitClean, ProcessEnds, CtlNext
<1> QED BY <1>1, <1>2, <1>3, <1>4, <1>5, <1>6, <1>7, <1>8, <1>9, <1>10 DEF Select

LEMMA WorldDrives == World => [CtlNext]_ctl
<1>1. ASSUME NEW b \in Bus, Announce(b) \/ NameSignal(b) \/ BusCloses(b)
      PROVE  [CtlNext]_ctl
  BY <1>1 DEF Announce, NameSignal, BusCloses, ctl
<1>2. CASE ChangeSilently \/ Suspend \/ Wake \/ RecheckReads \/ RecheckSignals \/ StopUnit
           \/ TickerFires
  BY <1>2 DEF ChangeSilently, Suspend, Wake, RecheckReads, RecheckSignals, StopUnit,
              TickerFires, ctl
<1>3. CASE StopEarly \/ StopTimesOut \/ Crash
  BY <1>3 DEF StopEarly, StopTimesOut, Crash, ProcessEnds, CtlNext
<1>4. CASE Tick
  BY <1>4 DEF Tick, CtlNext
<1>5. CASE SudoDies
  BY <1>5 DEF SudoDies, CtlNext
<1> QED BY <1>1, <1>2, <1>3, <1>4, <1>5 DEF World

(***************************************************************************)
(* Whatever the order in which the loop takes its cases, and whenever the  *)
(* process ends, the controller takes only the steps of its specification. *)
(***************************************************************************)
THEOREM WatcherDrivesController == Spec => DrivesController
<1>1. Init => CtlInit /\ AuxInit
  BY DEF Init
<1>2. [Next]_vars => [CtlNext]_ctl
  <2>1. UNCHANGED vars => UNCHANGED ctl
    BY DEF vars, ctl
  <2> QED
    BY <2>1, ProcessDrives, WorkerDrives, SelectDrives, WorldDrives DEF Next
<1> QED BY <1>1, <1>2, PTL DEF Spec, DrivesController, CtlSpec, AloneInit, ctl

(***************************************************************************)
(* The watcher keeps the promise of `when`, counted from the resumes it    *)
(* has handled.                                                            *)
(***************************************************************************)
THEOREM WatcherKeepsPromise == Spec => KeepsPromise
BY WatcherDrivesController, ControllerKeepsPromise, PTL DEF DrivesController

THEOREM WatcherControllerInvariant == Spec => []CtlInv
BY WatcherDrivesController, ControllerInvariant, PTL DEF DrivesController

-----------------------------------------------------------------------------
(***************************************************************************)
(* The lock, the state file and the loop                                   *)
(***************************************************************************)

(***************************************************************************)
(* The strengthening.  Between the loops of two processes there is no      *)
(* inhibitor; in the loop the file is what the last save wrote, with no    *)
(* change of the controller since; and a grace period runs only after a    *)
(* failed check, whose exit code the file has.                             *)
(***************************************************************************)
FileInv ==
    /\ phase # "loop" => inh = "none"
    /\ file \in File
    /\ phase = "loop" =>
        /\ file.own
        /\ file.armed = Armed
        /\ file.releasing = Releasing
        /\ Releasing => file.exit = "fail"
    /\ FirstCheckIsHonest

\* What a process that ends leaves: no inhibitor, and a file that is not its own.
LEMMA EndKeepsFileInv ==
    ASSUME FileInv, phase' # "loop", inh' = "none",
           file' = NoFile \/ file' = file \/ file' = [file EXCEPT !.own = FALSE]
    PROVE  FileInv'
<1>1. CASE file' = NoFile
  BY <1>1 DEF FileInv, FirstCheckIsHonest, NoFile, File
<1>2. CASE file' = file
  BY <1>2 DEF FileInv, FirstCheckIsHonest
<1>3. CASE file' = [file EXCEPT !.own = FALSE]
  <2>1. file' \in File /\ file'.exit = file.exit /\ file'.armed = file.armed
    BY <1>3 DEF FileInv, File
  <2> QED BY <2>1 DEF FileInv, FirstCheckIsHonest
<1> QED BY <1>1, <1>2, <1>3

\* A save that follows the controller's step.
LEMMA SaveKeepsFileInv ==
    ASSUME NEW exit \in {"none", "pass", "fail"},
           Save(exit), phase' = "loop",
           exit = "pass" => Armed',
           Releasing' => exit = "fail"
    PROVE  FileInv'
<1>1. /\ file' \in File
      /\ file'.own = TRUE /\ file'.armed = Armed' /\ file'.releasing = Releasing'
      /\ file'.exit = exit
  BY DEF Save, File, Armed, Releasing
<1> QED BY <1>1 DEF FileInv, FirstCheckIsHonest

\* A step of the loop that saves nothing changes nothing the file tells.
LEMMA QuietKeepsFileInv ==
    ASSUME FileInv, UNCHANGED <<phase, file, inh>>,
           Releasing' <=> Releasing
    PROVE  FileInv'
BY DEF FileInv, FirstCheckIsHonest, Armed, Releasing

\* A resume restarts a grace period but neither starts nor ends one.
LEMMA ResumeKeepsReleasing == OnResume => (Releasing' <=> Releasing)
<1> SUFFICES ASSUME OnResume PROVE Releasing' <=> Releasing
  OBVIOUS
<1>1. Longer(Grace, ResumeGrace) # NoTimer
  BY LongerIsTimerValue, ResumeGraceAssumption
<1> QED BY <1>1 DEF OnResume, StartGrace, Releasing

LEMMA TickKeepsReleasing == CtlTypeOK /\ ClockTick => (Releasing' <=> Releasing)
<1> SUFFICES ASSUME CtlTypeOK, ClockTick PROVE Releasing' <=> Releasing
  OBVIOUS
<1>1. graceTimer' = Down(graceTimer) /\ graceTimer \in TimerValue
  BY DEF CtlTypeOK, ClockTick
<1> QED BY <1>1, DownFacts DEF Releasing

LEMMA StopDropsInhibitor == Stop \/ Die => inh' = "none"
BY DEF Stop, Die, Release

LEMMA AfterFailureIsNoLoop == AfterFailure # "loop"
BY DEF AfterFailure

LEMMA ExitFailureKeepsFileInv == FileInv /\ ExitFailure => FileInv'
BY EndKeepsFileInv, StopDropsInhibitor, AfterFailureIsNoLoop DEF ExitFailure, ProcessEnds

LEMMA ProcessKeepsFileInv == CtlInv /\ FileInv /\ Process => FileInv'
<1> SUFFICES ASSUME CtlInv, FileInv, Process PROVE FileInv'
  OBVIOUS
<1>1. CASE Start \/ Subscribe
  BY <1>1 DEF Start, Subscribe, FileInv, FirstCheckIsHonest, ctlVars
<1>2. CASE SubscribeFails
  BY <1>2, ExitFailureKeepsFileInv DEF SubscribeFails
<1>3. CASE EnterLoop
  <2>1. ~Releasing
    BY <1>3 DEF EnterLoop, FileInv, CtlInv, TimerCoversPromises, Armed
  <2>2. ~Releasing'
    BY <1>3, <2>1 DEF EnterLoop, ctlVars, Releasing
  <2> QED BY <1>3, <2>2, SaveKeepsFileInv DEF EnterLoop
<1> QED BY <1>1, <1>2, <1>3 DEF Process

LEMMA WorkerKeepsFileInv == FileInv /\ Worker => FileInv'
<1> SUFFICES ASSUME FileInv, Worker PROVE FileInv'
  OBVIOUS
<1>1. UNCHANGED <<phase, file, inh>> /\ (Releasing' <=> Releasing)
  BY DEF Worker, TakeTrigger, CheckExits, CheckTimesOut, ctlVars, Releasing
<1> QED BY <1>1, QuietKeepsFileInv

LEMMA SelectKeepsFileInv == CtlInv /\ FileInv /\ Select => FileInv'
<1> SUFFICES ASSUME CtlInv, FileInv, Select PROVE FileInv'
  OBVIOUS
<1>1. CASE HandlePass
  <2>1. Armed' /\ ~Releasing'
    BY <1>1 DEF HandlePass, OnPass, Acquire, CancelGrace, Armed, Releasing
  <2> QED BY <1>1, <2>1, SaveKeepsFileInv DEF HandlePass, InLoop
<1>2. CASE HandleFail
  BY <1>2, SaveKeepsFileInv DEF HandleFail, InLoop
<1>3. CASE HandleGrace
  <2>1. Releasing
    BY <1>3 DEF HandleGrace, OnGraceExpired, CtlInv, TimerCoversPromises, Releasing, NoTimer
  <2>2. file.exit = "fail"
    BY <1>3, <2>1 DEF HandleGrace, InLoop, FileInv
  <2> QED BY <1>3, <2>2, SaveKeepsFileInv DEF HandleGrace, InLoop
<1>4. ASSUME NEW b \in Bus, HandleSignal(b) PROVE FileInv'
  <2>1. OnResume \/ UNCHANGED ctlVars
    BY <1>4 DEF HandleSignal
  <2>2. (Releasing' <=> Releasing) /\ inh' = inh
    BY <2>1, ResumeKeepsReleasing DEF OnResume, ctlVars, Releasing
  <2> QED BY <1>4, <2>2, QuietKeepsFileInv DEF HandleSignal
<1>5. CASE HandleTick \/ HandleRecheck
  <2>1. UNCHANGED <<phase, file, inh>> /\ (Releasing' <=> Releasing)
    BY <1>5 DEF HandleTick, HandleRecheck, ctlVars, Releasing
  <2> QED BY <2>1, QuietKeepsFileInv
<1>6. CASE HandleTerm
  BY <1>6, EndKeepsFileInv, StopDropsInhibitor DEF HandleTerm, ExitClean, ProcessEnds
<1>7. CASE HandlePassRefused \/ HandleLost
  BY <1>7, ExitFailureKeepsFileInv DEF HandlePassRefused, HandleLost
<1>8. ASSUME NEW b \in Bus, HandleBusClosed(b) PROVE FileInv'
  BY <1>8, ExitFailureKeepsFileInv DEF HandleBusClosed
<1> QED BY <1>1, <1>2, <1>3, <1>4, <1>5, <1>6, <1>7, <1>8 DEF Select

LEMMA WorldKeepsFileInv == CtlInv /\ FileInv /\ World => FileInv'
<1> SUFFICES ASSUME CtlInv, FileInv, World PROVE FileInv'
  OBVIOUS
<1>1. ASSUME NEW b \in Bus, Announce(b) \/ NameSignal(b) \/ BusCloses(b)
      PROVE  FileInv'
  <2>1. UNCHANGED <<phase, file, inh>> /\ (Releasing' <=> Releasing)
    BY <1>1 DEF Announce, NameSignal, BusCloses, ctlVars, Releasing
  <2> QED BY <2>1, QuietKeepsFileInv
<1>2. CASE ChangeSilently \/ Suspend \/ Wake \/ RecheckReads \/ RecheckSignals \/ StopUnit
           \/ TickerFires
  <2>1. UNCHANGED <<phase, file, inh>> /\ (Releasing' <=> Releasing)
    BY <1>2 DEF ChangeSilently, Suspend, Wake, RecheckReads, RecheckSignals, StopUnit,
                TickerFires, procVars, ctlVars, Releasing
  <2> QED BY <2>1, QuietKeepsFileInv
<1>3. CASE StopEarly \/ StopTimesOut \/ Crash
  BY <1>3, EndKeepsFileInv, StopDropsInhibitor, AfterFailureIsNoLoop
     DEF StopEarly, StopTimesOut, Crash, ProcessEnds
<1>4. CASE Tick
  <2>1. UNCHANGED <<phase, file, inh>>
    BY <1>4 DEF Tick, ClockTick, procVars
  <2> QED BY <1>4, <2>1, TickKeepsReleasing, QuietKeepsFileInv DEF Tick, CtlInv
<1>5. CASE SudoDies
  <2>1. UNCHANGED <<phase, file, inh>> /\ (Releasing' <=> Releasing)
    BY <1>5 DEF SudoDies, InhibitorDies, procVars, Releasing
  <2> QED BY <2>1, QuietKeepsFileInv
<1> QED BY <1>1, <1>2, <1>3, <1>4, <1>5 DEF World

THEOREM WatcherFileInvariant == Spec => []FileInv
<1>1. Init => FileInv
  <2> SUFFICES ASSUME Init PROVE FileInv
    OBVIOUS
  <2>1. NoFile \in File /\ NoFile.exit = "none"
    BY DEF NoFile, File
  <2>2. Placeholder \in File /\ Placeholder.exit = "none"
    BY <2>1 DEF Placeholder, File
  <2>3. phase = "down" /\ inh = "none" /\ file \in {NoFile, Placeholder}
    BY DEF Init, CtlInit
  <2> QED BY <2>1, <2>2, <2>3 DEF FileInv, FirstCheckIsHonest
<1>2. CtlInv /\ FileInv /\ [Next]_vars => FileInv'
  <2>1. FileInv /\ UNCHANGED vars => FileInv'
    BY DEF vars, procVars, ctlVars, FileInv, FirstCheckIsHonest, Armed, Releasing
  <2> QED
    BY <2>1, ProcessKeepsFileInv, WorkerKeepsFileInv, SelectKeepsFileInv,
       WorldKeepsFileInv DEF Next
<1> QED BY <1>1, <1>2, WatcherControllerInvariant, PTL DEF Spec

(***************************************************************************)
(* The state file tells what the loop and logind have, at every moment.    *)
(***************************************************************************)
THEOREM WatcherStatusIsTruthful == Spec => []StatusIsTruthful
<1>1. CtlInv /\ FileInv => StatusIsTruthful
  BY DEF CtlInv, FileInv, StatusIsTruthful, LockTracksInhibitor
<1> QED BY <1>1, WatcherFileInvariant, WatcherControllerInvariant, PTL

(***************************************************************************)
(* An exit code of 0 is in the file only with the block it took.           *)
(***************************************************************************)
THEOREM WatcherFirstCheckIsHonest == Spec => []FirstCheckIsHonest
<1>1. FileInv => FirstCheckIsHonest
  BY DEF FileInv
<1> QED BY <1>1, WatcherFileInvariant, PTL

(***************************************************************************)
(* One lock while the loop has a live inhibitor, none at any other time.   *)
(***************************************************************************)
THEOREM WatcherLockIsAccountedFor == Spec => []LockIsAccountedFor
<1>1. CtlInv /\ FileInv => LockIsAccountedFor
  BY DEF CtlInv, FileInv, LockIsAccountedFor, LockTracksInhibitor, Armed
<1> QED BY <1>1, WatcherFileInvariant, WatcherControllerInvariant, PTL

\* The timer is no longer than it has to be in the watcher as well.
THEOREM WatcherTimerIsNotTooLong == Spec => []TimerIsNoLonger
BY WatcherDrivesController, TimerIsNotTooLong, PTL DEF DrivesController

-----------------------------------------------------------------------------
(***************************************************************************)
(* The watcher from outside                                                *)
(***************************************************************************)

\* The file is of the process exactly while the loop runs.
OwnInv ==
    /\ phase = "loop" => file.present
    /\ phase # "loop" => ~file.own

LEMMA SavePresents ==
    ASSUME NEW exit, Save(exit), phase' = "loop" PROVE OwnInv'
BY DEF Save, OwnInv

LEMMA EndDisowns ==
    ASSUME FileInv, OwnInv, phase' # "loop",
           file' = NoFile \/ file' = [file EXCEPT !.own = FALSE] \/ (phase # "loop" /\ file' = file)
    PROVE  OwnInv'
BY DEF OwnInv, NoFile, FileInv, File

LEMMA ExitFailureDisowns == FileInv /\ OwnInv /\ ExitFailure => OwnInv'
BY EndDisowns, AfterFailureIsNoLoop DEF ExitFailure, ProcessEnds

LEMMA SelectKeepsOwnInv == FileInv /\ OwnInv /\ Select => OwnInv'
<1> SUFFICES ASSUME FileInv, OwnInv, Select PROVE OwnInv'
  OBVIOUS
<1>1. CASE HandlePass \/ HandleFail \/ HandleGrace
  BY <1>1, SavePresents DEF HandlePass, HandleFail, HandleGrace, InLoop
<1>2. CASE HandlePassRefused \/ HandleLost \/ \E b \in Bus : HandleBusClosed(b)
  BY <1>2, ExitFailureDisowns DEF HandlePassRefused, HandleLost, HandleBusClosed
<1>3. CASE HandleTick \/ HandleRecheck \/ \E b \in Bus : HandleSignal(b)
  BY <1>3 DEF HandleTick, HandleRecheck, HandleSignal, OwnInv
<1>4. CASE HandleTerm
  BY <1>4, EndDisowns DEF HandleTerm, ExitClean, ProcessEnds
<1> QED BY <1>1, <1>2, <1>3, <1>4 DEF Select

LEMMA NextKeepsOwnInv == FileInv /\ OwnInv /\ [Next]_vars => OwnInv'
<1> SUFFICES ASSUME FileInv, OwnInv, [Next]_vars PROVE OwnInv'
  OBVIOUS
<1>1. CASE Process
  BY <1>1, SavePresents, ExitFailureDisowns DEF Process, Start, Subscribe, SubscribeFails,
     EnterLoop, OwnInv
<1>2. CASE Worker
  BY <1>2 DEF Worker, TakeTrigger, CheckExits, CheckTimesOut, OwnInv
<1>3. CASE Select
  BY <1>3, SelectKeepsOwnInv
<1>4. CASE World
  <2>1. CASE Crash \/ StopTimesOut \/ StopEarly
    BY <2>1, EndDisowns, AfterFailureIsNoLoop DEF Crash, StopTimesOut, StopEarly, ProcessEnds
  <2>2. CASE ~(Crash \/ StopTimesOut \/ StopEarly)
    BY <1>4, <2>2 DEF World, Announce, NameSignal, BusCloses, ChangeSilently, Suspend, Wake,
       RecheckReads, RecheckSignals, StopUnit, Tick, TickerFires, SudoDies, procVars, OwnInv
  <2> QED BY <2>1, <2>2
<1>5. CASE UNCHANGED vars
  BY <1>5 DEF vars, procVars, OwnInv
<1> QED BY <1>1, <1>2, <1>3, <1>4, <1>5 DEF Next

THEOREM WatcherOwnsItsFile == Spec => []OwnInv
<1>1. Init => OwnInv
  BY DEF Init, OwnInv, NoFile, Placeholder
<1>2. FileInv /\ OwnInv /\ [Next]_vars => OwnInv'
  BY NextKeepsOwnInv
<1> QED BY <1>1, <1>2, WatcherFileInvariant, PTL DEF Spec

\* A step that nobody sees.
LEMMA Unseen ==
    ASSUME OutsideProc' = OutsideProc, UNCHANGED <<inh, file>>
    PROVE  UNCHANGED Outside!vars
BY DEF Outside!vars, OutsideFile, Armed

\* Each way the process ends, in its loop or before it.
LEMMA EndIsEnd ==
    ASSUME FileInv, OwnInv, Running, phase' \in {"down", "stopped", "failed"}, inh' = "none",
           \/ file' = [file EXCEPT !.own = FALSE]
           \/ phase = "loop" /\ file' = NoFile
           \/ phase # "loop" /\ file' = file
    PROVE  Outside!End
<1>1. OutsideProc # "none" /\ OutsideProc' = "none" /\ (OutsideProc = "up" <=> phase = "loop")
  BY DEF OutsideProc, Running
<1>2. Armed' = FALSE
  BY DEF Armed
<1>3. CASE phase = "loop" /\ file' = NoFile
  BY <1>1, <1>2, <1>3 DEF Outside!End, OutsideFile, NoFile
<1>4. CASE phase = "loop" /\ file' = [file EXCEPT !.own = FALSE]
  <2>1. OutsideFile \in Outside!Own /\ OutsideFile' = "other"
    BY <1>4 DEF OutsideFile, Outside!Own, FileInv, OwnInv, File
  <2> QED BY <1>1, <1>2, <2>1 DEF Outside!End
<1>5. CASE phase # "loop"
  <2>1. OutsideFile \notin Outside!Own /\ OutsideFile' = OutsideFile
    BY <1>5 DEF OutsideFile, Outside!Own, FileInv, OwnInv, File
  <2> QED BY <1>1, <1>2, <2>1 DEF Outside!End
<1> QED BY <1>3, <1>4, <1>5

LEMMA ExitFailureIsEnd == FileInv /\ OwnInv /\ Running /\ ExitFailure => Outside!End
BY EndIsEnd, StopDropsInhibitor DEF ExitFailure, ProcessEnds, AfterFailure

\* A save in the loop after a check has been handled.
LEMMA SaveIsCheck ==
    ASSUME NEW exit \in {"pass", "fail"}, InLoop, UNCHANGED phase, Save(exit)
    PROVE  Outside!Next
<1>1. OutsideProc = "up" /\ OutsideProc' = "up"
  BY DEF InLoop, OutsideProc
<1>2. OutsideFile' = IF Armed' THEN "blocking" ELSE "waiting"
  BY DEF Save, OutsideFile
<1>3. Outside!Check(Armed') /\ Armed' \in BOOLEAN
  BY <1>1, <1>2 DEF Outside!Check, Armed
<1> QED BY <1>3 DEF Outside!Next

LEMMA ProcessIsSeen ==
    ASSUME FileInv, OwnInv, Process PROVE Outside!Next \/ UNCHANGED Outside!vars
<1>1. CASE Start
  BY <1>1 DEF Start, ctlVars, Outside!Next, Outside!Begin, OutsideProc, OutsideFile, Armed
<1>2. CASE Subscribe
  BY <1>2, Unseen DEF Subscribe, ctlVars, OutsideProc
<1>3. CASE SubscribeFails
  BY <1>3, ExitFailureIsEnd DEF SubscribeFails, Running, Outside!Next
<1>4. CASE EnterLoop
  <2>1. OutsideProc = "starting" /\ OutsideProc' = "up" /\ ~Armed /\ ~Armed'
    BY <1>4 DEF EnterLoop, ctlVars, OutsideProc, FileInv, Armed
  <2>2. OutsideFile' = "unchecked"
    BY <1>4 DEF EnterLoop, Save, OutsideFile
  <2> QED BY <2>1, <2>2 DEF Outside!Next, Outside!Announce, Armed
<1> QED BY <1>1, <1>2, <1>3, <1>4 DEF Process

LEMMA SelectIsSeen ==
    ASSUME CtlInv, FileInv, OwnInv, Select PROVE Outside!Next \/ UNCHANGED Outside!vars
<1>1. CASE HandlePass \/ HandleFail
  BY <1>1, SaveIsCheck DEF HandlePass, HandleFail
<1>2. CASE HandleGrace
  <2>1. Releasing
    BY <1>2 DEF HandleGrace, OnGraceExpired, CtlInv, TimerCoversPromises, Releasing, NoTimer
  <2>2. file.exit = "fail"
    BY <1>2, <2>1 DEF HandleGrace, InLoop, FileInv
  <2> QED BY <1>2, <2>2, SaveIsCheck DEF HandleGrace
<1>3. CASE HandlePassRefused \/ HandleLost \/ \E b \in Bus : HandleBusClosed(b)
  BY <1>3, ExitFailureIsEnd DEF HandlePassRefused, HandleLost, HandleBusClosed, InLoop,
     Running, Outside!Next
<1>4. CASE HandleTick \/ HandleRecheck \/ \E b \in Bus : HandleSignal(b)
  BY <1>4, Unseen DEF HandleTick, HandleRecheck, HandleSignal, OnResume, ctlVars, OutsideProc
<1>5. CASE HandleTerm
  BY <1>5, EndIsEnd, StopDropsInhibitor DEF HandleTerm, ExitClean, ProcessEnds, InLoop,
     Running, Outside!Next
<1> QED BY <1>1, <1>2, <1>3, <1>4, <1>5 DEF Select

LEMMA WorldIsSeen ==
    ASSUME FileInv, OwnInv, World PROVE Outside!Next \/ UNCHANGED Outside!vars
<1>1. CASE Crash \/ StopTimesOut
  BY <1>1, EndIsEnd, StopDropsInhibitor DEF Crash, StopTimesOut, ProcessEnds, AfterFailure,
     Running, Outside!Next
<1>2. CASE StopEarly
  <2>1. inh = "none" /\ inh' = "none" /\ UNCHANGED file /\ phase' = "stopped"
    BY <1>2, StopDropsInhibitor DEF StopEarly, ProcessEnds, FileInv
  <2>2. CASE phase = "down"
    BY <2>1, <2>2, Unseen DEF OutsideProc
  <2>3. CASE phase # "down"
    BY <1>2, <2>1, <2>3, EndIsEnd DEF StopEarly, Running, Outside!Next
  <2> QED BY <2>2, <2>3
<1>3. CASE ~(Crash \/ StopTimesOut \/ StopEarly)
  BY <1>3, Unseen DEF World, Announce, NameSignal, BusCloses, ChangeSilently, Suspend, Wake,
     RecheckReads, RecheckSignals, StopUnit, Tick, ClockTick, TickerFires, SudoDies,
     InhibitorDies, procVars, ctlVars, OutsideProc
<1> QED BY <1>1, <1>2, <1>3

(***************************************************************************)
(* The watcher implements WatcherProcess, for every grace period, with and *)
(* without a ticker and a session bus: lock and state file change          *)
(* together, and only while the process is up.                             *)
(***************************************************************************)
THEOREM WatcherActsAsProcess == Spec => ActsAsProcess
<1>1. Init => Outside!Init
  BY DEF Init, CtlInit, Outside!Init, OutsideProc, OutsideFile, Armed, NoFile, Placeholder
<1>2. CtlInv /\ FileInv /\ OwnInv /\ [Next]_vars => [Outside!Next]_(Outside!vars)
  <2> SUFFICES ASSUME CtlInv, FileInv, OwnInv, [Next]_vars
               PROVE  Outside!Next \/ UNCHANGED Outside!vars
    OBVIOUS
  <2>1. CASE Worker
    BY <2>1, Unseen DEF Worker, TakeTrigger, CheckExits, CheckTimesOut, ctlVars, OutsideProc
  <2>2. CASE UNCHANGED vars
    BY <2>2, Unseen DEF vars, procVars, ctlVars, OutsideProc
  <2> QED BY <2>1, <2>2, ProcessIsSeen, SelectIsSeen, WorldIsSeen DEF Next
<1> QED BY <1>1, <1>2, WatcherControllerInvariant, WatcherFileInvariant, WatcherOwnsItsFile,
           PTL DEF Spec, ActsAsProcess, Outside!Spec

=============================================================================
