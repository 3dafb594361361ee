------------------------ MODULE WhenControllerProofs ------------------------
(***************************************************************************)
(* Proofs about WhenController, for every Grace and ResumeGrace: its type  *)
(* invariant, its safety invariants, and that it implements                *)
(* ConditionalBlock.                                                       *)
(***************************************************************************)
EXTENDS WhenController, TLAPS

(***************************************************************************)
(* The strengthening.  A grace period that starts after a resume must last *)
(* as long as the hold, so holdLeft has to reach the end of the hold even  *)
(* while no timer runs; and only a sudo inhibitor can be lost.             *)
(***************************************************************************)
HoldCoversResume ==
    /\ holdLeft >= ResumeGrace - wakeAge
    /\ lostC => inh = "sudo"

CtlInv ==
    /\ CtlTypeOK
    /\ LockTracksInhibitor
    /\ TimerCoversPromises
    /\ HoldCoversResume

\* The longer of two durations is one of them and is at least both.
LEMMA LongerFacts ==
    ASSUME NEW a \in Int, NEW b \in Int
    PROVE  /\ Longer(a, b) \in {a, b}
           /\ Longer(a, b) >= a
           /\ Longer(a, b) >= b
BY DEF Longer

\* What a timer may be started with is a value of its type, above NoTimer.
LEMMA LongerIsTimerValue ==
    ASSUME NEW d \in 0 .. ResumeGrace
    PROVE  /\ Longer(Grace, d) \in TimerValue
           /\ Longer(Grace, d) \in Nat
           /\ Longer(Grace, d) # NoTimer
BY GraceAssumption, ResumeGraceAssumption DEF Longer, TimerValue, NoTimer

\* One tick keeps a timer in its type and does not stop or start it.
LEMMA DownFacts ==
    ASSUME NEW t \in TimerValue
    PROVE  /\ Down(t) \in TimerValue
           /\ Down(t) = NoTimer <=> t = NoTimer
           /\ Down(t) >= t - 1
           /\ t # NoTimer => Down(t) >= 0
BY GraceAssumption, ResumeGraceAssumption DEF Down, TimerValue, NoTimer, Longer

\* A countdown and an age: what one tick leaves of "left reaches to limit".
LEMMA StillReaches ==
    ASSUME NEW limit \in Nat, NEW age \in Nat, NEW left \in Int,
           NEW newAge \in Nat, NEW newLeft \in Int,
           left >= limit - age,
           newLeft >= left - 1, newLeft >= 0,
           newAge = age + 1 \/ limit - newAge = 0
    PROVE  newLeft >= limit - newAge
OBVIOUS

\* One that starts with the whole limit reaches past any age.
LEMMA StartCovers ==
    ASSUME NEW limit \in Nat, NEW age \in Nat, NEW left \in Nat, left >= limit
    PROVE  left >= limit - age
OBVIOUS

\* A countdown that starts long enough reaches far enough.
LEMMA StartReaches ==
    ASSUME NEW limit \in Nat, NEW age \in Nat, NEW left \in Nat, NEW hold \in Nat,
           left >= hold, hold >= limit - age
    PROVE  left >= limit - age
OBVIOUS

\* Timer values are integers.
LEMMA TimerValuesAreInts == ASSUME NEW t \in TimerValue PROVE t \in Int
BY GraceAssumption, ResumeGraceAssumption DEF TimerValue, NoTimer, Longer

\* No timer at all is a value of the timers too.
LEMMA NoTimerIsTimerValue == NoTimer \in TimerValue
BY GraceAssumption, ResumeGraceAssumption DEF NoTimer, TimerValue, Longer

LEMMA CtlInitInv == CtlInit /\ AuxInit => CtlInv
<1> SUFFICES ASSUME CtlInit, AuxInit PROVE CtlInv
  OBVIOUS
<1>1. inh \in {"none", "fd", "sudo"} /\ lostC \in BOOLEAN /\ failing \in BOOLEAN
  BY DEF CtlInit, AuxInit
<1>2. graceTimer \in TimerValue /\ graceC \in TimerValue
  BY NoTimerIsTimerValue DEF CtlInit
<1>3. /\ holdLeft \in 0 .. ResumeGrace /\ locks \in Nat
      /\ failAge \in 0 .. Grace /\ wakeAge \in 0 .. ResumeGrace
      /\ holdLeft >= ResumeGrace - wakeAge
  BY GraceAssumption, ResumeGraceAssumption DEF CtlInit, AuxInit
<1>4. LockTracksInhibitor /\ TimerCoversPromises /\ HoldCoversResume
  BY <1>3 DEF CtlInit, LockTracksInhibitor, TimerCoversPromises, HoldCoversResume,
              Armed, Releasing
<1> QED BY <1>1, <1>2, <1>3, <1>4 DEF CtlInv, CtlTypeOK

\* A passing check keeps the invariant: the timer is gone, the lock is there.
LEMMA PassKeepsInv == CtlInv /\ OnPass /\ NotePass => CtlInv'
<1> SUFFICES ASSUME CtlInv, OnPass, NotePass PROVE CtlInv'
  OBVIOUS
<1> USE GraceAssumption, ResumeGraceAssumption DEF CtlInv
<1>1. NoTimer \in TimerValue
  BY NoTimerIsTimerValue
<1>2. CASE Armed
  BY <1>1, <1>2 DEF OnPass, NotePass, CancelGrace, CtlTypeOK, LockTracksInhibitor,
                    TimerCoversPromises, HoldCoversResume, Armed, Releasing
<1>3. CASE ~Armed
  <2>1. locks' = 1 /\ inh' \in {"fd", "sudo"} /\ lostC' = FALSE
    BY <1>3 DEF OnPass, Acquire, LockTracksInhibitor
  <2> QED
    BY <1>1, <2>1 DEF OnPass, NotePass, CancelGrace, CtlTypeOK, LockTracksInhibitor,
                      TimerCoversPromises, HoldCoversResume, Armed, Releasing
<1> QED BY <1>2, <1>3

\* Releasing hands back the one lock there is.
LEMMA ReleaseFacts ==
    ASSUME CtlTypeOK, LockTracksInhibitor, Release
    PROVE  locks' = 0 /\ inh' = "none" /\ lostC' = FALSE
BY DEF CtlTypeOK, LockTracksInhibitor, Release, Armed

\* A failing check keeps the invariant: a timer it starts is long enough for
\* the grace period and for the hold.
LEMMA FailKeepsInv == CtlInv /\ OnFail /\ NoteFail => CtlInv'
<1> SUFFICES ASSUME CtlInv, OnFail, NoteFail PROVE CtlInv'
  OBVIOUS
<1> DEFINE grace == Longer(Grace, holdLeft)
<1> USE GraceAssumption, ResumeGraceAssumption DEF CtlInv
<1>0. /\ failing' = TRUE /\ failAge' \in 0 .. Grace
      /\ failing => failAge' = failAge
      /\ wakeAge' = wakeAge /\ holdLeft' = holdLeft
  BY DEF OnFail, NoteFail, CtlTypeOK
<1>1. CASE (~Armed \/ Releasing) /\ UNCHANGED <<inh, graceTimer, graceC, lostC, locks>>
  BY <1>0, <1>1 DEF CtlTypeOK, LockTracksInhibitor, TimerCoversPromises, HoldCoversResume,
                    Armed, Releasing
<1>2. CASE Armed /\ ~Releasing /\ Release /\ UNCHANGED <<graceTimer, graceC>>
  <2>1. locks' = 0 /\ inh' = "none" /\ lostC' = FALSE
    BY <1>2, ReleaseFacts
  <2> QED
    BY <1>0, <1>2, <2>1 DEF CtlTypeOK, LockTracksInhibitor, TimerCoversPromises,
                            HoldCoversResume, Armed, Releasing
<1>3. CASE Armed /\ ~Releasing /\ StartGrace(grace) /\ UNCHANGED <<inh, lostC, locks>>
  <2>1. grace \in TimerValue /\ grace \in Nat
    BY LongerIsTimerValue DEF CtlTypeOK
  <2>2. grace >= Grace /\ grace >= holdLeft
    BY LongerFacts DEF CtlTypeOK
  <2>3. graceTimer' = grace /\ graceC' = grace
    BY <1>3 DEF StartGrace
  <2> HIDE DEF grace
  <2>4. CtlTypeOK' /\ LockTracksInhibitor' /\ HoldCoversResume'
    BY <1>0, <1>3, <2>1, <2>3 DEF CtlTypeOK, LockTracksInhibitor, HoldCoversResume, Armed
  <2>5. grace >= Grace - failAge'
    <3>1. failAge' \in Nat
      BY <1>0
    <3> QED BY <2>1, <2>2, <3>1, StartCovers
  <2>6. grace >= ResumeGrace - wakeAge'
    BY <1>0, <2>1, <2>2, StartReaches DEF CtlTypeOK, HoldCoversResume
  <2> QED
    BY <1>0, <1>3, <2>3, <2>4, <2>5, <2>6 DEF TimerCoversPromises, Armed
<1> QED BY <1>1, <1>2, <1>3 DEF OnFail

\* A resume keeps the invariant: a running timer is extended to the hold.
LEMMA ResumeKeepsInv == CtlInv /\ OnResume /\ NoteResume => CtlInv'
<1> SUFFICES ASSUME CtlInv, OnResume, NoteResume PROVE CtlInv'
  OBVIOUS
<1> DEFINE grace == Longer(Grace, ResumeGrace)
<1> USE GraceAssumption, ResumeGraceAssumption DEF CtlInv
<1>1. /\ holdLeft' = ResumeGrace /\ wakeAge' = 0
      /\ UNCHANGED <<inh, lostC, locks, failing, failAge>>
  BY DEF OnResume, NoteResume
<1>2. CASE Releasing
  <2>1. grace \in TimerValue /\ grace \in Nat
    BY LongerIsTimerValue
  <2>2. grace >= Grace /\ grace >= ResumeGrace
    BY LongerFacts
  <2>3. graceTimer' = grace /\ graceC' = grace
    BY <1>2 DEF OnResume, StartGrace
  <2> HIDE DEF grace
  <2> QED
    BY <1>1, <1>2, <2>1, <2>2, <2>3 DEF CtlTypeOK, LockTracksInhibitor,
            TimerCoversPromises, HoldCoversResume, Armed, Releasing
<1>3. CASE ~Releasing
  BY <1>1, <1>3 DEF OnResume, CtlTypeOK, LockTracksInhibitor, TimerCoversPromises,
                    HoldCoversResume, Armed, Releasing
<1> QED BY <1>2, <1>3

\* A tick keeps the invariant: the timer and the ages move together.
LEMMA TickKeepsInv == CtlInv /\ ClockTick /\ NoteTick => CtlInv'
<1> SUFFICES ASSUME CtlInv, ClockTick, NoteTick PROVE CtlInv'
  OBVIOUS
<1> USE GraceAssumption, ResumeGraceAssumption DEF CtlInv
<1>1. UNCHANGED <<inh, lostC, locks, failing>>
  BY DEF ClockTick, NoteTick
<1>2. /\ graceTimer' = Down(graceTimer) /\ graceC' = graceTimer'
      /\ graceTimer' \in TimerValue
      /\ graceTimer' = NoTimer <=> graceTimer = NoTimer
      /\ graceTimer' >= graceTimer - 1
      /\ graceTimer # NoTimer => graceTimer' >= 0
  BY DownFacts DEF ClockTick, CtlTypeOK, TimerCoversPromises
<1>3. /\ holdLeft' \in 0 .. ResumeGrace
      /\ holdLeft' >= holdLeft - 1
  BY DEF ClockTick, Down, CtlTypeOK
<1>4. /\ failAge' \in 0 .. Grace
      /\ failAge' = failAge + 1 \/ Grace - failAge' = 0
      /\ wakeAge' \in 0 .. ResumeGrace
      /\ wakeAge' = wakeAge + 1 \/ ResumeGrace - wakeAge' = 0
  BY DEF NoteTick, CtlTypeOK
<1>5. CtlTypeOK' /\ LockTracksInhibitor'
  BY <1>1, <1>2, <1>3, <1>4 DEF CtlTypeOK, LockTracksInhibitor, Armed
<1>6. TimerCoversPromises'
  <2> SUFFICES ASSUME graceTimer # NoTimer
               PROVE  /\ graceTimer' >= Grace - failAge'
                      /\ graceTimer' >= ResumeGrace - wakeAge'
    BY <1>1, <1>2 DEF TimerCoversPromises, Releasing, Armed
  <2>1. graceTimer >= Grace - failAge /\ graceTimer >= ResumeGrace - wakeAge
    BY DEF TimerCoversPromises, Releasing
  <2>2. graceTimer \in Int /\ graceTimer' \in Int
    BY <1>2, TimerValuesAreInts DEF CtlTypeOK
  <2>3. /\ failAge \in Nat /\ failAge' \in Nat
        /\ wakeAge \in Nat /\ wakeAge' \in Nat
    BY <1>4 DEF CtlTypeOK
  <2>4. graceTimer' >= graceTimer - 1 /\ graceTimer' >= 0
    BY <1>2
  <2>5. graceTimer' >= Grace - failAge'
    BY <1>4, <2>1, <2>2, <2>3, <2>4, StillReaches
  <2>6. graceTimer' >= ResumeGrace - wakeAge'
    BY <1>4, <2>1, <2>2, <2>3, <2>4, StillReaches
  <2> QED BY <2>5, <2>6
<1>7. HoldCoversResume'
  <2>1. /\ wakeAge \in Nat /\ wakeAge' \in Nat
        /\ holdLeft \in Int /\ holdLeft' \in Int /\ holdLeft' >= 0
    BY <1>3, <1>4 DEF CtlTypeOK
  <2>2. holdLeft' >= ResumeGrace - wakeAge'
    BY <1>3, <1>4, <2>1, StillReaches DEF HoldCoversResume
  <2> QED BY <1>1, <2>2 DEF HoldCoversResume
<1> QED BY <1>5, <1>6, <1>7

\* What the end of a process leaves is an initial state.
LEMMA AfterEnd ==
    ASSUME NoteEnd,
           inh' = "none", lostC' = FALSE, locks' = 0, holdLeft' = 0,
           graceTimer' = NoTimer, graceC' = NoTimer
    PROVE  CtlInv'
<1>1. inh' \in {"none", "fd", "sudo"} /\ lostC' \in BOOLEAN /\ failing' \in BOOLEAN
  BY DEF NoteEnd
<1>2. graceTimer' \in TimerValue /\ graceC' \in TimerValue
  BY NoTimerIsTimerValue
<1>3. /\ holdLeft' \in 0 .. ResumeGrace /\ locks' \in Nat
      /\ failAge' \in 0 .. Grace /\ wakeAge' \in 0 .. ResumeGrace
      /\ holdLeft' >= ResumeGrace - wakeAge'
  BY GraceAssumption, ResumeGraceAssumption DEF NoteEnd
<1>4. LockTracksInhibitor' /\ TimerCoversPromises' /\ HoldCoversResume'
  BY <1>3 DEF LockTracksInhibitor, TimerCoversPromises, HoldCoversResume, Armed, Releasing
<1> QED BY <1>1, <1>2, <1>3, <1>4 DEF CtlInv, CtlTypeOK

\* Every other step gives the block up or loses it.
LEMMA EndKeepsInv ==
    ASSUME CtlInv,
           \/ OnGraceExpired /\ UNCHANGED auxVars
           \/ InhibitorDies /\ UNCHANGED auxVars
           \/ Stop /\ NoteEnd
           \/ Die /\ NoteEnd
    PROVE  CtlInv'
<1> USE GraceAssumption, ResumeGraceAssumption DEF CtlInv
<1>0. NoTimer \in TimerValue
  BY NoTimerIsTimerValue
<1>1. CASE OnGraceExpired /\ UNCHANGED auxVars
  <2>1. locks' = 0 /\ inh' = "none" /\ lostC' = FALSE
    BY <1>1, ReleaseFacts DEF OnGraceExpired
  <2> QED
    BY <1>0, <1>1, <2>1 DEF OnGraceExpired, CancelGrace, auxVars, CtlTypeOK,
            LockTracksInhibitor, TimerCoversPromises, HoldCoversResume, Armed, Releasing
<1>2. CASE InhibitorDies /\ UNCHANGED auxVars
  <2>1. locks' = 0 /\ lostC' = TRUE /\ inh = "sudo"
    BY <1>2 DEF InhibitorDies, LockTracksInhibitor, Armed
  <2> QED
    BY <1>2, <2>1 DEF InhibitorDies, auxVars, CtlTypeOK, LockTracksInhibitor,
                      TimerCoversPromises, HoldCoversResume, Armed, Releasing
<1>3. CASE Stop /\ NoteEnd
  <2>1. locks' = 0 /\ inh' = "none" /\ lostC' = FALSE
    BY <1>3, ReleaseFacts DEF Stop
  <2> QED BY <1>0, <1>3, <2>1, AfterEnd DEF Stop, CancelGrace
<1>4. CASE Die /\ NoteEnd
  BY <1>0, <1>4, AfterEnd DEF Die, CancelGrace
<1> QED BY <1>1, <1>2, <1>3, <1>4

LEMMA StutterKeepsInv == CtlInv /\ UNCHANGED <<ctlVars, auxVars>> => CtlInv'
BY DEF ctlVars, auxVars, CtlInv, CtlTypeOK, LockTracksInhibitor, TimerCoversPromises,
       HoldCoversResume, Armed, Releasing

LEMMA StepKeepsInv == CtlInv /\ [CtlNext]_<<ctlVars, auxVars>> => CtlInv'
BY PassKeepsInv, FailKeepsInv, ResumeKeepsInv, TickKeepsInv, EndKeepsInv, StutterKeepsInv
   DEF CtlNext

\* The inductive invariant holds throughout, whatever verdicts, resumes,
\* ticks and deaths come and in whatever order.
THEOREM ControllerInvariant == CtlSpec => []CtlInv
BY CtlInitInv, StepKeepsInv, PTL DEF CtlSpec, AloneInit

(***************************************************************************)
(* The controller's variables keep their types: the number of locks never  *)
(* goes below zero, so no release hands back a lock twice.                 *)
(***************************************************************************)
THEOREM ControllerTypes == CtlSpec => []CtlTypeOK
<1>1. CtlInv => CtlTypeOK
  BY DEF CtlInv
<1> QED BY <1>1, ControllerInvariant, PTL

(***************************************************************************)
(* Every lock logind holds is the one the controller will release.         *)
(***************************************************************************)
THEOREM NoLockLeaks == CtlSpec => []LockTracksInhibitor
<1>1. CtlInv => LockTracksInhibitor
  BY DEF CtlInv
<1> QED BY <1>1, ControllerInvariant, PTL

(***************************************************************************)
(* A running grace timer reaches to the end of the grace period and of the *)
(* hold after the last resume, in whatever order they came.                *)
(***************************************************************************)
THEOREM TimerIsLongEnough == CtlSpec => []TimerCoversPromises
<1>1. CtlInv => TimerCoversPromises
  BY DEF CtlInv
<1> QED BY <1>1, ControllerInvariant, PTL

-----------------------------------------------------------------------------
(***************************************************************************)
(* The other half: the timer is no longer than it has to be.  This needs   *)
(* that the hold is no longer than the resume made it, and that an armed   *)
(* controller whose check fails has its timer running already: only so     *)
(* does a second failing check find one and leave it alone.                *)
(***************************************************************************)
HoldIsNoLonger == holdLeft <= ResumeGrace - wakeAge

FailingIsReleasing == Armed /\ failing => Releasing

ShortInv == TimerIsNoLonger /\ HoldIsNoLonger /\ FailingIsReleasing

\* A tick on a countdown that ends no later than an age reaches its limit.
LEMMA StillEnds ==
    ASSUME NEW limit \in Nat, NEW age \in 0 .. limit, NEW left \in Nat,
           left <= limit - age
    PROVE  Down(left) <= limit - (IF age < limit THEN age + 1 ELSE age)
BY DEF Down

LEMMA InitShort == CtlInit /\ AuxInit => ShortInv
BY ResumeGraceAssumption DEF CtlInit, AuxInit, ShortInv, TimerIsNoLonger, HoldIsNoLonger,
   FailingIsReleasing, Armed, Releasing

\* A first failure starts a timer that ends with the grace period or the hold.
LEMMA FailKeepsShort == CtlInv /\ ShortInv /\ OnFail /\ NoteFail => ShortInv'
<1> SUFFICES ASSUME CtlInv, ShortInv, OnFail, NoteFail PROVE ShortInv'
  OBVIOUS
<1> DEFINE grace == Longer(Grace, holdLeft)
<1> USE GraceAssumption, ResumeGraceAssumption
<1>1. /\ failing' /\ failAge' = (IF failing THEN failAge ELSE 0)
      /\ UNCHANGED <<wakeAge, holdLeft>>
  BY DEF OnFail, NoteFail
<1>2. HoldIsNoLonger'
  BY <1>1 DEF ShortInv, HoldIsNoLonger
<1>3. CASE (~Armed \/ Releasing) /\ UNCHANGED <<inh, graceTimer>>
  BY <1>1, <1>2, <1>3 DEF ShortInv, TimerIsNoLonger, FailingIsReleasing, CtlInv,
                          TimerCoversPromises, Releasing, Armed
<1>4. CASE Armed /\ ~Releasing /\ Release /\ UNCHANGED graceTimer
  BY <1>2, <1>4 DEF ShortInv, TimerIsNoLonger, FailingIsReleasing, Release, Releasing, Armed
<1>5. CASE Armed /\ ~Releasing /\ StartGrace(grace) /\ UNCHANGED inh
  <2>1. failAge' = 0
    BY <1>1, <1>5 DEF ShortInv, FailingIsReleasing
  <2>2. graceTimer' = grace /\ grace # NoTimer
    BY <1>5, LongerIsTimerValue DEF StartGrace, CtlInv, CtlTypeOK
  <2>3. grace <= Longer(Grace - failAge', ResumeGrace - wakeAge')
    BY <1>1, <2>1 DEF Longer, CtlInv, CtlTypeOK, ShortInv, HoldIsNoLonger
  <2> QED BY <1>2, <2>2, <2>3 DEF ShortInv, TimerIsNoLonger, FailingIsReleasing, Releasing
<1> QED BY <1>3, <1>4, <1>5 DEF OnFail

\* A resume during the grace period starts it over.
LEMMA ResumeKeepsShort == CtlInv /\ ShortInv /\ OnResume /\ NoteResume => ShortInv'
<1> SUFFICES ASSUME CtlInv, ShortInv, OnResume, NoteResume PROVE ShortInv'
  OBVIOUS
<1> DEFINE grace == Longer(Grace, ResumeGrace)
<1> USE GraceAssumption, ResumeGraceAssumption
<1>1. /\ holdLeft' = ResumeGrace /\ wakeAge' = 0 /\ failAge \in Nat
      /\ UNCHANGED <<inh, failing, failAge>>
  BY DEF OnResume, NoteResume, CtlInv, CtlTypeOK
<1>2. HoldIsNoLonger'
  BY <1>1 DEF HoldIsNoLonger
<1>3. CASE Releasing
  <2>1. graceTimer' = grace /\ grace # NoTimer
    BY <1>3, LongerIsTimerValue DEF OnResume, StartGrace
  <2>2. \/ grace <= Longer(Grace - failAge', ResumeGrace - wakeAge')
        \/ wakeAge' <= failAge' /\ grace <= Grace - wakeAge'
    BY <1>1 DEF Longer
  <2> QED BY <1>2, <2>1, <2>2 DEF ShortInv, TimerIsNoLonger, FailingIsReleasing, Releasing
<1>4. CASE ~Releasing
  BY <1>1, <1>2, <1>4 DEF OnResume, ShortInv, TimerIsNoLonger, FailingIsReleasing, Releasing,
                          Armed
<1> QED BY <1>3, <1>4

\* Timer, hold and ages move together.
LEMMA TickKeepsShort == CtlInv /\ ShortInv /\ ClockTick /\ NoteTick => ShortInv'
<1> SUFFICES ASSUME CtlInv, ShortInv, ClockTick, NoteTick PROVE ShortInv'
  OBVIOUS
<1> USE GraceAssumption, ResumeGraceAssumption
<1>1. /\ graceTimer' = Down(graceTimer) /\ holdLeft' = Down(holdLeft)
      /\ failAge' = (IF failAge < Grace THEN failAge + 1 ELSE failAge)
      /\ wakeAge' = (IF wakeAge < ResumeGrace THEN wakeAge + 1 ELSE wakeAge)
      /\ UNCHANGED <<inh, failing>>
  BY DEF ClockTick, NoteTick
<1>2. /\ holdLeft \in Nat /\ failAge \in 0 .. Grace /\ wakeAge \in 0 .. ResumeGrace
      /\ graceTimer \in TimerValue
  BY DEF CtlInv, CtlTypeOK
<1>3. HoldIsNoLonger'
  BY <1>1, <1>2, StillEnds DEF ShortInv, HoldIsNoLonger
<1>4. CASE ~Releasing
  <2>1. ~Releasing'
    BY <1>1, <1>2, <1>4, DownFacts DEF Releasing
  <2> QED BY <1>1, <1>3, <1>4, <2>1 DEF ShortInv, TimerIsNoLonger, FailingIsReleasing, Armed
<1>5. CASE Releasing
  <2>1. graceTimer \in Nat
    BY <1>2, <1>5 DEF Releasing, TimerValue, NoTimer
  <2>2. Releasing'
    BY <1>1, <1>2, <1>5, DownFacts DEF Releasing
  <2>3. CASE graceTimer <= Longer(Grace - failAge, ResumeGrace - wakeAge)
    <3>1. CASE graceTimer <= Grace - failAge
      <4>1. graceTimer' <= Grace - failAge'
        BY <1>1, <1>2, <2>1, <3>1, StillEnds
      <4> QED BY <1>1, <1>2, <1>3, <2>1, <2>2, <4>1 DEF ShortInv, TimerIsNoLonger,
                FailingIsReleasing, Longer, Down
    <3>2. CASE graceTimer <= ResumeGrace - wakeAge
      <4>1. graceTimer' <= ResumeGrace - wakeAge'
        BY <1>1, <1>2, <2>1, <3>2, StillEnds
      <4> QED BY <1>1, <1>2, <1>3, <2>1, <2>2, <4>1 DEF ShortInv, TimerIsNoLonger,
                FailingIsReleasing, Longer, Down
    <3> QED BY <2>3, <3>1, <3>2 DEF Longer
  <2>4. CASE wakeAge <= failAge /\ graceTimer <= Grace - wakeAge
    <3>1. \/ graceTimer' <= Grace - failAge'
          \/ wakeAge' <= failAge' /\ graceTimer' <= Grace - wakeAge'
      BY <1>1, <1>2, <2>1, <2>4 DEF Down
    <3> QED BY <1>1, <1>2, <1>3, <2>1, <2>2, <3>1 DEF ShortInv, TimerIsNoLonger,
                FailingIsReleasing, Longer, Down
  <2> QED BY <1>5, <2>3, <2>4 DEF ShortInv, TimerIsNoLonger
<1> QED BY <1>4, <1>5

LEMMA StepKeepsShort ==
    CtlInv /\ ShortInv /\ [CtlNext]_<<ctlVars, auxVars>> => ShortInv'
<1> SUFFICES ASSUME CtlInv, ShortInv, [CtlNext]_<<ctlVars, auxVars>> PROVE ShortInv'
  OBVIOUS
<1> USE ResumeGraceAssumption
    DEF ShortInv, TimerIsNoLonger, HoldIsNoLonger, FailingIsReleasing, Releasing, Armed
<1>1. CASE OnPass /\ NotePass
  BY <1>1 DEF OnPass, NotePass, CancelGrace
<1>2. CASE OnFail /\ NoteFail
  BY <1>2, FailKeepsShort
<1>3. CASE OnResume /\ NoteResume
  BY <1>3, ResumeKeepsShort
<1>4. CASE OnGraceExpired /\ UNCHANGED auxVars
  BY <1>4 DEF OnGraceExpired, CancelGrace, Release, auxVars
<1>5. CASE ClockTick /\ NoteTick
  BY <1>5, TickKeepsShort
<1>6. CASE InhibitorDies /\ UNCHANGED auxVars
  BY <1>6 DEF InhibitorDies, auxVars
<1>7. CASE (Stop \/ Die) /\ NoteEnd
  BY <1>7 DEF Stop, Die, NoteEnd, CancelGrace, Release
<1>8. CASE UNCHANGED <<ctlVars, auxVars>>
  BY <1>8 DEF ctlVars, auxVars
<1> QED BY <1>1, <1>2, <1>3, <1>4, <1>5, <1>6, <1>7, <1>8 DEF CtlNext

(***************************************************************************)
(* A grace timer runs to the later end of the grace period and the hold    *)
(* and no further, however many checks fail meanwhile, unless a resume     *)
(* after the first failure has started the grace period over.              *)
(***************************************************************************)
THEOREM TimerIsNotTooLong == CtlSpec => []TimerIsNoLonger
<1>1. AloneInit => ShortInv
  BY InitShort DEF AloneInit
<1>2. CtlInv /\ ShortInv /\ [CtlNext]_<<ctlVars, auxVars>> => ShortInv'
  BY StepKeepsShort
<1>3. ShortInv => TimerIsNoLonger
  BY DEF ShortInv
<1> QED BY <1>1, <1>2, <1>3, ControllerInvariant, PTL DEF CtlSpec

-----------------------------------------------------------------------------
(***************************************************************************)
(* WhenController implements ConditionalBlock                              *)
(***************************************************************************)

\* A countdown at its end has covered the limit.
LEMMA EndReached ==
    ASSUME NEW limit \in Nat, NEW age \in Nat, 0 >= limit - age
    PROVE  age >= limit
OBVIOUS

LEMMA PromiseInit == CtlInit /\ AuxInit => Promise!Init
BY DEF CtlInit, AuxInit, Promise!Init, Armed

\* The block is armed, and the failure noted, after a passing check.
LEMMA PassIsPass == CtlInv /\ OnPass /\ NotePass => Promise!Pass
BY DEF OnPass, NotePass, Acquire, Promise!Pass, Armed

\* A failing check releases at once only when nothing was promised.
LEMMA FailIsFail == CtlInv /\ OnFail /\ NoteFail => Promise!Fail
<1> SUFFICES ASSUME CtlInv, OnFail, NoteFail PROVE Promise!Fail
  OBVIOUS
<1>1. CASE UNCHANGED inh
  BY <1>1 DEF NoteFail, Promise!Fail, Armed
<1>2. CASE Release /\ Longer(Grace, holdLeft) = 0
  <2>1. Grace = 0 /\ holdLeft = 0
    <3>1. Grace \in Nat /\ holdLeft \in Nat
      BY GraceAssumption, ResumeGraceAssumption DEF CtlInv, CtlTypeOK
    <3> QED BY <1>2, <3>1 DEF Longer
  <2>2. wakeAge \in Nat /\ ResumeGrace \in Nat /\ 0 >= ResumeGrace - wakeAge
    BY <2>1, ResumeGraceAssumption DEF CtlInv, CtlTypeOK, HoldCoversResume
  <2>3. wakeAge' = wakeAge /\ wakeAge >= ResumeGrace
    BY <2>2, EndReached DEF NoteFail
  <2>4. failing' = TRUE /\ failAge' >= Grace
    BY <2>1 DEF NoteFail, CtlInv, CtlTypeOK
  <2>5. Promise!Due'
    BY <2>3, <2>4 DEF Promise!Due
  <2> QED BY <1>2, <2>5 DEF NoteFail, Release, Promise!Fail, Armed
<1> QED BY <1>1, <1>2 DEF OnFail

\* The grace timer fires only when both promises are over.
LEMMA ExpiryIsRelease ==
    ASSUME CtlInv, OnGraceExpired, UNCHANGED auxVars
    PROVE  Promise!Release
<1>1. graceTimer = 0 /\ Releasing
  BY DEF CtlInv, TimerCoversPromises, OnGraceExpired, Releasing, NoTimer
<1>2. failing /\ 0 >= Grace - failAge /\ 0 >= ResumeGrace - wakeAge
  BY <1>1 DEF CtlInv, TimerCoversPromises
<1>3. /\ Grace \in Nat /\ failAge \in Nat
      /\ ResumeGrace \in Nat /\ wakeAge \in Nat
  BY GraceAssumption, ResumeGraceAssumption DEF CtlInv, CtlTypeOK
<1>4. Promise!Due
  BY <1>2, <1>3, EndReached DEF Promise!Due
<1> QED BY <1>4 DEF Promise!Release, OnGraceExpired, Release, auxVars, Armed

\* Every step of the controller is a step of the promise, or none at all.
LEMMA StepRefines ==
    CtlInv /\ [CtlNext]_<<ctlVars, auxVars>> => [Promise!Next]_Promise!vars
<1> SUFFICES ASSUME CtlInv, [CtlNext]_<<ctlVars, auxVars>>
             PROVE  Promise!Next \/ UNCHANGED Promise!vars
  OBVIOUS
<1>1. CASE OnPass /\ NotePass
  BY <1>1, PassIsPass DEF Promise!Next
<1>2. CASE OnFail /\ NoteFail
  BY <1>2, FailIsFail DEF Promise!Next
<1>3. CASE OnResume /\ NoteResume
  BY <1>3 DEF OnResume, NoteResume, Promise!Resume, Promise!Next, Armed
<1>4. CASE OnGraceExpired /\ UNCHANGED auxVars
  BY <1>4, ExpiryIsRelease DEF Promise!Next
<1>5. CASE ClockTick /\ NoteTick
  BY <1>5 DEF ClockTick, NoteTick, Promise!Tick, Promise!Next, Armed
<1>6. CASE InhibitorDies /\ UNCHANGED auxVars
  BY <1>6 DEF InhibitorDies, auxVars, Promise!vars, Armed
<1>7. CASE Stop /\ NoteEnd
  BY <1>7 DEF Stop, Release, NoteEnd, Promise!Drop, Promise!Next, Armed
<1>8. CASE Die /\ NoteEnd
  BY <1>8 DEF Die, NoteEnd, Promise!Drop, Promise!Next, Armed
<1>9. CASE UNCHANGED <<ctlVars, auxVars>>
  BY <1>9 DEF ctlVars, auxVars, Promise!vars, Armed
<1> QED BY <1>1, <1>2, <1>3, <1>4, <1>5, <1>6, <1>7, <1>8, <1>9 DEF CtlNext

(***************************************************************************)
(* For every grace period and every length of the hold, the controller     *)
(* gives its block up only when the checks have been failing for the whole *)
(* grace period and the last resume it handled is over, or with the whole  *)
(* process.                                                                *)
(***************************************************************************)
THEOREM ControllerKeepsPromise == CtlSpec => KeepsPromise
BY PromiseInit, StepRefines, ControllerInvariant, PTL DEF CtlSpec, AloneInit, KeepsPromise, Promise!Spec

=============================================================================
