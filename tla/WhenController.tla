--------------------------- MODULE WhenController ---------------------------
(***************************************************************************)
(* whenController (when.go) and the inhibitors it holds (inhibit.go): take *)
(* the block when a check passes, keep it for a grace period after a check *)
(* fails, and for resumeGrace after a resume from suspend.                 *)
(*                                                                         *)
(* Deadlines are relative: graceTimer, graceC and holdLeft are the ticks   *)
(* left, so time needs no bound.  A tick is any fixed slice of Go's        *)
(* monotonic clock, which stands still during suspend.                     *)
(***************************************************************************)
EXTENDS Integers

CONSTANTS
    Grace,        \* --grace, in ticks
    ResumeGrace   \* resumeGrace, in ticks

\* timings() rejects a negative grace; resumeGrace is two minutes.
ASSUME GraceAssumption == Grace \in Nat
ASSUME ResumeGraceAssumption == ResumeGrace \in Nat \ {0}

VARIABLES
    inh,          \* c.inh: "none" (nil), an "fd" from logind, or a "sudo" process
    graceTimer,   \* c.graceTimer: NoTimer (nil) or the ticks until it fires
    graceC,       \* c.graceC, the channel the event loop selects on
    holdLeft,     \* time.Until(c.holdUntil), at least 0
    lostC,        \* the sudo inhibitor's done channel is closed
    locks         \* block locks logind holds for this watcher

ctlVars == <<inh, graceTimer, graceC, holdLeft, lostC, locks>>

(***************************************************************************)
(* Auxiliary variables: what the checks and the resumes were, recorded     *)
(* beside the code and never read by it.                                   *)
(***************************************************************************)
VARIABLES
    failing,      \* the last check failed, or there was none yet
    failAge,      \* ticks since the checks started to fail, at most Grace
    wakeAge       \* ticks since the last resume was handled, at most ResumeGrace

auxVars == <<failing, failAge, wakeAge>>

NoTimer == -1

Longer(a, b) == IF a >= b THEN a ELSE b

TimerValue == NoTimer .. Longer(Grace, ResumeGrace)

Armed == inh # "none"

Releasing == graceTimer # NoTimer

CtlTypeOK ==
    /\ inh \in {"none", "fd", "sudo"}
    /\ graceTimer \in TimerValue
    /\ graceC \in TimerValue
    /\ holdLeft \in 0 .. ResumeGrace
    /\ lostC \in BOOLEAN
    /\ locks \in Nat
    /\ failing \in BOOLEAN
    /\ failAge \in 0 .. Grace
    /\ wakeAge \in 0 .. ResumeGrace

CtlInit ==
    /\ inh = "none"
    /\ graceTimer = NoTimer
    /\ graceC = NoTimer
    /\ holdLeft = 0
    /\ lostC = FALSE
    /\ locks = 0

AuxInit ==
    /\ failing = TRUE
    /\ failAge = 0
    /\ wakeAge = ResumeGrace

-----------------------------------------------------------------------------
(***************************************************************************)
(* The inhibitor                                                           *)
(***************************************************************************)

\* acquireInhibitor: logind hands out a descriptor, or refuses and the sudo
\* fallback outlives its first second.
Acquire ==
    /\ inh' \in {"fd", "sudo"}
    /\ lostC' = FALSE
    /\ locks' = locks + 1

\* Variant: the lock of a process that went first is handed back again.
ReleaseTwice ==
    /\ locks' = IF Armed THEN locks - 1 ELSE locks
    /\ inh' = "none"
    /\ lostC' = FALSE

\* release: the lock goes with the descriptor or the process, unless the
\* process went first.
Release ==
    /\ locks' = IF Armed /\ ~lostC THEN locks - 1 ELSE locks
    /\ inh' = "none"
    /\ lostC' = FALSE

\* systemd-inhibit or its cat dies: the lock is gone and done is closed.
InhibitorDies ==
    /\ inh = "sudo"
    /\ ~lostC
    /\ lostC' = TRUE
    /\ locks' = locks - 1
    /\ UNCHANGED <<inh, graceTimer, graceC, holdLeft>>

-----------------------------------------------------------------------------
(***************************************************************************)
(* The controller's methods                                                *)
(***************************************************************************)

CancelGrace ==
    /\ graceTimer' = NoTimer
    /\ graceC' = NoTimer

StartGrace(d) ==
    /\ graceTimer' = d
    /\ graceC' = d

\* Variant: every passing check acquires.
OnPassAcquiring ==
    /\ CancelGrace
    /\ Acquire
    /\ UNCHANGED holdLeft

\* Variant: a passing check leaves the grace timer running.
OnPassUncancelled ==
    /\ IF Armed THEN UNCHANGED <<inh, lostC, locks>> ELSE Acquire
    /\ UNCHANGED <<graceTimer, graceC, holdLeft>>

\* onResult(true), when no inhibitor is needed or acquire succeeds.
OnPass ==
    /\ CancelGrace
    /\ IF Armed THEN UNCHANGED <<inh, lostC, locks>> ELSE Acquire
    /\ UNCHANGED holdLeft

\* Variant: the hold of a resume is forgotten.
OnFailNoHold ==
    /\ UNCHANGED holdLeft
    /\ \/ /\ ~Armed \/ Releasing
          /\ UNCHANGED <<inh, graceTimer, graceC, lostC, locks>>
       \/ /\ Armed /\ ~Releasing
          /\ StartGrace(Grace)
          /\ UNCHANGED <<inh, lostC, locks>>

\* Variant: every failing check starts the grace period over.
OnFailRestarting ==
    /\ UNCHANGED holdLeft
    /\ LET grace == Longer(Grace, holdLeft) IN
       \/ /\ ~Armed
          /\ UNCHANGED <<inh, graceTimer, graceC, lostC, locks>>
       \/ /\ Armed /\ grace = 0
          /\ Release
          /\ UNCHANGED <<graceTimer, graceC>>
       \/ /\ Armed /\ grace > 0
          /\ StartGrace(grace)
          /\ UNCHANGED <<inh, lostC, locks>>

\* onResult(false): only a first failure while armed starts the grace period.
OnFail ==
    /\ UNCHANGED holdLeft
    /\ LET grace == Longer(Grace, holdLeft) IN
       \/ /\ ~Armed \/ Releasing
          /\ UNCHANGED <<inh, graceTimer, graceC, lostC, locks>>
       \/ /\ Armed /\ ~Releasing /\ grace = 0
          /\ Release
          /\ UNCHANGED <<graceTimer, graceC>>
       \/ /\ Armed /\ ~Releasing /\ grace > 0
          /\ StartGrace(grace)
          /\ UNCHANGED <<inh, lostC, locks>>

\* Variant: a running grace period is left alone.
OnResumeNoRestart ==
    /\ holdLeft' = ResumeGrace
    /\ UNCHANGED <<inh, graceTimer, graceC, lostC, locks>>

\* onResume: a running grace period starts over, as long as the hold at least.
OnResume ==
    /\ holdLeft' = ResumeGrace
    /\ IF Releasing
         THEN StartGrace(Longer(Grace, ResumeGrace))
         ELSE UNCHANGED <<graceTimer, graceC>>
    /\ UNCHANGED <<inh, lostC, locks>>

OnGraceExpired ==
    /\ graceC = 0
    /\ CancelGrace
    /\ Release
    /\ UNCHANGED holdLeft

\* stop, and the end of the process whose memory the rest was.
Stop ==
    /\ CancelGrace
    /\ Release
    /\ holdLeft' = 0

\* The process is killed: the kernel closes the descriptor or the pipe.
Die ==
    /\ CancelGrace
    /\ inh' = "none"
    /\ lostC' = FALSE
    /\ locks' = 0
    /\ holdLeft' = 0

\* One tick of the monotonic clock.
Down(t) == IF t > 0 THEN t - 1 ELSE t

ClockTick ==
    /\ graceTimer' = Down(graceTimer)
    /\ graceC' = Down(graceC)
    /\ holdLeft' = Down(holdLeft)
    /\ UNCHANGED <<inh, lostC, locks>>

-----------------------------------------------------------------------------
(***************************************************************************)
(* What the auxiliary variables record at each of these steps.             *)
(***************************************************************************)

NotePass ==
    /\ failing' = FALSE
    /\ UNCHANGED <<failAge, wakeAge>>

NoteFail ==
    /\ failing' = TRUE
    /\ failAge' = IF failing THEN failAge ELSE 0
    /\ UNCHANGED wakeAge

NoteResume ==
    /\ wakeAge' = 0
    /\ UNCHANGED <<failing, failAge>>

NoteTick ==
    /\ failAge' = IF failAge < Grace THEN failAge + 1 ELSE failAge
    /\ wakeAge' = IF wakeAge < ResumeGrace THEN wakeAge + 1 ELSE wakeAge
    /\ UNCHANGED failing

NoteEnd ==
    /\ failing' = TRUE
    /\ failAge' = 0
    /\ wakeAge' = ResumeGrace

-----------------------------------------------------------------------------
(***************************************************************************)
(* The controller alone, driven by any sequence of verdicts, resumes and   *)
(* ticks.  A refused acquire, a lost inhibitor and a signal end the        *)
(* process (runWhen's exit); a new one starts from CtlInit.                *)
(***************************************************************************)

CtlNext ==
    \/ OnPass /\ NotePass
    \/ OnFail /\ NoteFail
    \/ OnResume /\ NoteResume
    \/ OnGraceExpired /\ UNCHANGED auxVars
    \/ ClockTick /\ NoteTick
    \/ InhibitorDies /\ UNCHANGED auxVars
    \/ Stop /\ NoteEnd
    \/ Die /\ NoteEnd

AloneInit == CtlInit /\ AuxInit

CtlSpec == AloneInit /\ [][CtlNext]_<<ctlVars, auxVars>>

(***************************************************************************)
(* Every lock logind holds for the watcher is the one its controller will  *)
(* release: none is taken twice, none is leaked when the grace timer, a    *)
(* failing check or an exit releases, and none is counted after it died.   *)
(***************************************************************************)
LockTracksInhibitor == locks = IF Armed /\ ~lostC THEN 1 ELSE 0

(***************************************************************************)
(* The grace timer covers both promises.  Whatever verdicts and resumes    *)
(* came, while it runs the block is armed, the last check failed, and the  *)
(* ticks left reach to the end of the grace period and of the hold after   *)
(* the last resume.  The channel the loop waits on is that timer's.        *)
(***************************************************************************)
TimerCoversPromises ==
    /\ graceC = graceTimer
    /\ Releasing =>
        /\ Armed
        /\ failing
        /\ graceTimer >= Grace - failAge
        /\ graceTimer >= ResumeGrace - wakeAge

(***************************************************************************)
(* And it holds nobody up for longer than that: it runs to the later of    *)
(* the two ends and no further, however many failing checks came, unless a *)
(* resume after the first of them has started the grace period over.       *)
(***************************************************************************)
TimerIsNoLonger ==
    Releasing =>
        \/ graceTimer <= Longer(Grace - failAge, ResumeGrace - wakeAge)
        \/ wakeAge <= failAge /\ graceTimer <= Grace - wakeAge

\* The controller keeps the promise of ConditionalBlock.
Promise == INSTANCE ConditionalBlock WITH blocking <- Armed

KeepsPromise == Promise!Spec

=============================================================================
