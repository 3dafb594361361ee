-------------------------- MODULE ConditionalBlock --------------------------
(***************************************************************************)
(* What `block-sleep when` promises about its block, with no inhibitor, no *)
(* timer and no process in sight.                                          *)
(*                                                                         *)
(* The block is taken by a check that passes.  It is given up only when    *)
(* the checks have been failing for at least Grace ticks and the last      *)
(* resume from suspend is at least ResumeGrace ticks old, or when the      *)
(* watcher itself goes away, which forgets everything.                     *)
(***************************************************************************)
EXTENDS Naturals

CONSTANTS
    Grace,        \* --grace, in ticks
    ResumeGrace   \* how long a resume holds the block, in ticks

VARIABLES
    blocking,     \* the block is held
    failing,      \* the last check failed, or there was none yet
    failAge,      \* ticks since the checks started to fail, at most Grace
    wakeAge       \* ticks since the last resume, at most ResumeGrace

vars == <<blocking, failing, failAge, wakeAge>>

Init ==
    /\ blocking = FALSE
    /\ failing = TRUE
    /\ failAge = 0
    /\ wakeAge = ResumeGrace

Tick ==
    /\ failAge' = IF failAge < Grace THEN failAge + 1 ELSE failAge
    /\ wakeAge' = IF wakeAge < ResumeGrace THEN wakeAge + 1 ELSE wakeAge
    /\ UNCHANGED <<blocking, failing>>

Pass ==
    /\ blocking' = TRUE
    /\ failing' = FALSE
    /\ UNCHANGED <<failAge, wakeAge>>

\* The grace period has run out and no resume is recent.
Due == failing /\ failAge >= Grace /\ wakeAge >= ResumeGrace

\* A check fails.  With nothing left to wait for it may release at once.
Fail ==
    /\ failing' = TRUE
    /\ failAge' = IF failing THEN failAge ELSE 0
    /\ UNCHANGED wakeAge
    /\ \/ UNCHANGED blocking
       \/ Due' /\ blocking' = FALSE

Resume ==
    /\ wakeAge' = 0
    /\ UNCHANGED <<blocking, failing, failAge>>

Release ==
    /\ Due
    /\ blocking' = FALSE
    /\ UNCHANGED <<failing, failAge, wakeAge>>

\* The watcher exits, is killed or loses its inhibitor.
Drop ==
    /\ blocking' = FALSE
    /\ failing' = TRUE
    /\ failAge' = 0
    /\ wakeAge' = ResumeGrace

Next == Tick \/ Pass \/ Fail \/ Resume \/ Release \/ Drop

Spec == Init /\ [][Next]_vars

=============================================================================
