------------------------------ MODULE WakeHold ------------------------------
(***************************************************************************)
(* The watcher beside a clock that starts at the wake itself, not at the   *)
(* handling of the resume signal.  README.md:116 counts from the wake:     *)
(* "After a wake from suspend the block is held until at least two minutes *)
(* after the wake".                                                        *)
(***************************************************************************)
EXTENDS WhenWatcher

VARIABLE holdDue   \* ticks for which a wake still promises the block

wakeVars == <<vars, holdDue>>

WakeInit == Init /\ holdDue = 0

WakeNext ==
    \/ Wake /\ holdDue' = IF locks = 1 THEN ResumeGrace ELSE 0
    \/ Tick /\ holdDue' = Down(holdDue)
    \/ Next /\ ~Wake /\ ~Tick /\ UNCHANGED holdDue

WakeSpec == WakeInit /\ [][WakeNext]_wakeVars

(***************************************************************************)
(* A block held through a suspend is not released by the grace period      *)
(* before the promise of the wake has run out.  The select of runWhen may  *)
(* take graceC before the resume signal that would have extended it.       *)
(***************************************************************************)
HeldAfterWake ==
    [][locks = 1 /\ locks' = 0 /\ phase' = "loop" /\ ~lostC' => holdDue = 0]_wakeVars

=============================================================================
