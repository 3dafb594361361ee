----------------------------- MODULE HeldBlock -----------------------------
(***************************************************************************)
(* What every kind of block promises, whatever starts it and whatever ends *)
(* it: once somebody may have been told of it there is a lock, which stays *)
(* until the block has a reason to end, and which is not taken again after *)
(* that.  The lock alone may go early, when somebody kills the child that  *)
(* holds it; and the process may die of a signal, at any time.             *)
(*                                                                         *)
(* BlockDaemon and EventBlock implement this specification.                *)
(***************************************************************************)

VARIABLES
    stage,     \* of the block
    lock,      \* logind has the lock
    killed,    \* somebody has killed the child
    reason     \* there is a reason to end; it may come and go

vars == <<stage, lock, killed, reason>>

TypeOK ==
    /\ stage \in {"before", "on", "over", "perished"}
    /\ lock \in BOOLEAN /\ killed \in BOOLEAN /\ reason \in BOOLEAN

Init ==
    /\ stage = "before"
    /\ lock = FALSE
    /\ killed = FALSE
    /\ reason \in BOOLEAN

Stays == stage' = stage

\* What is held may go, and nothing is taken.
NothingTaken == lock' => lock

\* The lock comes and goes while a block is made.
Prepare ==
    /\ stage = "before" /\ Stays
    /\ lock' \in BOOLEAN

\* A start that fails.
Abandon ==
    /\ stage = "before" /\ stage' = "over"
    /\ NothingTaken

\* The block is there for everybody to see.
Announce ==
    /\ stage = "before" /\ stage' = "on"
    /\ lock \/ killed
    /\ lock' = lock

\* The lock stays as long as its child.
Serve ==
    /\ stage = "on" /\ Stays
    /\ NothingTaken
    /\ lock /\ ~lock' => killed'

\* The lock is given back after this.
End ==
    /\ stage = "on" /\ stage' = "over"
    /\ reason
    /\ lock' = lock

\* The process dies of a signal.
Perish ==
    /\ stage # "perished" /\ stage' = "perished"
    /\ lock' = lock

Clear ==
    /\ stage \in {"over", "perished"} /\ Stays
    /\ NothingTaken

Next ==
    /\ Prepare \/ Abandon \/ Announce \/ Serve \/ End \/ Perish \/ Clear
    /\ killed' \in BOOLEAN /\ (killed => killed')
    /\ reason' \in BOOLEAN

Spec == Init /\ [][Next]_vars

=============================================================================
