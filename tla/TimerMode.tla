----------------------------- MODULE TimerMode -----------------------------
(***************************************************************************)
(* TimerMode (modes.go), the mode of `block-sleep for` and `until`: a      *)
(* timer and, for every call of Run, a goroutine that receives from the    *)
(* timer in m.timer and then closes the channel that Run returned.         *)
(*                                                                         *)
(* The goroutine reads the field m.timer when it first runs, not when Run  *)
(* starts it, so a Reload can come in between.  The read is not            *)
(* synchronised with the write in Run; on the machines Go runs on it gives *)
(* a pointer that was there at some moment since its Run, and each of      *)
(* those is a step of GoReads.                                             *)
(*                                                                         *)
(* A timer is what is left of it in ticks; its channel yields one value.   *)
(* This module has no specification of its own: BlockDaemon composes it.   *)
(***************************************************************************)
EXTENDS Integers, Sequences

VARIABLES
    left,       \* of each timer made so far: ticks to its value, or Off
    waitsOn,    \* of each goroutine: the timer it receives from, or Unread
    closed,     \* of each Run: its channel is closed
    failed,     \* the last Reload returned a channel that is closed already
    late        \* auxiliary: a Reload came before a goroutine read m.timer

timerVars == <<left, waitsOn, closed, failed, late>>

Off == -1       \* stopped, or its value was received
Unread == 0

Runs == Len(left)

\* The current timer, m.timer.
Current == Runs

TimerTypeOK ==
    /\ left \in Seq(Nat \cup {Off})
    /\ waitsOn \in Seq(Nat) /\ Len(waitsOn) = Runs
    /\ \A k \in 1 .. Runs : waitsOn[k] \in {Unread} \cup (k .. Runs)
    /\ closed \in Seq(BOOLEAN) /\ Len(closed) = Runs
    /\ failed \in BOOLEAN /\ late \in BOOLEAN

TimerInit ==
    /\ left = <<>>
    /\ waitsOn = <<>>
    /\ closed = <<>>
    /\ failed = FALSE
    /\ late = FALSE

\* Variant: the loop goes on selecting on the channel of the first Run.
DoneOfFirstRun == Runs > 0 /\ closed[1]

\* The channel the loop selects on, the last one Run or Reload returned.
Done == Runs > 0 /\ (failed \/ closed[Runs])

\* Run, with d ticks to m.endTime, on the timers ts that there are.
RunOn(ts, d) ==
    /\ left' = Append(ts, d)
    /\ waitsOn' = Append(waitsOn, Unread)
    /\ closed' = Append(closed, FALSE)
    /\ failed' = FALSE

Run(d) == RunOn(left, d) /\ UNCHANGED late

NoteLate == late' = (late \/ \E k \in 1 .. Runs : waitsOn[k] = Unread)

\* Variant: the timer runs again to the end time it had.
ReloadToOldEnd(d) ==
    /\ RunOn([left EXCEPT ![Current] = Off], left[Current])
    /\ NoteLate

\* Variant: the timer is stopped and the channel of the run before is kept.
ReloadStopsOnly(d) ==
    /\ left' = [left EXCEPT ![Current] = Off]
    /\ UNCHANGED <<waitsOn, closed, failed>>
    /\ NoteLate

\* Reload, when the state file says that d ticks are left.
Reload(d) ==
    /\ RunOn([left EXCEPT ![Current] = Off], d)
    /\ NoteLate

\* Reload, when the state file cannot be read.
ReloadFails ==
    /\ failed' = TRUE
    /\ UNCHANGED <<left, waitsOn, closed, late>>

\* The goroutine of the k-th Run evaluates m.timer.C.
GoReads(k) ==
    /\ waitsOn[k] = Unread
    /\ waitsOn' = [waitsOn EXCEPT ![k] = Current]
    /\ UNCHANGED <<left, closed, failed, late>>

\* It receives the timer's value, which nobody else can receive then, and
\* closes its channel.
GoFires(k) ==
    /\ waitsOn[k] # Unread /\ ~closed[k]
    /\ left[waitsOn[k]] = 0
    /\ left' = [left EXCEPT ![waitsOn[k]] = Off]
    /\ closed' = [closed EXCEPT ![k] = TRUE]
    /\ UNCHANGED <<waitsOn, failed, late>>

CountDown(n) == IF n > 0 THEN n - 1 ELSE n

\* time.Timer, on the monotonic clock.
TimersTick ==
    /\ left' = [t \in 1 .. Runs |-> CountDown(left[t])]
    /\ UNCHANGED <<waitsOn, closed, failed, late>>

=============================================================================
