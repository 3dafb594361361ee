------------------------- MODULE WhenTriggerProofs -------------------------
(***************************************************************************)
(* Proofs about WhenWatcher's queues, for any capacity of them: the type   *)
(* invariant of the whole watcher, that no trigger is lost, and that a     *)
(* quiet loop has the block the condition asks for.                        *)
(***************************************************************************)
EXTENDS WhenWatcherProofs, SequenceTheorems

-----------------------------------------------------------------------------
(***************************************************************************)
(* The types of the watcher's own variables                                *)
(***************************************************************************)

QueueTypes ==
    /\ sig \in [Bus -> Seq(Signal)]
    /\ osSig \in Seq({"USR1", "TERM"})
    /\ Len(osSig) <= OsSigCap

\* Appending to one queue keeps the type of all.
LEMMA AppendKeepsType ==
    ASSUME sig \in [Bus -> Seq(Signal)], NEW b \in Bus, NEW s \in Signal
    PROVE  [sig EXCEPT ![b] = Append(@, s)] \in [Bus -> Seq(Signal)]
<1>1. Append(sig[b], s) \in Seq(Signal)
  BY AppendProperties
<1> QED BY <1>1

LEMMA DeliverKeepsType ==
    ASSUME sig \in [Bus -> Seq(Signal)], NEW b \in Bus, NEW s \in Signal, Deliver(b, s)
    PROVE  sig' \in [Bus -> Seq(Signal)]
BY AppendKeepsType DEF Deliver

\* Taking from one queue keeps the type of all.
LEMMA TailKeepsType ==
    ASSUME sig \in [Bus -> Seq(Signal)], NEW b \in Bus, sig[b] # <<>>
    PROVE  [sig EXCEPT ![b] = Tail(@)] \in [Bus -> Seq(Signal)]
<1>1. Tail(sig[b]) \in Seq(Signal)
  BY HeadTailProperties
<1> QED BY <1>1

\* The runtime queues a process signal while there is room.
LEMMA NotifyFacts ==
    ASSUME osSig \in Seq({"USR1", "TERM"}), Len(osSig) <= OsSigCap,
           NEW s \in {"USR1", "TERM"}, Notify(s)
    PROVE  /\ osSig' \in Seq({"USR1", "TERM"})
           /\ Len(osSig') <= OsSigCap
           /\ osSig' # <<>>
<1>1. OsSigCap \in Nat /\ OsSigCap > 0 /\ Len(osSig) \in Nat
  BY CapAssumption, LenProperties
<1>2. CASE Len(osSig) < OsSigCap
  <2>1. osSig' = Append(osSig, s)
    BY <1>2 DEF Notify
  <2>2. osSig' \in Seq({"USR1", "TERM"}) /\ Len(osSig') = Len(osSig) + 1 /\ osSig' # <<>>
    BY <2>1, AppendProperties
  <2> QED BY <1>1, <1>2, <2>2
<1>3. CASE ~(Len(osSig) < OsSigCap)
  <2>1. osSig' = osSig
    BY <1>3 DEF Notify
  <2>2. osSig # <<>>
    BY <1>1, <1>3, EmptySeq
  <2> QED BY <2>1, <2>2
<1> QED BY <1>2, <1>3

LEMMA ProcessEndsTypes == ASSUME NEW next, ProcessEnds(next) PROVE QueueTypes'
<1>1. sig' \in [Bus -> Seq(Signal)] /\ osSig' = <<>>
  BY EmptySeq DEF ProcessEnds
<1>2. osSig' \in Seq({"USR1", "TERM"}) /\ Len(osSig') <= OsSigCap
  BY <1>1, EmptySeq, CapAssumption
<1> QED BY <1>1, <1>2 DEF QueueTypes

LEMMA ExitsTypes == ExitFailure \/ ExitClean => QueueTypes'
BY ProcessEndsTypes DEF ExitFailure, ExitClean

LEMMA SystemIsABus == "system" \in Bus
BY DEF Bus

\* Only the steps named here touch a queue.
LEMMA StepKeepsQueueTypes == QueueTypes /\ [Next]_vars => QueueTypes'
<1> SUFFICES ASSUME QueueTypes, [Next]_vars PROVE QueueTypes'
  OBVIOUS
<1>1. CASE UNCHANGED <<sig, osSig>>
  BY <1>1 DEF QueueTypes
<1>2. CASE Process
  BY <1>1, <1>2, ExitsTypes DEF Process, Start, Subscribe, SubscribeFails, EnterLoop
<1>3. CASE Worker
  BY <1>1, <1>3 DEF Worker, TakeTrigger, CheckExits, CheckTimesOut
<1>4. CASE Select
  <2>1. ASSUME NEW b \in Bus, HandleSignal(b) PROVE QueueTypes'
    BY <2>1, TailKeepsType DEF HandleSignal, QueueTypes
  <2>2. CASE HandleRecheck
    <3>1. osSig' = Tail(osSig) /\ osSig # <<>> /\ sig' = sig
      BY <2>2 DEF HandleRecheck
    <3>2. osSig \in Seq({"USR1", "TERM"}) /\ Len(osSig) <= OsSigCap
      BY DEF QueueTypes
    <3>3. /\ Tail(osSig) \in Seq({"USR1", "TERM"}) /\ Len(Tail(osSig)) = Len(osSig) - 1
          /\ Len(osSig) \in Nat /\ OsSigCap \in Nat
      BY <3>1, <3>2, HeadTailProperties, LenProperties, CapAssumption
    <3>4. Len(Tail(osSig)) <= OsSigCap
      BY <3>2, <3>3
    <3> QED BY <3>1, <3>3, <3>4 DEF QueueTypes
  <2>3. CASE HandlePass \/ HandleFail \/ HandleGrace \/ HandleTick
    BY <1>1, <2>3 DEF HandlePass, HandleFail, HandleGrace, HandleTick
  <2>4. CASE HandlePassRefused \/ HandleLost \/ HandleTerm
    BY <2>4, ExitsTypes DEF HandlePassRefused, HandleLost, HandleTerm
  <2>5. ASSUME NEW b \in Bus, HandleBusClosed(b) PROVE QueueTypes'
    BY <2>5, ExitsTypes DEF HandleBusClosed
  <2> QED BY <1>4, <2>1, <2>2, <2>3, <2>4, <2>5 DEF Select
<1>5. CASE World
  <2>1. ASSUME NEW b \in Bus, Announce(b) PROVE QueueTypes'
    BY <2>1, DeliverKeepsType DEF Announce, QueueTypes, Signal
  <2>2. ASSUME NEW b \in Bus, NameSignal(b) PROVE QueueTypes'
    BY <2>2, DeliverKeepsType DEF NameSignal, QueueTypes, Signal
  <2>3. ASSUME NEW b \in Bus, BusCloses(b) PROVE QueueTypes'
    BY <2>3, AppendKeepsType DEF BusCloses, QueueTypes, Signal
  <2>4. CASE Suspend
    BY <2>4, DeliverKeepsType, SystemIsABus DEF Suspend, QueueTypes, Signal
  <2>5. CASE Wake
    BY <2>5, DeliverKeepsType, SystemIsABus DEF Wake, QueueTypes, Signal
  <2>6. CASE RecheckSignals
    <3>1. sig' = sig /\ (Notify("USR1") \/ UNCHANGED osSig)
      BY <2>6 DEF RecheckSignals
    <3> QED BY <1>1, <3>1, NotifyFacts DEF QueueTypes
  <2>7. CASE StopUnit
    BY <2>7, NotifyFacts DEF StopUnit, QueueTypes
  <2>8. CASE ChangeSilently \/ RecheckReads \/ Tick \/ TickerFires \/ SudoDies
    BY <1>1, <2>8 DEF ChangeSilently, RecheckReads, Tick, TickerFires, SudoDies, procVars
  <2>9. CASE StopEarly \/ StopTimesOut \/ Crash
    BY <2>9, ProcessEndsTypes DEF StopEarly, StopTimesOut, Crash
  <2> QED BY <1>5, <2>1, <2>2, <2>3, <2>4, <2>5, <2>6, <2>7, <2>8, <2>9 DEF World
<1>6. CASE UNCHANGED vars
  BY <1>1, <1>6 DEF vars, procVars
<1> QED BY <1>2, <1>3, <1>4, <1>5, <1>6 DEF Next

THEOREM WatcherQueueTypes == Spec => []QueueTypes
<1>1. Init => QueueTypes
  BY EmptySeq, CapAssumption DEF Init, QueueTypes
<1> QED BY <1>1, StepKeepsQueueTypes, PTL DEF Spec

PlainTypes ==
    /\ phase \in {"down", "booting", "subscribed", "loop", "stopped", "failed"}
    /\ worker \in {"idle", "running", "pass", "fail", "timeout"}
    /\ tick \in BOOLEAN /\ trig \in BOOLEAN
    /\ cond \in BOOLEAN /\ asleep \in BOOLEAN /\ stopping \in BOOLEAN
    /\ starts \in 0 .. StartLimit /\ recheck \in 0 .. StartLimit
    /\ owed \in BOOLEAN /\ drift \in BOOLEAN /\ timedOut \in BOOLEAN

LEMMA EndsPlainTypes ==
    ASSUME PlainTypes, UNCHANGED <<cond, asleep, starts, recheck, seenVars>>,
           stopping' \in BOOLEAN,
           NEW next \in {"down", "stopped", "failed"}, ProcessEnds(next)
    PROVE  PlainTypes'
BY DEF PlainTypes, ProcessEnds, seenVars

LEMMA ExitsPlainTypes ==
    ASSUME PlainTypes, UNCHANGED <<envVars, seenVars>>, ExitFailure \/ ExitClean
    PROVE  PlainTypes'
<1>1. AfterFailure \in {"down", "stopped", "failed"}
  BY DEF AfterFailure
<1>2. UNCHANGED <<cond, asleep, starts, recheck>> /\ stopping' \in BOOLEAN
  BY DEF envVars, PlainTypes
<1> QED BY <1>1, <1>2, EndsPlainTypes DEF ExitFailure, ExitClean

LEMMA StepKeepsPlainTypes == PlainTypes /\ [Next]_vars => PlainTypes'
<1> SUFFICES ASSUME PlainTypes, [Next]_vars PROVE PlainTypes'
  OBVIOUS
<1>1. CASE Start
  <2>1. starts' \in 0 .. StartLimit
    BY <1>1, StartLimitAssumption DEF Start, PlainTypes
  <2> QED BY <1>1, <2>1 DEF Start, PlainTypes, seenVars
<1>2. CASE Subscribe \/ EnterLoop
  BY <1>2 DEF Subscribe, EnterLoop, PlainTypes, envVars, seenVars
<1>3. CASE SubscribeFails \/ HandlePassRefused \/ HandleLost \/ HandleTerm
  BY <1>3, ExitsPlainTypes DEF SubscribeFails, HandlePassRefused, HandleLost, HandleTerm
<1>4. ASSUME NEW b \in Bus, HandleBusClosed(b) PROVE PlainTypes'
  BY <1>4, ExitsPlainTypes DEF HandleBusClosed
<1>5. CASE Worker
  BY <1>5 DEF Worker, TakeTrigger, CheckExits, CheckTimesOut, PlainTypes, envVars, seenVars
<1>6. CASE HandlePass \/ HandleFail \/ HandleGrace
  BY <1>6 DEF HandlePass, HandleFail, HandleGrace, PlainTypes, envVars, seenVars
<1>7. ASSUME NEW b \in Bus, HandleSignal(b) PROVE PlainTypes'
  BY <1>7 DEF HandleSignal, Poke, PlainTypes, envVars, seenVars
<1>8. CASE HandleTick \/ HandleRecheck
  BY <1>8 DEF HandleTick, HandleRecheck, Poke, PlainTypes, envVars, seenVars
<1>9. ASSUME NEW b \in Bus, Announce(b) \/ NameSignal(b) \/ BusCloses(b)
      PROVE  PlainTypes'
  <2>1. cond' \in BOOLEAN /\ owed' \in BOOLEAN /\ drift' \in BOOLEAN
    BY <1>9 DEF Announce, NameSignal, BusCloses, Owe, PlainTypes, envVars, seenVars
  <2>2. UNCHANGED <<phase, worker, tick, trig, asleep, stopping, starts, recheck, timedOut>>
    BY <1>9 DEF Announce, NameSignal, BusCloses, envVars, seenVars
  <2> QED BY <2>1, <2>2 DEF PlainTypes
<1>10. CASE ChangeSilently
  <2>1. cond' \in BOOLEAN
    BY <1>10 DEF ChangeSilently
  <2>2. /\ drift' = TRUE
        /\ UNCHANGED <<phase, worker, tick, trig, asleep, stopping, starts, recheck, owed,
                       timedOut>>
    BY <1>10 DEF ChangeSilently, procVars
  <2> QED BY <2>1, <2>2 DEF PlainTypes
<1>11. CASE Suspend \/ Wake
  BY <1>11 DEF Suspend, Wake, Owe, PlainTypes, seenVars
<1>12. CASE RecheckReads \/ RecheckSignals
  <2>1. recheck' \in 0 .. StartLimit
    BY <1>12, StartLimitAssumption DEF RecheckReads, RecheckSignals, PlainTypes
  <2>2. owed' \in BOOLEAN /\ drift' \in BOOLEAN
    BY <1>12 DEF RecheckReads, RecheckSignals, Owe, PlainTypes, seenVars
  <2>3. UNCHANGED <<phase, worker, tick, trig, cond, asleep, stopping, starts, timedOut>>
    BY <1>12 DEF RecheckReads, RecheckSignals, procVars, seenVars
  <2> QED BY <2>1, <2>2, <2>3 DEF PlainTypes
<1>16. CASE StopUnit \/ TickerFires
  BY <1>16 DEF StopUnit, TickerFires, Owe, PlainTypes, envVars, seenVars
<1>13. CASE Tick \/ SudoDies \/ UNCHANGED vars
  BY <1>13 DEF Tick, SudoDies, vars, PlainTypes, procVars, envVars, seenVars
<1>14. CASE StopEarly
  BY <1>14, EndsPlainTypes DEF StopEarly
<1>15. CASE StopTimesOut \/ Crash
  <2>1. AfterFailure \in {"down", "stopped", "failed"}
    BY DEF AfterFailure
  <2>2. UNCHANGED <<cond, asleep, starts, recheck, seenVars>> /\ stopping' \in BOOLEAN
    BY <1>15 DEF StopTimesOut, Crash, envVars, PlainTypes
  <2> QED BY <1>15, <2>1, <2>2, EndsPlainTypes DEF StopTimesOut, Crash
<1> QED
  BY <1>1, <1>2, <1>3, <1>4, <1>5, <1>6, <1>7, <1>8, <1>9, <1>10, <1>11, <1>12, <1>13, <1>14,
     <1>15, <1>16 DEF Next, Process, Select, World

(***************************************************************************)
(* Every variable of the watcher keeps its type.                           *)
(***************************************************************************)
THEOREM WatcherTypes == Spec => []TypeOK
<1>1. Init => PlainTypes
  <2> SUFFICES ASSUME Init PROVE PlainTypes
    OBVIOUS
  <2>1. starts \in 0 .. StartLimit
    BY StartLimitAssumption DEF Init
  <2> QED BY <2>1 DEF Init, PlainTypes
<1>2. CtlInv /\ FileInv /\ QueueTypes /\ PlainTypes => TypeOK
  BY DEF CtlInv, FileInv, QueueTypes, PlainTypes, TypeOK
<1> QED
  BY <1>1, <1>2, StepKeepsPlainTypes, WatcherQueueTypes, WatcherFileInvariant,
     WatcherControllerInvariant, PTL DEF Spec

-----------------------------------------------------------------------------
(***************************************************************************)
(* No trigger is lost                                                      *)
(***************************************************************************)

\* A trigger in a queue stays there when something is appended.
LEMMA AppendKeepsTrigger ==
    ASSUME NEW q \in Seq(Signal), NEW s \in Signal, TriggerWaits(q)
    PROVE  TriggerWaits(Append(q, s))
<1>1. PICK i \in 1 .. Len(q) : IsTrigger(q[i]) \/ q[i] = "closed"
  BY DEF TriggerWaits
<1>2. i \in 1 .. Len(Append(q, s)) /\ Append(q, s)[i] = q[i]
  BY AppendProperties, LenProperties
<1> QED BY <1>1, <1>2 DEF TriggerWaits

\* A trigger that is appended waits.
LEMMA AppendedTriggerWaits ==
    ASSUME NEW q \in Seq(Signal), NEW s \in Signal, IsTrigger(s) \/ s = "closed"
    PROVE  TriggerWaits(Append(q, s))
<1>1. /\ Len(q) + 1 \in 1 .. Len(Append(q, s))
      /\ Append(q, s)[Len(q) + 1] = s
  BY AppendProperties, LenProperties
<1> QED BY <1>1 DEF TriggerWaits

\* Taking the head leaves every trigger but the head itself.
LEMMA TailKeepsTrigger ==
    ASSUME NEW q \in Seq(Signal), q # <<>>, TriggerWaits(q),
           ~IsTrigger(Head(q)), Head(q) # "closed"
    PROVE  TriggerWaits(Tail(q))
<1>1. PICK i \in 1 .. Len(q) : IsTrigger(q[i]) \/ q[i] = "closed"
  BY DEF TriggerWaits
<1>2. Len(q) \in Nat /\ Len(Tail(q)) = Len(q) - 1
  BY HeadTailProperties, LenProperties
<1>3. i # 1
  <2>1. Head(q) = q[1]
    OBVIOUS
  <2> QED BY <1>1, <2>1
<1>4. i - 1 \in 1 .. Len(Tail(q))
  BY <1>2, <1>3
<1>5. Tail(q)[i - 1] = q[i]
  BY <1>2, <1>4, HeadTailProperties
<1> QED BY <1>1, <1>4, <1>5 DEF TriggerWaits

\* A delivery to one bus loses no trigger of any bus.
LEMMA AppendLosesNothing ==
    ASSUME sig \in [Bus -> Seq(Signal)], NEW b \in Bus, NEW s \in Signal,
           sig' = [sig EXCEPT ![b] = Append(@, s)],
           NEW c \in Bus, TriggerWaits(sig[c])
    PROVE  TriggerWaits(sig'[c])
<1>1. CASE c = b
  BY <1>1, AppendKeepsTrigger
<1>2. CASE c # b
  BY <1>2
<1> QED BY <1>1, <1>2

\* After a trigger is delivered to a process that listens, one waits: that one
\* or, on a closed connection, the closing.
LEMMA DeliveredTriggerWaits ==
    ASSUME sig \in [Bus -> Seq(Signal)], NEW b \in Bus, NEW s \in Signal,
           IsTrigger(s), Listening, Deliver(b, s)
    PROVE  TriggerWaits(sig'[b])
<1>1. CASE Open(b)
  <2>1. sig' = [sig EXCEPT ![b] = Append(@, s)]
    BY <1>1 DEF Deliver
  <2> QED BY <2>1, AppendedTriggerWaits
<1>2. CASE ~Open(b)
  BY <1>2 DEF Open, Deliver, TriggerWaits
<1> QED BY <1>1, <1>2

\* A step that leaves the loop, or reaches a state with a check to come.
LEMMA CheckToCome ==
    ASSUME \/ phase' # "loop" \/ ~owed' \/ trig' \/ tick' \/ worker' = "running"
           \/ osSig' # <<>> \/ RecheckComes' \/ \E b \in Bus : TriggerWaits(sig'[b])
    PROVE  NoLostTrigger'
BY DEF NoLostTrigger

\* A step that touches none of what the property is about.
LEMMA NothingTouched ==
    ASSUME NoLostTrigger,
           UNCHANGED <<phase, trig, tick, worker, osSig, sig, recheck, starts, stopping>>,
           owed' => owed
    PROVE  NoLostTrigger'
BY DEF NoLostTrigger, RecheckComes

LEMMA AfterExit == ExitFailure \/ ExitClean => phase' # "loop"
BY AfterFailureIsNoLoop DEF ExitFailure, ExitClean, ProcessEnds

LEMMA ProcessLosesNothing == NoLostTrigger /\ Process => NoLostTrigger'
BY CheckToCome, AfterExit DEF Process, Start, Subscribe, SubscribeFails, EnterLoop

LEMMA WorkerLosesNothing == NoLostTrigger /\ Worker => NoLostTrigger'
BY CheckToCome DEF Worker, TakeTrigger, CheckExits, CheckTimesOut

LEMMA SelectLosesNothing == QueueTypes /\ NoLostTrigger /\ Select => NoLostTrigger'
<1> SUFFICES ASSUME QueueTypes, NoLostTrigger, Select PROVE NoLostTrigger'
  OBVIOUS
<1>1. CASE HandlePass \/ HandleFail
  BY <1>1 DEF HandlePass, HandleFail, NoLostTrigger, RecheckComes, envVars, seenVars
<1>2. CASE HandleGrace
  BY <1>2, NothingTouched DEF HandleGrace, envVars, seenVars
<1>3. ASSUME NEW b \in Bus, HandleSignal(b) PROVE NoLostTrigger'
  <2>1. /\ sig \in [Bus -> Seq(Signal)] /\ sig[b] # <<>> /\ Head(sig[b]) # "closed"
        /\ sig' = [sig EXCEPT ![b] = Tail(@)]
        /\ UNCHANGED <<phase, osSig, tick, worker, owed, recheck, starts, stopping>>
    BY <1>3 DEF HandleSignal, QueueTypes, envVars, seenVars
  <2>2. CASE IsTrigger(Head(sig[b]))
    BY <1>3, <2>2, CheckToCome DEF HandleSignal, Poke
  <2>3. CASE ~IsTrigger(Head(sig[b]))
    <3>1. trig' = trig
      BY <1>3, <2>3 DEF HandleSignal
    <3>2. ASSUME NEW c \in Bus, TriggerWaits(sig[c]) PROVE TriggerWaits(sig'[c])
      <4>1. CASE c = b
        BY <2>1, <2>3, <3>2, <4>1, TailKeepsTrigger
      <4>2. CASE c # b
        BY <2>1, <3>2, <4>2
      <4> QED BY <4>1, <4>2
    <3> QED BY <2>1, <3>1, <3>2 DEF NoLostTrigger, RecheckComes
  <2> QED BY <2>2, <2>3
<1>4. CASE HandleTick \/ HandleRecheck
  BY <1>4, CheckToCome DEF HandleTick, HandleRecheck, Poke
<1>5. CASE HandlePassRefused \/ HandleLost \/ HandleTerm
  BY <1>5, CheckToCome, AfterExit DEF HandlePassRefused, HandleLost, HandleTerm
<1>6. ASSUME NEW b \in Bus, HandleBusClosed(b) PROVE NoLostTrigger'
  BY <1>6, CheckToCome, AfterExit DEF HandleBusClosed
<1> QED BY <1>1, <1>2, <1>3, <1>4, <1>5, <1>6 DEF Select

\* A signal or a suspend that owes nothing disturbs nothing either.
LEMMA DeliveryLosesNothing ==
    ASSUME QueueTypes, NoLostTrigger, NEW b \in Bus, NEW s \in Signal,
           sig' = [sig EXCEPT ![b] = Append(@, s)],
           UNCHANGED <<phase, osSig, tick, trig, worker, owed, recheck, starts, stopping>>
    PROVE  NoLostTrigger'
<1>1. ASSUME NEW c \in Bus, TriggerWaits(sig[c]) PROVE TriggerWaits(sig'[c])
  BY <1>1, AppendLosesNothing DEF QueueTypes
<1> QED BY <1>1 DEF NoLostTrigger, RecheckComes

\* A recheck of a loop reads the PID of that loop, so that its signal is to come.
LEMMA ReadingLosesNothing == FileInv /\ NoLostTrigger /\ RecheckReads => NoLostTrigger'
<1> SUFFICES ASSUME FileInv, NoLostTrigger, RecheckReads, phase = "loop" PROVE NoLostTrigger'
  BY CheckToCome DEF RecheckReads, procVars
<1>1. CASE stopping
  BY <1>1 DEF RecheckReads, procVars, NoLostTrigger, RecheckComes
<1>2. CASE ~stopping
  <2>1. recheck' = starts' /\ ~stopping'
    BY <1>2 DEF RecheckReads, FileInv
  <2> QED BY <2>1, CheckToCome DEF RecheckComes
<1> QED BY <1>1, <1>2

\* A recheck is in osSig when it is no more on its way, or it was not for this loop.
LEMMA SignallingLosesNothing == QueueTypes /\ NoLostTrigger /\ RecheckSignals => NoLostTrigger'
<1> SUFFICES ASSUME QueueTypes, NoLostTrigger, RecheckSignals PROVE NoLostTrigger'
  OBVIOUS
<1>1. UNCHANGED <<phase, trig, tick, worker, sig, owed, starts, stopping>>
  BY DEF RecheckSignals, seenVars
<1>2. CASE phase = "loop" /\ recheck = starts /\ Notify("USR1")
  BY <1>2, NotifyFacts, CheckToCome DEF QueueTypes
<1>3. CASE phase # "loop"
  BY <1>1, <1>3, CheckToCome
<1>4. CASE UNCHANGED osSig /\ ~RecheckComes
  BY <1>1, <1>4 DEF NoLostTrigger
<1> QED BY <1>2, <1>3, <1>4 DEF RecheckSignals, RecheckComes

LEMMA WorldLosesNothing == FileInv /\ QueueTypes /\ NoLostTrigger /\ World => NoLostTrigger'
<1> SUFFICES ASSUME FileInv, QueueTypes, NoLostTrigger, World PROVE NoLostTrigger'
  OBVIOUS
<1>1. ASSUME NEW b \in Bus, Announce(b) PROVE NoLostTrigger'
  <2>1. Deliver(b, "match") /\ phase' = phase
    BY <1>1 DEF Announce
  <2>2. phase = "loop" => TriggerWaits(sig'[b])
    BY <2>1, DeliveredTriggerWaits DEF QueueTypes, Signal, IsTrigger, Listening
  <2> QED BY <2>1, <2>2, CheckToCome
<1>2. ASSUME NEW b \in Bus, NameSignal(b) PROVE NoLostTrigger'
  BY <1>2, DeliveryLosesNothing DEF NameSignal, Deliver, Signal, envVars, seenVars
<1>3. ASSUME NEW b \in Bus, BusCloses(b) PROVE NoLostTrigger'
  BY <1>3, DeliveryLosesNothing DEF BusCloses, Signal, envVars, seenVars
<1>4. CASE Suspend
  <2>1. /\ Deliver("system", "sleep")
        /\ UNCHANGED <<phase, osSig, tick, trig, worker, owed, recheck, starts, stopping>>
    BY <1>4 DEF Suspend, seenVars
  <2>2. CASE UNCHANGED sig
    BY <2>1, <2>2, NothingTouched
  <2>3. CASE sig' = [sig EXCEPT !["system"] = Append(@, "sleep")]
    BY <2>1, <2>3, DeliveryLosesNothing, SystemIsABus DEF Signal
  <2> QED BY <2>1, <2>2, <2>3 DEF Deliver
<1>5. CASE Wake
  <2>1. Deliver("system", "resume") /\ phase' = phase
    BY <1>5 DEF Wake
  <2>2. phase = "loop" => TriggerWaits(sig'["system"])
    BY <2>1, DeliveredTriggerWaits, SystemIsABus DEF QueueTypes, Signal, IsTrigger, Listening
  <2> QED BY <2>1, <2>2, CheckToCome, SystemIsABus
<1>6. CASE RecheckReads
  BY <1>6, ReadingLosesNothing
<1>11. CASE RecheckSignals
  BY <1>11, SignallingLosesNothing
<1>7. CASE StopUnit
  BY <1>7, NotifyFacts, CheckToCome DEF StopUnit, QueueTypes
<1>8. CASE ChangeSilently \/ Tick \/ SudoDies
  BY <1>8, NothingTouched DEF ChangeSilently, Tick, SudoDies, procVars, envVars, seenVars
<1>9. CASE TickerFires
  BY <1>9, CheckToCome DEF TickerFires
<1>10. CASE StopEarly \/ StopTimesOut \/ Crash
  BY <1>10, CheckToCome, AfterFailureIsNoLoop DEF StopEarly, StopTimesOut, Crash, ProcessEnds
<1> QED BY <1>1, <1>2, <1>3, <1>4, <1>5, <1>6, <1>7, <1>8, <1>9, <1>10, <1>11 DEF World

(***************************************************************************)
(* With queues of any capacity and any interleaving of signals, checks,    *)
(* suspends and restarts, something that must cause a check is never       *)
(* forgotten.                                                              *)
(***************************************************************************)
THEOREM WatcherLosesNoTrigger == Spec => []NoLostTrigger
<1>1. Init => NoLostTrigger
  BY DEF Init, NoLostTrigger
<1>2. FileInv /\ QueueTypes /\ NoLostTrigger /\ [Next]_vars => NoLostTrigger'
  <2>1. NoLostTrigger /\ UNCHANGED vars => NoLostTrigger'
    BY NothingTouched DEF vars, procVars, envVars, seenVars
  <2> QED
    BY <2>1, ProcessLosesNothing, WorkerLosesNothing, SelectLosesNothing,
       WorldLosesNothing DEF Next
<1> QED BY <1>1, <1>2, WatcherQueueTypes, WatcherFileInvariant, PTL DEF Spec

-----------------------------------------------------------------------------
(***************************************************************************)
(* A quiet loop has the block the condition asks for                       *)
(***************************************************************************)

\* What the controller has made of the last verdict, and what the last verdict
\* still says of the condition when nothing was announced since.  The last part
\* is what the loop is for: once the check goroutine is idle, with no token, the
\* last verdict is the condition.
SettledInv ==
    /\ phase # "loop" => failing /\ worker = "idle"
    /\ phase = "loop" =>
        /\ ~failing => Armed
        /\ failing /\ Armed => Releasing
    /\ phase = "loop" /\ worker = "timeout" => timedOut
    /\ phase = "loop" /\ ~owed /\ ~drift =>
        /\ worker = "pass" => cond
        /\ worker = "fail" => ~cond
        /\ worker = "idle" /\ ~trig /\ ~timedOut => (cond <=> ~failing)

\* Outside the loop only the first part says anything.
LEMMA EndKeepsSettledInv ==
    ASSUME phase' # "loop", failing' = TRUE, worker' = "idle" PROVE SettledInv'
BY DEF SettledInv

\* Every exit of the process leaves the loop with the controller reset.
LEMMA ExitKeepsSettledInv == ExitFailure \/ ExitClean => SettledInv'
BY AfterExit, EndKeepsSettledInv DEF ExitFailure, ExitClean, ProcessEnds, NoteEnd

\* A step that leaves the controller and the check goroutine alone.
LEMMA OutsideKeepsSettledInv ==
    ASSUME SettledInv, UNCHANGED <<phase, inh, failing, worker, timedOut>>,
           Releasing' <=> Releasing,
           \/ phase # "loop"
           \/ owed' \/ drift'
           \/ UNCHANGED <<cond, owed, drift>> /\ (trig => trig')
    PROVE  SettledInv'
BY DEF SettledInv, Armed

\* A new process enters the loop idle, failing and with a first token.
LEMMA ProcessKeepsSettledInv == FileInv /\ SettledInv /\ Process => SettledInv'
<1> SUFFICES ASSUME FileInv, SettledInv, Process PROVE SettledInv'
  OBVIOUS
<1>1. CASE Start \/ Subscribe
  BY <1>1, EndKeepsSettledInv DEF Start, Subscribe, SettledInv, auxVars
<1>2. CASE SubscribeFails
  BY <1>2, ExitKeepsSettledInv DEF SubscribeFails
<1>3. CASE EnterLoop
  <2>1. phase = "subscribed" /\ trig' = TRUE /\ UNCHANGED <<inh, failing, worker>>
    BY <1>3 DEF EnterLoop, ctlVars, auxVars
  <2>2. worker = "idle"
    BY <2>1 DEF SettledInv
  <2> QED BY <2>1, <2>2 DEF SettledInv, FileInv, Armed
<1> QED BY <1>1, <1>2, <1>3 DEF Process

\* A check that takes the token reports the condition as it is at its end.
LEMMA WorkerKeepsSettledInv == SettledInv /\ Worker => SettledInv'
<1> SUFFICES ASSUME SettledInv, Worker PROVE SettledInv'
  OBVIOUS
<1>1. UNCHANGED <<phase, inh, failing, cond>> /\ (Releasing' <=> Releasing) /\ phase = "loop"
  BY DEF Worker, TakeTrigger, CheckExits, CheckTimesOut, ctlVars, auxVars, envVars, Releasing
<1>2. CASE TakeTrigger
  BY <1>1, <1>2 DEF TakeTrigger, SettledInv, Armed
<1>3. CASE CheckExits
  BY <1>1, <1>3 DEF CheckExits, SettledInv, Armed
<1>4. CASE CheckTimesOut
  BY <1>1, <1>4 DEF CheckTimesOut, SettledInv, Armed
<1> QED BY <1>2, <1>3, <1>4 DEF Worker

\* The loop acts on the verdict it takes: armed on a pass, released or in grace
\* on a failure.
LEMMA SelectKeepsSettledInv == CtlInv /\ SettledInv /\ Select => SettledInv'
<1> SUFFICES ASSUME CtlInv, SettledInv, Select PROVE SettledInv'
  OBVIOUS
<1>1. CASE HandlePass
  <2>1. /\ phase = "loop" /\ phase' = "loop" /\ worker = "pass" /\ worker' = "idle"
        /\ failing' = FALSE /\ UNCHANGED <<cond, owed, drift>>
    BY <1>1 DEF HandlePass, InLoop, NotePass, envVars, seenVars
  <2>2. Armed'
    BY <1>1 DEF HandlePass, OnPass, Acquire, Armed
  <2> QED BY <2>1, <2>2 DEF SettledInv
<1>2. CASE HandleFail
  <2>1. /\ phase = "loop" /\ phase' = "loop" /\ worker \in {"fail", "timeout"}
        /\ worker' = "idle" /\ failing' = TRUE /\ UNCHANGED <<cond, owed, drift, timedOut>>
    BY <1>2 DEF HandleFail, InLoop, NoteFail, envVars, seenVars
  <2>2. Armed' => Releasing'
    <3>1. Longer(Grace, holdLeft) > 0 => Longer(Grace, holdLeft) # NoTimer
      BY DEF NoTimer
    <3> QED BY <1>2, <3>1 DEF HandleFail, OnFail, StartGrace, Release, Armed, Releasing
  <2> QED BY <2>1, <2>2 DEF SettledInv
<1>3. CASE HandleGrace
  <2>1. /\ graceC = 0 /\ inh' = "none" /\ phase = "loop"
        /\ UNCHANGED <<failing, phase, worker, cond, trig, owed, drift, timedOut>>
    BY <1>3 DEF HandleGrace, InLoop, OnGraceExpired, Release, auxVars, envVars, seenVars
  <2>2. failing
    BY <2>1 DEF CtlInv, TimerCoversPromises, Releasing, NoTimer
  <2> QED BY <2>1, <2>2 DEF SettledInv, Armed
<1>4. ASSUME NEW b \in Bus, HandleSignal(b) PROVE SettledInv'
  <2>1. UNCHANGED <<phase, inh, failing, worker, timedOut, cond, owed, drift>>
    BY <1>4 DEF HandleSignal, OnResume, NoteResume, ctlVars, auxVars, envVars, seenVars
  <2>2. Releasing' <=> Releasing
    BY <1>4, ResumeKeepsReleasing DEF HandleSignal, ctlVars, Releasing
  <2>3. trig => trig'
    BY <1>4 DEF HandleSignal, Poke
  <2> QED BY <2>1, <2>2, <2>3, OutsideKeepsSettledInv
<1>5. CASE HandleTick \/ HandleRecheck
  BY <1>5, OutsideKeepsSettledInv
     DEF HandleTick, HandleRecheck, Poke, ctlVars, auxVars, envVars, seenVars, Releasing
<1>6. CASE HandlePassRefused \/ HandleLost \/ HandleTerm
  BY <1>6, ExitKeepsSettledInv DEF HandlePassRefused, HandleLost, HandleTerm
<1>7. ASSUME NEW b \in Bus, HandleBusClosed(b) PROVE SettledInv'
  BY <1>7, ExitKeepsSettledInv DEF HandleBusClosed
<1> QED BY <1>1, <1>2, <1>3, <1>4, <1>5, <1>6, <1>7 DEF Select

\* What changes the condition owes an announcement, or is a silent drift.
LEMMA WorldKeepsSettledInv == CtlInv /\ SettledInv /\ World => SettledInv'
<1> SUFFICES ASSUME CtlInv, SettledInv, World PROVE SettledInv'
  OBVIOUS
<1>1. ASSUME NEW b \in Bus, Announce(b) PROVE SettledInv'
  BY <1>1, OutsideKeepsSettledInv DEF Announce, Owe, ctlVars, auxVars, Releasing
<1>2. ASSUME NEW b \in Bus, NameSignal(b) \/ BusCloses(b) PROVE SettledInv'
  BY <1>2, OutsideKeepsSettledInv
     DEF NameSignal, BusCloses, ctlVars, auxVars, envVars, seenVars, Releasing
<1>3. CASE ChangeSilently
  BY <1>3, OutsideKeepsSettledInv DEF ChangeSilently, ctlVars, auxVars, procVars, Releasing
<1>4. CASE Suspend \/ StopUnit \/ RecheckSignals
  BY <1>4, OutsideKeepsSettledInv
     DEF Suspend, StopUnit, RecheckSignals, ctlVars, auxVars, seenVars, Releasing
<1>5. CASE Wake \/ RecheckReads \/ TickerFires
  BY <1>5, OutsideKeepsSettledInv
     DEF Wake, RecheckReads, TickerFires, Owe, ctlVars, auxVars, procVars, Releasing
<1>6. CASE StopEarly \/ StopTimesOut \/ Crash
  BY <1>6, EndKeepsSettledInv, AfterFailureIsNoLoop
     DEF StopEarly, StopTimesOut, Crash, ProcessEnds, NoteEnd
<1>7. CASE Tick
  <2>1. Releasing' <=> Releasing
    BY <1>7, TickKeepsReleasing DEF Tick, CtlInv
  <2> QED BY <1>7, <2>1, OutsideKeepsSettledInv
          DEF Tick, ClockTick, NoteTick, procVars, envVars, seenVars
<1>8. CASE SudoDies
  BY <1>8, OutsideKeepsSettledInv
     DEF SudoDies, InhibitorDies, auxVars, procVars, envVars, seenVars, Releasing
<1> QED BY <1>1, <1>2, <1>3, <1>4, <1>5, <1>6, <1>7, <1>8 DEF World

\* The controller and the last verdict agree in every reachable state.
THEOREM WatcherSettledInvariant == Spec => []SettledInv
<1>1. Init => SettledInv
  BY DEF Init, AuxInit, SettledInv
<1>2. CtlInv /\ FileInv /\ SettledInv /\ [Next]_vars => SettledInv'
  <2>1. SettledInv /\ UNCHANGED vars => SettledInv'
    BY DEF vars, ctlVars, auxVars, procVars, envVars, seenVars, SettledInv, Armed, Releasing
  <2> QED
    BY <2>1, ProcessKeepsSettledInv, WorkerKeepsSettledInv, SelectKeepsSettledInv,
       WorldKeepsSettledInv DEF Next
<1> QED
  BY <1>1, <1>2, WatcherFileInvariant, WatcherControllerInvariant, PTL DEF Spec

(***************************************************************************)
(* With nothing left to handle, the block is what the condition asks for:  *)
(* no trigger is lost, so the last verdict is of the condition as it is,   *)
(* and the controller has acted on it.                                     *)
(***************************************************************************)
THEOREM WatcherSettlesRight == Spec => []SettledIsRight
<1>1. CtlInv /\ QueueTypes /\ NoLostTrigger /\ SettledInv => SettledIsRight
  <2> SUFFICES ASSUME CtlInv, QueueTypes, NoLostTrigger, SettledInv, Quiet, ~drift, ~timedOut
               PROVE  (cond => Armed /\ ~Releasing) /\ (~cond => (Armed => Releasing))
    BY DEF SettledIsRight
  <2>1. \A b \in Bus : ~TriggerWaits(sig[b])
    BY DEF Quiet, TriggerWaits
  <2>2. phase = "loop" /\ worker = "idle" /\ ~trig /\ ~owed
    BY <2>1 DEF Quiet, InLoop, NoLostTrigger
  <2>3. cond <=> ~failing
    BY <2>2 DEF SettledInv
  <2> QED BY <2>2, <2>3 DEF SettledInv, CtlInv, TimerCoversPromises
<1> QED
  BY <1>1, WatcherSettledInvariant, WatcherLosesNoTrigger, WatcherQueueTypes,
     WatcherControllerInvariant, PTL

=============================================================================
