--------------------- MODULE ConcurrencyGovernorProofs ---------------------
(***************************************************************************)
(* What the governor guarantees for every number of runs and requests,     *)
(* every ceiling and every Retry-After.                                    *)
(*                                                                         *)
(* The signals of the controller are composed in one step, so they are     *)
(* proved once, as functions of the record: Signal(c, d) says what any of  *)
(* them may do to the fields other than the count of requests in the air.  *)
(* The inductive invariant then adds to TypeOK the relations between       *)
(* phases, queues and the controller that each handler relies on.          *)
(***************************************************************************)
EXTENDS ConcurrencyGovernor, FiniteSetTheorems, TLAPS

OneStep(c) == c.lastGood # NoLevel => c.cap \in {c.lastGood, c.lastGood + 1}

\* What a signal may do: stay in range, keep the probe rule, and turn the page if it
\* lowers the cap.
Signal(c, d) ==
    /\ d \in Controller
    /\ OneStep(c) => OneStep(d)
    /\ d.epoch >= c.epoch
    /\ d.cap < c.cap => d.epoch > c.epoch

USE CeilingAssumption, IncreaseAssumption, IdleResetAssumption

-----------------------------------------------------------------------------
(* The controller.                                                         *)

\* Signals compose.
LEMMA SignalTransitive ==
    ASSUME NEW c \in Controller, NEW d, NEW e, Signal(c, d), Signal(d, e)
    PROVE  Signal(c, e)
BY DEF Signal, Controller, OneStep

\* The idle reset forgets the level, raises the cap to the ceiling and turns the page.
\* (The provers see through one EXCEPT; a longer update is first written out.)
LEMMA IdleResetSignal ==
    ASSUME NEW c \in Controller
    PROVE  /\ Signal(c, IdleReset(c)) /\ IdleReset(c).inFlight = c.inFlight
           /\ IdleReset(c).cap >= c.cap
<1>1. CASE IdleReset(c) = c
  BY <1>1 DEF Signal, Controller
<1>2. CASE IdleReset(c) # c
  <2>1. PICK d : d = IdleReset(c) OBVIOUS
  <2>2. d = [cap |-> Ceiling, epoch |-> c.epoch + 1, inFlight |-> c.inFlight,
             waiters |-> c.waiters, streak |-> 0, cooldown |-> NoTime, idle |-> c.idle,
             lastGood |-> NoLevel, lastBad |-> NoLevel]
    BY <1>2, <2>1 DEF IdleReset, Controller
  <2>3. d \in Controller BY <2>2 DEF Controller, NoLevel, NoTime
  <2> QED BY <2>1, <2>2, <2>3 DEF Signal, OneStep, Controller
<1> QED BY <1>1, <1>2

\* A request that leaves changes the count alone.
LEMMA LeaveSignal ==
    ASSUME NEW c \in Controller
    PROVE  /\ Signal(c, Leave(c))
           /\ c.inFlight > 0 => Leave(c).inFlight = c.inFlight - 1
BY DEF Signal, OneStep, Leave, Larger, Controller

\* Every end signal starts so: reset, then leave.
LEMMA LeftSignal ==
    ASSUME NEW c \in Controller
    PROVE  /\ Signal(c, Leave(IdleReset(c)))
           /\ c.inFlight > 0 => Leave(IdleReset(c)).inFlight = c.inFlight - 1
<1> DEFINE d == IdleReset(c)
<1>1. d \in Controller /\ Signal(c, d) /\ d.inFlight = c.inFlight
  BY IdleResetSignal DEF Signal
<1> HIDE DEF d
<1>2. Signal(d, Leave(d)) /\ (d.inFlight > 0 => Leave(d).inFlight = d.inFlight - 1)
  BY <1>1, LeaveSignal
<1>3. Signal(c, Leave(d)) BY <1>1, <1>2, SignalTransitive
<1> QED BY <1>1, <1>2, <1>3 DEF d

\* Admission: one more in the air, the rest as before.
LEMMA AdmittedSignal ==
    ASSUME NEW c \in Controller
    PROVE  Signal(c, Admitted(c)) /\ Admitted(c).inFlight = c.inFlight + 1
           /\ Admitted(c).cap = c.cap /\ Admitted(c).epoch = c.epoch
<1>1. PICK d : d = Admitted(c) OBVIOUS
<1>2. d = [c EXCEPT !.idle = 0, !.inFlight = c.inFlight + 1] BY <1>1 DEF Admitted
<1>3. d = [cap |-> c.cap, epoch |-> c.epoch, inFlight |-> c.inFlight + 1,
           waiters |-> c.waiters, streak |-> c.streak, cooldown |-> c.cooldown, idle |-> 0,
           lastGood |-> c.lastGood, lastBad |-> c.lastBad]
  BY <1>2 DEF Controller
<1>4. d \in Controller BY <1>3 DEF Controller
<1> QED BY <1>1, <1>3, <1>4 DEF Signal, OneStep, Controller

\* A proved cap, and the step it buys: the level is the cap, then the cap is one above.
LEMMA ProvedSignal ==
    ASSUME NEW c \in Controller
    PROVE  /\ Signal(c, Recovered(Proved(c)))
           /\ Recovered(Proved(c)).inFlight = c.inFlight
<1>1. PICK p : p = Proved(c) OBVIOUS
<1>2. p \in Controller /\ p.cap = c.cap /\ p.epoch = c.epoch /\ p.inFlight = c.inFlight
      /\ p.lastGood = Larger(c.lastGood, c.cap)
  BY <1>1 DEF Proved, Larger, Controller
<1>3. PICK d : d = Recovered(p) OBVIOUS
<1>4. CASE d = p
  BY <1>1, <1>2, <1>3, <1>4 DEF Signal, OneStep, Larger, Controller, NoLevel
<1>5. CASE d # p
  <2>1. p.cap < Ceiling BY <1>2, <1>3, <1>5 DEF Recovered, Controller
  <2>2. Smaller(Ceiling, p.cap + CONCURRENCY_INCREASE_STEP) = p.cap + 1
    BY <1>2, <2>1 DEF Smaller, Controller, CONCURRENCY_INCREASE_STEP
  <2>3. d = [p EXCEPT !.cap = p.cap + 1, !.streak = 0]
    BY <1>3, <1>5, <2>2 DEF Recovered
  <2>4. d = [cap |-> p.cap + 1, epoch |-> p.epoch, inFlight |-> p.inFlight,
             waiters |-> p.waiters, streak |-> 0, cooldown |-> p.cooldown, idle |-> p.idle,
             lastGood |-> p.lastGood, lastBad |-> p.lastBad]
    BY <1>2, <2>3 DEF Controller
  <2>5. d \in Controller BY <1>2, <2>1, <2>4 DEF Controller
  <2> QED BY <1>1, <1>2, <1>3, <2>1, <2>4, <2>5
          DEF Signal, OneStep, Larger, Controller, NoLevel
<1> QED BY <1>4, <1>5

\* A success: count it, and at a full streak prove the cap.
LEMMA SucceededSignal ==
    ASSUME NEW c \in Controller, NEW e \in Nat
    PROVE  /\ Signal(c, Succeeded(c, e))
           /\ c.inFlight > 0 => Succeeded(c, e).inFlight = c.inFlight - 1
<1>1. PICK l : l = Leave(IdleReset(c)) OBVIOUS
<1>2. /\ l \in Controller /\ Signal(c, l)
      /\ c.inFlight > 0 => l.inFlight = c.inFlight - 1
  BY <1>1, LeftSignal DEF Signal
<1>3. PICK s : s = [l EXCEPT !.streak = Smaller(IncreaseAfter, l.streak + 1)] OBVIOUS
<1>4. s \in Controller /\ Signal(l, s) /\ s.inFlight = l.inFlight
  BY <1>2, <1>3 DEF Signal, OneStep, Smaller, Controller
<1>5. Signal(c, s) BY <1>2, <1>4, SignalTransitive
<1>6. PICK r : r = Recovered(Proved(s)) OBVIOUS
<1>7. Signal(s, r) /\ r.inFlight = s.inFlight BY <1>4, <1>6, ProvedSignal
<1>8. Signal(c, r) BY <1>4, <1>5, <1>7, SignalTransitive
<1>9. Succeeded(c, e) \in {l, s, r} BY <1>1, <1>3, <1>6 DEF Succeeded
<1> QED BY <1>2, <1>4, <1>5, <1>7, <1>8, <1>9

\* The cut stays between the floor and the cap.
LEMMA CutBounds ==
    ASSUME NEW n \in Nat, n > 0
    PROVE  Cut(n) \in 1..n
BY DEF Cut, Larger, CONCURRENCY_FLOOR

\* A verdict falls back to the level or forgets it, and always turns the page.
LEMMA VerdictSignal ==
    ASSUME NEW c \in Controller
    PROVE  Signal(c, Verdict(c)) /\ Verdict(c).inFlight = c.inFlight
<1>1. PICK d : d = Verdict(c) OBVIOUS
<1>2. CASE c.lastGood # NoLevel /\ c.cap > c.lastGood
  <2>1. d = [c EXCEPT !.lastBad = c.cap, !.cap = c.lastGood, !.epoch = c.epoch + 1]
    BY <1>1, <1>2 DEF Verdict
  <2>2. d = [cap |-> c.lastGood, epoch |-> c.epoch + 1, inFlight |-> c.inFlight,
             waiters |-> c.waiters, streak |-> c.streak, cooldown |-> c.cooldown,
             idle |-> c.idle, lastGood |-> c.lastGood, lastBad |-> c.cap]
    BY <2>1 DEF Controller
  <2>3. d \in Controller BY <1>2, <2>2 DEF Controller, NoLevel
  <2> QED BY <1>1, <2>2, <2>3 DEF Signal, OneStep, Controller
<1>3. CASE ~(c.lastGood # NoLevel /\ c.cap > c.lastGood)
  <2>1. d = [c EXCEPT !.lastBad = c.cap, !.cap = Cut(c.cap), !.lastGood = NoLevel,
                      !.epoch = c.epoch + 1]
    BY <1>1, <1>3 DEF Verdict
  <2>2. d = [cap |-> Cut(c.cap), epoch |-> c.epoch + 1, inFlight |-> c.inFlight,
             waiters |-> c.waiters, streak |-> c.streak, cooldown |-> c.cooldown,
             idle |-> c.idle, lastGood |-> NoLevel, lastBad |-> c.cap]
    BY <2>1 DEF Controller
  <2>3. Cut(c.cap) \in 1..Ceiling BY CutBounds DEF Controller
  <2>4. d \in Controller BY <2>2, <2>3 DEF Controller, NoLevel
  <2> QED BY <1>1, <2>2, <2>4 DEF Signal, OneStep, Controller
<1> QED BY <1>2, <1>3

\* A 429: the streak ends, the cooldown grows, and the current page is judged.
LEMMA ThrottledSignal ==
    ASSUME NEW c \in Controller, NEW e \in Nat, NEW ms \in Nat
    PROVE  /\ Signal(c, Throttled(c, e, ms))
           /\ c.inFlight > 0 => Throttled(c, e, ms).inFlight = c.inFlight - 1
<1>1. PICK l : l = Leave(IdleReset(c)) OBVIOUS
<1>2. /\ l \in Controller /\ Signal(c, l)
      /\ c.inFlight > 0 => l.inFlight = c.inFlight - 1
  BY <1>1, LeftSignal DEF Signal
<1>3. PICK k : k = IF ms > 0 THEN Larger(l.cooldown, ms) ELSE l.cooldown OBVIOUS
<1>4. k \in Nat \cup {NoTime} BY <1>2, <1>3 DEF Larger, Controller, NoTime
<1>5. PICK s : s = [l EXCEPT !.streak = 0, !.cooldown = k] OBVIOUS
<1>6. s = [cap |-> l.cap, epoch |-> l.epoch, inFlight |-> l.inFlight,
           waiters |-> l.waiters, streak |-> 0, cooldown |-> k, idle |-> l.idle,
           lastGood |-> l.lastGood, lastBad |-> l.lastBad]
  BY <1>2, <1>5 DEF Controller
<1>7. s \in Controller /\ Signal(l, s) /\ s.inFlight = l.inFlight
  <2>1. s \in Controller BY <1>2, <1>4, <1>6 DEF Controller
  <2> QED BY <1>2, <1>6, <2>1 DEF Signal, OneStep, Controller
<1>8. Signal(c, s) BY <1>2, <1>7, SignalTransitive
<1>9. Signal(s, Verdict(s)) /\ Verdict(s).inFlight = s.inFlight BY <1>7, VerdictSignal
<1>10. Signal(c, Verdict(s)) BY <1>7, <1>8, <1>9, SignalTransitive
<1>11. Throttled(c, e, ms) \in {s, Verdict(s)} BY <1>1, <1>3, <1>5 DEF Throttled
<1> QED BY <1>2, <1>7, <1>8, <1>9, <1>10, <1>11

\* A transient failure and a quiet end.
LEMMA FailedSignal ==
    ASSUME NEW c \in Controller
    PROVE  /\ Signal(c, FailedTransient(c))
           /\ c.inFlight > 0 => FailedTransient(c).inFlight = c.inFlight - 1
<1>1. PICK l : l = Leave(IdleReset(c)) OBVIOUS
<1>2. /\ l \in Controller /\ Signal(c, l)
      /\ c.inFlight > 0 => l.inFlight = c.inFlight - 1
  BY <1>1, LeftSignal DEF Signal
<1>3. PICK s : s = [l EXCEPT !.streak = 0] OBVIOUS
<1>4. Signal(l, s) /\ s.inFlight = l.inFlight
  BY <1>2, <1>3 DEF Signal, OneStep, Controller
<1>5. Signal(c, s) BY <1>2, <1>4, SignalTransitive
<1> QED BY <1>1, <1>2, <1>3, <1>4, <1>5 DEF FailedTransient

LEMMA EndedSignal ==
    ASSUME NEW c \in Controller
    PROVE  /\ Signal(c, Ended(c))
           /\ c.inFlight > 0 => Ended(c).inFlight = c.inFlight - 1
BY LeftSignal DEF Ended

\* The count of waiters and the clock touch neither the cap nor the count in the air.
LEMMA WaitersSignal ==
    ASSUME NEW c \in Controller, NEW n \in Int
    PROVE  Signal(c, Waiters(c, n)) /\ Waiters(c, n).inFlight = c.inFlight
           /\ Waiters(c, n).cap >= c.cap
<1>1. PICK l : l = IdleReset(c) OBVIOUS
<1>2. l \in Controller /\ Signal(c, l) /\ l.inFlight = c.inFlight
  BY <1>1, IdleResetSignal DEF Signal
<1>3. PICK s : s = [l EXCEPT !.waiters = Larger(0, n)] OBVIOUS
<1>4. Signal(l, s) /\ s.inFlight = l.inFlight /\ s.cap = l.cap
  BY <1>2, <1>3 DEF Signal, OneStep, Larger, Controller
<1>5. Signal(c, s) BY <1>2, <1>4, SignalTransitive
<1>6. l.cap >= c.cap BY <1>1, IdleResetSignal
<1> QED BY <1>1, <1>2, <1>3, <1>4, <1>5, <1>6 DEF Waiters

LEMMA ElapseSignal ==
    ASSUME NEW c \in Controller
    PROVE  Signal(c, Elapse(c)) /\ Elapse(c).inFlight = c.inFlight /\ Elapse(c).cap = c.cap
<1>1. PICK i : i = IF c.idle = NoTime THEN c.idle ELSE Smaller(IdleResetMs, c.idle + 1) OBVIOUS
<1>2. PICK k : k = IF c.cooldown > 0 THEN c.cooldown - 1 ELSE c.cooldown OBVIOUS
<1>3. i \in 0..IdleResetMs \cup {NoTime} /\ k \in Nat \cup {NoTime}
  BY <1>1, <1>2 DEF Smaller, Controller, NoTime
<1>4. PICK d : d = Elapse(c) OBVIOUS
<1>5. d = [c EXCEPT !.idle = i, !.cooldown = k] BY <1>1, <1>2, <1>4 DEF Elapse
<1>6. d = [cap |-> c.cap, epoch |-> c.epoch, inFlight |-> c.inFlight,
           waiters |-> c.waiters, streak |-> c.streak, cooldown |-> k, idle |-> i,
           lastGood |-> c.lastGood, lastBad |-> c.lastBad]
  BY <1>5 DEF Controller
<1>7. d \in Controller BY <1>3, <1>6 DEF Controller
<1> QED BY <1>4, <1>6, <1>7 DEF Signal, OneStep, Controller

-----------------------------------------------------------------------------
(* Queues.                                                                 *)

\* A newcomer at the tail.
LEMMA ListsAppend ==
    ASSUME NEW T, NEW s \in Seq(T), NEW S, Lists(s, S), NEW x \in T, x \notin S
    PROVE  Append(s, x) \in Seq(T) /\ Lists(Append(s, x), S \cup {x})
<1>1. PICK t : t = Append(s, x) OBVIOUS
<1>2. /\ t \in Seq(T) /\ DOMAIN t = 1..(Len(s) + 1) /\ DOMAIN s = 1..Len(s)
      /\ Len(s) \in Nat
      /\ \A i \in 1..Len(s) : t[i] = s[i]
      /\ t[Len(s) + 1] = x
  BY <1>1
<1>3. \A i \in DOMAIN s : s[i] \in S BY DEF Lists
<1>4. ASSUME NEW i \in DOMAIN t, NEW j \in DOMAIN t, t[i] = t[j] PROVE i = j
  BY <1>2, <1>3, <1>4 DEF Lists
<1>5. {t[i] : i \in DOMAIN t} = S \cup {x}
  <2>1. ASSUME NEW y \in S PROVE \E i \in DOMAIN t : t[i] = y
    <3>1. PICK i \in DOMAIN s : s[i] = y BY DEF Lists
    <3> QED BY <1>2, <3>1
  <2>2. Len(s) + 1 \in DOMAIN t /\ t[Len(s) + 1] = x BY <1>2
  <2>3. \A i \in DOMAIN t : t[i] \in S \cup {x} BY <1>2, <1>3
  <2> QED BY <2>1, <2>2, <2>3
<1> QED BY <1>1, <1>2, <1>4, <1>5 DEF Lists

\* One member leaves, wherever it stands.
LEMMA ListsWithout ==
    ASSUME NEW T, NEW s \in Seq(T), NEW S, Lists(s, S), NEW x \in S
    PROVE  Without(s, x) \in Seq(T) /\ Lists(Without(s, x), S \ {x})
<1>1. PICK at : at = CHOOSE i \in DOMAIN s : s[i] = x OBVIOUS
<1>2. at \in DOMAIN s /\ s[at] = x
  <2>1. \E i \in DOMAIN s : s[i] = x BY DEF Lists
  <2> QED BY <1>1, <2>1
<1>3. PICK t : t = Without(s, x) OBVIOUS
<1>4. t = [i \in 1..(Len(s) - 1) |-> IF i < at THEN s[i] ELSE s[i + 1]]
  BY <1>1, <1>3 DEF Without
<1>5. DOMAIN s = 1..Len(s) /\ Len(s) \in Nat /\ \A i \in 1..Len(s) : s[i] \in T OBVIOUS
<1>6. Len(s) - 1 \in Nat BY <1>2, <1>5
<1>7. t \in [1..(Len(s) - 1) -> T] BY <1>2, <1>4, <1>5
<1>8. t \in Seq(T) BY <1>6, <1>7
<1>9. ASSUME NEW i \in DOMAIN t, NEW j \in DOMAIN t, t[i] = t[j] PROVE i = j
  BY <1>2, <1>4, <1>5, <1>9 DEF Lists
<1>10. {t[i] : i \in DOMAIN t} = S \ {x}
  <2>1. ASSUME NEW i \in DOMAIN t PROVE t[i] \in S \ {x}
    <3>1. PICK j \in DOMAIN s : t[i] = s[j] /\ j # at BY <1>2, <1>4, <1>5
    <3>2. s[j] # x BY <1>2, <3>1 DEF Lists
    <3> QED BY <3>1, <3>2 DEF Lists
  <2>2. ASSUME NEW y \in S \ {x} PROVE \E i \in DOMAIN t : t[i] = y
    <3>1. PICK j \in DOMAIN s : s[j] = y BY DEF Lists
    <3>2. CASE j < at
      <4>1. j \in DOMAIN t /\ t[j] = y BY <1>2, <1>4, <1>5, <3>1, <3>2
      <4> QED BY <4>1
    <3>3. CASE j > at
      <4>1. j - 1 \in DOMAIN t /\ t[j - 1] = y BY <1>2, <1>4, <1>5, <3>1, <3>3
      <4> QED BY <4>1
    <3> QED BY <1>2, <1>5, <3>1, <3>2, <3>3
  <2> QED BY <2>1, <2>2
<1> QED BY <1>3, <1>8, <1>9, <1>10 DEF Lists

-----------------------------------------------------------------------------
(* The governor.                                                           *)

\* A page in the air is never ahead of the controller.
EpochBound == \A r \in Flying : epochOf[r] <= ctl.epoch

\* Only workflow runs miss the fast path and queue.
OnlyRunsQueue == \A r \in Requests : phase[r] \in {"missed", "waiting"} => RunOf[r] \in Runs

IInv ==
    /\ TypeOK
    /\ ProbeOneStep
    /\ InFlightExact
    /\ QueuesExact
    /\ EpochBound
    /\ OnlyRunsQueue

\* A request that leaves the air lowers its size by one, one that enters raises it.
LEMMA FlyingCount ==
    ASSUME NEW S \in SUBSET Requests, NEW r \in Requests
    PROVE  /\ Cardinality(S) \in Nat
           /\ r \in S => Cardinality(S \ {r}) = Cardinality(S) - 1 /\ Cardinality(S) > 0
           /\ r \notin S => Cardinality(S \cup {r}) = Cardinality(S) + 1
<1>1. IsFiniteSet(S) BY RequestsAssumption, FS_Subset
<1>2. Cardinality(S) \in Nat BY <1>1, FS_CardinalityType
<1>3. ASSUME r \in S PROVE Cardinality(S \ {r}) = Cardinality(S) - 1 /\ Cardinality(S) > 0
  <2>1. Cardinality(S) # 0 BY <1>1, <1>3, FS_EmptySet
  <2>2. Cardinality(S \ {r}) = Cardinality(S) - 1 BY <1>1, <1>3, FS_RemoveElement
  <2> QED BY <1>2, <2>1, <2>2
<1>4. ASSUME r \notin S PROVE Cardinality(S \cup {r}) = Cardinality(S) + 1
  BY <1>1, <1>4, FS_AddElement
<1> QED BY <1>2, <1>3, <1>4

LEMMA WaitersCounted == WaiterCount \in Nat
<1>1. IsFiniteSet(Waiting) BY RequestsAssumption, FS_Subset DEF Waiting
<1> QED BY <1>1, FS_CardinalityType DEF WaiterCount

\* The queues and the ring are those of the same waiters.
LEMMA QueuesKept ==
    ASSUME QueuesExact, Waiting' = Waiting, queues' = queues, ring' = ring
    PROVE  QueuesExact'
BY DEF QueuesExact, Lists

\* A waiter leaves its queue, and its run the ring with its last waiter.
LEMMA LeaveQueueExact ==
    ASSUME TypeOK, QueuesExact, OnlyRunsQueue, NEW r \in Waiting, LeaveQueue(r),
           Waiting' = Waiting \ {r}
    PROVE  queues' \in [Runs -> Seq(Requests)] /\ ring' \in Seq(Runs) /\ QueuesExact'
<1> DEFINE u == RunOf[r]
           left == Without(queues[u], r)
           Of(W, v) == {q \in W : RunOf[q] = v}
           Busy(qs) == {v \in Runs : qs[v] # <<>>}
<1>1. u \in Runs /\ r \in Requests BY DEF OnlyRunsQueue, Waiting
<1>2. queues[u] \in Seq(Requests) /\ Lists(queues[u], Of(Waiting, u)) /\ r \in Of(Waiting, u)
  BY <1>1 DEF TypeOK, QueuesExact
<1>3. left \in Seq(Requests) /\ Lists(left, Of(Waiting, u) \ {r}) BY <1>2, ListsWithout
<1>4. queues' = [queues EXCEPT ![u] = left] BY DEF LeaveQueue
<1>5. queues' \in [Runs -> Seq(Requests)] BY <1>1, <1>3, <1>4 DEF TypeOK
<1>6. ASSUME NEW v \in Runs PROVE Lists(queues'[v], Of(Waiting', v))
  <2>1. CASE v = u
    <3>1. Of(Waiting', v) = Of(Waiting, u) \ {r} BY <2>1
    <3>2. queues'[v] = left BY <1>1, <1>4, <2>1 DEF TypeOK
    <3> QED BY <1>3, <3>1, <3>2
  <2>2. CASE v # u
    <3>1. Of(Waiting', v) = Of(Waiting, v) BY <2>2
    <3>2. queues'[v] = queues[v] BY <1>4, <2>2 DEF TypeOK
    <3> QED BY <3>1, <3>2 DEF QueuesExact
  <2> QED BY <2>1, <2>2
<1>7. ring \in Seq(Runs) /\ Lists(ring, Busy(queues)) BY DEF TypeOK, QueuesExact
<1>8. queues[u] # <<>>
  <2>1. PICK i \in DOMAIN queues[u] : queues[u][i] = r BY <1>2 DEF Lists
  <2> QED BY <2>1, <1>2
<1>9. u \in Busy(queues) BY <1>1, <1>8
<1>10. ring' \in Seq(Runs) /\ Lists(ring', Busy(queues'))
  <2>1. CASE left = <<>>
    <3>1. Busy(queues') = Busy(queues) \ {u} BY <1>1, <1>4, <2>1 DEF TypeOK
    <3>2. ring' = Without(ring, u) BY <2>1 DEF LeaveQueue
    <3> HIDE DEF Busy
    <3>3. Without(ring, u) \in Seq(Runs) /\ Lists(Without(ring, u), Busy(queues) \ {u})
      BY <1>7, <1>9, ListsWithout
    <3> QED BY <3>1, <3>2, <3>3
  <2>2. CASE left # <<>>
    <3>1. Busy(queues') = Busy(queues) BY <1>1, <1>4, <1>8, <2>2 DEF TypeOK
    <3>2. ring' = ring BY <2>2 DEF LeaveQueue
    <3> QED BY <1>7, <3>1, <3>2
  <2> QED BY <2>1, <2>2
<1> QED BY <1>5, <1>6, <1>10 DEF QueuesExact

\* The steps that leave the requests in the air alone.
LEMMA AirKept ==
    ASSUME IInv, ctl' \in Controller, Signal(ctl, ctl'), ctl'.inFlight = ctl.inFlight,
           Flying' = Flying, epochOf' = epochOf
    PROVE  ProbeOneStep' /\ InFlightExact' /\ EpochBound' /\ OneVerdict
<1>1. ctl \in Controller /\ \A r \in Flying : epochOf[r] \in Nat
  BY DEF IInv, TypeOK, Flying
<1>2. ProbeOneStep' BY DEF IInv, ProbeOneStep, Signal, OneStep
<1>3. InFlightExact' BY DEF IInv, InFlightExact
<1>4. EpochBound' /\ OneVerdict
  BY <1>1 DEF IInv, EpochBound, OneVerdict, Signal, Controller
<1> QED BY <1>2, <1>3, <1>4

\* A request enters, on the page it is admitted under.
LEMMA GrantExact ==
    ASSUME IInv, NEW r \in Requests, phase[r] # "flying", NEW c \in Controller,
           Signal(ctl, c), c.inFlight = ctl.inFlight, c.cap >= ctl.cap, Grant(r, c)
    PROVE  /\ ctl' \in Controller /\ phase' \in [Requests -> Phases]
           /\ epochOf' \in [Requests -> Nat] /\ lastGranted' \in Ids \cup {NoRun}
           /\ ProbeOneStep' /\ InFlightExact' /\ EpochBound' /\ OneVerdict
           /\ Waiting' = Waiting \ {r}
<1>1. /\ ctl \in Controller /\ phase \in [Requests -> Phases] /\ epochOf \in [Requests -> Nat]
      /\ RunOf[r] \in Ids
  BY RunAssumption DEF IInv, TypeOK
<1>2. /\ ctl' \in Controller /\ Signal(ctl, ctl') /\ ctl'.inFlight = ctl.inFlight + 1
      /\ ctl'.cap = c.cap /\ ctl'.epoch = c.epoch
  <2>1. ctl' = Admitted(c) BY DEF Grant
  <2>2. Signal(c, ctl') BY <2>1, AdmittedSignal
  <2>3. Signal(ctl, ctl') BY <1>1, <2>2, SignalTransitive
  <2> QED BY <2>1, <2>3, AdmittedSignal DEF Signal
<1>3. phase' = [phase EXCEPT ![r] = "flying"] /\ epochOf' = [epochOf EXCEPT ![r] = c.epoch]
      /\ lastGranted' = RunOf[r]
  BY DEF Grant
<1>4. phase' \in [Requests -> Phases] /\ lastGranted' \in Ids \cup {NoRun}
  BY <1>1, <1>3 DEF Phases
<1>5. epochOf' \in [Requests -> Nat] BY <1>1, <1>3 DEF Controller
<1>6. Flying' = Flying \cup {r} /\ r \notin Flying /\ Flying \subseteq Requests
      /\ Waiting' = Waiting \ {r}
  BY <1>1, <1>3 DEF Flying, Waiting
<1>7. ProbeOneStep' BY <1>2 DEF IInv, ProbeOneStep, Signal, OneStep
<1>8. InFlightExact'
  <2>1. Cardinality(Flying \cup {r}) = Cardinality(Flying) + 1 BY <1>6, FlyingCount
  <2> QED BY <1>2, <1>6, <2>1 DEF IInv, InFlightExact
<1>9. EpochBound'
  <2> SUFFICES ASSUME NEW q \in Flying' PROVE epochOf'[q] <= ctl'.epoch BY DEF EpochBound
  <2>1. CASE q = r BY <1>1, <1>2, <1>3, <2>1 DEF Controller
  <2>2. CASE q # r
    <3>1. q \in Flying /\ epochOf'[q] = epochOf[q] /\ epochOf[q] \in Nat
      BY <1>1, <1>3, <1>6, <2>2
    <3> QED BY <1>1, <1>2, <3>1 DEF IInv, EpochBound, Signal, Controller
  <2> QED BY <2>1, <2>2
<1>10. OneVerdict BY <1>1, <1>2 DEF OneVerdict, Controller
<1> QED BY <1>2, <1>4, <1>5, <1>6, <1>7, <1>8, <1>9, <1>10

\* A ticket settles: one less in the air, and whoever stays is on an older page if it cut.
LEMMA SettleExact ==
    ASSUME IInv, NEW r \in Requests, NEW c, Settle(r, c), Signal(ctl, c),
           ctl.inFlight > 0 => c.inFlight = ctl.inFlight - 1
    PROVE  IInv' /\ OneVerdict
<1>1. /\ ctl \in Controller /\ phase \in [Requests -> Phases] /\ epochOf \in [Requests -> Nat]
  BY DEF IInv, TypeOK
<1>2. ctl' = c /\ ctl' \in Controller /\ phase' = [phase EXCEPT ![r] = "idle"]
      /\ phase[r] = "flying" /\ epochOf' = epochOf /\ queues' = queues /\ ring' = ring
      /\ lastGranted' = lastGranted /\ alarm' = alarm /\ draining' = TRUE
  BY DEF Settle, Signal
<1>3. TypeOK' BY <1>1, <1>2 DEF IInv, TypeOK, Phases
<1>4. Flying' = Flying \ {r} /\ r \in Flying /\ Flying \subseteq Requests /\ Waiting' = Waiting
  BY <1>1, <1>2 DEF Flying, Waiting
<1>5. ProbeOneStep' BY <1>2 DEF IInv, ProbeOneStep, Signal, OneStep
<1>6. InFlightExact'
  <2>1. Cardinality(Flying \ {r}) = Cardinality(Flying) - 1 /\ Cardinality(Flying) > 0
    BY <1>4, FlyingCount
  <2> QED BY <1>2, <1>4, <2>1 DEF IInv, InFlightExact
<1>7. EpochBound' /\ OneVerdict
  <2>1. \A q \in Flying' : epochOf'[q] = epochOf[q] /\ epochOf[q] \in Nat
                            /\ epochOf[q] <= ctl.epoch
    BY <1>1, <1>2, <1>4 DEF IInv, EpochBound
  <2> QED BY <1>1, <1>2, <2>1 DEF EpochBound, OneVerdict, Signal, Controller
<1>8. QueuesExact' BY <1>2, <1>4, QueuesKept DEF IInv
<1>9. OnlyRunsQueue' BY <1>1, <1>2 DEF IInv, OnlyRunsQueue
<1> QED BY <1>3, <1>5, <1>6, <1>7, <1>8, <1>9 DEF IInv

LEMMA InitInv == Init => IInv
<1> SUFFICES ASSUME Init PROVE IInv OBVIOUS
<1>1. TypeOK
  <2>1. ctl \in Controller BY DEF Init, FreshController, Controller, NoLevel, NoTime
  <2>2. <<>> \in Seq(Runs) /\ <<>> \in Seq(Requests) OBVIOUS
  <2>3. queues \in [Runs -> Seq(Requests)] /\ ring \in Seq(Runs) BY <2>2 DEF Init
  <2>4. phase \in [Requests -> Phases] /\ epochOf \in [Requests -> Nat] BY DEF Init, Phases
  <2> QED BY <2>1, <2>3, <2>4 DEF Init, TypeOK
<1>2. Flying = {} /\ Waiting = {} BY DEF Init, Flying, Waiting
<1>3. ProbeOneStep BY DEF Init, FreshController, ProbeOneStep
<1>4. InFlightExact BY <1>2, FS_EmptySet DEF Init, FreshController, InFlightExact
<1>5. QueuesExact
  <2>1. Lists(ring, {}) BY DEF Init, Lists
  <2>2. \A u \in Runs : Lists(queues[u], {}) BY DEF Init, Lists
  <2>3. {u \in Runs : queues[u] # <<>>} = {} BY DEF Init
  <2> QED BY <1>2, <2>1, <2>2, <2>3 DEF QueuesExact
<1> QED BY <1>1, <1>2, <1>3, <1>4, <1>5 DEF Init, IInv, EpochBound, OnlyRunsQueue

\* Every handler keeps the invariant and judges a batch once.
LEMMA NextInv == IInv /\ [Next]_vars => IInv' /\ OneVerdict
<1> SUFFICES ASSUME IInv, [Next]_vars PROVE IInv' /\ OneVerdict OBVIOUS
<1>0. /\ ctl \in Controller /\ phase \in [Requests -> Phases] /\ epochOf \in [Requests -> Nat]
      /\ RunOf \in [Requests -> Ids] /\ Ids = Runs \cup {Observer}
  BY RunAssumption DEF IInv, TypeOK, Ids
<1>1. ASSUME NEW r \in Requests, TryAdmit(r) PROVE IInv' /\ OneVerdict
  <2>1. PICK c : c = Observe(ctl) OBVIOUS
  <2>2. c \in Controller /\ Signal(ctl, c) /\ c.inFlight = ctl.inFlight /\ c.cap >= ctl.cap
    BY <1>0, <2>1, IdleResetSignal DEF Observe, Signal
  <2>3. CASE Grant(r, c)
    <3>1. UNCHANGED <<queues, ring, alarm, draining>> /\ phase[r] = "idle"
      BY <1>1 DEF TryAdmit
    <3>2. /\ ctl' \in Controller /\ phase' \in [Requests -> Phases]
          /\ epochOf' \in [Requests -> Nat] /\ lastGranted' \in Ids \cup {NoRun}
          /\ ProbeOneStep' /\ InFlightExact' /\ EpochBound' /\ OneVerdict
          /\ Waiting' = Waiting \ {r}
      BY <2>2, <2>3, <3>1, GrantExact
    <3>3. Waiting' = Waiting BY <3>1, <3>2 DEF Waiting
    <3>4. OnlyRunsQueue' BY <1>0, <2>3 DEF IInv, OnlyRunsQueue, Grant
    <3>5. QueuesExact' BY <3>1, <3>3, QueuesKept DEF IInv
    <3> QED BY <3>1, <3>2, <3>4, <3>5 DEF IInv, TypeOK
  <2>4. CASE ~(Waiting = {} /\ CanAdmit(c))
    <3>1. /\ ctl' = c /\ phase' = [phase EXCEPT ![r] = "missed"] /\ phase[r] = "idle"
          /\ RunOf[r] # Observer
          /\ UNCHANGED <<epochOf, lastGranted, queues, ring, alarm, draining>>
      BY <1>1, <2>1, <2>4 DEF TryAdmit
    <3>2. Flying' = Flying /\ Waiting' = Waiting BY <1>0, <3>1 DEF Flying, Waiting
    <3>3. ProbeOneStep' /\ InFlightExact' /\ EpochBound' /\ OneVerdict
      BY <2>2, <3>1, <3>2, AirKept
    <3>4. OnlyRunsQueue' BY <1>0, <3>1 DEF IInv, OnlyRunsQueue
    <3>5. QueuesExact' BY <3>1, <3>2, QueuesKept DEF IInv
    <3>6. TypeOK' BY <1>0, <2>2, <3>1 DEF IInv, TypeOK, Phases
    <3> QED BY <3>3, <3>4, <3>5, <3>6 DEF IInv
  <2> QED BY <1>1, <2>1, <2>3, <2>4 DEF TryAdmit
<1>2. ASSUME NEW r \in Requests, Admit(r) PROVE IInv' /\ OneVerdict
  <2> DEFINE u == RunOf[r]
             Of(W, v) == {q \in W : RunOf[q] = v}
             Busy(qs) == {v \in Runs : qs[v] # <<>>}
  <2>1. /\ phase[r] = "missed" /\ phase' = [phase EXCEPT ![r] = "waiting"]
        /\ queues' = [queues EXCEPT ![u] = Append(queues[u], r)]
        /\ ring' = IF queues[u] = <<>> THEN Append(ring, u) ELSE ring
        /\ draining' = TRUE /\ UNCHANGED <<ctl, epochOf, lastGranted, alarm>>
    BY <1>2 DEF Admit
  <2>2. u \in Runs BY <2>1 DEF IInv, OnlyRunsQueue
  <2>3. Flying' = Flying /\ Waiting' = Waiting \cup {r} /\ r \notin Waiting
    BY <1>0, <2>1 DEF Flying, Waiting
  <2>4. queues[u] \in Seq(Requests) /\ Lists(queues[u], Of(Waiting, u)) /\ r \notin Of(Waiting, u)
    BY <2>2, <2>3 DEF IInv, TypeOK, QueuesExact
  <2>5. Append(queues[u], r) \in Seq(Requests)
        /\ Lists(Append(queues[u], r), Of(Waiting, u) \cup {r})
    BY <2>4, ListsAppend
  <2>6. queues' \in [Runs -> Seq(Requests)] BY <2>1, <2>2, <2>5 DEF IInv, TypeOK
  <2>7. ASSUME NEW v \in Runs PROVE Lists(queues'[v], Of(Waiting', v))
    <3>1. CASE v = u
      <4>1. Of(Waiting', v) = Of(Waiting, u) \cup {r} BY <2>3, <3>1
      <4>2. queues'[v] = Append(queues[u], r) BY <2>1, <2>2, <3>1 DEF IInv, TypeOK
      <4> QED BY <2>5, <4>1, <4>2
    <3>2. CASE v # u
      <4>1. Of(Waiting', v) = Of(Waiting, v) BY <2>3, <3>2
      <4>2. queues'[v] = queues[v] BY <2>1, <3>2 DEF IInv, TypeOK
      <4> QED BY <4>1, <4>2 DEF IInv, QueuesExact
    <3> QED BY <3>1, <3>2
  <2>8. ring \in Seq(Runs) /\ Lists(ring, Busy(queues)) BY DEF IInv, TypeOK, QueuesExact
  <2>9. Append(queues[u], r) # <<>>
    <3>1. PICK t : t = queues[u] OBVIOUS
    <3>2. Append(t, r)[Len(t) + 1] = r /\ Len(Append(t, r)) = Len(t) + 1 /\ Len(t) \in Nat
      BY <2>4, <3>1
    <3> QED BY <3>1, <3>2
  <2>10. Busy(queues') = Busy(queues) \cup {u} BY <2>1, <2>2, <2>9 DEF IInv, TypeOK
  <2>11. ring' \in Seq(Runs) /\ Lists(ring', Busy(queues'))
    <3>1. CASE queues[u] = <<>>
      <4>1. u \notin Busy(queues) BY <3>1
      <4>2. ring' = Append(ring, u) BY <2>1, <3>1
      <4> HIDE DEF Busy
      <4>3. Append(ring, u) \in Seq(Runs) /\ Lists(Append(ring, u), Busy(queues) \cup {u})
        BY <2>2, <2>8, <4>1, ListsAppend
      <4> QED BY <2>10, <4>2, <4>3
    <3>2. CASE queues[u] # <<>>
      <4>1. Busy(queues') = Busy(queues) BY <2>2, <2>10, <3>2
      <4> QED BY <2>1, <2>8, <3>2, <4>1
    <3> QED BY <3>1, <3>2
  <2>12. QueuesExact' BY <2>7, <2>11 DEF QueuesExact
  <2>13. Signal(ctl, ctl') BY <1>0, <2>1 DEF Signal, Controller
  <2>14. ProbeOneStep' /\ InFlightExact' /\ EpochBound' /\ OneVerdict
    BY <1>0, <2>1, <2>3, <2>13, AirKept
  <2>15. OnlyRunsQueue' BY <1>0, <2>1, <2>2 DEF IInv, OnlyRunsQueue
  <2>16. TypeOK' BY <1>0, <2>1, <2>6, <2>11 DEF IInv, TypeOK, Phases
  <2> QED BY <2>12, <2>14, <2>15, <2>16 DEF IInv
<1>3. ASSUME NEW r \in Requests, AdmitAborted(r) PROVE IInv' /\ OneVerdict
  <2>1. /\ phase[r] = "missed" /\ phase' = [phase EXCEPT ![r] = "idle"]
        /\ UNCHANGED <<ctl, epochOf, queues, ring, lastGranted, alarm, draining>>
    BY <1>3 DEF AdmitAborted
  <2>2. Flying' = Flying /\ Waiting' = Waiting BY <1>0, <2>1 DEF Flying, Waiting
  <2>3. Signal(ctl, ctl') BY <1>0, <2>1 DEF Signal, Controller
  <2>4. ProbeOneStep' /\ InFlightExact' /\ EpochBound' /\ OneVerdict
    BY <1>0, <2>1, <2>2, <2>3, AirKept
  <2>5. OnlyRunsQueue' BY <1>0, <2>1 DEF IInv, OnlyRunsQueue
  <2>6. QueuesExact' BY <2>1, <2>2, QueuesKept DEF IInv
  <2>7. TypeOK' BY <1>0, <2>1 DEF IInv, TypeOK, Phases
  <2> QED BY <2>4, <2>5, <2>6, <2>7 DEF IInv
<1>4. ASSUME NEW r \in Requests, OnAbort(r) PROVE IInv' /\ OneVerdict
  <2>1. PICK c : c = Waiters(ctl, WaiterCount - 1) OBVIOUS
  <2>2. WaiterCount \in Nat BY WaitersCounted
  <2>3. c \in Controller /\ Signal(ctl, c) /\ c.inFlight = ctl.inFlight
    BY <1>0, <2>1, <2>2, WaitersSignal DEF Signal
  <2>4. /\ phase[r] = "waiting" /\ phase' = [phase EXCEPT ![r] = "idle"] /\ LeaveQueue(r)
        /\ ctl' = c /\ ArmCooldownWake(c, WaiterCount - 1)
        /\ UNCHANGED <<epochOf, lastGranted, draining>>
    BY <1>4, <2>1 DEF OnAbort
  <2>5. Flying' = Flying /\ Waiting' = Waiting \ {r} /\ r \in Waiting
    BY <1>0, <2>4 DEF Flying, Waiting
  <2>6. queues' \in [Runs -> Seq(Requests)] /\ ring' \in Seq(Runs) /\ QueuesExact'
    BY <2>4, <2>5, LeaveQueueExact DEF IInv
  <2>7. ProbeOneStep' /\ InFlightExact' /\ EpochBound' /\ OneVerdict
    BY <2>3, <2>4, <2>5, AirKept
  <2>8. OnlyRunsQueue' BY <1>0, <2>4 DEF IInv, OnlyRunsQueue
  <2>9. alarm' \in Nat \cup {NoTime} BY <2>3, <2>4 DEF ArmCooldownWake, Controller
  <2>10. TypeOK' BY <1>0, <2>3, <2>4, <2>6, <2>9 DEF IInv, TypeOK, Phases
  <2> QED BY <2>6, <2>7, <2>8, <2>10 DEF IInv
<1>5. ASSUME NEW r \in Requests, ObserverAcquire(r) PROVE IInv' /\ OneVerdict
  <2>1. PICK c : c = Observe(ctl) OBVIOUS
  <2>2. c \in Controller /\ Signal(ctl, c) /\ c.inFlight = ctl.inFlight /\ c.cap >= ctl.cap
    BY <1>0, <2>1, IdleResetSignal DEF Observe, Signal
  <2>3. /\ phase[r] = "idle" /\ Grant(r, c) /\ UNCHANGED <<queues, ring, alarm, draining>>
    BY <1>5, <2>1 DEF ObserverAcquire
  <2>4. /\ ctl' \in Controller /\ phase' \in [Requests -> Phases]
        /\ epochOf' \in [Requests -> Nat] /\ lastGranted' \in Ids \cup {NoRun}
        /\ ProbeOneStep' /\ InFlightExact' /\ EpochBound' /\ OneVerdict
        /\ Waiting' = Waiting \ {r}
    BY <2>2, <2>3, GrantExact
  <2>5. Waiting' = Waiting BY <2>3, <2>4 DEF Waiting
  <2>6. OnlyRunsQueue' BY <1>0, <2>3 DEF IInv, OnlyRunsQueue, Grant
  <2>7. QueuesExact' BY <2>3, <2>5, QueuesKept DEF IInv
  <2> QED BY <2>3, <2>4, <2>6, <2>7 DEF IInv, TypeOK
<1>6. ASSUME NEW r \in Requests, AttemptEnds(r) PROVE IInv' /\ OneVerdict
  <2>1. epochOf[r] \in Nat BY <1>0
  <2>2. CASE Completed(r)
    BY <1>0, <2>1, <2>2, SucceededSignal, SettleExact DEF Completed
  <2>3. CASE RateLimited(r)
    <3>1. PICK ms \in RetryAfters : Settle(r, Throttled(ctl, epochOf[r], ms))
      BY <2>3 DEF RateLimited
    <3>2. ms \in Nat BY RetryAssumption
    <3> QED BY <1>0, <2>1, <3>1, <3>2, ThrottledSignal, SettleExact
  <2>4. CASE RetryScheduled(r)
    BY <1>0, <2>4, FailedSignal, SettleExact DEF RetryScheduled
  <2>5. CASE Release(r)
    BY <1>0, <2>5, EndedSignal, SettleExact DEF Release
  <2> QED BY <1>6, <2>2, <2>3, <2>4, <2>5 DEF AttemptEnds
<1>7. ASSUME DrainGrant PROVE IInv' /\ OneVerdict
  <2>1. PICK c : c = Waiters(ctl, WaiterCount) OBVIOUS
  <2>2. WaiterCount \in Nat BY WaitersCounted
  <2>3. c \in Controller /\ Signal(ctl, c) /\ c.inFlight = ctl.inFlight /\ c.cap >= ctl.cap
    BY <1>0, <2>1, <2>2, WaitersSignal DEF Signal
  <2>4. PICK r \in Waiting : LeaveQueue(r) /\ Grant(r, c) BY <1>7, <2>1 DEF DrainGrant
  <2>5. UNCHANGED <<alarm, draining>> BY <1>7 DEF DrainGrant
  <2>6. r \in Requests /\ phase[r] = "waiting" BY DEF Waiting
  <2>7. /\ ctl' \in Controller /\ phase' \in [Requests -> Phases]
        /\ epochOf' \in [Requests -> Nat] /\ lastGranted' \in Ids \cup {NoRun}
        /\ ProbeOneStep' /\ InFlightExact' /\ EpochBound' /\ OneVerdict
        /\ Waiting' = Waiting \ {r}
    BY <2>3, <2>4, <2>6, GrantExact
  <2>8. queues' \in [Runs -> Seq(Requests)] /\ ring' \in Seq(Runs) /\ QueuesExact'
    BY <2>4, <2>7, LeaveQueueExact DEF IInv
  <2>9. OnlyRunsQueue' BY <1>0, <2>4, <2>6 DEF IInv, OnlyRunsQueue, Grant
  <2> QED BY <2>5, <2>7, <2>8, <2>9 DEF IInv, TypeOK
<1>8. ASSUME DrainDone PROVE IInv' /\ OneVerdict
  <2>1. PICK c : c = Waiters(ctl, WaiterCount) OBVIOUS
  <2>2. WaiterCount \in Nat BY WaitersCounted
  <2>3. c \in Controller /\ Signal(ctl, c) /\ c.inFlight = ctl.inFlight
    BY <1>0, <2>1, <2>2, WaitersSignal DEF Signal
  <2>4. /\ ctl' = c /\ ArmCooldownWake(c, WaiterCount) /\ draining' = FALSE
        /\ UNCHANGED <<phase, epochOf, queues, ring, lastGranted>>
    BY <1>8, <2>1 DEF DrainDone
  <2>5. Flying' = Flying /\ Waiting' = Waiting BY <2>4 DEF Flying, Waiting
  <2>6. ProbeOneStep' /\ InFlightExact' /\ EpochBound' /\ OneVerdict
    BY <2>3, <2>4, <2>5, AirKept
  <2>7. QueuesExact' BY <2>4, <2>5, QueuesKept DEF IInv
  <2>8. alarm' \in Nat \cup {NoTime} BY <2>3, <2>4 DEF ArmCooldownWake, Controller
  <2> QED BY <2>3, <2>4, <2>6, <2>7, <2>8 DEF IInv, TypeOK, OnlyRunsQueue
<1>9. ASSUME CooldownWake PROVE IInv' /\ OneVerdict
  <2>1. /\ alarm' = NoTime /\ draining' = TRUE
        /\ UNCHANGED <<ctl, phase, epochOf, queues, ring, lastGranted>>
    BY <1>9 DEF CooldownWake
  <2>2. Flying' = Flying /\ Waiting' = Waiting BY <2>1 DEF Flying, Waiting
  <2>3. Signal(ctl, ctl') BY <1>0, <2>1 DEF Signal, Controller
  <2>4. ProbeOneStep' /\ InFlightExact' /\ EpochBound' /\ OneVerdict
    BY <1>0, <2>1, <2>2, <2>3, AirKept
  <2>5. QueuesExact' BY <2>1, <2>2, QueuesKept DEF IInv
  <2> QED BY <2>1, <2>4, <2>5 DEF IInv, TypeOK, OnlyRunsQueue
<1>10. ASSUME Tick PROVE IInv' /\ OneVerdict
  <2>1. /\ ctl' = Elapse(ctl) /\ alarm' = IF alarm > 0 THEN alarm - 1 ELSE alarm
        /\ UNCHANGED <<phase, epochOf, queues, ring, lastGranted, draining>>
    BY <1>10 DEF Tick
  <2>2. Flying' = Flying /\ Waiting' = Waiting BY <2>1 DEF Flying, Waiting
  <2>3. Signal(ctl, ctl') /\ ctl' \in Controller /\ ctl'.inFlight = ctl.inFlight
    BY <1>0, <2>1, ElapseSignal DEF Signal
  <2>4. ProbeOneStep' /\ InFlightExact' /\ EpochBound' /\ OneVerdict
    BY <2>1, <2>2, <2>3, AirKept
  <2>5. QueuesExact' BY <2>1, <2>2, QueuesKept DEF IInv
  <2>6. alarm' \in Nat \cup {NoTime} BY <2>1 DEF IInv, TypeOK, NoTime
  <2> QED BY <2>1, <2>3, <2>4, <2>5, <2>6 DEF IInv, TypeOK, OnlyRunsQueue
<1>11. CASE UNCHANGED vars
  <2>1. Flying' = Flying /\ Waiting' = Waiting BY <1>11 DEF vars, Flying, Waiting
  <2>2. Signal(ctl, ctl') BY <1>0, <1>11 DEF vars, Signal, Controller
  <2>3. ProbeOneStep' /\ InFlightExact' /\ EpochBound' /\ OneVerdict
    BY <1>0, <1>11, <2>1, <2>2, AirKept DEF vars
  <2>4. QueuesExact' BY <1>11, <2>1, QueuesKept DEF IInv, vars
  <2> QED BY <1>11, <2>3, <2>4 DEF IInv, TypeOK, OnlyRunsQueue, vars
<1> QED
  BY <1>1, <1>2, <1>3, <1>4, <1>5, <1>6, <1>7, <1>8, <1>9, <1>10, <1>11 DEF Next

-----------------------------------------------------------------------------
(* The wake.                                                               *)

\* With no request in the air, a timer stands for a cooldown the controller still knows,
\* or one that the idle reset, being due, is about to forget or has forgotten.
TimerBacked ==
    ~draining /\ Waiting # {} /\ Flying = {} /\ alarm # NoTime
    => ctl.cooldown # NoTime \/ Idle(ctl)

\* The count of requests in the air is zero exactly when the air is empty.
LEMMA AirEmpty ==
    ASSUME IInv
    PROVE  Flying = {} <=> ctl.inFlight = 0
<1>1. IsFiniteSet(Flying) BY RequestsAssumption, FS_Subset DEF Flying
<1> QED BY <1>1, FS_EmptySet DEF IInv, InFlightExact

LEMMA CountPositive == Waiting # {} => WaiterCount # 0
<1>1. IsFiniteSet(Waiting) BY RequestsAssumption, FS_Subset DEF Waiting
<1> QED BY <1>1, FS_EmptySet DEF WaiterCount

\* The reset acts only when it is due, and it is still due afterwards.
LEMMA ResetOnlyIdle ==
    ASSUME NEW c \in Controller
    PROVE  /\ ~Idle(c) => IdleReset(c) = c
           /\ Idle(c) => Idle(IdleReset(c))
<1>1. CASE IdleReset(c) = c BY <1>1 DEF IdleReset
<1>2. CASE IdleReset(c) # c
  <2>1. PICK d : d = IdleReset(c) OBVIOUS
  <2>2. Idle(c) BY <1>2 DEF IdleReset
  <2>3. d = [cap |-> Ceiling, epoch |-> c.epoch + 1, inFlight |-> c.inFlight,
             waiters |-> c.waiters, streak |-> 0, cooldown |-> NoTime, idle |-> c.idle,
             lastGood |-> NoLevel, lastBad |-> NoLevel]
    BY <1>2, <2>1 DEF IdleReset, Controller
  <2> QED BY <2>1, <2>2, <2>3 DEF Idle
<1> QED BY <1>1, <1>2

LEMMA WaitersKeeps ==
    ASSUME NEW c \in Controller, NEW n \in Int
    PROVE  /\ Waiters(c, n).cooldown = IdleReset(c).cooldown
           /\ Waiters(c, n) \in Controller
           /\ Waiters(c, n).inFlight = c.inFlight
<1>1. IdleReset(c) \in Controller BY IdleResetSignal DEF Signal
<1>2. PICK l : l = IdleReset(c) OBVIOUS
<1>3. PICK k : k = Larger(0, n) OBVIOUS
<1>4. [l EXCEPT !.waiters = k].cooldown = l.cooldown BY <1>1, <1>2 DEF Controller
<1> QED BY <1>2, <1>3, <1>4, WaitersSignal DEF Waiters, Signal

\* Whoever waits has a run in the rotation.
LEMMA RingServes ==
    ASSUME IInv, Waiting # {}
    PROVE  ring # <<>>
<1>1. PICK r : r \in Waiting OBVIOUS
<1>2. r \in Requests /\ RunOf[r] \in Runs BY <1>1 DEF IInv, OnlyRunsQueue, Waiting
<1>3. PICK u : u = RunOf[r] OBVIOUS
<1>4. Lists(queues[u], {q \in Waiting : RunOf[q] = u}) BY <1>2, <1>3 DEF IInv, QueuesExact
<1>5. PICK i : i \in DOMAIN queues[u] BY <1>1, <1>3, <1>4 DEF Lists
<1>6. queues[u] # <<>> BY <1>5
<1>7. Lists(ring, {v \in Runs : queues[v] # <<>>}) BY DEF IInv, QueuesExact
<1>8. PICK j : j \in DOMAIN ring BY <1>2, <1>3, <1>6, <1>7 DEF Lists
<1> QED BY <1>8

\* When the loop stops with someone left, a request is in the air or a timer is set:
\* the gate is shut because the cap is full or because a cooldown runs.
LEMMA DrainLeavesWake ==
    ASSUME IInv, DrainDone, Waiting # {}
    PROVE  /\ Flying # {} \/ alarm' # NoTime
           /\ alarm' = ctl'.cooldown
<1>1. PICK c : c = Waiters(ctl, WaiterCount) OBVIOUS
<1>2. WaiterCount \in Nat /\ WaiterCount # 0 BY WaitersCounted, CountPositive
<1>3. c \in Controller /\ c.inFlight = ctl.inFlight
  BY <1>1, <1>2, WaitersKeeps DEF IInv, TypeOK
<1>4. ~CanAdmit(c) /\ ctl' = c /\ ArmCooldownWake(c, WaiterCount)
  BY <1>1, RingServes DEF DrainDone
<1>5. alarm' = c.cooldown BY <1>2, <1>4 DEF ArmCooldownWake
<1>6. c.inFlight > 0 \/ c.cooldown > 0 BY <1>3, <1>4 DEF CanAdmit, Controller, NoTime
<1>7. CASE c.inFlight > 0 BY <1>3, <1>4, <1>5, <1>7, AirEmpty
<1>8. CASE c.cooldown > 0 BY <1>4, <1>5, <1>8 DEF NoTime
<1> QED BY <1>6, <1>7, <1>8

\* An abort sets the timer from what the reset leaves of the cooldown.
LEMMA AbortRearms ==
    ASSUME IInv, TimerBacked, NEW r \in Requests, OnAbort(r)
    PROVE  TimerBacked' /\ LostByAbort
<1>1. PICK c : c = Waiters(ctl, WaiterCount - 1) OBVIOUS
<1>2. /\ ~draining /\ ~draining' /\ phase[r] = "waiting" /\ phase \in [Requests -> Phases]
      /\ phase' = [phase EXCEPT ![r] = "idle"]
      /\ ctl' = c /\ ArmCooldownWake(c, WaiterCount - 1)
  BY <1>1 DEF OnAbort, IInv, TypeOK
<1>3. Flying' = Flying /\ Waiting' = Waiting \ {r} /\ r \in Waiting
  BY <1>2 DEF Flying, Waiting
<1>4. alarm' \in {NoTime, c.cooldown} BY <1>2 DEF ArmCooldownWake
<1>5. TimerBacked' BY <1>2, <1>4 DEF TimerBacked
<1>6. ASSUME WakeGuaranteed, ~Idle(ctl) PROVE WakeGuaranteed'
  <2> SUFFICES ASSUME Waiting' # {}, Flying' = {} PROVE alarm' # NoTime
    BY DEF WakeGuaranteed
  <2>1. ctl.cooldown # NoTime BY <1>2, <1>3, <1>6 DEF WakeGuaranteed, TimerBacked
  <2>2. WaiterCount \in Nat /\ WaiterCount - 1 \in Int BY WaitersCounted
  <2>3. c.cooldown = ctl.cooldown
    BY <1>1, <1>6, <2>2, WaitersKeeps, ResetOnlyIdle DEF IInv, TypeOK
  <2>4. WaiterCount - 1 # 0
    <3>1. Waiting \subseteq Requests BY DEF Waiting
    <3>2. Cardinality(Waiting \ {r}) = Cardinality(Waiting) - 1
      BY <1>3, <3>1, FlyingCount, RequestsAssumption, FS_Subset
    <3>3. IsFiniteSet(Waiting \ {r}) BY <3>1, RequestsAssumption, FS_Subset
    <3>4. Cardinality(Waiting \ {r}) # 0 BY <1>3, <3>3, FS_EmptySet
    <3> QED BY <3>2, <3>4 DEF WaiterCount
  <2> QED BY <1>2, <2>1, <2>3, <2>4 DEF ArmCooldownWake
<1> QED BY <1>5, <1>6 DEF LostByAbort

\* A step that changes neither who waits nor the timer, takes nobody out of the air and
\* keeps the cooldown or leaves the reset due, keeps every wake.
LEMMA WakeKept ==
    ASSUME TimerBacked, Waiting' = Waiting, Flying \subseteq Flying',
           draining' = draining, alarm' = NoTime <=> alarm = NoTime,
           Flying' = {} /\ (ctl.cooldown # NoTime \/ Idle(ctl))
             => (ctl'.cooldown # NoTime \/ Idle(ctl'))
    PROVE  TimerBacked' /\ LostByAbort
<1>1. TimerBacked' BY DEF TimerBacked, Idle
<1>2. WakeGuaranteed => WakeGuaranteed' BY DEF WakeGuaranteed
<1> QED BY <1>1, <1>2 DEF LostByAbort

\* While the loop runs nothing is claimed.
LEMMA WakeDraining ==
    ASSUME draining'
    PROVE  TimerBacked' /\ LostByAbort
BY DEF TimerBacked, WakeGuaranteed, LostByAbort

\* Every handler keeps the timer backed; only an abort with the reset due loses a wake.
LEMMA WakeStep == IInv /\ TimerBacked /\ [Next]_vars => TimerBacked' /\ LostByAbort
<1> SUFFICES ASSUME IInv, TimerBacked, [Next]_vars PROVE TimerBacked' /\ LostByAbort
  OBVIOUS
<1>0. ctl \in Controller /\ phase \in [Requests -> Phases] /\ alarm \in Nat \cup {NoTime}
  BY DEF IInv, TypeOK
<1>1. ASSUME NEW r \in Requests, TryAdmit(r) PROVE TimerBacked' /\ LostByAbort
  <2>1. PICK c : c = Observe(ctl) OBVIOUS
  <2>2. /\ phase[r] = "idle" /\ alarm' = alarm /\ draining' = draining
        /\ \/ Grant(r, c)
           \/ ctl' = c /\ phase' = [phase EXCEPT ![r] = "missed"]
    BY <1>1, <2>1 DEF TryAdmit
  <2>3. Waiting' = Waiting /\ Flying \subseteq Flying'
    BY <1>0, <2>2 DEF Grant, Waiting, Flying
  <2>4. CASE Grant(r, c)
    <3>1. r \in Flying' BY <1>0, <2>4 DEF Grant, Flying
    <3> QED BY <2>2, <2>3, <3>1, WakeKept
  <2>5. CASE ctl' = c
    <3>1. c = ctl \/ Idle(c) BY <1>0, <2>1, ResetOnlyIdle DEF Observe
    <3> QED BY <2>2, <2>3, <2>5, <3>1, WakeKept
  <2> QED BY <2>2, <2>4, <2>5
<1>2. ASSUME NEW r \in Requests, Admit(r) PROVE TimerBacked' /\ LostByAbort
  BY <1>2, WakeDraining DEF Admit
<1>3. ASSUME NEW r \in Requests, AdmitAborted(r) PROVE TimerBacked' /\ LostByAbort
  <2>1. phase[r] = "missed" /\ phase' = [phase EXCEPT ![r] = "idle"]
        /\ alarm' = alarm /\ draining' = draining /\ ctl' = ctl
    BY <1>3 DEF AdmitAborted
  <2>2. Waiting' = Waiting /\ Flying' = Flying BY <1>0, <2>1 DEF Waiting, Flying
  <2> QED BY <2>1, <2>2, WakeKept
<1>4. ASSUME NEW r \in Requests, OnAbort(r) PROVE TimerBacked' /\ LostByAbort
  BY <1>4, AbortRearms
<1>5. ASSUME NEW r \in Requests, ObserverAcquire(r) PROVE TimerBacked' /\ LostByAbort
  <2>1. phase[r] = "idle" /\ phase' = [phase EXCEPT ![r] = "flying"]
        /\ alarm' = alarm /\ draining' = draining
    BY <1>5 DEF ObserverAcquire, Grant
  <2>2. Waiting' = Waiting /\ Flying' = Flying \cup {r} BY <1>0, <2>1 DEF Waiting, Flying
  <2> QED BY <2>1, <2>2, WakeKept
<1>6. ASSUME NEW r \in Requests, AttemptEnds(r) PROVE TimerBacked' /\ LostByAbort
  BY <1>6, WakeDraining
     DEF AttemptEnds, Completed, RateLimited, RetryScheduled, Release, Settle
<1>7. ASSUME DrainGrant PROVE TimerBacked' /\ LostByAbort
  BY <1>7, WakeDraining DEF DrainGrant
<1>8. ASSUME DrainDone PROVE TimerBacked' /\ LostByAbort
  <2>1. Waiting' = Waiting /\ Flying' = Flying BY <1>8 DEF DrainDone, Waiting, Flying
  <2> QED BY <1>8, <2>1, DrainLeavesWake DEF TimerBacked, WakeGuaranteed, LostByAbort
<1>9. ASSUME CooldownWake PROVE TimerBacked' /\ LostByAbort
  BY <1>9, WakeDraining DEF CooldownWake
<1>10. ASSUME Tick PROVE TimerBacked' /\ LostByAbort
  <2>1. /\ ctl' = Elapse(ctl) /\ alarm' = IF alarm > 0 THEN alarm - 1 ELSE alarm
        /\ UNCHANGED <<phase, draining>>
    BY <1>10 DEF Tick
  <2>2. Waiting' = Waiting /\ Flying' = Flying BY <2>1 DEF Waiting, Flying
  <2>3. alarm' = NoTime <=> alarm = NoTime BY <1>0, <2>1 DEF NoTime
  <2>4. PICK d : d = Elapse(ctl) OBVIOUS
  <2>5. /\ d.inFlight = ctl.inFlight
        /\ d.idle = IF ctl.idle = NoTime THEN ctl.idle ELSE Smaller(IdleResetMs, ctl.idle + 1)
        /\ d.cooldown = IF ctl.cooldown > 0 THEN ctl.cooldown - 1 ELSE ctl.cooldown
    BY <1>0, <2>4 DEF Elapse, Controller
  <2>6. ctl.cooldown # NoTime => d.cooldown # NoTime BY <1>0, <2>5 DEF Controller, NoTime
  <2>7. Idle(ctl) => Idle(d) BY <1>0, <2>5 DEF Idle, Smaller, Controller, NoTime
  <2> QED BY <2>1, <2>2, <2>3, <2>4, <2>6, <2>7, WakeKept
<1>11. CASE UNCHANGED vars
  <2>1. Waiting' = Waiting /\ Flying' = Flying BY <1>11 DEF vars, Waiting, Flying
  <2> QED BY <1>11, <2>1, WakeKept DEF vars
<1> QED
  BY <1>1, <1>2, <1>3, <1>4, <1>5, <1>6, <1>7, <1>8, <1>9, <1>10, <1>11 DEF Next

LEMMA InitWake == Init => TimerBacked /\ WakeGuaranteed
<1> SUFFICES ASSUME Init PROVE Waiting = {} BY DEF TimerBacked, WakeGuaranteed
<1> QED BY DEF Init, Waiting

-----------------------------------------------------------------------------
(* The theorems.                                                           *)

\* Whatever the mix of signals, the governor's state stays well-formed.
THEOREM TypeCorrect == Spec => []TypeOK
<1>1. IInv => TypeOK BY DEF IInv
<1> QED BY <1>1, InitInv, NextInv, PTL DEF Spec

\* The cap and the learnt level never drift apart by more than one probe step.
THEOREM LevelTracked == Spec => []ProbeOneStep
<1>1. IInv => ProbeOneStep BY DEF IInv
<1> QED BY <1>1, InitInv, NextInv, PTL DEF Spec

\* No ticket leaks its slot and none frees it twice.
THEOREM TicketsCounted == Spec => []InFlightExact
<1>1. IInv => InFlightExact BY DEF IInv
<1> QED BY <1>1, InitInv, NextInv, PTL DEF Spec

\* No waiter is lost from the queues, and the rotation visits exactly the waiting runs.
THEOREM WaitersQueued == Spec => []QueuesExact
<1>1. IInv => QueuesExact BY DEF IInv
<1> QED BY <1>1, InitInv, NextInv, PTL DEF Spec

\* A batch of rate limits cuts the cap once.
THEOREM BatchJudgedOnce == Spec => OneVerdictPerBatch
<1>1. IInv /\ [Next]_vars => [OneVerdict]_vars BY NextInv
<1> QED BY <1>1, InitInv, NextInv, PTL DEF Spec, OneVerdictPerBatch

\* A waiter is left without a wake by one kind of step only: the abort of another waiter
\* at a moment when the idle reset is due.  No drain, timer, signal or fast path does it.
THEOREM OnlyAbortLosesWake == Spec => WakeLostOnlyByAbort
<1>1. Init => IInv /\ TimerBacked BY InitInv, InitWake
<1>2. IInv /\ TimerBacked /\ [Next]_vars => IInv' /\ TimerBacked' /\ [LostByAbort]_vars
  BY NextInv, WakeStep
<1> QED BY <1>1, <1>2, PTL DEF Spec, WakeLostOnlyByAbort

\* Where no run is stopped while it queues, a waiter always has a request in the air or a
\* timer that will drain the queue, for every number of runs and every Retry-After.
THEOREM WakeWithoutAborts == Abortable = {} => (Spec => []WakeGuaranteed)
<1> SUFFICES ASSUME Abortable = {} PROVE Spec => []WakeGuaranteed OBVIOUS
<1> DEFINE Held == IInv /\ TimerBacked /\ WakeGuaranteed
<1>1. Init => Held BY InitInv, InitWake
<1>2. Held /\ [Next]_vars => Held'
  <2> SUFFICES ASSUME Held, [Next]_vars PROVE Held' OBVIOUS
  <2>1. IInv' /\ TimerBacked' /\ LostByAbort BY NextInv, WakeStep
  <2>2. \A r \in Requests : ~OnAbort(r) BY DEF OnAbort
  <2> QED BY <2>1, <2>2 DEF LostByAbort
<1>3. Held => WakeGuaranteed OBVIOUS
<1> QED BY <1>1, <1>2, <1>3, PTL DEF Spec
=============================================================================
