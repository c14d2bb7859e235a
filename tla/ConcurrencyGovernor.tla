------------------------ MODULE ConcurrencyGovernor ------------------------
(***************************************************************************)
(* The process-wide governor of one provider bucket                        *)
(* (bootstrap/src/app/workflow-concurrency-governor.ts): every attempt of  *)
(* a model request is admitted through it.  Requests of workflow runs take *)
(* the fast path or queue, run by run in turn; the main agent's requests   *)
(* (the observer's) are counted but never wait.                            *)
(*                                                                         *)
(* The handlers are synchronous, so each is one step, except the loop of   *)
(* `drain`, which is taken one turn at a time with every other handler     *)
(* held off by `draining`.  The `observe` calls directly in front of       *)
(* another signal at the same instant are absorbed by that signal's own    *)
(* idle reset (a reset leaves nothing to reset).                           *)
(***************************************************************************)
EXTENDS ConcurrencyController, Sequences, FiniteSets

CONSTANTS
    Runs,        \* workflow runs that share the provider key
    Observer,    \* the main agent's run id, OBSERVER_RUN_ID
    Requests,    \* request slots: the attempts that may be alive together
    RunOf,       \* the run each slot belongs to
    Abortable,   \* slots whose run may be stopped while they wait
    RetryAfters, \* Retry-After values of a 429, 0 for none
    MaxEpoch     \* bound: past it the provider throttles no more

NoRun == "none"
Ids == Runs \cup {Observer}

ASSUME RequestsAssumption == IsFiniteSet(Requests)
ASSUME RunAssumption == /\ RunOf \in [Requests -> Ids]
                        /\ Observer \notin Runs /\ NoRun \notin Ids
ASSUME RetryAssumption == RetryAfters \subseteq Nat
ASSUME BoundAssumption == MaxEpoch \in Nat /\ Abortable \subseteq Requests

VARIABLES
    ctl,         \* the bucket's controller
    phase,       \* idle, missed (fast path failed), waiting or flying
    epochOf,     \* the epoch a flying request was admitted in
    queues,      \* each run's waiting requests, first come first
    ring,        \* the runs with waiters, in the Map's insertion order
    lastGranted, \* lastGrantedRun, the cursor of the rotation
    alarm,       \* ticks left of the cooldown timer, NoTime if none is set
    draining     \* the loop of `drain` is running

vars == <<ctl, phase, epochOf, queues, ring, lastGranted, alarm, draining>>

Phases == {"idle", "missed", "waiting", "flying"}

TypeOK ==
    /\ ctl \in Controller
    /\ phase \in [Requests -> Phases]
    /\ epochOf \in [Requests -> Nat]
    /\ queues \in [Runs -> Seq(Requests)]
    /\ ring \in Seq(Runs)
    /\ lastGranted \in Ids \cup {NoRun}
    /\ alarm \in Nat \cup {NoTime}
    /\ draining \in BOOLEAN

Init ==
    /\ ctl = FreshController
    /\ phase = [r \in Requests |-> "idle"]
    /\ epochOf = [r \in Requests |-> 0]
    /\ queues = [u \in Runs |-> <<>>]
    /\ ring = <<>>
    /\ lastGranted = NoRun
    /\ alarm = NoTime
    /\ draining = FALSE

-----------------------------------------------------------------------------

Waiting == {r \in Requests : phase[r] = "waiting"}
Flying == {r \in Requests : phase[r] = "flying"}
WaiterCount == Cardinality(Waiting)

\* s holds x once; the others keep their order.
Without(s, x) ==
    LET at == CHOOSE i \in DOMAIN s : s[i] = x
    IN  [i \in 1..(Len(s) - 1) |-> IF i < at THEN s[i] ELSE s[i + 1]]

\* s lists the members of S, each once.
Lists(s, S) ==
    /\ \A i, j \in DOMAIN s : s[i] = s[j] => i = j
    /\ {s[i] : i \in DOMAIN s} = S

\* A deviation: the newest waiter of the run first.
NewestWaiter(u) == queues[u][Len(queues[u])]

FirstWaiter(u) == Head(queues[u])

\* The run after the one granted last; the first one when that run has left the ring.
NextRunWithWaiters ==
    LET at == {i \in DOMAIN ring : ring[i] = lastGranted}
        index == IF at = {} THEN 0 ELSE CHOOSE i \in at : TRUE
    IN  ring[(index % Len(ring)) + 1]

\* A request enters on the controller state c.
Grant(r, c) ==
    /\ ctl' = Admitted(c)
    /\ phase' = [phase EXCEPT ![r] = "flying"]
    /\ epochOf' = [epochOf EXCEPT ![r] = c.epoch]
    /\ lastGranted' = RunOf[r]

\* A deviation: a single waiter gets no timer.
ArmForSeveral(c, waiters) ==
    alarm' = IF waiters <= 1 THEN NoTime ELSE c.cooldown

\* The timer is set again after every drain, and only while someone waits on a cooldown.
ArmCooldownWake(c, waiters) ==
    alarm' = IF waiters = 0 THEN NoTime ELSE c.cooldown

\* A deviation: the run stays in the rotation with no one queued.
LeaveQueueKeepRing(r) ==
    /\ queues' = [queues EXCEPT ![RunOf[r]] = Without(@, r)]
    /\ ring' = ring

\* The run leaves the rotation with its last waiter.
LeaveQueue(r) ==
    LET left == Without(queues[RunOf[r]], r)
    IN  /\ queues' = [queues EXCEPT ![RunOf[r]] = left]
        /\ ring' = IF left = <<>> THEN Without(ring, RunOf[r]) ELSE ring

-----------------------------------------------------------------------------

\* The fast path: not while anyone queues.
TryAdmit(r) ==
    LET c == Observe(ctl)
    IN  /\ ~draining /\ RunOf[r] # Observer /\ phase[r] = "idle"
        /\ IF Waiting = {} /\ CanAdmit(c)
           THEN Grant(r, c)
           ELSE /\ ctl' = c
                /\ phase' = [phase EXCEPT ![r] = "missed"]
                /\ UNCHANGED <<epochOf, lastGranted>>
        /\ UNCHANGED <<queues, ring, alarm, draining>>

\* The slow path, a later step of the same attempt: queue, then drain.
Admit(r) ==
    /\ ~draining /\ phase[r] = "missed"
    /\ phase' = [phase EXCEPT ![r] = "waiting"]
    /\ queues' = [queues EXCEPT ![RunOf[r]] = Append(@, r)]
    /\ ring' = IF queues[RunOf[r]] = <<>> THEN Append(ring, RunOf[r]) ELSE ring
    /\ draining' = TRUE
    /\ UNCHANGED <<ctl, epochOf, lastGranted, alarm>>

\* The signal was aborted before `admit`: it rejects and touches nothing.
AdmitAborted(r) ==
    /\ ~draining /\ phase[r] = "missed" /\ r \in Abortable
    /\ phase' = [phase EXCEPT ![r] = "idle"]
    /\ UNCHANGED <<ctl, epochOf, queues, ring, lastGranted, alarm, draining>>

\* onAbort of a queued waiter: it leaves and the timer is set again; nothing is drained.
OnAbort(r) ==
    LET c == Waiters(ctl, WaiterCount - 1)
    IN  /\ ~draining /\ phase[r] = "waiting" /\ r \in Abortable
        /\ phase' = [phase EXCEPT ![r] = "idle"]
        /\ LeaveQueue(r)
        /\ ctl' = c
        /\ ArmCooldownWake(c, WaiterCount - 1)
        /\ UNCHANGED <<epochOf, lastGranted, draining>>

\* The main agent's request: granted at once, whatever the gate says.
ObserverAcquire(r) ==
    /\ ~draining /\ RunOf[r] = Observer /\ phase[r] = "idle"
    /\ Grant(r, Observe(ctl))
    /\ UNCHANGED <<queues, ring, alarm, draining>>

\* The terminal event of an attempt reaches its ticket (publish or release).
Settle(r, signalled) ==
    /\ ~draining /\ phase[r] = "flying"
    /\ ctl' = signalled
    /\ phase' = [phase EXCEPT ![r] = "idle"]
    /\ draining' = TRUE
    /\ UNCHANGED <<epochOf, queues, ring, lastGranted, alarm>>

Completed(r) == Settle(r, Succeeded(ctl, epochOf[r]))

RateLimited(r) ==
    /\ ctl.epoch < MaxEpoch
    /\ \E ms \in RetryAfters : Settle(r, Throttled(ctl, epochOf[r], ms))

RetryScheduled(r) == Settle(r, FailedTransient(ctl))

Release(r) == Settle(r, Ended(ctl))

\* One turn of the loop of `drain`, and its exit.
DrainGrant ==
    LET c == Waiters(ctl, WaiterCount)
    IN  /\ draining /\ CanAdmit(c) /\ ring # <<>>
        /\ \E r \in Waiting :
              /\ r = FirstWaiter(NextRunWithWaiters)
              /\ LeaveQueue(r)
              /\ Grant(r, c)
        /\ UNCHANGED <<alarm, draining>>

DrainDone ==
    LET c == Waiters(ctl, WaiterCount)
    IN  /\ draining /\ ~(CanAdmit(c) /\ ring # <<>>)
        /\ ctl' = c
        /\ ArmCooldownWake(c, WaiterCount)
        /\ draining' = FALSE
        /\ UNCHANGED <<phase, epochOf, queues, ring, lastGranted>>

CooldownWake ==
    /\ ~draining /\ alarm = 0
    /\ alarm' = NoTime
    /\ draining' = TRUE
    /\ UNCHANGED <<ctl, phase, epochOf, queues, ring, lastGranted>>

\* The clock.  Past MaxEpoch it only runs while a cooldown is pending.
Tick ==
    /\ ~draining
    /\ ctl.epoch < MaxEpoch \/ ctl.cooldown > 0 \/ alarm > 0
    /\ ctl' = Elapse(ctl)
    /\ alarm' = IF alarm > 0 THEN alarm - 1 ELSE alarm
    /\ UNCHANGED <<phase, epochOf, queues, ring, lastGranted, draining>>

-----------------------------------------------------------------------------

AttemptEnds(r) == Completed(r) \/ RateLimited(r) \/ RetryScheduled(r) \/ Release(r)

Next ==
    \/ \E r \in Requests :
          \/ TryAdmit(r) \/ Admit(r) \/ AdmitAborted(r) \/ OnAbort(r)
          \/ ObserverAcquire(r) \/ AttemptEnds(r)
    \/ DrainGrant \/ DrainDone \/ CooldownWake \/ Tick

Spec == Init /\ [][Next]_vars

\* Synchronous code runs on; the runner releases every ticket (finally) and goes on from
\* a missed fast path to the queue, and the process clock and timers run.  `draining`
\* disables a handler for as long as the synchronous loop of another one lasts, which the
\* event loop does not count against it: hence strong fairness for the handlers.
Fairness ==
    /\ WF_vars(DrainGrant \/ DrainDone)
    /\ SF_vars(CooldownWake)
    /\ SF_vars(Tick)
    /\ \A r \in Requests : SF_vars(Admit(r)) /\ SF_vars(AttemptEnds(r))

FairSpec == Spec /\ Fairness
-----------------------------------------------------------------------------

\* The learnt level never drifts: while a level is proved, the cap is that level or
\* one probe step above it (succeeded raises right after proving; throttled falls
\* back to the level or forgets it).
ProbeOneStep ==
    ctl.lastGood # NoLevel => ctl.cap \in {ctl.lastGood, ctl.lastGood + 1}

\* The controller's count of requests in the air is the number of tickets not yet
\* settled: no path of a ticket settles twice or not at all.
InFlightExact == ctl.inFlight = Cardinality(Flying)

\* The queues and the ring agree with who is waiting: every waiter is queued once under
\* its run, and the ring holds exactly the runs with waiters (otherwise a waiter is lost).
QueuesExact ==
    /\ \A u \in Runs : Lists(queues[u], {r \in Waiting : RunOf[r] = u})
    /\ Lists(ring, {u \in Runs : queues[u] # <<>>})

\* One batch, one verdict: after a 429 has cut the cap, no request still in the air
\* can cut it again (its epoch is a page behind).
OneVerdict == ctl'.cap < ctl.cap => \A r \in Flying' : epochOf'[r] < ctl'.epoch

OneVerdictPerBatch == [][OneVerdict]_vars

\* Nobody waits for nothing: outside `drain`, a waiter has a request in the air whose end
\* will drain the queue, or a timer that will.
WakeGuaranteed ==
    ~draining /\ Waiting # {} => Flying # {} \/ alarm # NoTime

\* The wake is lost in one way only: a waiter's run is stopped when the idle reset is due,
\* which forgets the cooldown that the timer of those who stay would be set from.
LostByAbort ==
    WakeGuaranteed => WakeGuaranteed' \/ \E r \in Requests : OnAbort(r) /\ Idle(ctl)

WakeLostOnlyByAbort == [][LostByAbort]_vars

\* A run that waits is granted a slot or gives up: a large fan-out cannot starve it.
WaiterServed ==
    \A r \in Requests : phase[r] = "waiting" ~> phase[r] # "waiting"
=============================================================================
