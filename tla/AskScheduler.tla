---------------------------- MODULE AskScheduler ----------------------------
(***************************************************************************)
(* The ask scheduler of a workflow run and the run's life cycle            *)
(* (dynamic-workflow/src/engine: scheduler.ts, scheduler-types.ts,         *)
(* scheduler-submit.ts, engine-settlement.ts, engine.ts).                  *)
(*                                                                         *)
(* A script asks its subagents (actors).  An actor answers one ask at a    *)
(* time in the order of admission, `caps.maxConcurrency` actors work at    *)
(* once, and every ask has a row in the journal, so that a run that was    *)
(* stopped or crashed can be resumed: the script is run again from the     *)
(* start, rows that are settled answer at once, rows still running are     *)
(* dispatched again, and calls not seen before wait until every recorded   *)
(* call of their actor has been admitted (the hold rule).                  *)
(*                                                                         *)
(* Handlers are synchronous.  Their two loops are taken turn by turn:      *)
(* `drainFor` names the actor whose admission loop runs, `pumping` lists   *)
(* the actors still to be scanned for a free slot, and while either is     *)
(* busy no other handler runs (a crash may still happen).                  *)
(*                                                                         *)
(* The order in which cached answers are released is left open here        *)
(* (ReleaseCached); it is the subject of the module ReplayOrder.           *)
(***************************************************************************)
EXTENDS Integers, Sequences, FiniteSets

CONSTANTS
    Asks,           \* ask instances, `siteId@ordinal`
    Actors,         \* subagents
    ActorOf,        \* the subagent of each ask
    ActorOrder,     \* actorOrder: the subagents in the order of their creation
    After,          \* the script: the asks whose answers a call waits for
    Needed,         \* the script: the asks whose answers it returns with
    TypedAsks,      \* asks that must be answered through submit_result
    Diverging,      \* asks a re-run may call with other instructions
    Caps,           \* the values of caps.maxConcurrency
    RepairAttempts, \* REPAIR_ATTEMPTS
    NudgeAttempts,  \* NUDGE_ATTEMPTS
    MaxLives        \* bound on the engines built for one run

None == "none"

ASSUME AsksAssumption == IsFiniteSet(Asks) /\ ActorOf \in [Asks -> Actors]
ASSUME ActorsAssumption ==
    /\ IsFiniteSet(Actors) /\ ActorOrder \in Seq(Actors)
    /\ \A x \in Actors : \E i \in DOMAIN ActorOrder : ActorOrder[i] = x
    /\ None \notin Asks /\ None \notin Actors
ASSUME ScriptAssumption ==
    /\ After \in [Asks -> SUBSET Asks] /\ Needed \subseteq Asks
    /\ TypedAsks \subseteq Asks /\ Diverging \subseteq Asks
ASSUME BoundsAssumption ==
    /\ Caps \subseteq Nat \ {0} /\ Caps # {}
    /\ RepairAttempts \in Nat /\ NudgeAttempts \in Nat /\ MaxLives \in Nat

Nowhere == -1

VARIABLES
    \* the journal
    row,           \* status of an ask's dwf_node row, None if there is none
    actorSeq,      \* its actorSeq
    status,        \* status of the dwf_run row
    caps,          \* caps.maxConcurrency, in the row and in the engine
    \* the engine
    alive,         \* an engine for the run exists in this process
    phase,         \* where an ask is in this life of the run
    pendingLive,   \* per actor: called, not recorded, waiting for the recorded ones
    liveQueue,     \* per actor: admitted, not dispatched
    current,       \* per actor: the ask that holds its slot
    nextAdmitSeq,  \* per actor: the next position to admit
    recordedCount, \* per actor: asks recorded when the engine was built
    activeAsks,    \* slots in use
    dispatching,   \* asks whose `dispatch` waits for the session
    session,       \* per actor: state of sessionPromise
    repairs,       \* repairsRemaining
    nudges,        \* nudgesRemaining
    drainFor,      \* the actor whose admission loop runs, or None
    pumping,       \* actors pumpAll has still to visit
    \* the driver, the script and the environment
    turn,          \* the model turn of an ask: none, running or over
    heard,         \* what the script was told, over all lives
    lives          \* engines built so far

journal == <<row, actorSeq, status, caps>>
queues == <<pendingLive, liveQueue, current, nextAdmitSeq, recordedCount, activeAsks>>
async == <<dispatching, session>>
budget == <<repairs, nudges>>
loops == <<drainFor, pumping>>
vars == <<journal, alive, phase, queues, async, budget, loops, turn, heard, lives>>

Phases == {"uncalled", "held", "parked", "queued", "starting", "started", "answered", "aborted"}
InFlight == {"queued", "starting", "started"}
Final == {"completed", "failed"}

TypeOK ==
    /\ row \in [Asks -> {None, "running"} \cup Final]
    /\ actorSeq \in [Asks -> Nat \cup {Nowhere}]
    /\ status \in {"running", "completed", "stopped", "errored"}
    /\ caps \in Caps
    /\ alive \in BOOLEAN
    /\ phase \in [Asks -> Phases]
    /\ pendingLive \in [Actors -> Seq(Asks)] /\ liveQueue \in [Actors -> Seq(Asks)]
    /\ current \in [Actors -> Asks \cup {None}]
    /\ nextAdmitSeq \in [Actors -> Nat] /\ recordedCount \in [Actors -> Nat]
    /\ activeAsks \in Nat
    /\ dispatching \subseteq Asks
    /\ session \in [Actors -> {None, "creating", "ready", "failed"}]
    /\ repairs \in [Asks -> 0..RepairAttempts] /\ nudges \in [Asks -> 0..NudgeAttempts]
    /\ drainFor \in Actors \cup {None} /\ pumping \in Seq(Actors)
    /\ turn \in [Asks -> {None, "running", "over"}]
    /\ heard \in [Asks -> {None} \cup Final]
    /\ lives \in Nat

-----------------------------------------------------------------------------

Rows(x) == {a \in Asks : ActorOf[a] = x /\ row[a] # None}

\* A new engine: everything in memory starts over, the journal is read.
FreshEngine ==
    /\ phase' = [a \in Asks |-> "uncalled"]
    /\ pendingLive' = [x \in Actors |-> <<>>]
    /\ liveQueue' = [x \in Actors |-> <<>>]
    /\ current' = [x \in Actors |-> None]
    /\ nextAdmitSeq' = [x \in Actors |-> 0]
    /\ recordedCount' = [x \in Actors |-> Cardinality(Rows(x))]
    /\ activeAsks' = 0
    /\ dispatching' = {}
    /\ session' = [x \in Actors |-> None]
    /\ repairs' = [a \in Asks |-> RepairAttempts]
    /\ nudges' = [a \in Asks |-> NudgeAttempts]
    /\ drainFor' = None
    /\ pumping' = <<>>
    /\ turn' = [a \in Asks |-> None]

Init ==
    /\ row = [a \in Asks |-> None]
    /\ actorSeq = [a \in Asks |-> Nowhere]
    /\ status = "running"
    /\ caps \in Caps
    /\ alive = TRUE
    /\ phase = [a \in Asks |-> "uncalled"]
    /\ pendingLive = [x \in Actors |-> <<>>]
    /\ liveQueue = [x \in Actors |-> <<>>]
    /\ current = [x \in Actors |-> None]
    /\ nextAdmitSeq = [x \in Actors |-> 0]
    /\ recordedCount = [x \in Actors |-> 0]
    /\ activeAsks = 0
    /\ dispatching = {}
    /\ session = [x \in Actors |-> None]
    /\ repairs = [a \in Asks |-> RepairAttempts]
    /\ nudges = [a \in Asks |-> NudgeAttempts]
    /\ drainFor = None
    /\ pumping = <<>>
    /\ turn = [a \in Asks |-> None]
    /\ heard = [a \in Asks |-> None]
    /\ lives = 1

\* No synchronous handler is in progress.
Idle == alive /\ drainFor = None /\ pumping = <<>>
IsRunSettled == status # "running"

-----------------------------------------------------------------------------
(* The three ends of a run.  First come, first served: a settled run is    *)
(* not settled again.                                                      *)

\* abortInFlight: every live node is rejected, and the driver is told for those dispatched.
\* markSettled opens the replay gate, so a parked answer is delivered just before.
AbortInFlight ==
    /\ phase' = [a \in Asks |->
                    CASE phase[a] \in InFlight -> "aborted"
                      [] phase[a] = "parked" -> "answered"
                      [] OTHER -> phase[a]]
    /\ turn' = [a \in Asks |-> IF phase[a] = "started" THEN "over" ELSE turn[a]]
    /\ heard' = [a \in Asks |-> IF phase[a] = "parked" THEN row[a] ELSE heard[a]]
    /\ activeAsks' = 0

\* A deviation: the turns of the asks nobody waits for run on.
AbandonInFlight ==
    /\ phase' = [a \in Asks |->
                    CASE phase[a] \in InFlight -> "aborted"
                      [] phase[a] = "parked" -> "answered"
                      [] OTHER -> phase[a]]
    /\ turn' = turn
    /\ heard' = [a \in Asks |-> IF phase[a] = "parked" THEN row[a] ELSE heard[a]]
    /\ activeAsks' = 0

FinishRun(final) ==
    /\ ~IsRunSettled
    /\ status' = final
    /\ AbortInFlight
    /\ UNCHANGED <<row, actorSeq, caps, alive, pendingLive, liveQueue, current, nextAdmitSeq,
                   recordedCount, async, budget, loops, lives>>

\* The script returns; asks it did not wait for (a lost Promise.race) may be in flight.
Complete ==
    /\ Idle /\ \A a \in Needed : phase[a] = "answered"
    /\ FinishRun("completed")

\* cancel, a sandbox failure, or stopRun for a deterministic provider error.
Stop == Idle /\ FinishRun("stopped")

\* The script throws, times out or breaks its contract.
Fail == Idle /\ FinishRun("errored")

\* A recorded call comes back with other instructions: inputHash differs, the run fails.
AskDiverged(a) ==
    /\ Idle /\ a \in Diverging
    /\ phase[a] = "uncalled" /\ (\A b \in After[a] : phase[b] = "answered")
    /\ row[a] # None
    /\ FinishRun("errored")

Crash ==
    /\ alive
    /\ alive' = FALSE
    /\ phase' = [a \in Asks |-> "uncalled"]
    /\ turn' = [a \in Asks |-> None]
    /\ dispatching' = {}
    /\ UNCHANGED <<journal, queues, session, budget, loops, heard, lives>>

\* Only a stopped run is resumed; a crashed one is first found and marked stopped.
Resume ==
    /\ lives < MaxLives
    /\ \/ alive /\ status = "stopped"
       \/ ~alive /\ status \in {"running", "stopped"}
    /\ alive' = TRUE
    /\ status' = "running"
    /\ lives' = lives + 1
    /\ FreshEngine
    /\ UNCHANGED <<row, actorSeq, caps, heard>>

-----------------------------------------------------------------------------
(* The script calls (admitAsk), and the admission loop.                    *)

Called(a) ==
    /\ Idle /\ ~IsRunSettled
    /\ phase[a] = "uncalled" /\ \A b \in After[a] : phase[b] = "answered"
    /\ phase' = [phase EXCEPT ![a] = "held"]
    /\ drainFor' = ActorOf[a]
    /\ UNCHANGED <<journal, alive, liveQueue, current, nextAdmitSeq, recordedCount, activeAsks,
                   async, budget, turn, heard, lives>>

AskRecorded(a) ==
    /\ row[a] # None
    /\ Called(a)
    /\ pumping' = <<ActorOf[a]>>
    /\ UNCHANGED pendingLive

AskFresh(a) ==
    /\ row[a] = None
    /\ Called(a)
    /\ pumping' = <<ActorOf[a]>> \o ActorOrder
    /\ pendingLive' = [pendingLive EXCEPT ![ActorOf[a]] = Append(@, a)]

\* pendingRecorded.get(nextAdmitSeq)
NextRecorded(x) ==
    {a \in Asks : ActorOf[a] = x /\ phase[a] = "held" /\ row[a] # None
                  /\ actorSeq[a] = nextAdmitSeq[x]}

\* A deviation: fresh calls do not wait for the recorded ones.
AdmitsAtOnce(x) == pendingLive[x] # <<>>

RecordedAreIn(x) == nextAdmitSeq[x] >= recordedCount[x] /\ pendingLive[x] # <<>>

\* The next recorded call: a settled row is handed to the replay gate, a running one is live.
AdmitRecorded ==
    /\ alive /\ drainFor # None
    /\ \E a \in NextRecorded(drainFor) :
          /\ nextAdmitSeq' = [nextAdmitSeq EXCEPT ![drainFor] = @ + 1]
          /\ IF row[a] = "running"
             THEN /\ phase' = [phase EXCEPT ![a] = "queued"]
                  /\ liveQueue' = [liveQueue EXCEPT ![drainFor] = Append(@, a)]
             ELSE /\ phase' = [phase EXCEPT ![a] = "parked"]
                  /\ UNCHANGED liveQueue
    /\ UNCHANGED <<journal, alive, pendingLive, current, recordedCount, activeAsks, async,
                   budget, loops, turn, heard, lives>>

\* A fresh call takes the next position and is recorded as running before it is queued.
AdmitFresh ==
    /\ alive /\ drainFor # None
    /\ NextRecorded(drainFor) = {} /\ RecordedAreIn(drainFor)
    /\ LET a == Head(pendingLive[drainFor])
       IN  /\ actorSeq' = [actorSeq EXCEPT ![a] = nextAdmitSeq[drainFor]]
           /\ row' = [row EXCEPT ![a] = "running"]
           /\ phase' = [phase EXCEPT ![a] = "queued"]
           /\ liveQueue' = [liveQueue EXCEPT ![drainFor] = Append(@, a)]
    /\ pendingLive' = [pendingLive EXCEPT ![drainFor] = Tail(@)]
    /\ nextAdmitSeq' = [nextAdmitSeq EXCEPT ![drainFor] = @ + 1]
    /\ UNCHANGED <<status, caps, alive, current, recordedCount, activeAsks, async, budget,
                   loops, turn, heard, lives>>

DrainDone ==
    /\ alive /\ drainFor # None
    /\ NextRecorded(drainFor) = {} /\ ~RecordedAreIn(drainFor)
    /\ drainFor' = None
    /\ UNCHANGED <<journal, alive, phase, queues, async, budget, pumping, turn, heard, lives>>

\* The gate lets a cached answer through.
ReleaseCached(a) ==
    /\ Idle /\ phase[a] = "parked"
    /\ phase' = [phase EXCEPT ![a] = "answered"]
    /\ heard' = [heard EXCEPT ![a] = row[a]]
    /\ UNCHANGED <<journal, alive, queues, async, budget, loops, turn, lives>>

-----------------------------------------------------------------------------
(* Dispatch.                                                               *)

SlotFree == activeAsks < caps

\* One turn of the scan: the actor takes its first ask if it and a slot are free.
PumpActor ==
    /\ alive /\ drainFor = None /\ pumping # <<>>
    /\ pumping' = Tail(pumping)
    /\ LET x == Head(pumping)
       IN  IF current[x] = None /\ liveQueue[x] # <<>> /\ SlotFree
           THEN /\ current' = [current EXCEPT ![x] = Head(liveQueue[x])]
                /\ liveQueue' = [liveQueue EXCEPT ![x] = Tail(@)]
                /\ activeAsks' = activeAsks + 1
                /\ phase' = [phase EXCEPT ![Head(liveQueue[x])] = "starting"]
                /\ dispatching' = dispatching \cup {Head(liveQueue[x])}
                /\ session' = [session EXCEPT ![x] = IF @ = None THEN "creating" ELSE @]
           ELSE UNCHANGED <<current, liveQueue, activeAsks, phase, async>>
    /\ UNCHANGED <<journal, alive, pendingLive, nextAdmitSeq, recordedCount, budget, drainFor,
                   turn, heard, lives>>

\* createActorSession comes back, once per actor, for better or worse.
SessionCreated(x) ==
    /\ Idle /\ session[x] = "creating"
    /\ \E outcome \in {"ready", "failed"} : session' = [session EXCEPT ![x] = outcome]
    /\ UNCHANGED <<journal, alive, phase, queues, dispatching, budget, loops, turn, heard, lives>>

\* A deviation: the answer to an awaited session is acted on without looking again.
NeverAbandoned(a) == FALSE

\* After the await: the run or the ask may have been settled meanwhile.
Abandoned(a) == IsRunSettled \/ phase[a] # "starting"

Dispatched(a) ==
    /\ Idle /\ a \in dispatching /\ session[ActorOf[a]] = "ready"
    /\ dispatching' = dispatching \ {a}
    /\ IF Abandoned(a)
       THEN UNCHANGED <<phase, turn>>
       ELSE /\ phase' = [phase EXCEPT ![a] = "started"]
            /\ turn' = [turn EXCEPT ![a] = "running"]
    /\ UNCHANGED <<journal, alive, queues, session, budget, loops, heard, lives>>

-----------------------------------------------------------------------------
(* Settlement of a live ask.                                               *)

\* Two deviations: only the actor's own queue is scanned; the failure is not recorded.
ScanOwn(a) == <<ActorOf[a]>>

ScanAfter(a) == ActorOrder

RecordUnlessFailed(a, outcome) ==
    row' = IF outcome = "failed" THEN row ELSE [row EXCEPT ![a] = outcome]

RecordOutcome(a, outcome) == row' = [row EXCEPT ![a] = outcome]

\* A third one: the actor is free again, its slot is not.
FreeActorOnly(a) ==
    /\ current' = [current EXCEPT ![ActorOf[a]] = IF @ = a THEN None ELSE @]
    /\ UNCHANGED activeAsks

FreeSlot(a) ==
    IF current[ActorOf[a]] = a
    THEN /\ current' = [current EXCEPT ![ActorOf[a]] = None]
         /\ activeAsks' = activeAsks - 1
    ELSE UNCHANGED <<current, activeAsks>>

\* settleOk, settleFailed and finishLiveNode: the row first, then the slot, then the script.
Settle(a, outcome) ==
    /\ RecordOutcome(a, outcome)
    /\ phase' = [phase EXCEPT ![a] = "answered"]
    /\ turn' = [turn EXCEPT ![a] = IF @ = "running" THEN "over" ELSE @]
    /\ FreeSlot(a)
    /\ pumping' = ScanAfter(a)
    /\ heard' = [heard EXCEPT ![a] = outcome]
    /\ UNCHANGED <<actorSeq, status, caps, alive, pendingLive, liveQueue, nextAdmitSeq,
                   recordedCount, session, budget, drainFor, lives>>

DispatchFailed(a) ==
    /\ Idle /\ a \in dispatching /\ session[ActorOf[a]] = "failed"
    /\ dispatching' = dispatching \ {a}
    /\ IF Abandoned(a)
       THEN UNCHANGED <<journal, alive, phase, queues, session, budget, loops, turn, heard, lives>>
       ELSE Settle(a, "failed")

\* The driver reports on a turn it was asked to run.  A turn that is over may still report
\* (its end arrives after the accepted submit, or after a cancel): then nothing is live.
Live(a) == Idle /\ turn[a] # None /\ phase[a] \in InFlight

Spend(budgetOf, a) == [budgetOf EXCEPT ![a] = @ - 1]

UntouchedByRetry ==
    <<journal, alive, phase, queues, async, loops, turn, heard, lives>>

SubmitAccepted(a) ==
    /\ Live(a) /\ a \in TypedAsks
    /\ Settle(a, "completed") /\ UNCHANGED dispatching

SubmitRejected(a) ==
    /\ Live(a) /\ a \in TypedAsks
    /\ repairs[a] > 0
    /\ repairs' = Spend(repairs, a)
    /\ UNCHANGED <<UntouchedByRetry, nudges>>

\* The repair budget is used up: cancelAsk, then ValidationFailed.
SubmitExhausted(a) ==
    /\ Live(a) /\ a \in TypedAsks
    /\ repairs[a] = 0
    /\ Settle(a, "failed") /\ UNCHANGED dispatching

TurnEnded(a) ==
    /\ Live(a) /\ a \notin TypedAsks
    /\ Settle(a, "completed") /\ UNCHANGED dispatching

\* A typed turn that ended without submit_result is nudged, then given up.
TurnNudged(a) ==
    /\ Live(a) /\ a \in TypedAsks
    /\ nudges[a] > 0
    /\ nudges' = Spend(nudges, a)
    /\ UNCHANGED <<UntouchedByRetry, repairs>>

TurnExhausted(a) ==
    /\ Live(a) /\ a \in TypedAsks
    /\ nudges[a] = 0
    /\ Settle(a, "failed") /\ UNCHANGED dispatching

AskFailed(a) ==
    /\ Live(a)
    /\ Settle(a, "failed") /\ UNCHANGED dispatching

\* setMaxConcurrency: raising the cap is the one change that needs a scan of its own.
SetMaxConcurrency(n) ==
    /\ Idle /\ ~IsRunSettled
    /\ n # caps
    /\ caps' = n
    /\ pumping' = IF n > caps THEN ActorOrder ELSE pumping
    /\ UNCHANGED <<row, actorSeq, status, alive, phase, queues, async, budget, drainFor, turn,
                   heard, lives>>

-----------------------------------------------------------------------------

Report(a) ==
    \/ SubmitAccepted(a) \/ SubmitRejected(a) \/ SubmitExhausted(a)
    \/ TurnEnded(a) \/ TurnNudged(a) \/ TurnExhausted(a) \/ AskFailed(a)

Ask(a) == AskRecorded(a) \/ AskFresh(a)

Loop == AdmitRecorded \/ AdmitFresh \/ DrainDone \/ PumpActor

Next ==
    \/ \E a \in Asks :
          \/ Ask(a) \/ AskDiverged(a) \/ ReleaseCached(a)
          \/ Dispatched(a) \/ DispatchFailed(a) \/ Report(a)
    \/ \E x \in Actors : SessionCreated(x)
    \/ \E n \in Caps : SetMaxConcurrency(n)
    \/ Loop
    \/ Complete \/ Stop \/ Fail \/ Crash \/ Resume

Spec == Init /\ [][Next]_vars

\* What an ask in a given phase waits for.
Onward(a) ==
    \/ Ask(a) \/ ReleaseCached(a) \/ Dispatched(a) \/ DispatchFailed(a) \/ Report(a)

\* Synchronous loops run on.  The script makes the calls whose answers it has, the replay
\* gate opens in the end, sessions and turns end (the driver bounds each turn), and a
\* settled promise runs its continuation.  A handler is only held off while a loop runs.
Fairness ==
    /\ WF_vars(Loop)
    /\ \A a \in Asks : SF_vars(Onward(a))
    /\ \A x \in Actors : SF_vars(SessionCreated(x))

FairSpec == Spec /\ Fairness
-----------------------------------------------------------------------------

\* The slots in use are the actors that hold one: a settlement that raced with a dispatch,
\* a session or an abort neither leaks a slot nor frees one twice.
SlotsExact ==
    alive /\ ~IsRunSettled => activeAsks = Cardinality({x \in Actors : current[x] # None})

\* Nothing waits for a slot that is free: whichever event freed it (a settlement of another
\* actor's ask, a raised cap, an admission) also scanned the queues.
WorkConserving ==
    Idle /\ ~IsRunSettled =>
        \A x \in Actors : current[x] = None /\ liveQueue[x] # <<>> => activeAsks >= caps

\* A model turn runs only for the ask that holds its actor's slot in a running run: no turn
\* burns tokens for a promise nobody will settle, and an actor has one turn at a time.
TurnHasOwner ==
    \A a \in Asks : turn[a] = "running" =>
        alive /\ ~IsRunSettled /\ phase[a] = "started" /\ current[ActorOf[a]] = a

\* What the script was told is what the journal says, in every later life: a failure the
\* script may have caught and branched on is replayed as the same failure.
HeardIsRecorded == \A a \in Asks : heard[a] # None => row[a] = heard[a]

\* The conversations keep their promise across lives (module AskTranscript).
Answered == [a \in Asks |-> IF row[a] \in Final THEN row[a] ELSE None]

Transcript ==
    INSTANCE AskTranscript WITH place <- actorSeq, answer <- Answered

TranscriptKept == Transcript!TSpec

\* While its run goes on, an ask the script made is answered.
AskServed ==
    \A a \in Asks :
        phase[a] \in {"held", "parked"} \cup InFlight
            ~> phase[a] \in {"answered", "aborted"} \/ ~alive \/ IsRunSettled
=============================================================================
