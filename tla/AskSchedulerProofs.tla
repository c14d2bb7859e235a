-------------------------- MODULE AskSchedulerProofs --------------------------
(***************************************************************************)
(* The ask scheduler is right for every script, every set of subagents and *)
(* every number of lives of a run.                                         *)
(*                                                                         *)
(* The invariants of AskScheduler are not inductive: that the script never *)
(* hears two stories depends on which asks the queues hold, that depends   *)
(* on the counters of the admission, and those on what the journal says of *)
(* positions.  IInv collects these facts, one named part for each piece of *)
(* state.  All parts but Places, Turns and HeardIsRecorded speak of a run  *)
(* that goes on (On): a crash or a settlement ends their truth, a resume   *)
(* restores them from the journal alone, which is what Places is for.      *)
(***************************************************************************)
EXTENDS AskScheduler, FiniteSetTheorems, SequenceTheorems, TLAPS

On == alive /\ ~IsRunSettled

Members(s) == {s[i] : i \in DOMAIN s}

Admitted == {"parked", "answered"} \cup InFlight
Working == {"starting", "started"}

(* A row exists exactly if it has a position; the positions of an actor    *)
(* are distinct and below the number of its rows.                          *)
Places ==
    /\ \A a \in Asks : row[a] = None <=> actorSeq[a] = Nowhere
    /\ \A a \in Asks : row[a] # None => actorSeq[a] < Cardinality(Rows(ActorOf[a]))
    /\ \A a, b \in Asks :
          row[a] # None /\ ActorOf[a] = ActorOf[b] /\ actorSeq[a] = actorSeq[b] => a = b

(* Either recorded rows are still to be admitted, or all rows are.         *)
Counters ==
    On => \A x \in Actors :
             /\ recordedCount[x] <= Cardinality(Rows(x))
             /\ nextAdmitSeq[x] <= Cardinality(Rows(x))
             /\ Cardinality(Rows(x)) \in {recordedCount[x], nextAdmitSeq[x]}

(* What an ask in a given phase has in the journal.                        *)
PhasesRecorded ==
    On => \A a \in Asks :
             /\ phase[a] # "aborted"
             /\ phase[a] \in Admitted <=>
                   row[a] # None /\ actorSeq[a] < nextAdmitSeq[ActorOf[a]]
             /\ phase[a] \in InFlight => row[a] = "running"
             /\ phase[a] \in {"parked", "answered"} => row[a] \in Final

(* The queue and the slot of an actor.                                     *)
Queued ==
    On => /\ \A a \in Asks : phase[a] = "queued" <=> a \in Members(liveQueue[ActorOf[a]])
          /\ \A x \in Actors : \A a \in Members(liveQueue[x]) : ActorOf[a] = x
          /\ \A x \in Actors : \A i, j \in DOMAIN liveQueue[x] :
                i < j => actorSeq[liveQueue[x][i]] < actorSeq[liveQueue[x][j]]

InSlot ==
    On => /\ \A a \in Asks : phase[a] \in Working <=> current[ActorOf[a]] = a
          /\ \A x \in Actors : current[x] # None =>
                /\ ActorOf[current[x]] = x
                /\ \A a \in Members(liveQueue[x]) : actorSeq[current[x]] < actorSeq[a]

Fresh ==
    On => \A x \in Actors :
             /\ \A a \in Members(pendingLive[x]) :
                   ActorOf[a] = x /\ phase[a] = "held" /\ row[a] = None
             /\ \A i, j \in DOMAIN pendingLive[x] : pendingLive[x][i] = pendingLive[x][j] => i = j

Turns ==
    \A a \in Asks :
       /\ phase[a] \in InFlight \cup {"parked"} => On
       /\ turn[a] = "running" => phase[a] = "started"
       /\ turn[a] = "over" => phase[a] \in {"answered", "aborted"}

Loops ==
    alive => /\ drainFor # None \/ pumping # <<>> => ~IsRunSettled
             /\ drainFor # None => drainFor \in Members(pumping)

Scanned ==
    On => \A x \in Actors :
             current[x] = None /\ liveQueue[x] # <<>> =>
                activeAsks >= caps \/ x \in Members(pumping)

IInv ==
    /\ TypeOK /\ Places /\ Counters /\ PhasesRecorded /\ Queued /\ InSlot /\ Fresh /\ Turns
    /\ Loops /\ Scanned /\ SlotsExact /\ HeardIsRecorded

-----------------------------------------------------------------------------
(* Sequences and their members.                                            *)

LEMMA Appending ==
    ASSUME NEW S, NEW s \in Seq(S), NEW e \in S
    PROVE  /\ Len(s) \in Nat /\ DOMAIN s = 1 .. Len(s)
           /\ Append(s, e) \in Seq(S)
           /\ DOMAIN Append(s, e) = 1 .. Len(s) + 1
           /\ Append(s, e)[Len(s) + 1] = e
           /\ \A i \in 1 .. Len(s) : Append(s, e)[i] = s[i]
           /\ Members(Append(s, e)) = Members(s) \cup {e}
           /\ Append(s, e) # <<>>
<1> DEFINE a == Append(s, e)
<1>1. /\ Len(s) \in Nat /\ DOMAIN s = 1 .. Len(s)
      /\ a \in Seq(S) /\ DOMAIN a = 1 .. Len(s) + 1
      /\ a[Len(s) + 1] = e
      /\ \A i \in 1 .. Len(s) : a[i] = s[i]
  OBVIOUS
<1> HIDE DEF a
<1>2. Len(s) + 1 \in DOMAIN a
  BY <1>1
<1>3. a # <<>>
  BY <1>2
<1>4. Members(a) = Members(s) \cup {e}
  <2>1. ASSUME NEW i \in DOMAIN a
        PROVE  a[i] \in Members(s) \cup {e}
    <3>1. i \in 1 .. Len(s) \/ i = Len(s) + 1
      BY <1>1
    <3> QED
      BY <3>1, <1>1 DEF Members
  <2>2. ASSUME NEW i \in 1 .. Len(s)
        PROVE  s[i] \in Members(a)
    <3>1. i \in DOMAIN a /\ a[i] = s[i]
      BY <1>1
    <3> QED
      BY <3>1 DEF Members
  <2>3. e \in Members(a)
    BY <1>1, <1>2 DEF Members
  <2> QED
    BY <2>1, <2>2, <2>3, <1>1 DEF Members
<1> QED
  BY <1>1, <1>3, <1>4 DEF a

LEMMA Taking ==
    ASSUME NEW S, NEW s \in Seq(S), s # <<>>
    PROVE  /\ Len(s) \in Nat /\ DOMAIN s = 1 .. Len(s) /\ 1 \in DOMAIN s
           /\ Head(s) = s[1] /\ Head(s) \in S /\ Head(s) \in Members(s)
           /\ Tail(s) \in Seq(S)
           /\ DOMAIN Tail(s) = 1 .. Len(s) - 1
           /\ \A i \in 1 .. Len(s) - 1 : Tail(s)[i] = s[i + 1] /\ i + 1 \in DOMAIN s
           /\ Members(s) = Members(Tail(s)) \cup {Head(s)}
<1> DEFINE t == Tail(s)
<1>1. /\ Len(s) \in Nat /\ DOMAIN s = 1 .. Len(s) /\ Len(s) # 0
      /\ Head(s) = s[1] /\ Head(s) \in S
      /\ t \in Seq(S)
      /\ Len(t) = Len(s) - 1
      /\ \A i \in 1 .. Len(t) : t[i] = s[i + 1]
  BY EmptySeq, LenProperties, HeadTailProperties
<1>2. 1 \in DOMAIN s /\ \A i \in 1 .. Len(s) - 1 : i + 1 \in DOMAIN s
  BY <1>1
<1>3. DOMAIN t = 1 .. Len(s) - 1
  BY <1>1, LenProperties
<1>4. Head(s) \in Members(s)
  BY <1>1, <1>2 DEF Members
<1> HIDE DEF t
<1>5. Members(s) = Members(t) \cup {s[1]}
  <2>1. ASSUME NEW i \in DOMAIN s
        PROVE  s[i] \in Members(t) \cup {s[1]}
    <3>1. CASE i = 1
      BY <3>1
    <3>2. CASE i # 1
      <4>1. i - 1 \in 1 .. Len(s) - 1 /\ (i - 1) + 1 = i
        BY <3>2, <1>1
      <4>2. t[i - 1] = s[i] /\ i - 1 \in DOMAIN t
        BY <4>1, <1>1, <1>3
      <4> QED
        BY <4>2 DEF Members
    <3> QED
      BY <3>1, <3>2
  <2>2. ASSUME NEW i \in DOMAIN t
        PROVE  t[i] \in Members(s)
    <3>1. t[i] = s[i + 1] /\ i + 1 \in DOMAIN s
      BY <1>1, <1>2, <1>3
    <3> QED
      BY <3>1 DEF Members
  <2> QED
    BY <2>1, <2>2, <1>1, <1>4 DEF Members
<1> QED
  BY <1>1, <1>2, <1>3, <1>4, <1>5 DEF t

(* The scans: the actor alone, or followed by all in the order of their    *)
(* creation.                                                               *)
LEMMA Scans ==
    ASSUME NEW x \in Actors
    PROVE  /\ ActorOrder \in Seq(Actors) /\ Members(ActorOrder) = Actors
           /\ <<x>> \in Seq(Actors) /\ x \in Members(<<x>>)
           /\ <<x>> \o ActorOrder \in Seq(Actors)
           /\ x \in Members(<<x>> \o ActorOrder)
<1>1. ActorOrder \in Seq(Actors) /\ \A y \in Actors : \E i \in DOMAIN ActorOrder : ActorOrder[i] = y
  BY ActorsAssumption
<1>2. Members(ActorOrder) = Actors
  <2>1. ActorOrder \in [1 .. Len(ActorOrder) -> Actors]
    BY <1>1, LenProperties
  <2> QED
    BY <1>1, <2>1 DEF Members
<1>3. <<x>> \in Seq(Actors) /\ Len(<<x>>) = 1 /\ <<x>>[1] = x /\ 1 \in DOMAIN <<x>>
  OBVIOUS
<1>4. x \in Members(<<x>>)
  BY <1>3 DEF Members
<1>5. /\ <<x>> \o ActorOrder \in Seq(Actors)
      /\ Len(<<x>> \o ActorOrder) = 1 + Len(ActorOrder)
      /\ (<<x>> \o ActorOrder)[1] = x
  <2>1. Len(ActorOrder) \in Nat
    BY <1>1, LenProperties
  <2> QED
    BY <1>1, <1>3, <2>1, ConcatProperties
<1>6. x \in Members(<<x>> \o ActorOrder)
  <2>1. Len(ActorOrder) \in Nat
    BY <1>1, LenProperties
  <2>2. 1 \in DOMAIN (<<x>> \o ActorOrder)
    BY <1>5, <2>1, LenProperties
  <2> QED
    BY <1>5, <2>2 DEF Members
<1> QED
  BY <1>1, <1>2, <1>3, <1>4, <1>5, <1>6

-----------------------------------------------------------------------------
(* What a step that leaves a part's variables alone does to it: nothing.   *)

LEMMA Frames ==
    /\ Places /\ UNCHANGED <<row, actorSeq>> => Places'
    /\ Counters /\ UNCHANGED <<alive, status, recordedCount, nextAdmitSeq, row>> => Counters'
    /\ PhasesRecorded /\ UNCHANGED <<alive, status, phase, row, actorSeq, nextAdmitSeq>>
          => PhasesRecorded'
    /\ Queued /\ UNCHANGED <<alive, status, phase, liveQueue, actorSeq>> => Queued'
    /\ InSlot /\ UNCHANGED <<alive, status, phase, current, liveQueue, actorSeq>> => InSlot'
    /\ Fresh /\ UNCHANGED <<alive, status, pendingLive, phase, row>> => Fresh'
    /\ Turns /\ UNCHANGED <<alive, status, turn, phase>> => Turns'
    /\ Loops /\ UNCHANGED <<alive, status, drainFor, pumping>> => Loops'
    /\ Scanned /\ UNCHANGED <<alive, status, current, liveQueue, activeAsks, caps, pumping>>
          => Scanned'
    /\ SlotsExact /\ UNCHANGED <<alive, status, activeAsks, current>> => SlotsExact'
    /\ HeardIsRecorded /\ UNCHANGED <<heard, row>> => HeardIsRecorded'
<1> USE DEF On, IsRunSettled, Rows
<1>1. Places /\ UNCHANGED <<row, actorSeq>> => Places'
  BY DEF Places
<1>2. Counters /\ UNCHANGED <<alive, status, recordedCount, nextAdmitSeq, row>> => Counters'
  BY DEF Counters
<1>3. PhasesRecorded /\ UNCHANGED <<alive, status, phase, row, actorSeq, nextAdmitSeq>>
         => PhasesRecorded'
  BY DEF PhasesRecorded
<1>4. Queued /\ UNCHANGED <<alive, status, phase, liveQueue, actorSeq>> => Queued'
  BY DEF Queued
<1>5. InSlot /\ UNCHANGED <<alive, status, phase, current, liveQueue, actorSeq>> => InSlot'
  BY DEF InSlot
<1>6. Fresh /\ UNCHANGED <<alive, status, pendingLive, phase, row>> => Fresh'
  BY DEF Fresh
<1>7. Turns /\ UNCHANGED <<alive, status, turn, phase>> => Turns'
  BY DEF Turns
<1>8. Loops /\ UNCHANGED <<alive, status, drainFor, pumping>> => Loops'
  BY DEF Loops
<1>9. Scanned /\ UNCHANGED <<alive, status, current, liveQueue, activeAsks, caps, pumping>>
         => Scanned'
  BY DEF Scanned
<1>10. SlotsExact /\ UNCHANGED <<alive, status, activeAsks, current>> => SlotsExact'
  BY DEF SlotsExact
<1>11. HeardIsRecorded /\ UNCHANGED <<heard, row>> => HeardIsRecorded'
  BY DEF HeardIsRecorded
<1> QED
  BY <1>1, <1>2, <1>3, <1>4, <1>5, <1>6, <1>7, <1>8, <1>9, <1>10, <1>11

-----------------------------------------------------------------------------
(* The ends of a life and its beginnings.                                  *)

(* Outside a running run only Places, Turns, HeardIsRecorded and the loops *)
(* have something to say.                                                  *)
LEMMA OffHolds ==
    ~On' => /\ Counters' /\ PhasesRecorded' /\ Queued' /\ InSlot' /\ Fresh' /\ Scanned'
            /\ SlotsExact'
BY DEF On, IsRunSettled, Counters, PhasesRecorded, Queued, InSlot, Fresh, Scanned, SlotsExact

LEMMA FinishStep ==
    ASSUME IInv, Idle, NEW final \in {"completed", "stopped", "errored"}, FinishRun(final)
    PROVE  IInv'
<1>1. On /\ ~On'
  BY DEF FinishRun, IsRunSettled, Idle, On
<1>2. /\ phase' = [a \in Asks |->
                      CASE phase[a] \in InFlight -> "aborted"
                        [] phase[a] = "parked" -> "answered"
                        [] OTHER -> phase[a]]
      /\ turn' = [a \in Asks |-> IF phase[a] = "started" THEN "over" ELSE turn[a]]
      /\ heard' = [a \in Asks |-> IF phase[a] = "parked" THEN row[a] ELSE heard[a]]
      /\ activeAsks' = 0 /\ status' = final
      /\ UNCHANGED <<row, actorSeq, caps, alive, pendingLive, liveQueue, current, nextAdmitSeq,
                     recordedCount, dispatching, session, repairs, nudges, drainFor, pumping,
                     lives>>
  BY DEF FinishRun, AbortInFlight, async, budget, loops
<1>3. \A a \in Asks : phase[a] = "parked" => row[a] \in Final
  BY <1>1 DEF IInv, PhasesRecorded
<1>4. phase' \in [Asks -> Phases]
  <2>1. ASSUME NEW a \in Asks PROVE phase'[a] \in Phases
    BY <1>2 DEF IInv, TypeOK, Phases, InFlight
  <2> QED
    BY <1>2, <2>1
<1>5. heard' \in [Asks -> {None} \cup Final] /\ turn' \in [Asks -> {None, "running", "over"}]
  BY <1>2, <1>3 DEF IInv, TypeOK
<1>6. TypeOK'
  BY <1>2, <1>4, <1>5 DEF IInv, TypeOK
<1>7. Places'
  BY <1>2, Frames DEF IInv
<1>8. Turns'
  <2> SUFFICES ASSUME NEW a \in Asks
               PROVE  /\ phase'[a] \notin InFlight \cup {"parked"}
                      /\ turn'[a] # "running"
                      /\ turn'[a] = "over" => phase'[a] \in {"answered", "aborted"}
    BY DEF Turns
  <2>1. CASE phase[a] = "started"
    BY <2>1, <1>2 DEF InFlight
  <2>2. CASE phase[a] # "started"
    BY <2>2, <1>2 DEF IInv, Turns, InFlight
  <2> QED
    BY <2>1, <2>2
<1>9. Loops'
  BY <1>2 DEF Idle, Loops
<1>10. HeardIsRecorded'
  BY <1>2 DEF IInv, HeardIsRecorded
<1> QED
  BY <1>1, <1>6, <1>7, <1>8, <1>9, <1>10, OffHolds DEF IInv

LEMMA CrashStep == ASSUME IInv, Crash PROVE IInv'
<1> USE DEF Crash, journal, queues, budget, loops, IInv
<1>1. ~On'
  BY DEF On
<1>2. TypeOK'
  BY DEF TypeOK, Phases
<1>3. Places' /\ HeardIsRecorded'
  BY Frames
<1>4. Turns' /\ Loops'
  BY DEF Turns, Loops, None, IsRunSettled, InFlight
<1> QED
  BY <1>1, <1>2, <1>3, <1>4, OffHolds

LEMMA RowsFinite == \A x : IsFiniteSet(Rows(x)) /\ Cardinality(Rows(x)) \in Nat
<1> SUFFICES ASSUME NEW x PROVE IsFiniteSet(Rows(x)) /\ Cardinality(Rows(x)) \in Nat
  OBVIOUS
<1>1. Rows(x) \subseteq Asks
  BY DEF Rows
<1> QED
  BY <1>1, AsksAssumption, FS_Subset, FS_CardinalityType

(* An empty engine over a journal: what Init and Resume have in common.    *)
LEMMA NewEngine ==
    ASSUME FreshEngine, alive', status' = "running", UNCHANGED row,
           \A a \in Asks : row'[a] # None => actorSeq'[a] \in Nat
    PROVE  /\ Counters' /\ PhasesRecorded' /\ Queued' /\ InSlot' /\ Fresh' /\ Turns'
           /\ Loops' /\ Scanned' /\ SlotsExact'
<1> USE DEF FreshEngine
<1>e. Members(<<>>) = {} /\ DOMAIN <<>> = {}
  BY EmptySeq DEF Members
<1>1. Counters'
  <2>1. \A x \in Actors : Rows(x)' = Rows(x)
    BY DEF Rows
  <2> QED
    BY <2>1, RowsFinite DEF Counters
<1>2. PhasesRecorded'
  <2> SUFFICES ASSUME NEW a \in Asks, row'[a] # None
               PROVE  ~(actorSeq'[a] < nextAdmitSeq'[ActorOf[a]])
    BY DEF PhasesRecorded, Admitted, InFlight
  <2>1. actorSeq'[a] \in Nat
    OBVIOUS
  <2>2. nextAdmitSeq'[ActorOf[a]] = 0
    BY AsksAssumption
  <2> QED
    BY <2>1, <2>2
<1>3. Queued'
  BY <1>e, AsksAssumption DEF Queued
<1>4. InSlot'
  BY <1>e, AsksAssumption, ActorsAssumption DEF InSlot, Working
<1>5. Fresh'
  BY <1>e DEF Fresh
<1>6. Turns' /\ Loops'
  BY DEF Turns, Loops, None, IsRunSettled, InFlight
<1>7. Scanned'
  BY DEF Scanned
<1>8. SlotsExact'
  <2>1. {x \in Actors : current'[x] # None} = {}
    OBVIOUS
  <2> QED
    BY <2>1, FS_EmptySet DEF SlotsExact
<1> QED
  BY <1>1, <1>2, <1>3, <1>4, <1>5, <1>6, <1>7, <1>8

LEMMA EmptyTypes ==
    /\ [x \in Actors |-> <<>>] \in [Actors -> Seq(Asks)]
    /\ <<>> \in Seq(Actors)
    /\ [a \in Asks |-> RepairAttempts] \in [Asks -> 0 .. RepairAttempts]
    /\ [a \in Asks |-> NudgeAttempts] \in [Asks -> 0 .. NudgeAttempts]
    /\ Members(<<>>) = {} /\ DOMAIN <<>> = {}
<1>1. <<>> \in Seq(Asks) /\ <<>> \in Seq(Actors) /\ DOMAIN <<>> = {}
  BY EmptySeq
<1>2. RepairAttempts \in 0 .. RepairAttempts /\ NudgeAttempts \in 0 .. NudgeAttempts
  BY BoundsAssumption
<1> QED
  BY <1>1, <1>2 DEF Members

LEMMA InitialState == ASSUME Init PROVE IInv
<1> USE DEF Init
<1>1. TypeOK
  BY EmptyTypes DEF TypeOK, Phases
<1>2. \A x \in Actors : Rows(x) = {}
  BY DEF Rows
<1>3. Places /\ HeardIsRecorded
  BY DEF Places, HeardIsRecorded
<1>4. Counters
  <2>1. \A x \in Actors : Cardinality(Rows(x)) = 0 /\ recordedCount[x] = 0 /\ nextAdmitSeq[x] = 0
    BY <1>2, FS_EmptySet
  <2> QED
    BY <2>1 DEF Counters
<1>5. PhasesRecorded
  BY DEF PhasesRecorded, Admitted, InFlight
<1>6. Queued /\ Fresh
  BY EmptyTypes, AsksAssumption DEF Queued, Fresh
<1>7. InSlot
  BY EmptyTypes, AsksAssumption, ActorsAssumption DEF InSlot, Working
<1>8. Turns /\ Loops
  BY DEF Turns, Loops, None, IsRunSettled, InFlight
<1>9. Scanned
  BY DEF Scanned
<1>10. SlotsExact
  <2>1. {x \in Actors : current[x] # None} = {}
    OBVIOUS
  <2> QED
    BY <2>1, FS_EmptySet DEF SlotsExact
<1> QED
  BY <1>1, <1>3, <1>4, <1>5, <1>6, <1>7, <1>8, <1>9, <1>10 DEF IInv

LEMMA ResumeStep == ASSUME IInv, Resume PROVE IInv'
<1>1. FreshEngine /\ alive' /\ status' = "running" /\ lives' = lives + 1
      /\ UNCHANGED <<row, actorSeq, caps, heard>>
  BY DEF Resume
<1>2. Places' /\ HeardIsRecorded'
  BY <1>1, Frames DEF IInv
<1>3. \A a \in Asks : row'[a] # None => actorSeq'[a] \in Nat
  BY <1>1 DEF IInv, Places, TypeOK
<1>4. /\ Counters' /\ PhasesRecorded' /\ Queued' /\ InSlot' /\ Fresh' /\ Turns'
      /\ Loops' /\ Scanned' /\ SlotsExact'
  BY <1>1, <1>3, NewEngine
<1>5. TypeOK'
  <2>1. recordedCount' \in [Actors -> Nat]
    BY <1>1, RowsFinite DEF FreshEngine
  <2>2. /\ alive' \in BOOLEAN
    BY <1>1 DEF Resume
  <2> QED
    BY <1>1, <2>1, <2>2, EmptyTypes DEF IInv, TypeOK, FreshEngine, Phases
<1> QED
  BY <1>2, <1>4, <1>5 DEF IInv

-----------------------------------------------------------------------------
(* The calls and the admission loop.                                       *)

LEMMA CallStep ==
    ASSUME IInv, NEW a \in Asks, Ask(a)
    PROVE  IInv'
<1> DEFINE x == ActorOf[a]
<1>1. /\ x \in Actors /\ On /\ phase[a] = "uncalled" /\ drainFor = None /\ pumping = <<>>
      /\ phase' = [phase EXCEPT ![a] = "held"] /\ drainFor' = x
      /\ UNCHANGED <<row, actorSeq, status, caps, alive, liveQueue, current, nextAdmitSeq,
                     recordedCount, activeAsks, dispatching, session, repairs, nudges, turn,
                     heard, lives>>
      /\ pumping' = <<x>> \/ pumping' = <<x>> \o ActorOrder
      /\ \/ UNCHANGED pendingLive
         \/ row[a] = None /\ pendingLive' = [pendingLive EXCEPT ![x] = Append(@, a)]
  BY AsksAssumption DEF Ask, AskRecorded, AskFresh, Called, On, Idle, journal, async, budget
<1> HIDE DEF x
<1>2. /\ On' /\ pumping' \in Seq(Actors) /\ x \in Members(pumping')
  BY <1>1, Scans DEF On, IsRunSettled
<1>3. TypeOK'
  <2>1. pendingLive' \in [Actors -> Seq(Asks)]
    <3>1. pendingLive \in [Actors -> Seq(Asks)]
      BY DEF IInv, TypeOK
    <3>2. Append(pendingLive[x], a) \in Seq(Asks)
      BY <3>1, <1>1, Appending
    <3> QED
      BY <3>1, <3>2, <1>1
  <2>2. phase' \in [Asks -> Phases]
    BY <1>1 DEF IInv, TypeOK, Phases
  <2> QED
    BY <1>1, <1>2, <2>1, <2>2 DEF IInv, TypeOK
<1>4. Places' /\ Counters' /\ SlotsExact' /\ HeardIsRecorded'
  BY <1>1, Frames DEF IInv
<1>5. PhasesRecorded'
  BY <1>1 DEF IInv, PhasesRecorded, On, IsRunSettled, TypeOK, Admitted, InFlight
<1>6. Queued'
  BY <1>1 DEF IInv, Queued, On, IsRunSettled, TypeOK
<1>7. InSlot'
  BY <1>1 DEF IInv, InSlot, On, IsRunSettled, TypeOK, Working
<1>8. Fresh'
  <2> SUFFICES ASSUME NEW y \in Actors
               PROVE  /\ \A b \in Members(pendingLive'[y]) :
                            ActorOf[b] = y /\ phase'[b] = "held" /\ row'[b] = None
                      /\ \A i, j \in DOMAIN pendingLive'[y] :
                            pendingLive'[y][i] = pendingLive'[y][j] => i = j
    BY DEF Fresh
  <2>1. /\ \A b \in Members(pendingLive[y]) :
              ActorOf[b] = y /\ phase[b] = "held" /\ row[b] = None
        /\ \A i, j \in DOMAIN pendingLive[y] :
              pendingLive[y][i] = pendingLive[y][j] => i = j
        /\ pendingLive[y] \in Seq(Asks)
    BY <1>1 DEF IInv, Fresh, TypeOK
  <2>2. \A b \in Members(pendingLive[y]) : phase'[b] = "held"
    <3>1. \A b \in Members(pendingLive[y]) : b \in Asks
      BY <2>1, ElementOfSeq, LenProperties DEF Members
    <3> QED
      BY <3>1, <2>1, <1>1 DEF IInv, TypeOK
  <2>3. CASE pendingLive'[y] = pendingLive[y]
    BY <2>1, <2>2, <2>3, <1>1
  <2>4. CASE y = x /\ row[a] = None /\ pendingLive'[y] = Append(pendingLive[y], a)
    <3>1. a \notin Members(pendingLive[y])
      BY <2>1, <1>1
    <3>2. /\ Len(pendingLive[y]) \in Nat /\ DOMAIN pendingLive[y] = 1 .. Len(pendingLive[y])
          /\ DOMAIN pendingLive'[y] = 1 .. Len(pendingLive[y]) + 1
          /\ pendingLive'[y][Len(pendingLive[y]) + 1] = a
          /\ \A i \in 1 .. Len(pendingLive[y]) : pendingLive'[y][i] = pendingLive[y][i]
          /\ Members(pendingLive'[y]) = Members(pendingLive[y]) \cup {a}
      BY <2>1, <2>4, Appending
    <3>3. phase'[a] = "held" /\ row'[a] = None /\ ActorOf[a] = y
      BY <2>4, <1>1 DEF IInv, TypeOK, x
    <3>4. ASSUME NEW i \in 1 .. Len(pendingLive[y]) + 1, NEW j \in 1 .. Len(pendingLive[y]) + 1,
                 pendingLive'[y][i] = pendingLive'[y][j]
          PROVE  i = j
      <4>1. \A k \in 1 .. Len(pendingLive[y]) : pendingLive[y][k] # a
        BY <3>1, <3>2 DEF Members
      <4>2. i \in 1 .. Len(pendingLive[y]) \/ i = Len(pendingLive[y]) + 1
        BY <3>2
      <4>3. j \in 1 .. Len(pendingLive[y]) \/ j = Len(pendingLive[y]) + 1
        BY <3>2
      <4> QED
        BY <4>1, <4>2, <4>3, <3>2, <3>4, <2>1
    <3> QED
      BY <2>1, <2>2, <3>2, <3>3, <3>4, <1>1
  <2> QED
    BY <2>3, <2>4, <1>1 DEF IInv, TypeOK
<1>9. Turns'
  BY <1>1 DEF IInv, Turns, On, IsRunSettled, TypeOK, InFlight
<1>10. Loops'
  BY <1>1, <1>2 DEF Loops, On, IsRunSettled
<1>11. Scanned'
  <2>1. \A y \in Actors : y \notin Members(<<>>)
    BY EmptyTypes
  <2> QED
    BY <1>1, <2>1 DEF IInv, Scanned, On, IsRunSettled
<1> QED
  BY <1>3, <1>4, <1>5, <1>6, <1>7, <1>8, <1>9, <1>10, <1>11 DEF IInv

(* What the journal's positions say of an ask that is about to enter the   *)
(* queue of its actor: it comes after everything admitted so far.          *)
LEMMA Enqueued ==
    ASSUME IInv, On, On', NEW a \in Asks, phase[a] = "held",
           phase' = [phase EXCEPT ![a] = "queued"],
           liveQueue' = [liveQueue EXCEPT ![ActorOf[a]] = Append(@, a)],
           actorSeq'[a] = nextAdmitSeq[ActorOf[a]],
           \A b \in Asks : b # a => actorSeq'[b] = actorSeq[b],
           UNCHANGED current
    PROVE  Queued' /\ InSlot' /\ liveQueue' \in [Actors -> Seq(Asks)]
<1> DEFINE x == ActorOf[a]
<1> DEFINE q == liveQueue[x]
<1> DEFINE r == Append(q, a)
<1>1. /\ x \in Actors /\ q \in Seq(Asks) /\ liveQueue' = [liveQueue EXCEPT ![x] = r]
      /\ liveQueue \in [Actors -> Seq(Asks)] /\ phase \in [Asks -> Phases]
      /\ nextAdmitSeq[x] \in Nat /\ actorSeq \in [Asks -> Nat \cup {Nowhere}]
  BY AsksAssumption DEF IInv, TypeOK
<1>2. /\ Len(q) \in Nat /\ DOMAIN q = 1 .. Len(q) /\ r \in Seq(Asks)
      /\ DOMAIN r = 1 .. Len(q) + 1 /\ r[Len(q) + 1] = a
      /\ \A i \in 1 .. Len(q) : r[i] = q[i]
      /\ Members(r) = Members(q) \cup {a}
  BY <1>1, Appending
<1> HIDE DEF x, q, r
<1>3. liveQueue'[x] = r /\ \A y \in Actors : y # x => liveQueue'[y] = liveQueue[y]
  BY <1>1
<1>4. \A y \in Actors : \A b \in Members(liveQueue[y]) : b \in Asks /\ ActorOf[b] = y
  <2>1. \A y \in Actors : \A b \in Members(liveQueue[y]) : b \in Asks
    BY <1>1, ElementOfSeq, LenProperties DEF Members
  <2> QED
    BY <2>1 DEF IInv, Queued
<1>5. \A b \in Asks : phase[b] = "queued" <=> b \in Members(liveQueue[ActorOf[b]])
  BY DEF IInv, Queued
<1>6. \A b \in Members(q) : b \in Asks /\ b # a /\ phase[b] = "queued" /\ ActorOf[b] = x
  BY <1>1, <1>4, <1>5 DEF q
<1>7. \A b \in Asks : phase[b] \in InFlight /\ ActorOf[b] = x => actorSeq[b] < nextAdmitSeq[x]
  BY DEF IInv, PhasesRecorded, Admitted
<1>8. liveQueue' \in [Actors -> Seq(Asks)]
  BY <1>1, <1>2
<1>9. Queued'
  <2>1. ASSUME NEW b \in Asks
        PROVE  phase'[b] = "queued" <=> b \in Members(liveQueue'[ActorOf[b]])
    <3>0. ActorOf[b] \in Actors
      BY AsksAssumption
    <3>1. CASE b = a
      BY <3>1, <1>1, <1>2, <1>3 DEF x
    <3>2. CASE b # a /\ ActorOf[b] = x
      <4>1. Members(liveQueue'[ActorOf[b]]) = Members(q) \cup {a}
        BY <3>2, <1>2, <1>3
      <4>2. phase'[b] = phase[b]
        BY <3>2, <1>1
      <4> QED
        BY <3>2, <4>1, <4>2, <1>5 DEF q
    <3>3. CASE b # a /\ ActorOf[b] # x
      BY <3>0, <3>3, <1>1, <1>3, <1>5
    <3> QED
      BY <3>1, <3>2, <3>3
  <2>2. ASSUME NEW y \in Actors
        PROVE  \A b \in Members(liveQueue'[y]) : ActorOf[b] = y
    <3>1. CASE y = x
      <4>1. Members(liveQueue'[y]) = Members(q) \cup {a}
        BY <3>1, <1>2, <1>3
      <4> QED
        BY <3>1, <4>1, <1>6 DEF x
    <3>2. CASE y # x
      BY <3>2, <1>3, <1>4
    <3> QED
      BY <3>1, <3>2
  <2>3. ASSUME NEW y \in Actors, NEW i \in DOMAIN liveQueue'[y], NEW j \in DOMAIN liveQueue'[y],
               i < j
        PROVE  actorSeq'[liveQueue'[y][i]] < actorSeq'[liveQueue'[y][j]]
    <3>0. \A k, l \in DOMAIN liveQueue[y] :
             k < l => actorSeq[liveQueue[y][k]] < actorSeq[liveQueue[y][l]]
      BY DEF IInv, Queued
    <3>1. CASE y # x
      <4>1. \A k \in DOMAIN liveQueue[y] : liveQueue[y][k] \in Asks /\ liveQueue[y][k] # a
        BY <3>1, <1>4 DEF Members, x
      <4> QED
        <5>1. liveQueue'[y] = liveQueue[y]
          BY <3>1, <1>3
        <5>2. i \in DOMAIN liveQueue[y] /\ j \in DOMAIN liveQueue[y]
          BY <5>1, <2>3
        <5>3. actorSeq[liveQueue[y][i]] < actorSeq[liveQueue[y][j]]
          BY <3>0, <5>2, <2>3
        <5> QED
          BY <4>1, <5>1, <5>2, <5>3
    <3>2. CASE y = x
      <4>1. \A k \in 1 .. Len(q) : q[k] \in Asks /\ q[k] # a /\ actorSeq'[q[k]] = actorSeq[q[k]]
                                    /\ actorSeq[q[k]] < nextAdmitSeq[x]
        BY <1>2, <1>6, <1>7 DEF Members, InFlight
      <4>2. i \in 1 .. Len(q)
        BY <3>2, <1>2, <1>3, <2>3
      <4>3. j \in 1 .. Len(q) \/ j = Len(q) + 1
        BY <3>2, <1>2, <1>3
      <4>4. CASE j \in 1 .. Len(q)
        BY <3>0, <3>2, <4>1, <4>2, <4>4, <1>2, <1>3, <2>3 DEF q
      <4>5. CASE j = Len(q) + 1
        BY <3>2, <4>1, <4>2, <4>5, <1>2, <1>3 DEF x
      <4> QED
        BY <4>3, <4>4, <4>5
    <3> QED
      BY <3>1, <3>2
  <2> QED
    BY <2>1, <2>2, <2>3 DEF Queued
<1>10. InSlot'
  <2>0. /\ \A b \in Asks : phase[b] \in Working <=> current[ActorOf[b]] = b
        /\ \A y \in Actors : current[y] # None =>
              /\ ActorOf[current[y]] = y
              /\ \A b \in Members(liveQueue[y]) : actorSeq[current[y]] < actorSeq[b]
        /\ current \in [Actors -> Asks \cup {None}]
    BY DEF IInv, InSlot, TypeOK
  <2>1. \A b \in Asks : phase'[b] \in Working <=> current'[ActorOf[b]] = b
    BY <2>0, <1>1 DEF Working
  <2>2. ASSUME NEW y \in Actors, current'[y] # None
        PROVE  ActorOf[current'[y]] = y
               /\ \A b \in Members(liveQueue'[y]) : actorSeq'[current'[y]] < actorSeq'[b]
    <3>1. /\ current[y] \in Asks /\ ActorOf[current[y]] = y /\ phase[current[y]] \in Working
          /\ current[y] # a
      BY <2>0, <2>2 DEF Working
    <3>2. CASE y # x
      BY <2>0, <2>2, <3>1, <3>2, <1>3, <1>4 DEF x
    <3>3. CASE y = x
      <4>1. actorSeq[current[y]] < nextAdmitSeq[x] /\ actorSeq'[current[y]] = actorSeq[current[y]]
        BY <3>1, <3>3, <1>7 DEF Working, InFlight
      <4>2. \A b \in Members(q) : actorSeq[current[y]] < actorSeq[b] /\ actorSeq'[b] = actorSeq[b]
        BY <2>0, <2>2, <3>3, <1>6 DEF q
      <4> QED
        <5>1. liveQueue'[y] = r /\ current'[y] = current[y] /\ actorSeq'[a] = nextAdmitSeq[x]
          BY <3>3, <1>3 DEF x
        <5>2. Members(liveQueue'[y]) = Members(q) \cup {a}
          BY <5>1, <1>2
        <5>3. actorSeq'[current'[y]] < actorSeq'[a]
          BY <4>1, <5>1
        <5>4. \A b \in Members(q) : actorSeq'[current'[y]] < actorSeq'[b]
          BY <4>1, <4>2, <5>1
        <5> QED
          BY <3>1, <5>1, <5>2, <5>3, <5>4
    <3> QED
      BY <3>2, <3>3
  <2> QED
    BY <2>1, <2>2 DEF InSlot
<1> QED
  BY <1>8, <1>9, <1>10

LEMMA AdmitRecordedStep == ASSUME IInv, AdmitRecorded PROVE IInv'
<1> DEFINE x == drainFor
<1>1. PICK a \in NextRecorded(x) :
         /\ nextAdmitSeq' = [nextAdmitSeq EXCEPT ![x] = @ + 1]
         /\ IF row[a] = "running"
            THEN /\ phase' = [phase EXCEPT ![a] = "queued"]
                 /\ liveQueue' = [liveQueue EXCEPT ![x] = Append(@, a)]
            ELSE /\ phase' = [phase EXCEPT ![a] = "parked"]
                 /\ UNCHANGED liveQueue
  BY DEF AdmitRecorded
<1>2. /\ alive /\ drainFor # None
      /\ UNCHANGED <<row, actorSeq, status, caps, alive, pendingLive, current, recordedCount,
                     activeAsks, dispatching, session, repairs, nudges, drainFor, pumping, turn,
                     heard, lives>>
  BY DEF AdmitRecorded, journal, async, budget, loops
<1>3. /\ On /\ On' /\ x \in Members(pumping) /\ x \in Actors
  BY <1>2 DEF IInv, Loops, On, TypeOK, IsRunSettled
<1>4. /\ a \in Asks /\ ActorOf[a] = x /\ phase[a] = "held" /\ row[a] # None
      /\ actorSeq[a] = nextAdmitSeq[x]
  BY <1>1 DEF NextRecorded
<1>5. /\ nextAdmitSeq \in [Actors -> Nat] /\ actorSeq \in [Asks -> Nat \cup {Nowhere}]
      /\ phase \in [Asks -> Phases] /\ row \in [Asks -> {None, "running"} \cup Final]
  BY DEF IInv, TypeOK
<1> HIDE DEF x
<1>6. Queued' /\ InSlot' /\ liveQueue' \in [Actors -> Seq(Asks)]
  <2>1. CASE row[a] = "running"
    BY <2>1, <1>1, <1>2, <1>3, <1>4, Enqueued
  <2>2. CASE row[a] # "running"
    <3>1. phase' = [phase EXCEPT ![a] = "parked"] /\ UNCHANGED liveQueue
      BY <2>2, <1>1
    <3>2. \A b \in Asks : /\ phase'[b] = "queued" <=> phase[b] = "queued"
                          /\ phase'[b] \in Working <=> phase[b] \in Working
      BY <3>1, <1>4, <1>5 DEF Working
    <3> QED
      BY <3>1, <3>2, <1>2, <1>3 DEF IInv, Queued, InSlot, TypeOK
  <2> QED
    BY <2>1, <2>2
<1>7. TypeOK'
  <2>1. phase' \in [Asks -> Phases] /\ nextAdmitSeq' \in [Actors -> Nat]
    BY <1>1, <1>3, <1>4, <1>5 DEF Phases
  <2> QED
    BY <2>1, <1>2, <1>6 DEF IInv, TypeOK
<1>8. Places' /\ SlotsExact' /\ HeardIsRecorded' /\ Loops'
  BY <1>2, Frames DEF IInv
<1>9. Counters'
  <2>1. \A y \in Actors : Rows(y)' = Rows(y)
    BY <1>2 DEF Rows
  <2>2. actorSeq[a] < Cardinality(Rows(x)) /\ Cardinality(Rows(x)) \in Nat
    BY <1>4, RowsFinite DEF IInv, Places
  <2>3. /\ nextAdmitSeq[x] + 1 <= Cardinality(Rows(x))
        /\ nextAdmitSeq[x] # Cardinality(Rows(x))
    BY <2>2, <1>3, <1>4, <1>5
  <2>4. nextAdmitSeq'[x] = nextAdmitSeq[x] + 1
        /\ \A y \in Actors : y # x => nextAdmitSeq'[y] = nextAdmitSeq[y]
    BY <1>1, <1>3, <1>5
  <2> QED
    BY <2>1, <2>3, <2>4, <1>2, <1>3 DEF IInv, Counters
<1>10. PhasesRecorded'
  <2> SUFFICES ASSUME NEW b \in Asks
               PROVE  /\ phase'[b] # "aborted"
                      /\ phase'[b] \in Admitted <=>
                            row[b] # None /\ actorSeq[b] < nextAdmitSeq'[ActorOf[b]]
                      /\ phase'[b] \in InFlight => row[b] = "running"
                      /\ phase'[b] \in {"parked", "answered"} => row[b] \in Final
    BY <1>2 DEF PhasesRecorded
  <2>0. /\ phase[b] # "aborted"
        /\ phase[b] \in Admitted <=> row[b] # None /\ actorSeq[b] < nextAdmitSeq[ActorOf[b]]
        /\ phase[b] \in InFlight => row[b] = "running"
        /\ phase[b] \in {"parked", "answered"} => row[b] \in Final
    BY <1>3 DEF IInv, PhasesRecorded
  <2>1. CASE b = a
    <3>1. actorSeq[a] < nextAdmitSeq'[x]
      BY <1>1, <1>3, <1>4, <1>5
    <3>2. phase'[a] = IF row[a] = "running" THEN "queued" ELSE "parked"
      BY <1>1, <1>4, <1>5
    <3> QED
      BY <2>1, <3>1, <3>2, <1>4, <1>5 DEF Admitted, InFlight
  <2>2. CASE b # a
    <3>1. phase'[b] = phase[b]
      BY <2>2, <1>1, <1>5
    <3>2. CASE ActorOf[b] = x /\ row[b] # None
      <4>1. actorSeq[b] # nextAdmitSeq[x]
        BY <2>2, <3>2, <1>4 DEF IInv, Places
      <4>2. actorSeq[b] \in Nat
        BY <3>2, <1>5 DEF IInv, Places
      <4>3. actorSeq[b] < nextAdmitSeq'[x] <=> actorSeq[b] < nextAdmitSeq[x]
        BY <4>1, <4>2, <1>1, <1>3, <1>5
      <4> QED
        BY <2>0, <3>1, <3>2, <4>3
    <3>3. CASE ActorOf[b] # x \/ row[b] = None
      <4>1. ActorOf[b] # x => nextAdmitSeq'[ActorOf[b]] = nextAdmitSeq[ActorOf[b]]
        BY <1>1, <1>5, AsksAssumption
      <4> QED
        BY <2>0, <3>1, <3>3, <4>1
    <3> QED
      BY <3>2, <3>3
  <2> QED
    BY <2>1, <2>2
<1>11. Fresh'
  <2>1. \A y \in Actors : \A b \in Members(pendingLive[y]) : b \in Asks
    BY ElementOfSeq, LenProperties DEF Members, IInv, TypeOK
  <2>2. \A y \in Actors : \A b \in Members(pendingLive[y]) : phase'[b] = phase[b]
    BY <2>1, <1>1, <1>3, <1>4, <1>5 DEF IInv, Fresh
  <2> QED
    BY <2>2, <1>2, <1>3 DEF IInv, Fresh
<1>12. Turns'
  BY <1>1, <1>2, <1>3, <1>4, <1>5 DEF IInv, Turns, InFlight
<1>13. Scanned'
  <2>1. \A y \in Actors : y # x => liveQueue'[y] = liveQueue[y]
    BY <1>1 DEF IInv, TypeOK
  <2> QED
    BY <2>1, <1>2, <1>3 DEF IInv, Scanned
<1> QED
  BY <1>6, <1>7, <1>8, <1>9, <1>10, <1>11, <1>12, <1>13 DEF IInv

LEMMA AdmitFreshFacts ==
    ASSUME IInv, AdmitFresh, NEW a, a = Head(pendingLive[drainFor])
    PROVE  /\ a \in Asks /\ ActorOf[a] = drainFor /\ drainFor \in Actors
           /\ phase[a] = "held" /\ row[a] = None /\ actorSeq[a] = Nowhere
           /\ On /\ On' /\ drainFor \in Members(pumping)
           /\ nextAdmitSeq[drainFor] \in Nat
           /\ nextAdmitSeq[drainFor] = Cardinality(Rows(drainFor))
           /\ pendingLive[drainFor] \in Seq(Asks) /\ pendingLive[drainFor] # <<>>
           /\ pendingLive' = [pendingLive EXCEPT ![drainFor] = Tail(@)]
           /\ actorSeq' = [actorSeq EXCEPT ![a] = nextAdmitSeq[drainFor]]
           /\ row' = [row EXCEPT ![a] = "running"]
           /\ phase' = [phase EXCEPT ![a] = "queued"]
           /\ liveQueue' = [liveQueue EXCEPT ![drainFor] = Append(@, a)]
           /\ nextAdmitSeq' = [nextAdmitSeq EXCEPT ![drainFor] = @ + 1]
           /\ UNCHANGED <<status, caps, alive, current, recordedCount, activeAsks, dispatching,
                          session, repairs, nudges, drainFor, pumping, turn, heard, lives>>
<1> DEFINE x == drainFor
<1>1. /\ alive /\ drainFor # None /\ RecordedAreIn(x)
      /\ pendingLive' = [pendingLive EXCEPT ![x] = Tail(@)]
      /\ actorSeq' = [actorSeq EXCEPT ![a] = nextAdmitSeq[x]]
      /\ row' = [row EXCEPT ![a] = "running"]
      /\ phase' = [phase EXCEPT ![a] = "queued"]
      /\ liveQueue' = [liveQueue EXCEPT ![x] = Append(@, a)]
      /\ nextAdmitSeq' = [nextAdmitSeq EXCEPT ![x] = @ + 1]
      /\ UNCHANGED <<status, caps, alive, current, recordedCount, activeAsks, dispatching,
                     session, repairs, nudges, drainFor, pumping, turn, heard, lives>>
  BY DEF AdmitFresh, async, budget, loops
<1>2. On /\ On' /\ x \in Members(pumping) /\ x \in Actors
  BY <1>1 DEF IInv, Loops, On, TypeOK, IsRunSettled
<1> HIDE DEF x
<1>3. pendingLive[x] # <<>> /\ pendingLive[x] \in Seq(Asks)
  BY <1>1, <1>2 DEF RecordedAreIn, IInv, TypeOK
<1>4. a \in Asks /\ a \in Members(pendingLive[x])
  BY <1>3, Taking DEF x
<1>5. ActorOf[a] = x /\ phase[a] = "held" /\ row[a] = None
  BY <1>2, <1>4 DEF IInv, Fresh
<1>6. actorSeq[a] = Nowhere
  BY <1>4, <1>5 DEF IInv, Places
<1>7. nextAdmitSeq[x] \in Nat /\ nextAdmitSeq[x] = Cardinality(Rows(x))
  <2>1. nextAdmitSeq[x] \in Nat /\ recordedCount[x] \in Nat /\ Cardinality(Rows(x)) \in Nat
    BY <1>2, RowsFinite DEF IInv, TypeOK
  <2>2. nextAdmitSeq[x] >= recordedCount[x]
    BY <1>1 DEF RecordedAreIn
  <2>3. /\ nextAdmitSeq[x] <= Cardinality(Rows(x))
        /\ Cardinality(Rows(x)) = recordedCount[x] \/ Cardinality(Rows(x)) = nextAdmitSeq[x]
    BY <1>2 DEF IInv, Counters
  <2> QED
    BY <2>1, <2>2, <2>3
<1> QED
  BY <1>1, <1>2, <1>3, <1>4, <1>5, <1>6, <1>7 DEF x

LEMMA AdmitFreshStep == ASSUME IInv, AdmitFresh PROVE IInv'
<1>0. PICK x \in Actors : x = drainFor
  BY DEF AdmitFresh, IInv, TypeOK
<1>2. PICK a : a = Head(pendingLive[x])
  OBVIOUS
<1> DEFINE n == nextAdmitSeq[x]
<1>1. /\ a \in Asks /\ ActorOf[a] = x /\ x \in Actors
      /\ phase[a] = "held" /\ row[a] = None /\ actorSeq[a] = Nowhere
      /\ On /\ On' /\ x \in Members(pumping)
      /\ n \in Nat /\ n = Cardinality(Rows(x))
      /\ pendingLive[x] \in Seq(Asks) /\ pendingLive[x] # <<>>
      /\ pendingLive' = [pendingLive EXCEPT ![x] = Tail(@)]
      /\ actorSeq' = [actorSeq EXCEPT ![a] = n]
      /\ row' = [row EXCEPT ![a] = "running"]
      /\ phase' = [phase EXCEPT ![a] = "queued"]
      /\ liveQueue' = [liveQueue EXCEPT ![x] = Append(@, a)]
      /\ nextAdmitSeq' = [nextAdmitSeq EXCEPT ![x] = @ + 1]
      /\ UNCHANGED <<status, caps, alive, current, recordedCount, activeAsks, dispatching,
                     session, repairs, nudges, drainFor, pumping, turn, heard, lives>>
  BY <1>0, <1>2, AdmitFreshFacts
<1>3. /\ nextAdmitSeq \in [Actors -> Nat] /\ actorSeq \in [Asks -> Nat \cup {Nowhere}]
      /\ phase \in [Asks -> Phases] /\ row \in [Asks -> {None, "running"} \cup Final]
      /\ liveQueue \in [Actors -> Seq(Asks)] /\ pendingLive \in [Actors -> Seq(Asks)]
  BY DEF IInv, TypeOK
<1>4. \A y \in Actors : Cardinality(Rows(y)) \in Nat
  BY RowsFinite
<1> HIDE DEF n
<1>n. nextAdmitSeq'[x] = n + 1 /\ \A y \in Actors : y # x => nextAdmitSeq'[y] = nextAdmitSeq[y]
  BY <1>1, <1>3 DEF n
<1>5. actorSeq'[a] = n /\ \A b \in Asks : b # a => actorSeq'[b] = actorSeq[b]
  BY <1>1, <1>3
<1>6. Queued' /\ InSlot' /\ liveQueue' \in [Actors -> Seq(Asks)]
  BY <1>1, <1>5, Enqueued DEF n
<1>7. TypeOK'
  <2>1. /\ phase' \in [Asks -> Phases] /\ nextAdmitSeq' \in [Actors -> Nat]
        /\ actorSeq' \in [Asks -> Nat \cup {Nowhere}]
        /\ row' \in [Asks -> {None, "running"} \cup Final]
    BY <1>1, <1>3 DEF Phases
  <2>2. pendingLive' \in [Actors -> Seq(Asks)]
    <3>1. Tail(pendingLive[x]) \in Seq(Asks)
      BY <1>1, Taking
    <3> QED
      BY <3>1, <1>1, <1>3
  <2> QED
    BY <2>1, <2>2, <1>1, <1>6 DEF IInv, TypeOK
<1>8. /\ Rows(x)' = Rows(x) \cup {a} /\ Cardinality(Rows(x)') = n + 1
      /\ \A y \in Actors : y # x => Rows(y)' = Rows(y)
  <2>1. Rows(x)' = Rows(x) \cup {a}
    <3>1. \A b \in Asks : b # a => row'[b] = row[b]
      BY <1>1, <1>3
    <3>2. row'[a] # None
      BY <1>1, <1>3 DEF None
    <3> QED
      BY <3>1, <3>2, <1>1 DEF Rows
  <2>2. a \notin Rows(x) /\ IsFiniteSet(Rows(x))
    BY <1>1, RowsFinite DEF Rows
  <2>3. Cardinality(Rows(x) \cup {a}) = n + 1
    BY <2>2, <1>1, FS_AddElement
  <2>4. \A y \in Actors : y # x => Rows(y)' = Rows(y)
    BY <1>1, <1>3 DEF Rows
  <2> QED
    BY <2>1, <2>3, <2>4
<1>9. Places'
  <2>1. ASSUME NEW b \in Asks
        PROVE  /\ row'[b] = None <=> actorSeq'[b] = Nowhere
               /\ row'[b] # None => actorSeq'[b] < Cardinality(Rows(ActorOf[b])')
               /\ b # a /\ row'[b] # None /\ ActorOf[b] = x => actorSeq'[b] < n
    <3>0. /\ row[b] = None <=> actorSeq[b] = Nowhere
          /\ row[b] # None => actorSeq[b] < Cardinality(Rows(ActorOf[b]))
      BY DEF IInv, Places
    <3>1. CASE b = a
      <4>1. row'[a] = "running" /\ row'[a] # None
        BY <1>1, <1>3 DEF None
      <4>2. actorSeq'[a] # Nowhere /\ n < n + 1
        BY <1>1, <1>5 DEF Nowhere
      <4> QED
        <5>1. Cardinality(Rows(ActorOf[a])') = n + 1
          BY <1>1, <1>8
        <5> QED
          BY <3>1, <4>1, <4>2, <5>1, <1>1, <1>5
    <3>2. CASE b # a
      <4>1. row'[b] = row[b] /\ actorSeq'[b] = actorSeq[b]
        BY <3>2, <1>1, <1>3
      <4>2. CASE ActorOf[b] = x
        <5>1. row[b] # None => actorSeq[b] < n
          BY <3>0, <4>2, <1>1
        <5>2. actorSeq[b] \in Nat \cup {Nowhere}
          BY <1>3
        <5>3. row[b] # None => actorSeq[b] < n + 1
          BY <5>1, <5>2, <1>1 DEF Nowhere
        <5> QED
          <6>1. Cardinality(Rows(ActorOf[b])') = n + 1
            BY <4>2, <1>8
          <6> QED
            BY <3>0, <4>1, <5>1, <5>3, <6>1
      <4>3. CASE ActorOf[b] # x
        BY <3>0, <4>1, <4>3, <1>8, AsksAssumption
      <4> QED
        BY <4>2, <4>3
    <3> QED
      BY <3>1, <3>2
  <2>2. ASSUME NEW b \in Asks, NEW c \in Asks, row'[b] # None, ActorOf[b] = ActorOf[c],
               actorSeq'[b] = actorSeq'[c]
        PROVE  b = c
    <3>1. CASE b # a /\ c # a
      <4>1. row[b] # None /\ actorSeq[b] = actorSeq[c]
        BY <3>1, <2>2, <1>1, <1>3
      <4> QED
        BY <4>1, <2>2 DEF IInv, Places
    <3>2. CASE b = a /\ c # a
      <4>1. actorSeq'[c] = n /\ ActorOf[c] = x
        BY <3>2, <2>2, <1>1, <1>5
      <4>2. row'[c] # None
        BY <4>1, <2>1, <1>1 DEF Nowhere
      <4>3. n < n
        BY <3>2, <4>1, <4>2, <2>1
      <4> QED
        BY <4>3, <1>1
    <3>3. CASE b # a /\ c = a
      <4>1. actorSeq'[b] = n /\ ActorOf[b] = x
        BY <3>3, <2>2, <1>1, <1>5
      <4>2. n < n
        BY <3>3, <4>1, <2>1, <2>2
      <4> QED
        BY <4>2, <1>1
    <3> QED
      BY <3>1, <3>2, <3>3
  <2> QED
    BY <2>1, <2>2 DEF Places
<1>10. Counters'
  <2> SUFFICES ASSUME NEW y \in Actors
               PROVE  /\ recordedCount[y] <= Cardinality(Rows(y)')
                      /\ nextAdmitSeq'[y] <= Cardinality(Rows(y)')
                      /\ Cardinality(Rows(y)') \in {recordedCount[y], nextAdmitSeq'[y]}
    BY <1>1 DEF Counters
  <2>0. /\ recordedCount[y] <= Cardinality(Rows(y)) /\ nextAdmitSeq[y] <= Cardinality(Rows(y))
        /\ Cardinality(Rows(y)) \in {recordedCount[y], nextAdmitSeq[y]}
        /\ recordedCount[y] \in Nat
    BY <1>1 DEF IInv, Counters, TypeOK
  <2>1. CASE y = x
    <3>1. recordedCount[x] <= n + 1
      BY <2>0, <2>1, <1>1
    <3> QED
      <4>1. Cardinality(Rows(y)') = n + 1 /\ nextAdmitSeq'[y] = n + 1
        BY <2>1, <1>n, <1>8
      <4>2. n + 1 <= n + 1
        BY <1>1
      <4> QED
        BY <2>1, <3>1, <4>1, <4>2
  <2>2. CASE y # x
    BY <2>0, <2>2, <1>n, <1>8
  <2> QED
    BY <2>1, <2>2
<1>11. PhasesRecorded'
  <2> SUFFICES ASSUME NEW b \in Asks
               PROVE  /\ phase'[b] # "aborted"
                      /\ phase'[b] \in Admitted <=>
                            row'[b] # None /\ actorSeq'[b] < nextAdmitSeq'[ActorOf[b]]
                      /\ phase'[b] \in InFlight => row'[b] = "running"
                      /\ phase'[b] \in {"parked", "answered"} => row'[b] \in Final
    BY DEF PhasesRecorded
  <2>0. /\ phase[b] # "aborted"
        /\ phase[b] \in Admitted <=> row[b] # None /\ actorSeq[b] < nextAdmitSeq[ActorOf[b]]
        /\ phase[b] \in InFlight => row[b] = "running"
        /\ phase[b] \in {"parked", "answered"} => row[b] \in Final
    BY <1>1 DEF IInv, PhasesRecorded
  <2>1. CASE b = a
    <3>1. phase'[a] = "queued" /\ row'[a] = "running" /\ n < n + 1
      BY <1>1, <1>3
    <3> QED
      BY <2>1, <3>1, <1>1, <1>5, <1>n DEF Admitted, InFlight, None
  <2>2. CASE b # a
    <3>1. phase'[b] = phase[b] /\ row'[b] = row[b] /\ actorSeq'[b] = actorSeq[b]
      BY <2>2, <1>1, <1>3
    <3>2. CASE ActorOf[b] = x
      <4>1. row[b] # None => actorSeq[b] < n
        BY <3>2, <1>1 DEF IInv, Places
      <4>2. row[b] # None => actorSeq[b] < n + 1
        <5>1. actorSeq[b] \in Int /\ n \in Int
          BY <1>1, <1>3 DEF Nowhere
        <5> QED
          BY <4>1, <5>1
      <4> QED
        BY <2>0, <3>1, <3>2, <4>1, <4>2, <1>n DEF n
    <3>3. CASE ActorOf[b] # x
      BY <2>0, <3>1, <3>3, <1>n, AsksAssumption
    <3> QED
      BY <3>2, <3>3
  <2> QED
    BY <2>1, <2>2
<1>12. Fresh'
  <2> SUFFICES ASSUME NEW y \in Actors
               PROVE  /\ \A b \in Members(pendingLive'[y]) :
                            ActorOf[b] = y /\ phase'[b] = "held" /\ row'[b] = None
                      /\ \A i, j \in DOMAIN pendingLive'[y] :
                            pendingLive'[y][i] = pendingLive'[y][j] => i = j
    BY DEF Fresh
  <2>1. /\ \A b \in Members(pendingLive[y]) :
              ActorOf[b] = y /\ phase[b] = "held" /\ row[b] = None
        /\ \A i, j \in DOMAIN pendingLive[y] :
              pendingLive[y][i] = pendingLive[y][j] => i = j
        /\ \A b \in Members(pendingLive[y]) : b \in Asks
    BY <1>1, <1>3, ElementOfSeq, LenProperties DEF IInv, Fresh, Members
  <2>2. \A b \in Members(pendingLive[y]) : b # a => phase'[b] = "held" /\ row'[b] = None
    BY <2>1, <1>1, <1>3
  <2>3. CASE y # x
    <3>1. pendingLive'[y] = pendingLive[y] /\ a \notin Members(pendingLive[y])
      BY <2>3, <2>1, <1>1, <1>3
    <3> QED
      BY <3>1, <2>1, <2>2
  <2>4. CASE y = x
    <3> DEFINE p == pendingLive[x]
    <3> DEFINE t == Tail(p)
    <3>1. /\ Len(p) \in Nat /\ DOMAIN p = 1 .. Len(p) /\ 1 \in DOMAIN p /\ a = p[1]
          /\ DOMAIN t = 1 .. Len(p) - 1
          /\ \A i \in 1 .. Len(p) - 1 : t[i] = p[i + 1] /\ i + 1 \in DOMAIN p
          /\ Members(p) = Members(t) \cup {Head(p)}
      BY <1>1, <1>2, Taking
    <3>2. pendingLive'[y] = t
      BY <2>4, <1>1, <1>3
    <3>3. \A i, j \in DOMAIN p : p[i] = p[j] => i = j
      BY <2>1, <2>4
    <3> HIDE DEF p, t
    <3>4. ASSUME NEW i \in DOMAIN t, NEW j \in DOMAIN t, t[i] = t[j]
          PROVE  i = j
      <4>1. p[i + 1] = p[j + 1] /\ i + 1 \in DOMAIN p /\ j + 1 \in DOMAIN p
        BY <3>1, <3>4
      <4>2. i + 1 = j + 1
        BY <3>3, <4>1
      <4> QED
        BY ONLY <3>1, <4>2, i \in DOMAIN t, j \in DOMAIN t
    <3>5. a \notin Members(t)
      <4> SUFFICES ASSUME NEW i \in DOMAIN t, t[i] = a
                   PROVE  FALSE
        BY DEF Members
      <4>1. p[i + 1] = p[1] /\ i + 1 \in DOMAIN p
        BY <3>1
      <4>2. i + 1 = 1
        BY <3>1, <3>3, <4>1
      <4> QED
        BY ONLY <3>1, <4>2, i \in DOMAIN t
    <3>6. Members(t) \subseteq Members(p) /\ Members(p) = Members(pendingLive[y])
      BY <3>1, <2>4 DEF p
    <3> QED
      BY <3>2, <3>4, <3>5, <3>6, <2>1, <2>2
  <2> QED
    BY <2>3, <2>4
<1>13. Turns'
  BY <1>1, <1>3 DEF IInv, Turns, InFlight
<1>14. SlotsExact' /\ Loops'
  BY <1>1, Frames DEF IInv
<1>15. HeardIsRecorded'
  <2>1. heard[a] = None
    BY <1>1 DEF IInv, HeardIsRecorded
  <2> QED
    BY <2>1, <1>1, <1>3 DEF IInv, HeardIsRecorded
<1>16. Scanned'
  <2>1. \A y \in Actors : y # x => liveQueue'[y] = liveQueue[y]
    BY <1>1, <1>3
  <2> QED
    BY <2>1, <1>1 DEF IInv, Scanned
<1> QED
  BY <1>6, <1>7, <1>9, <1>10, <1>11, <1>12, <1>13, <1>14, <1>15, <1>16 DEF IInv

(* Releasing a cached answer.                                              *)
LEMMA ReleaseStep == ASSUME IInv, NEW a \in Asks, ReleaseCached(a) PROVE IInv'
<1>1. /\ Idle /\ phase[a] = "parked"
      /\ phase' = [phase EXCEPT ![a] = "answered"]
      /\ heard' = [heard EXCEPT ![a] = row[a]]
      /\ UNCHANGED <<row, actorSeq, status, caps, alive, pendingLive, liveQueue, current,
                     nextAdmitSeq, recordedCount, activeAsks, dispatching, session, repairs,
                     nudges, drainFor, pumping, turn, lives>>
  BY DEF ReleaseCached, journal, queues, async, budget, loops
<1>2. /\ On /\ On' /\ row[a] \in Final
      /\ phase \in [Asks -> Phases] /\ heard \in [Asks -> {None} \cup Final]
  BY <1>1 DEF IInv, Turns, On, IsRunSettled, PhasesRecorded, TypeOK
<1>3. TypeOK'
  <2>1. phase' \in [Asks -> Phases] /\ heard' \in [Asks -> {None} \cup Final]
    BY <1>1, <1>2 DEF Phases
  <2> QED
    BY <2>1, <1>1 DEF IInv, TypeOK
<1>4. Places' /\ Counters' /\ Loops' /\ Scanned' /\ SlotsExact'
  BY <1>1, Frames DEF IInv
<1>5. \A b \in Asks : b # a => phase'[b] = phase[b]
  BY <1>1, <1>2
<1>6. phase'[a] = "answered"
  BY <1>1, <1>2
<1>7. PhasesRecorded'
  <2> SUFFICES ASSUME NEW b \in Asks
               PROVE  /\ phase'[b] # "aborted"
                      /\ phase'[b] \in Admitted <=>
                            row[b] # None /\ actorSeq[b] < nextAdmitSeq[ActorOf[b]]
                      /\ phase'[b] \in InFlight => row[b] = "running"
                      /\ phase'[b] \in {"parked", "answered"} => row[b] \in Final
    BY <1>1 DEF PhasesRecorded
  <2>1. /\ phase[b] # "aborted"
        /\ phase[b] \in Admitted <=> row[b] # None /\ actorSeq[b] < nextAdmitSeq[ActorOf[b]]
        /\ phase[b] \in InFlight => row[b] = "running"
        /\ phase[b] \in {"parked", "answered"} => row[b] \in Final
    BY <1>2 DEF IInv, PhasesRecorded
  <2> QED
    BY <2>1, <1>1, <1>2, <1>5, <1>6 DEF Admitted, InFlight
<1>8. Queued'
  <2>1. \A b \in Asks : phase'[b] = "queued" <=> phase[b] = "queued"
    BY <1>1, <1>5, <1>6
  <2> QED
    BY <2>1, <1>1, <1>2 DEF IInv, Queued
<1>9. InSlot'
  <2>1. \A b \in Asks : phase'[b] \in Working <=> phase[b] \in Working
    BY <1>1, <1>5, <1>6 DEF Working
  <2> QED
    BY <2>1, <1>1, <1>2 DEF IInv, InSlot
<1>10. Fresh'
  <2>1. \A y \in Actors : \A b \in Members(pendingLive[y]) : b \in Asks /\ b # a
    <3>1. \A y \in Actors : \A b \in Members(pendingLive[y]) : b \in Asks
      BY ElementOfSeq, LenProperties DEF Members, IInv, TypeOK
    <3> QED
      BY <3>1, <1>1, <1>2 DEF IInv, Fresh
  <2> QED
    BY <2>1, <1>1, <1>2, <1>5 DEF IInv, Fresh
<1>11. Turns'
  BY <1>1, <1>2, <1>5, <1>6 DEF IInv, Turns, InFlight
<1>12. HeardIsRecorded'
  BY <1>1, <1>2 DEF IInv, HeardIsRecorded
<1> QED
  BY <1>3, <1>4, <1>7, <1>8, <1>9, <1>10, <1>11, <1>12 DEF IInv

(* Nothing the invariant relates to anything else has changed.             *)
LEMMA SideStep ==
    ASSUME IInv, TypeOK',
           UNCHANGED <<row, actorSeq, status, caps, alive, phase, pendingLive, liveQueue, current,
                       nextAdmitSeq, recordedCount, activeAsks, drainFor, pumping, turn, heard>>
    PROVE  IInv'
BY Frames DEF IInv

LEMMA DrainDoneStep == ASSUME IInv, DrainDone PROVE IInv'
<1> USE DEF DrainDone, journal, queues, async, budget
<1>1. TypeOK'
  BY DEF IInv, TypeOK
<1>2. Loops'
  BY DEF IInv, Loops, IsRunSettled
<1>3. /\ Places' /\ Counters' /\ PhasesRecorded' /\ Queued' /\ InSlot' /\ Fresh' /\ Turns'
      /\ Scanned' /\ SlotsExact' /\ HeardIsRecorded'
  BY Frames DEF IInv
<1> QED
  BY <1>1, <1>2, <1>3 DEF IInv

(* An actor takes the first ask of its queue.                              *)
LEMMA TakesFirst ==
    ASSUME IInv, On, On', NEW x \in Actors, current[x] = None, liveQueue[x] # <<>>,
           NEW h, h = Head(liveQueue[x]),
           current' = [current EXCEPT ![x] = h],
           liveQueue' = [liveQueue EXCEPT ![x] = Tail(@)],
           phase' = [phase EXCEPT ![h] = "starting"],
           UNCHANGED actorSeq
    PROVE  /\ h \in Asks /\ ActorOf[h] = x /\ phase[h] = "queued" /\ Queued' /\ InSlot'
           /\ liveQueue' \in [Actors -> Seq(Asks)]
<1> DEFINE q == liveQueue[x]
<1> DEFINE t == Tail(q)
<1>1. /\ q \in Seq(Asks) /\ liveQueue' = [liveQueue EXCEPT ![x] = t] /\ h = Head(q) /\ q # <<>>
      /\ liveQueue \in [Actors -> Seq(Asks)] /\ phase \in [Asks -> Phases]
      /\ actorSeq \in [Asks -> Nat \cup {Nowhere}] /\ current \in [Actors -> Asks \cup {None}]
  BY DEF IInv, TypeOK
<1>2. /\ Len(q) \in Nat /\ DOMAIN q = 1 .. Len(q) /\ 1 \in DOMAIN q /\ h = q[1] /\ h \in Asks
      /\ h \in Members(q) /\ t \in Seq(Asks) /\ DOMAIN t = 1 .. Len(q) - 1
      /\ \A i \in 1 .. Len(q) - 1 : t[i] = q[i + 1] /\ i + 1 \in DOMAIN q
      /\ Members(q) = Members(t) \cup {h}
  BY <1>1, Taking
<1>3. /\ \A b \in Asks : phase[b] = "queued" <=> b \in Members(liveQueue[ActorOf[b]])
      /\ \A y \in Actors : \A b \in Members(liveQueue[y]) : ActorOf[b] = y
      /\ \A y \in Actors : \A i, j \in DOMAIN liveQueue[y] :
            i < j => actorSeq[liveQueue[y][i]] < actorSeq[liveQueue[y][j]]
  BY DEF IInv, Queued
<1>4. \A i, j \in DOMAIN q : i < j => actorSeq[q[i]] < actorSeq[q[j]]
  BY <1>3
<1>5. ActorOf[h] = x /\ phase[h] = "queued"
  BY <1>2, <1>3
<1>6. liveQueue'[x] = t /\ \A y \in Actors : y # x => liveQueue'[y] = liveQueue[y]
  BY <1>1
<1>7. \A y \in Actors : \A b \in Members(liveQueue[y]) : b \in Asks
  BY <1>1, ElementOfSeq, LenProperties DEF Members
<1> HIDE DEF q, t
<1>8. \A b \in Members(t) : b \in Asks /\ actorSeq[h] < actorSeq[b] /\ b # h
  <2> SUFFICES ASSUME NEW i \in DOMAIN t
               PROVE  t[i] \in Asks /\ actorSeq[h] < actorSeq[t[i]] /\ t[i] # h
    BY DEF Members
  <2>1. t[i] = q[i + 1] /\ i + 1 \in DOMAIN q /\ 1 < i + 1
    BY <1>2
  <2>2. actorSeq[h] < actorSeq[t[i]]
    BY <2>1, <1>2, <1>4
  <2>3. t[i] \in Asks
    BY <1>2, ElementOfSeq, LenProperties
  <2>4. actorSeq[h] \in Int
    BY <1>1, <1>2 DEF Nowhere
  <2> QED
    BY <2>2, <2>3, <2>4
<1>9. \A b \in Asks : b # h => phase'[b] = phase[b]
  BY <1>1
<1>10. phase'[h] = "starting"
  BY <1>1, <1>2
<1>11. Queued'
  <2>1. ASSUME NEW b \in Asks
        PROVE  phase'[b] = "queued" <=> b \in Members(liveQueue'[ActorOf[b]])
    <3>1. CASE b = h
      BY <3>1, <1>5, <1>6, <1>8, <1>10
    <3>2. CASE b # h /\ ActorOf[b] = x
      <4>1. b \in Members(t) <=> b \in Members(q)
        BY <3>2, <1>2
      <4> QED
        BY <3>2, <4>1, <1>3, <1>6, <1>9 DEF q
    <3>3. CASE b # h /\ ActorOf[b] # x
      BY <3>3, <1>3, <1>6, <1>9, AsksAssumption
    <3> QED
      BY <3>1, <3>2, <3>3
  <2>2. ASSUME NEW y \in Actors
        PROVE  Members(liveQueue'[y]) \subseteq Members(liveQueue[y])
    BY <1>2, <1>6 DEF q
  <2>3. ASSUME NEW y \in Actors, NEW i \in DOMAIN liveQueue'[y], NEW j \in DOMAIN liveQueue'[y],
               i < j
        PROVE  actorSeq[liveQueue'[y][i]] < actorSeq[liveQueue'[y][j]]
    <3>1. CASE y # x
      BY <3>1, <1>3, <1>6, <2>3
    <3>2. CASE y = x
      <4>1. i \in DOMAIN t /\ j \in DOMAIN t
        BY <3>2, <1>6
      <4>2. t[i] = q[i + 1] /\ t[j] = q[j + 1] /\ i + 1 \in DOMAIN q /\ j + 1 \in DOMAIN q
        BY <4>1, <1>2
      <4>3. i + 1 < j + 1
        BY ONLY <4>1, <2>3, <1>2
      <4> QED
        BY <3>2, <4>2, <4>3, <1>4, <1>6
    <3> QED
      BY <3>1, <3>2
  <2> QED
    BY <2>1, <2>2, <2>3, <1>3 DEF Queued
<1>12. InSlot'
  <2>0. /\ \A b \in Asks : phase[b] \in Working <=> current[ActorOf[b]] = b
        /\ \A y \in Actors : current[y] # None =>
              /\ ActorOf[current[y]] = y
              /\ \A b \in Members(liveQueue[y]) : actorSeq[current[y]] < actorSeq[b]
    BY DEF IInv, InSlot
  <2>1. ASSUME NEW b \in Asks
        PROVE  phase'[b] \in Working <=> current'[ActorOf[b]] = b
    <3>1. CASE b = h
      BY <3>1, <1>1, <1>5, <1>10 DEF Working
    <3>2. CASE b # h /\ ActorOf[b] = x
      BY <3>2, <2>0, <1>1, <1>9, ActorsAssumption
    <3>3. CASE b # h /\ ActorOf[b] # x
      BY <3>3, <2>0, <1>1, <1>9
    <3> QED
      BY <3>1, <3>2, <3>3
  <2>2. ASSUME NEW y \in Actors, current'[y] # None
        PROVE  ActorOf[current'[y]] = y
               /\ \A b \in Members(liveQueue'[y]) : actorSeq[current'[y]] < actorSeq[b]
    <3>1. CASE y = x
      <4>1. current'[y] = h /\ liveQueue'[y] = t
        BY <3>1, <1>1, <1>6
      <4> QED
        BY <3>1, <4>1, <1>5, <1>8
    <3>2. CASE y # x
      BY <3>2, <2>0, <2>2, <1>1, <1>6
    <3> QED
      BY <3>1, <3>2
  <2> QED
    BY <2>1, <2>2 DEF InSlot
<1>13. liveQueue' \in [Actors -> Seq(Asks)]
  BY <1>1, <1>2
<1> QED
  BY <1>2, <1>5, <1>11, <1>12, <1>13

LEMMA PumpStep == ASSUME IInv, PumpActor PROVE IInv'
<1>1. PICK x : x = Head(pumping)
  OBVIOUS
<1>2. /\ alive /\ drainFor = None /\ pumping # <<>> /\ pumping' = Tail(pumping)
      /\ IF current[x] = None /\ liveQueue[x] # <<>> /\ SlotFree
         THEN /\ current' = [current EXCEPT ![x] = Head(liveQueue[x])]
              /\ liveQueue' = [liveQueue EXCEPT ![x] = Tail(@)]
              /\ activeAsks' = activeAsks + 1
              /\ phase' = [phase EXCEPT ![Head(liveQueue[x])] = "starting"]
              /\ dispatching' = dispatching \cup {Head(liveQueue[x])}
              /\ session' = [session EXCEPT ![x] = IF @ = None THEN "creating" ELSE @]
         ELSE UNCHANGED <<current, liveQueue, activeAsks, phase, dispatching, session>>
      /\ UNCHANGED <<row, actorSeq, status, caps, alive, pendingLive, nextAdmitSeq,
                     recordedCount, repairs, nudges, drainFor, turn, heard, lives>>
  BY <1>1 DEF PumpActor, journal, async, budget
<1>3. On /\ On'
  BY <1>2 DEF IInv, Loops, On, IsRunSettled
<1>4. /\ x \in Actors /\ Tail(pumping) \in Seq(Actors)
      /\ Members(pumping) = Members(pumping') \cup {x}
  BY <1>1, <1>2, Taking DEF IInv, TypeOK
<1>5. Places' /\ Counters' /\ HeardIsRecorded'
  BY <1>2, Frames DEF IInv
<1>6. Loops'
  BY <1>2, <1>3 DEF Loops, On
<1>7. CASE ~(current[x] = None /\ liveQueue[x] # <<>> /\ SlotFree)
  <2>1. UNCHANGED <<current, liveQueue, activeAsks, phase, dispatching, session>>
    BY <1>2, <1>7
  <2>2. TypeOK'
    BY <2>1, <1>2, <1>4 DEF IInv, TypeOK
  <2>3. PhasesRecorded' /\ Queued' /\ InSlot' /\ Fresh' /\ Turns' /\ SlotsExact'
    BY <2>1, <1>2, Frames DEF IInv
  <2>4. Scanned'
    <3> SUFFICES ASSUME NEW y \in Actors, current[y] = None, liveQueue[y] # <<>>
                 PROVE  activeAsks >= caps \/ y \in Members(pumping')
      BY <2>1, <1>2 DEF Scanned
    <3>1. activeAsks >= caps \/ y \in Members(pumping)
      BY <1>3 DEF IInv, Scanned
    <3>2. CASE y = x
      <4>1. ~(activeAsks < caps)
        BY <3>2, <1>7 DEF SlotFree
      <4> QED
        BY <4>1, BoundsAssumption DEF IInv, TypeOK
    <3> QED
      BY <3>1, <3>2, <1>4
  <2> QED
    BY <2>2, <2>3, <2>4, <1>5, <1>6 DEF IInv
<1>8. CASE current[x] = None /\ liveQueue[x] # <<>> /\ SlotFree
  <2>1. PICK h : h = Head(liveQueue[x])
    OBVIOUS
  <2>2. /\ current' = [current EXCEPT ![x] = h]
        /\ liveQueue' = [liveQueue EXCEPT ![x] = Tail(@)]
        /\ activeAsks' = activeAsks + 1
        /\ phase' = [phase EXCEPT ![h] = "starting"]
        /\ dispatching' = dispatching \cup {h}
        /\ session' = [session EXCEPT ![x] = IF @ = None THEN "creating" ELSE @]
    BY <2>1, <1>2, <1>8
  <2>3. /\ h \in Asks /\ ActorOf[h] = x /\ phase[h] = "queued" /\ Queued' /\ InSlot'
        /\ liveQueue' \in [Actors -> Seq(Asks)]
    BY <2>1, <2>2, <1>2, <1>3, <1>4, <1>8, TakesFirst
  <2>4. /\ current \in [Actors -> Asks \cup {None}] /\ phase \in [Asks -> Phases]
        /\ activeAsks \in Nat /\ caps \in Nat /\ h # None
    BY <2>3, BoundsAssumption, ActorsAssumption DEF IInv, TypeOK
  <2>5. TypeOK'
    <3>1. /\ current' \in [Actors -> Asks \cup {None}] /\ phase' \in [Asks -> Phases]
          /\ activeAsks' \in Nat /\ dispatching' \subseteq Asks
      BY <2>2, <2>3, <2>4 DEF IInv, TypeOK, Phases
    <3>2. session' \in [Actors -> {None, "creating", "ready", "failed"}]
      BY <2>2 DEF IInv, TypeOK
    <3> QED
      BY <3>1, <3>2, <2>3, <1>2, <1>4 DEF IInv, TypeOK
  <2>6. PhasesRecorded'
    <3>1. \A b \in Asks : b # h => phase'[b] = phase[b]
      BY <2>2, <2>4
    <3>2. phase'[h] = "starting"
      BY <2>2, <2>3, <2>4
    <3> SUFFICES ASSUME NEW b \in Asks
                 PROVE  /\ phase'[b] # "aborted"
                        /\ phase'[b] \in Admitted <=>
                              row[b] # None /\ actorSeq[b] < nextAdmitSeq[ActorOf[b]]
                        /\ phase'[b] \in InFlight => row[b] = "running"
                        /\ phase'[b] \in {"parked", "answered"} => row[b] \in Final
      BY <1>2 DEF PhasesRecorded
    <3>3. /\ phase[b] # "aborted"
          /\ phase[b] \in Admitted <=> row[b] # None /\ actorSeq[b] < nextAdmitSeq[ActorOf[b]]
          /\ phase[b] \in InFlight => row[b] = "running"
          /\ phase[b] \in {"parked", "answered"} => row[b] \in Final
      BY <1>3 DEF IInv, PhasesRecorded
    <3> QED
      BY <3>1, <3>2, <3>3, <2>3 DEF Admitted, InFlight
  <2>7. Fresh'
    <3>1. \A y \in Actors : \A b \in Members(pendingLive[y]) : b \in Asks
      BY ElementOfSeq, LenProperties DEF Members, IInv, TypeOK
    <3>2. \A y \in Actors : \A b \in Members(pendingLive[y]) : b # h
      BY <3>1, <2>3, <1>3 DEF IInv, Fresh
    <3>3. \A y \in Actors : \A b \in Members(pendingLive[y]) : phase'[b] = phase[b]
      BY <3>1, <3>2, <2>2, <2>4
    <3> QED
      BY <3>3, <1>2, <1>3 DEF IInv, Fresh
  <2>8. Turns'
    BY <2>2, <2>3, <2>4, <1>2, <1>3 DEF IInv, Turns, InFlight
  <2>9. SlotsExact'
    <3> DEFINE S == {y \in Actors : current[y] # None}
    <3>1. {y \in Actors : current'[y] # None} = S \cup {x}
      BY <2>2, <2>4, <1>4
    <3>2. x \notin S /\ IsFiniteSet(S)
      BY <1>8, ActorsAssumption, FS_Subset
    <3>3. activeAsks = Cardinality(S)
      BY <1>3 DEF On, IInv, SlotsExact
    <3>4. Cardinality(S \cup {x}) = Cardinality(S) + 1
      BY <3>2, FS_AddElement
    <3> QED
      BY <3>1, <3>3, <3>4, <2>2 DEF SlotsExact
  <2>10. Scanned'
    <3> SUFFICES ASSUME NEW y \in Actors, current'[y] = None, liveQueue'[y] # <<>>
                 PROVE  y \in Members(pumping')
      BY <1>3 DEF Scanned
    <3>1. y # x
      BY <2>2, <2>4, <1>4
    <3>2. current[y] = None /\ liveQueue[y] # <<>>
      BY <3>1, <2>2, <2>4 DEF IInv, TypeOK
    <3>3. ~(activeAsks >= caps)
      BY <2>4, <1>8 DEF SlotFree
    <3> QED
      BY <3>1, <3>2, <3>3, <1>3, <1>4 DEF IInv, Scanned
  <2> QED
    BY <2>3, <2>5, <2>6, <2>7, <2>8, <2>9, <2>10, <1>5, <1>6 DEF IInv
<1> QED
  BY <1>7, <1>8

(* A session comes back, a retry is spent, an awaited session turns out to *)
(* be of no use any more: nothing that is related to anything else moves.  *)
LEMMA SideSteps ==
    ASSUME IInv, NEW a \in Asks, NEW x \in Actors,
           \/ SessionCreated(x)
           \/ SubmitRejected(a)
           \/ TurnNudged(a)
           \/ Dispatched(a) /\ Abandoned(a)
           \/ DispatchFailed(a) /\ Abandoned(a)
    PROVE  IInv'
<1> USE DEF journal, queues, async, budget, loops
<1>1. CASE SessionCreated(x)
  <2>1. TypeOK'
    BY <1>1 DEF SessionCreated, IInv, TypeOK
  <2> QED
    BY <2>1, <1>1, SideStep DEF SessionCreated
<1>2. CASE SubmitRejected(a)
  <2>1. repairs' \in [Asks -> 0 .. RepairAttempts]
    BY <1>2, BoundsAssumption DEF SubmitRejected, Spend, IInv, TypeOK
  <2>2. TypeOK'
    BY <2>1, <1>2 DEF SubmitRejected, UntouchedByRetry, IInv, TypeOK
  <2> QED
    BY <2>2, <1>2, SideStep DEF SubmitRejected, UntouchedByRetry
<1>3. CASE TurnNudged(a)
  <2>1. nudges' \in [Asks -> 0 .. NudgeAttempts]
    BY <1>3, BoundsAssumption DEF TurnNudged, Spend, IInv, TypeOK
  <2>2. TypeOK'
    BY <2>1, <1>3 DEF TurnNudged, UntouchedByRetry, IInv, TypeOK
  <2> QED
    BY <2>2, <1>3, SideStep DEF TurnNudged, UntouchedByRetry
<1>4. CASE Dispatched(a) /\ Abandoned(a)
  <2>1. TypeOK'
    BY <1>4 DEF Dispatched, IInv, TypeOK
  <2> QED
    BY <2>1, <1>4, SideStep DEF Dispatched
<1>5. CASE DispatchFailed(a) /\ Abandoned(a)
  <2>1. TypeOK'
    BY <1>5 DEF DispatchFailed, IInv, TypeOK
  <2> QED
    BY <2>1, <1>5, SideStep DEF DispatchFailed
<1> QED
  BY <1>1, <1>2, <1>3, <1>4, <1>5

LEMMA DispatchedStep ==
    ASSUME IInv, NEW a \in Asks, Dispatched(a), ~Abandoned(a)
    PROVE  IInv'
<1>1. /\ Idle /\ ~IsRunSettled /\ phase[a] = "starting"
      /\ phase' = [phase EXCEPT ![a] = "started"] /\ turn' = [turn EXCEPT ![a] = "running"]
      /\ dispatching' = dispatching \ {a}
      /\ UNCHANGED <<row, actorSeq, status, caps, alive, pendingLive, liveQueue, current,
                     nextAdmitSeq, recordedCount, activeAsks, session, repairs, nudges,
                     drainFor, pumping, heard, lives>>
  BY DEF Dispatched, Abandoned, journal, queues, budget, loops
<1>2. /\ On /\ On' /\ phase \in [Asks -> Phases]
      /\ turn \in [Asks -> {None, "running", "over"}]
  BY <1>1 DEF Idle, On, IsRunSettled, IInv, TypeOK
<1>3. TypeOK'
  <2>1. phase' \in [Asks -> Phases] /\ turn' \in [Asks -> {None, "running", "over"}]
    BY <1>1, <1>2 DEF Phases
  <2> QED
    BY <2>1, <1>1 DEF IInv, TypeOK
<1>4. Places' /\ Counters' /\ Loops' /\ Scanned' /\ SlotsExact' /\ HeardIsRecorded'
  BY <1>1, Frames DEF IInv
<1>5. phase'[a] = "started" /\ \A b \in Asks : b # a => phase'[b] = phase[b]
  BY <1>1, <1>2
<1>6. PhasesRecorded'
  <2>1. \A b \in Asks : /\ phase'[b] \in Admitted <=> phase[b] \in Admitted
                        /\ phase'[b] \in InFlight <=> phase[b] \in InFlight
                        /\ phase'[b] \in {"parked", "answered"} <=>
                              phase[b] \in {"parked", "answered"}
                        /\ phase'[b] = "aborted" <=> phase[b] = "aborted"
    BY <1>1, <1>5 DEF Admitted, InFlight
  <2> QED
    BY <2>1, <1>1, <1>2 DEF IInv, PhasesRecorded
<1>7. Queued'
  <2>1. \A b \in Asks : phase'[b] = "queued" <=> phase[b] = "queued"
    BY <1>1, <1>5
  <2> QED
    BY <2>1, <1>1, <1>2 DEF IInv, Queued
<1>8. InSlot'
  <2>1. \A b \in Asks : phase'[b] \in Working <=> phase[b] \in Working
    BY <1>1, <1>5 DEF Working
  <2> QED
    BY <2>1, <1>1, <1>2 DEF IInv, InSlot
<1>9. Fresh'
  <2>1. \A y \in Actors : \A b \in Members(pendingLive[y]) : b \in Asks
    BY ElementOfSeq, LenProperties DEF Members, IInv, TypeOK
  <2>2. \A y \in Actors : \A b \in Members(pendingLive[y]) : phase'[b] = phase[b]
    BY <2>1, <1>1, <1>2, <1>5 DEF IInv, Fresh
  <2> QED
    BY <2>2, <1>1, <1>2 DEF IInv, Fresh
<1>10. Turns'
  BY <1>1, <1>2, <1>5 DEF IInv, Turns, InFlight
<1> QED
  BY <1>3, <1>4, <1>6, <1>7, <1>8, <1>9, <1>10 DEF IInv

(* Whoever reports on a turn that is live holds its actor's slot.          *)
LEMMA LiveWorks ==
    ASSUME IInv, NEW a \in Asks, Live(a)
    PROVE  Idle /\ On /\ phase[a] = "started"
BY DEF Live, IInv, Turns, TypeOK, InFlight, On, IsRunSettled, Idle

LEMMA SettleStep ==
    ASSUME IInv, Idle, On, NEW a \in Asks, phase[a] \in Working,
           NEW outcome \in Final, Settle(a, outcome), dispatching' \subseteq dispatching
    PROVE  IInv'
<1> DEFINE x == ActorOf[a]
<1>1. /\ row' = [row EXCEPT ![a] = outcome]
      /\ phase' = [phase EXCEPT ![a] = "answered"]
      /\ turn' = [turn EXCEPT ![a] = IF @ = "running" THEN "over" ELSE @]
      /\ pumping' = ActorOrder
      /\ heard' = [heard EXCEPT ![a] = outcome]
      /\ UNCHANGED <<actorSeq, status, caps, alive, pendingLive, liveQueue, nextAdmitSeq,
                     recordedCount, session, repairs, nudges, drainFor, lives>>
  BY DEF Settle, RecordOutcome, ScanAfter, budget
<1>2. x \in Actors /\ current[x] = a /\ a # None
  BY AsksAssumption, ActorsAssumption DEF IInv, InSlot
<1>3. current' = [current EXCEPT ![x] = None] /\ activeAsks' = activeAsks - 1
  BY <1>2 DEF Settle, FreeSlot
<1>4. /\ On' /\ row[a] = "running" /\ drainFor = None
      /\ phase \in [Asks -> Phases] /\ row \in [Asks -> {None, "running"} \cup Final]
      /\ turn \in [Asks -> {None, "running", "over"}]
      /\ current \in [Actors -> Asks \cup {None}] /\ activeAsks \in Nat
      /\ heard \in [Asks -> {None} \cup Final]
  BY <1>1 DEF IInv, TypeOK, On, IsRunSettled, Idle, PhasesRecorded, Working, InFlight
<1> HIDE DEF x
<1>5. /\ row'[a] = outcome /\ row'[a] # None /\ phase'[a] = "answered"
      /\ \A b \in Asks : b # a => row'[b] = row[b] /\ phase'[b] = phase[b]
  BY <1>1, <1>4 DEF Final, None
<1>s. activeAsks' \in Nat /\ SlotsExact'
  <2> DEFINE S == {y \in Actors : current[y] # None}
  <2>1. {y \in Actors : current'[y] # None} = S \ {x}
    BY <1>3, <1>4
  <2>2. x \in S /\ IsFiniteSet(S)
    BY <1>2, ActorsAssumption, FS_Subset
  <2>3. activeAsks = Cardinality(S)
    BY DEF On, IInv, SlotsExact
  <2>4. Cardinality(S \ {x}) = Cardinality(S) - 1 /\ IsFiniteSet(S \ {x})
    BY <2>2, FS_RemoveElement
  <2>5. activeAsks' = Cardinality(S \ {x}) /\ Cardinality(S \ {x}) \in Nat
    BY <2>3, <2>4, <1>3, FS_CardinalityType
  <2> QED
    BY <2>1, <2>5 DEF SlotsExact
<1>6. TypeOK'
  <2>1. /\ row' \in [Asks -> {None, "running"} \cup Final] /\ phase' \in [Asks -> Phases]
        /\ turn' \in [Asks -> {None, "running", "over"}]
        /\ heard' \in [Asks -> {None} \cup Final]
        /\ current' \in [Actors -> Asks \cup {None}]
    BY <1>1, <1>3, <1>4 DEF Phases
  <2>2. pumping' \in Seq(Actors)
    BY <1>1, ActorsAssumption
  <2> QED
    BY <2>1, <2>2, <1>1, <1>s DEF IInv, TypeOK
<1>7. \A y \in Actors : Rows(y)' = Rows(y)
  BY <1>4, <1>5 DEF Rows, None
<1>8. Places' /\ Counters'
  <2>1. \A b \in Asks : row'[b] = None <=> row[b] = None
    BY <1>4, <1>5 DEF None
  <2>2. \A b \in Asks : Rows(ActorOf[b])' = Rows(ActorOf[b])
    BY <1>7, AsksAssumption
  <2>3. Places'
    BY <2>1, <2>2, <1>1 DEF IInv, Places
  <2>4. Counters'
    BY <1>7, <1>1 DEF IInv, Counters, On, IsRunSettled
  <2> QED
    BY <2>3, <2>4
<1>9. PhasesRecorded'
  <2> SUFFICES ASSUME NEW b \in Asks
               PROVE  /\ phase'[b] # "aborted"
                      /\ phase'[b] \in Admitted <=>
                            row'[b] # None /\ actorSeq[b] < nextAdmitSeq[ActorOf[b]]
                      /\ phase'[b] \in InFlight => row'[b] = "running"
                      /\ phase'[b] \in {"parked", "answered"} => row'[b] \in Final
    BY <1>1 DEF PhasesRecorded
  <2>1. /\ phase[b] # "aborted"
        /\ phase[b] \in Admitted <=> row[b] # None /\ actorSeq[b] < nextAdmitSeq[ActorOf[b]]
        /\ phase[b] \in InFlight => row[b] = "running"
        /\ phase[b] \in {"parked", "answered"} => row[b] \in Final
    BY DEF IInv, PhasesRecorded
  <2> QED
    BY <2>1, <1>4, <1>5 DEF Admitted, InFlight, Working
<1>10. Queued'
  <2>1. \A b \in Asks : phase'[b] = "queued" <=> phase[b] = "queued"
    BY <1>5 DEF Working
  <2> QED
    BY <2>1, <1>1 DEF IInv, Queued, On, IsRunSettled
<1>11. InSlot'
  <2>0. /\ \A b \in Asks : phase[b] \in Working <=> current[ActorOf[b]] = b
        /\ \A y \in Actors : current[y] # None =>
              /\ ActorOf[current[y]] = y
              /\ \A b \in Members(liveQueue[y]) : actorSeq[current[y]] < actorSeq[b]
    BY DEF IInv, InSlot
  <2>1. current'[x] = None /\ \A y \in Actors : y # x => current'[y] = current[y]
    BY <1>2, <1>3, <1>4
  <2>2. ASSUME NEW b \in Asks
        PROVE  phase'[b] \in Working <=> current'[ActorOf[b]] = b
    <3>0. b # None /\ ActorOf[b] \in Actors
      BY ActorsAssumption, AsksAssumption
    <3>1. CASE b = a
      BY <3>0, <3>1, <2>1, <1>5 DEF Working, x
    <3>2. CASE b # a /\ ActorOf[b] = x
      BY <3>0, <3>2, <2>0, <2>1, <1>2, <1>5
    <3>3. CASE ActorOf[b] # x
      BY <3>0, <3>3, <2>0, <2>1, <1>5 DEF x
    <3> QED
      BY <3>1, <3>2, <3>3
  <2>3. ASSUME NEW y \in Actors, current'[y] # None
        PROVE  ActorOf[current'[y]] = y
               /\ \A b \in Members(liveQueue'[y]) : actorSeq'[current'[y]] < actorSeq'[b]
    <3>1. y # x /\ current'[y] = current[y]
      BY <2>1, <2>3
    <3> QED
      BY <3>1, <2>0, <2>3, <1>1
  <2> QED
    BY <2>2, <2>3 DEF InSlot
<1>12. Fresh'
  <2>1. \A y \in Actors : \A b \in Members(pendingLive[y]) : b \in Asks
    BY ElementOfSeq, LenProperties DEF Members, IInv, TypeOK
  <2>2. \A y \in Actors : \A b \in Members(pendingLive[y]) :
           phase'[b] = phase[b] /\ row'[b] = row[b]
    BY <2>1, <1>5 DEF IInv, Fresh, Working
  <2> QED
    BY <2>2, <1>1 DEF IInv, Fresh, On, IsRunSettled
<1>13. Turns'
  BY <1>1, <1>4, <1>5 DEF IInv, Turns, InFlight, Working
<1>14. Loops'
  BY <1>1, <1>4 DEF Loops, On
<1>15. Scanned'
  BY <1>1, Scans DEF Scanned
<1>16. HeardIsRecorded'
  BY <1>1, <1>4, <1>5 DEF IInv, HeardIsRecorded
<1> QED
  BY <1>s, <1>6, <1>8, <1>9, <1>10, <1>11, <1>12, <1>13, <1>14, <1>15, <1>16 DEF IInv

LEMMA CapStep == ASSUME IInv, NEW n \in Caps, SetMaxConcurrency(n) PROVE IInv'
<1>1. /\ Idle /\ ~IsRunSettled /\ caps' = n
      /\ pumping' = IF n > caps THEN ActorOrder ELSE pumping
      /\ UNCHANGED <<row, actorSeq, status, alive, phase, pendingLive, liveQueue, current,
                     nextAdmitSeq, recordedCount, activeAsks, dispatching, session, repairs,
                     nudges, drainFor, turn, heard, lives>>
  BY DEF SetMaxConcurrency, queues, async, budget
<1>2. pumping' \in Seq(Actors)
  BY <1>1, ActorsAssumption DEF IInv, TypeOK
<1>3. TypeOK'
  BY <1>1, <1>2 DEF IInv, TypeOK
<1>4. Loops'
  BY <1>1 DEF Loops, Idle, IsRunSettled
<1>5. Scanned'
  <2> SUFFICES ASSUME On, NEW x \in Actors, current[x] = None, liveQueue[x] # <<>>
               PROVE  activeAsks >= n \/ x \in Members(pumping')
    BY <1>1 DEF Scanned, On, IsRunSettled
  <2>1. CASE n > caps
    BY <2>1, <1>1, Scans
  <2>2. CASE ~(n > caps)
    <3>1. activeAsks >= caps
      BY <1>1, EmptyTypes DEF IInv, Scanned, Idle
    <3> QED
      BY <2>2, <3>1, BoundsAssumption DEF IInv, TypeOK
  <2> QED
    BY <2>1, <2>2
<1>6. /\ Places' /\ Counters' /\ PhasesRecorded' /\ Queued' /\ InSlot' /\ Fresh' /\ Turns'
      /\ SlotsExact' /\ HeardIsRecorded'
  BY <1>1, Frames DEF IInv
<1> QED
  BY <1>3, <1>4, <1>5, <1>6 DEF IInv

-----------------------------------------------------------------------------
(* The invariant, and what it is for.                                      *)

(* The steps that settle a live ask, each with its outcome.                *)
LEMMA Settling ==
    ASSUME IInv, NEW a \in Asks,
           \/ SubmitAccepted(a) \/ SubmitExhausted(a) \/ TurnEnded(a) \/ TurnExhausted(a)
           \/ AskFailed(a)
    PROVE  /\ Idle /\ On /\ phase[a] \in Working /\ dispatching' \subseteq dispatching
           /\ \E outcome \in Final : Settle(a, outcome)
<1>1. /\ Live(a) /\ UNCHANGED dispatching
      /\ Settle(a, "completed") \/ Settle(a, "failed")
  BY DEF SubmitAccepted, SubmitExhausted, TurnEnded, TurnExhausted, AskFailed
<1> QED
  BY <1>1, LiveWorks DEF Working, Final

LEMMA SettlingUnstarted ==
    ASSUME NEW a \in Asks, DispatchFailed(a), ~Abandoned(a)
    PROVE  /\ Idle /\ On /\ phase[a] \in Working /\ dispatching' \subseteq dispatching
           /\ Settle(a, "failed") /\ "failed" \in Final
BY DEF DispatchFailed, Abandoned, Idle, On, Working, Final

LEMMA StutterStep == ASSUME IInv, UNCHANGED vars PROVE IInv'
<1> USE DEF vars, journal, queues, async, budget, loops
<1>1. TypeOK'
  BY DEF IInv, TypeOK
<1> QED
  BY <1>1, SideStep

LEMMA Inductive == IInv /\ [Next]_vars => IInv'
<1> SUFFICES ASSUME IInv, [Next]_vars PROVE IInv'
  OBVIOUS
<1>1. ASSUME NEW a \in Asks,
             \/ Ask(a) \/ AskDiverged(a) \/ ReleaseCached(a)
             \/ Dispatched(a) \/ DispatchFailed(a) \/ Report(a)
      PROVE  IInv'
  <2>0. ActorOf[a] \in Actors
    BY AsksAssumption
  <2>1. CASE Ask(a)
    BY <2>1, CallStep
  <2>2. CASE AskDiverged(a)
    BY <2>2, FinishStep DEF AskDiverged
  <2>3. CASE ReleaseCached(a)
    BY <2>3, ReleaseStep
  <2>4. CASE Dispatched(a)
    <3>1. CASE Abandoned(a)
      BY <2>0, <2>4, <3>1, SideSteps
    <3>2. CASE ~Abandoned(a)
      BY <2>4, <3>2, DispatchedStep
    <3> QED
      BY <3>1, <3>2
  <2>5. CASE DispatchFailed(a)
    <3>1. CASE Abandoned(a)
      BY <2>0, <2>5, <3>1, SideSteps
    <3>2. CASE ~Abandoned(a)
      BY <2>5, <3>2, SettlingUnstarted, SettleStep
    <3> QED
      BY <3>1, <3>2
  <2>6. CASE Report(a)
    <3>1. CASE SubmitRejected(a) \/ TurnNudged(a)
      BY <2>0, <3>1, SideSteps
    <3>2. CASE \/ SubmitAccepted(a) \/ SubmitExhausted(a) \/ TurnEnded(a)
               \/ TurnExhausted(a) \/ AskFailed(a)
      <4>1. /\ Idle /\ On /\ phase[a] \in Working /\ dispatching' \subseteq dispatching
            /\ \E outcome \in Final : Settle(a, outcome)
        BY <3>2, Settling
      <4> QED
        BY <4>1, SettleStep
    <3> QED
      BY <2>6, <3>1, <3>2 DEF Report
  <2> QED
    BY <1>1, <2>1, <2>2, <2>3, <2>4, <2>5, <2>6
<1>2. ASSUME NEW x \in Actors, SessionCreated(x)
      PROVE  IInv'
  <2>1. CASE Asks = {}
    <3>1. TypeOK'
      BY <1>2 DEF SessionCreated, journal, queues, budget, loops, IInv, TypeOK
    <3> QED
      BY <1>2, <3>1, SideStep DEF SessionCreated, journal, queues, loops
  <2>2. CASE Asks # {}
    BY <1>2, <2>2, SideSteps
  <2> QED
    BY <2>1, <2>2
<1>3. ASSUME NEW n \in Caps, SetMaxConcurrency(n)
      PROVE  IInv'
  BY <1>3, CapStep
<1>4. CASE Loop
  BY <1>4, AdmitRecordedStep, AdmitFreshStep, DrainDoneStep, PumpStep DEF Loop
<1>5. CASE Complete \/ Stop \/ Fail
  BY <1>5, FinishStep DEF Complete, Stop, Fail
<1>6. CASE Crash
  BY <1>6, CrashStep
<1>7. CASE Resume
  BY <1>7, ResumeStep
<1>8. CASE UNCHANGED vars
  BY <1>8, StutterStep
<1> QED
  BY <1>1, <1>2, <1>3, <1>4, <1>5, <1>6, <1>7, <1>8 DEF Next

LEMMA Invariance == Spec => []IInv
<1>1. Init => IInv
  BY InitialState
<1> QED
  BY <1>1, Inductive, PTL DEF Spec

(* Every variable keeps its type over all lives of every run.              *)
THEOREM TypeCorrect == Spec => []TypeOK
<1>1. IInv => TypeOK
  BY DEF IInv
<1> QED
  BY <1>1, Invariance, PTL

(* The slots in use are exactly the subagents that hold one.               *)
THEOREM SlotsCounted == Spec => []SlotsExact
<1>1. IInv => SlotsExact
  BY DEF IInv
<1> QED
  BY <1>1, Invariance, PTL

(* No ask waits for a slot that is free.                                   *)
THEOREM NoSlotWasted == Spec => []WorkConserving
<1>1. IInv => WorkConserving
  BY EmptyTypes DEF IInv, Scanned, WorkConserving, Idle, On
<1> QED
  BY <1>1, Invariance, PTL

(* A model turn runs only for the ask that holds its subagent's slot.      *)
THEOREM TurnsOwned == Spec => []TurnHasOwner
<1>1. IInv => TurnHasOwner
  BY DEF IInv, Turns, InSlot, TurnHasOwner, On, InFlight, Working
<1> QED
  BY <1>1, Invariance, PTL

(* The script is never told anything else than what the journal says.      *)
THEOREM NoSecondStory == Spec => []HeardIsRecorded
<1>1. IInv => HeardIsRecorded
  BY DEF IInv
<1> QED
  BY <1>1, Invariance, PTL

-----------------------------------------------------------------------------
(* The conversations keep their promise (module AskTranscript).            *)

LEMMA AdmitFreshPuts == ASSUME IInv, AdmitFresh PROVE Transcript!TNext
<1>1. PICK a : a = Head(pendingLive[drainFor])
  OBVIOUS
<1>2. /\ a \in Asks /\ row[a] = None /\ actorSeq[a] = Nowhere
      /\ nextAdmitSeq[ActorOf[a]] = Cardinality(Rows(ActorOf[a]))
      /\ actorSeq' = [actorSeq EXCEPT ![a] = nextAdmitSeq[ActorOf[a]]]
      /\ row' = [row EXCEPT ![a] = "running"]
  BY <1>1, AdmitFreshFacts
<1>3. Transcript!Conversation(ActorOf[a]) = Rows(ActorOf[a])
  BY DEF IInv, Places, Transcript!Conversation, Transcript!Nowhere, Nowhere, Rows
<1>4. Answered' = Answered
  <2>1. ASSUME NEW b \in Asks
        PROVE  (IF row'[b] \in Final THEN row'[b] ELSE None)
                  = (IF row[b] \in Final THEN row[b] ELSE None)
    BY <1>2 DEF Final, None, IInv, TypeOK
  <2> QED
    BY <2>1 DEF Answered
<1>5. Transcript!Put(a)
  <2>1. Cardinality(Transcript!Conversation(ActorOf[a])) = nextAdmitSeq[ActorOf[a]]
    BY <1>2, <1>3
  <2>2. actorSeq[a] = -1 /\ UNCHANGED Answered
        /\ actorSeq' = [actorSeq EXCEPT ![a] = Cardinality(Transcript!Conversation(ActorOf[a]))]
    BY <1>2, <1>4, <2>1 DEF Nowhere
  <2> QED
    BY <2>2 DEF Transcript!Put, Transcript!Nowhere, Cardinality, Transcript!Cardinality
<1> QED
  BY <1>2, <1>5 DEF Transcript!TNext

LEMMA SettleAnswers ==
    ASSUME IInv, On, NEW a \in Asks, phase[a] \in Working, NEW outcome \in Final,
           Settle(a, outcome)
    PROVE  Transcript!TNext
<1> DEFINE x == ActorOf[a]
<1>1. row' = [row EXCEPT ![a] = outcome] /\ UNCHANGED actorSeq
  BY DEF Settle, RecordOutcome
<1>2. /\ row[a] = "running" /\ row[a] # None /\ actorSeq[a] < nextAdmitSeq[x]
      /\ row \in [Asks -> {None, "running"} \cup Final]
  BY DEF IInv, PhasesRecorded, TypeOK, Working, InFlight, Admitted
<1>3. actorSeq[a] # Nowhere /\ actorSeq[a] \in Nat /\ nextAdmitSeq[x] \in Nat
  BY <1>2, AsksAssumption DEF IInv, Places, TypeOK
<1>4. current[x] = a /\ a # None /\ x \in Actors
  BY ActorsAssumption, AsksAssumption DEF IInv, InSlot
<1>5. ASSUME NEW b \in Asks, ActorOf[b] = x, actorSeq[b] # Nowhere, actorSeq[b] < actorSeq[a]
      PROVE  row[b] \in Final
  <2>1. row[b] # None /\ actorSeq[b] \in Nat
    BY <1>5 DEF IInv, Places, TypeOK
  <2>2. actorSeq[b] < nextAdmitSeq[ActorOf[b]]
    BY <1>2, <1>3, <1>5, <2>1
  <2>3. phase[b] \in Admitted
    BY <2>1, <2>2 DEF IInv, PhasesRecorded
  <2>4. phase[b] # "queued"
    <3> SUFFICES ASSUME phase[b] = "queued" PROVE FALSE
      OBVIOUS
    <3>1. b \in Members(liveQueue[x])
      BY <1>5 DEF IInv, Queued
    <3>2. actorSeq[a] < actorSeq[b]
      BY <1>4, <3>1 DEF IInv, InSlot
    <3> QED
      BY <1>3, <1>5, <2>1, <3>2
  <2>5. phase[b] \notin Working
    <3>1. b # a
      BY <1>3, <1>5
    <3> QED
      BY <1>4, <1>5, <3>1 DEF IInv, InSlot
  <2>6. phase[b] \in {"parked", "answered"}
    BY <2>3, <2>4, <2>5 DEF Admitted, InFlight, Working
  <2> QED
    BY <2>6 DEF IInv, PhasesRecorded
<1>6. Answered' = [Answered EXCEPT ![a] = outcome]
  <2>1. ASSUME NEW b \in Asks
        PROVE  (IF row'[b] \in Final THEN row'[b] ELSE None)
                  = (IF b = a THEN outcome ELSE IF row[b] \in Final THEN row[b] ELSE None)
    BY <1>1, <1>2
  <2> QED
    BY <2>1 DEF Answered
<1>7. /\ Answered[a] = "none" /\ outcome \in Transcript!Outcomes
      /\ \A b \in Transcript!Conversation(x) :
            actorSeq[b] < actorSeq[a] => Answered[b] # "none"
  BY <1>2, <1>5 DEF Answered, Final, None, Transcript!Outcomes, Transcript!Conversation,
                    Transcript!Nowhere, Nowhere
<1>8. Transcript!Answer(a)
  BY <1>1, <1>3, <1>6, <1>7 DEF Transcript!Answer, Transcript!Nowhere, Nowhere
<1> QED
  BY <1>8 DEF Transcript!TNext

(* Every other step leaves the conversations alone.                        *)
LEMMA StepsKeepTranscript ==
    IInv /\ [Next]_vars => [Transcript!TNext]_(Transcript!tvars)
<1> SUFFICES ASSUME IInv, [Next]_vars
             PROVE  Transcript!TNext \/ UNCHANGED <<row, actorSeq>>
  BY DEF Transcript!tvars, Answered
<1>1. ASSUME NEW a \in Asks,
             \/ Ask(a) \/ AskDiverged(a) \/ ReleaseCached(a)
             \/ Dispatched(a) \/ DispatchFailed(a) \/ Report(a)
      PROVE  Transcript!TNext \/ UNCHANGED <<row, actorSeq>>
  <2>1. CASE Ask(a) \/ AskDiverged(a) \/ ReleaseCached(a) \/ Dispatched(a)
    BY <2>1 DEF Ask, AskRecorded, AskFresh, Called, AskDiverged, FinishRun, ReleaseCached,
                Dispatched, journal
  <2>2. CASE DispatchFailed(a)
    <3>1. CASE Abandoned(a)
      BY <2>2, <3>1 DEF DispatchFailed, journal
    <3>2. CASE ~Abandoned(a)
      BY <2>2, <3>2, SettlingUnstarted, SettleAnswers
    <3> QED
      BY <3>1, <3>2
  <2>3. CASE Report(a)
    <3>1. CASE SubmitRejected(a) \/ TurnNudged(a)
      BY <3>1 DEF SubmitRejected, TurnNudged, UntouchedByRetry, journal
    <3>2. CASE \/ SubmitAccepted(a) \/ SubmitExhausted(a) \/ TurnEnded(a)
               \/ TurnExhausted(a) \/ AskFailed(a)
      <4>1. /\ On /\ phase[a] \in Working
            /\ \E outcome \in Final : Settle(a, outcome)
        BY <3>2, Settling
      <4> QED
        BY <4>1, SettleAnswers
    <3> QED
      BY <2>3, <3>1, <3>2 DEF Report
  <2> QED
    BY <1>1, <2>1, <2>2, <2>3
<1>2. ASSUME NEW x \in Actors, SessionCreated(x)
      PROVE  UNCHANGED <<row, actorSeq>>
  BY <1>2 DEF SessionCreated, journal
<1>3. ASSUME NEW n \in Caps, SetMaxConcurrency(n)
      PROVE  UNCHANGED <<row, actorSeq>>
  BY <1>3 DEF SetMaxConcurrency
<1>4. CASE AdmitRecorded \/ DrainDone \/ PumpActor
  BY <1>4 DEF AdmitRecorded, DrainDone, PumpActor, journal
<1>5. CASE AdmitFresh
  BY <1>5, AdmitFreshPuts
<1>6. CASE Complete \/ Stop \/ Fail \/ Crash \/ Resume
  BY <1>6 DEF Complete, Stop, Fail, FinishRun, Crash, Resume, journal
<1>7. CASE UNCHANGED vars
  BY <1>7 DEF vars, journal
<1> QED
  BY <1>1, <1>2, <1>3, <1>4, <1>5, <1>6, <1>7 DEF Next, Loop

(* A subagent's conversation grows at its end only, is answered in order,  *)
(* and no answer changes: in all lives of the run together.                *)
THEOREM TranscriptRefined == Spec => TranscriptKept
<1>1. Init => Transcript!TInit
  <2> SUFFICES ASSUME Init PROVE Transcript!TInit
    OBVIOUS
  <2>1. Answered = [a \in Asks |-> "none"]
    BY DEF Init, Answered, Final, None
  <2> QED
    BY <2>1 DEF Init, Transcript!TInit, Transcript!Nowhere, Nowhere
<1> QED
  BY <1>1, StepsKeepTranscript, Invariance, PTL DEF Spec, TranscriptKept, Transcript!TSpec
=============================================================================
