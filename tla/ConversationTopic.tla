-------------------------- MODULE ConversationTopic --------------------------
(***************************************************************************)
(* One conversation topic from end to end: the publisher and the gateway   *)
(* of the CLI runtime (conversation-topic-publisher.ts, v4-gateway.ts),    *)
(* the serial request transport, the wire, and one reader                  *)
(* (ProjectionStore).  Requests, answers and frames travel on three        *)
(* first-in first-out channels, so an answer and the frames written after  *)
(* it may reach the reader in either order.                                *)
(***************************************************************************)
EXTENDS ProjectionStore

CONSTANTS
    EventBound,     \* events ingested
    Retention,      \* entries the log keeps
    BufferMax,      \* rows a subscriber's buffer holds
    Disturbances,   \* the disturbances of a run, of Kinds
    Budget,         \* how many of them may happen
    FreshNumbers    \* a rebuilt projection is numbered above the one it replaces

(* damage: a frame arrives damaged; encode: the frame of an answer cannot  *)
(* be encoded; write: the write of a flush throws; pause: the connection   *)
(* is saturated; rebuild: the projection is rebuilt; replace: the          *)
(* transport is replaced; restart: the runtime dies; nudge: the reader     *)
(* asks for a recovery of its own; retry: the user asks for a new          *)
(* subscription after an error.                                            *)
Kinds == {"damage", "encode", "write", "pause", "rebuild", "replace", "restart", "nudge", "retry"}

ASSUME BoundsAssumption ==
    /\ {EventBound, Budget} \subseteq Nat
    /\ {Retention, BufferMax} \subseteq Nat \ {0}
    /\ Disturbances \subseteq Kinds
    /\ FreshNumbers \in BOOLEAN

VARIABLES
    projection,  \* [epoch, seq, rows]
    log,         \* the retained events, [seq, row]; row 0: an event without deltas
    floorSeq,    \* the oldest water mark a reader can resume from
    sub,         \* the reader's subscription, or None
    timer,       \* the flush timer of the subscription is armed
    paused,      \* the connection is saturated
    hydrating,   \* rebuilt, and the subscriptions not flushed yet
    outbox,      \* the answer being written, with its frame
    serial,      \* the last subscription's number
    wire, answers, \* what is on its way to the reader
    store,       \* the reader
    served,      \* every state the projection has been in
    events,      \* how many events were ingested
    spent,       \* how many disturbances have happened
    flushFailed  \* the write of a flush has thrown

(* What a subscription, an answer and an outbox consist of. *)
Subs == [id : Nat, buffer : Seq(Int), resyncRequired : BOOLEAN, sentSeq : Nat,
         inFlight : Frames \cup {None}]
Answers == [kind : {"resync", "subscribe"}, sub : Nat, epoch : Nat,
            mode : {"fault", "notOwned", "resume", "snapshot"}]
Writings == [answer : Answers, frame : Frames \cup {None}]

ASSUME NobodyAssumption == None \notin Subs \cup Writings

server == <<projection, log, floorSeq>>
gateway == <<sub, timer, paused, hydrating, outbox, serial>>
vars == <<server, gateway, wire, answers, store, served, events, spent, flushFailed>>

Disturb(kind) == kind \in Disturbances /\ spent < Budget /\ spent' = spent + 1

-----------------------------------------------------------------------------
(* Frames and reservations. *)

SnapshotFrame(id, kind) ==
    [sub |-> id, kind |-> kind, snapshot |-> TRUE, fromSeq |-> 0, toSeq |-> projection.seq,
     epoch |-> projection.epoch, rows |-> projection.rows, damaged |-> FALSE]

DeltaFrame(id, kind, from, rows) ==
    [sub |-> id, kind |-> kind, snapshot |-> FALSE, fromSeq |-> from, toSeq |-> projection.seq,
     epoch |-> projection.epoch, rows |-> rows, damaged |-> FALSE]

ResumableFromEvicted(base) ==
    base # None /\ base.epoch = projection.epoch /\ base.seq <= projection.seq

Resumable(base) ==
    /\ base # None
    /\ base.epoch = projection.epoch
    /\ base.seq >= floorSeq
    /\ base.seq <= projection.seq

(* The retained rows after a water mark. *)
Replay(seq) ==
    LET upTo[n \in 0 .. Len(log)] ==
          CASE n = 0                                          -> <<>>
            [] n > 0 /\ log[n].seq > seq /\ log[n].row # 0 -> Append(upTo[n - 1], log[n].row)
            [] OTHER                                          -> upTo[n - 1]
    IN  upTo[Len(log)]

(* reserveFlush(): what a flush of the subscription would send. *)
FlushFrame ==
    CASE sub.inFlight # None -> sub.inFlight
      [] sub.inFlight = None /\ sub.resyncRequired -> SnapshotFrame(sub.id, "online")
      [] sub.inFlight = None /\ ~sub.resyncRequired
           /\ sub.buffer = <<>> /\ sub.sentSeq = projection.seq -> None
      [] OTHER -> DeltaFrame(sub.id, "online", sub.sentSeq, sub.buffer)

Reserved(f) == [sub EXCEPT !.buffer = IF sub.inFlight = None THEN <<>> ELSE @, !.inFlight = f]

(* commit(): only the reservation in place moves the water mark; after the *)
(* snapshot of a slow subscriber the deltas it missed need another one.    *)
Holds(s, f) == f # None /\ s # None /\ s.id = f.sub /\ s.inFlight = f

CommittedAsCurrent(s, f) ==
    IF ~Holds(s, f) THEN s
    ELSE [s EXCEPT !.sentSeq = f.toSeq, !.inFlight = None,
                   !.resyncRequired = @ /\ ~(f.snapshot /\ f.kind = "online")]

Committed(s, f) ==
    IF ~Holds(s, f) THEN s
    ELSE [s EXCEPT !.sentSeq = f.toSeq, !.inFlight = None,
                   !.resyncRequired = IF f.snapshot /\ f.kind = "online"
                                      THEN projection.seq > f.toSeq ELSE @]

(* emitReservation(): a frame that waits for its own answer is not sent. *)
NeverSuppressed(f) == FALSE

Suppressed(f) == outbox # None /\ outbox.frame = f

(* A flush that goes well, or one whose write throws: the reservation      *)
(* stays in flight.                                                        *)
Flushed ==
    LET f == FlushFrame IN
    IF f = None \/ Suppressed(f)
    THEN UNCHANGED <<sub, wire, spent, flushFailed>>
    ELSE \/ /\ wire' = Append(wire, f)
            /\ sub' = Committed(Reserved(f), f)
            /\ UNCHANGED <<spent, flushFailed>>
         \/ /\ Disturb("write")
            /\ flushFailed' = TRUE
            /\ sub' = Reserved(f)
            /\ UNCHANGED wire

-----------------------------------------------------------------------------
(* The publisher and its flushes. *)

Init ==
    /\ projection = [epoch |-> 1, seq |-> 0, rows |-> <<>>]
    /\ log = <<>> /\ floorSeq = 0
    /\ sub = None /\ timer = FALSE /\ paused = FALSE /\ hydrating = FALSE
    /\ outbox = None /\ serial = 0
    /\ wire = <<>> /\ answers = <<>>
    /\ store = Connect(NewStore, FALSE)
    /\ served = {projection}
    /\ events = 0 /\ spent = 0 /\ flushFailed = FALSE

(* A full buffer is emptied: the subscriber needs a snapshot. *)
Buffered(s, row) ==
    IF Len(s.buffer) = BufferMax
    THEN [s EXCEPT !.buffer = <<>>, !.resyncRequired = TRUE]
    ELSE [s EXCEPT !.buffer = Append(@, row)]

(* ingest() of an event with deltas (row > 0) or without. *)
Ingest(row) ==
    /\ events < EventBound
    /\ events' = events + 1
    /\ projection' = [projection EXCEPT !.seq = @ + 1,
                                        !.rows = IF row = 0 THEN @ ELSE Append(@, row)]
    /\ LET longer == Append(log, [seq |-> projection.seq + 1, row |-> row]) IN
       IF Len(longer) > Retention
       THEN log' = Tail(longer) /\ floorSeq' = Head(longer).seq
       ELSE log' = longer /\ UNCHANGED floorSeq
    /\ sub' = IF sub = None \/ row = 0 \/ sub.resyncRequired THEN sub ELSE Buffered(sub, row)
    /\ timer' = (timer \/ (sub # None /\ ~paused))
    /\ served' = served \cup {projection'}
    /\ UNCHANGED <<paused, hydrating, outbox, serial, wire, answers, store, spent, flushFailed>>

FlushTimer ==
    /\ timer
    /\ timer' = FALSE
    /\ IF sub = None THEN UNCHANGED <<sub, wire, spent, flushFailed>> ELSE Flushed
    /\ UNCHANGED <<server, paused, hydrating, outbox, serial, answers, store, served, events>>

Saturate ==
    /\ ~paused
    /\ Disturb("pause")
    /\ paused' = TRUE
    /\ timer' = FALSE
    /\ UNCHANGED <<server, sub, hydrating, outbox, serial, wire, answers, store, served, events,
                   flushFailed>>

(* The connection drains: its subscriptions are flushed at once. *)
Drain ==
    /\ paused
    /\ paused' = FALSE
    /\ timer' = FALSE
    /\ IF sub = None THEN UNCHANGED <<sub, wire, spent, flushFailed>> ELSE Flushed
    /\ UNCHANGED <<server, hydrating, outbox, serial, answers, store, served, events>>

(* rehydrate(): the projection is rebuilt from the persisted facts under   *)
(* the same epoch.  Its content (one negative row here) need not be that   *)
(* of the projection it replaces, its numbering neither.                   *)
Rehydrate ==
    /\ ~hydrating
    /\ outbox = None
    /\ Disturb("rebuild")
    /\ \E seq \in (IF FreshNumbers THEN {projection.seq + 1} ELSE 0 .. projection.seq) :
          /\ projection' = [projection EXCEPT !.seq = seq, !.rows = <<-(spent + 1)>>]
          /\ floorSeq' = seq
    /\ log' = <<>>
    /\ sub' = IF sub = None THEN None
              ELSE [sub EXCEPT !.buffer = <<>>, !.resyncRequired = TRUE,
                               !.sentSeq = 0, !.inFlight = None]
    /\ served' = served \cup {projection'}
    /\ hydrating' = TRUE
    /\ UNCHANGED <<timer, paused, outbox, serial, wire, answers, store, events, flushFailed>>

(* ... and, after the seeds, its subscriptions are flushed. *)
RehydrateFlush ==
    /\ hydrating
    /\ hydrating' = FALSE
    /\ IF sub = None \/ paused
       THEN UNCHANGED <<sub, wire, spent, flushFailed>> /\ timer' = (timer /\ sub = None)
       ELSE Flushed /\ timer' = (spent' # spent)
    /\ UNCHANGED <<server, paused, outbox, serial, answers, store, served, events>>

-----------------------------------------------------------------------------
(* Requests, served one at a time; the frame of an answer is reserved when *)
(* the request is served and committed when both are written.              *)

Request(kind) ==
    /\ outbox = None
    /\ store.requests # <<>>
    /\ Head(store.requests).kind = kind

Served == store' = [store EXCEPT !.requests = Tail(@)]

Answer(kind, id, mode) == [kind |-> kind, sub |-> id, epoch |-> projection.epoch, mode |-> mode]

(* subscribeReserved(): the new subscription replaces the old one. *)
Subscribe ==
    /\ Request("subscribe")
    /\ ~hydrating
    /\ serial' = serial + 1
    /\ LET base == Head(store.requests).base
           resume == Resumable(base)
           aligned == resume /\ base.seq = projection.seq
           frame == IF aligned THEN None
                    ELSE IF resume THEN DeltaFrame(serial', "initial", base.seq, Replay(base.seq))
                    ELSE SnapshotFrame(serial', "initial")
       IN  /\ sub' = [id |-> serial', buffer |-> <<>>, resyncRequired |-> FALSE,
                      sentSeq |-> IF resume THEN base.seq ELSE 0, inFlight |-> frame]
           /\ outbox' = [answer |-> Answer("subscribe", serial',
                                           IF resume THEN "resume" ELSE "snapshot"),
                         frame |-> frame]
    /\ timer' = FALSE
    /\ Served
    /\ UNCHANGED <<server, paused, hydrating, wire, answers, served, events, spent, flushFailed>>

(* The frame cannot be encoded: rollback() puts the old subscription back. *)
SubscribeFails ==
    /\ Request("subscribe")
    /\ ~hydrating
    /\ LET base == Head(store.requests).base
       IN  ~(Resumable(base) /\ base.seq = projection.seq)
    /\ Disturb("encode")
    /\ serial' = serial + 1
    /\ outbox' = [answer |-> Answer("subscribe", 0, "fault"), frame |-> None]
    /\ Served
    /\ UNCHANGED <<server, sub, timer, paused, hydrating, wire, answers, served, events, flushFailed>>

(* resyncReserved(): the reader's water mark decides, never sentSeq; a     *)
(* reservation in flight is superseded.                                    *)
Resync ==
    /\ Request("resync")
    /\ LET request == Head(store.requests)
           owned == sub # None /\ sub.id = request.sub
           resume == ~request.force /\ Resumable(request.base)
           frame == IF resume THEN DeltaFrame(request.sub, "recovery", request.base.seq,
                                              Replay(request.base.seq))
                    ELSE SnapshotFrame(request.sub, "recovery")
       IN  IF owned
           THEN /\ sub' = [sub EXCEPT !.buffer = <<>>, !.resyncRequired = FALSE, !.inFlight = frame,
                                      !.sentSeq = IF resume THEN request.base.seq ELSE 0]
                /\ outbox' = [answer |-> Answer("resync", sub.id,
                                                IF resume THEN "resume" ELSE "snapshot"),
                              frame |-> frame]
                /\ timer' = FALSE
           ELSE /\ outbox' = [answer |-> Answer("resync", 0, "notOwned"), frame |-> None]
                /\ UNCHANGED <<sub, timer>>
    /\ Served
    /\ UNCHANGED <<server, paused, hydrating, serial, wire, answers, served, events, spent,
                   flushFailed>>

(* The frame cannot be encoded: resyncRollback() restores the subscription *)
(* and the flush is scheduled again.                                       *)
ResyncFails ==
    /\ Request("resync")
    /\ sub # None /\ sub.id = Head(store.requests).sub
    /\ Disturb("encode")
    /\ sub' = IF sub.resyncRequired THEN [sub EXCEPT !.buffer = <<>>] ELSE sub
    /\ timer' = ~paused
    /\ outbox' = [answer |-> Answer("resync", 0, "fault"), frame |-> None]
    /\ Served
    /\ UNCHANGED <<server, paused, hydrating, serial, wire, answers, served, events, flushFailed>>

Unsubscribe ==
    /\ Request("unsubscribe")
    /\ IF sub # None /\ sub.id = Head(store.requests).sub
       THEN sub' = None /\ timer' = FALSE
       ELSE UNCHANGED <<sub, timer>>
    /\ Served
    /\ UNCHANGED <<server, paused, hydrating, outbox, serial, wire, answers, served, events, spent,
                   flushFailed>>

NoFlushDue(f) == FALSE

FlushDue(f) == Holds(sub, f) /\ ~paused

(* The answer, then its frame, are written; the commit schedules a flush.  *)
Respond ==
    /\ outbox # None
    /\ answers' = Append(answers, outbox.answer)
    /\ wire' = IF outbox.frame = None THEN wire ELSE Append(wire, outbox.frame)
    /\ sub' = Committed(sub, outbox.frame)
    /\ timer' = (timer \/ FlushDue(outbox.frame))
    /\ outbox' = None
    /\ UNCHANGED <<server, paused, hydrating, serial, store, served, events, spent, flushFailed>>

-----------------------------------------------------------------------------
(* The reader's steps. *)

Damage ==
    /\ wire # <<>> /\ ~Head(wire).damaged
    /\ Disturb("damage")
    /\ wire' = [wire EXCEPT ![1].damaged = TRUE]
    /\ UNCHANGED <<server, gateway, answers, store, served, events, flushFailed>>

TakeFrame ==
    /\ wire # <<>>
    /\ store' = AcceptFrame(store, Head(wire))
    /\ wire' = Tail(wire)
    /\ UNCHANGED <<server, gateway, answers, served, events, spent, flushFailed>>

TakeAnswer ==
    /\ answers # <<>>
    /\ LET a == Head(answers) IN
       store' = IF a.kind = "subscribe" THEN SubscribeAnswered(store, a)
                ELSE ResyncAnswered(store, a)
    /\ answers' = Tail(answers)
    /\ UNCHANGED <<server, gateway, wire, served, events, spent, flushFailed>>

DeadlinePasses ==
    /\ store.recovery # None /\ store.recovery.deadline
    /\ store' = RecoveryDeadline(store)
    /\ UNCHANGED <<server, gateway, wire, answers, served, events, spent, flushFailed>>

(* recoverFromStaleAuthority(), or no projection of an accepted input. *)
Nudge ==
    /\ Disturb("nudge")
    /\ store' = RequestRecovery(store, FALSE)
    /\ UNCHANGED <<server, gateway, wire, answers, served, events, flushFailed>>

Retry ==
    /\ store.status = "error"
    /\ Disturb("retry")
    /\ store' = Connect(store, FALSE)
    /\ UNCHANGED <<server, gateway, wire, answers, served, events, flushFailed>>

(* The transport's proxy is replaced: the subscription of the old one is   *)
(* released and nothing of it arrives any more.                            *)
TransportReplaced ==
    /\ Disturb("replace")
    /\ sub' = None /\ timer' = FALSE /\ paused' = FALSE /\ outbox' = None
    /\ wire' = <<>> /\ answers' = <<>>
    /\ store' = Restarted(store, TRUE)
    /\ UNCHANGED <<server, hydrating, serial, served, events, flushFailed>>

(* The runtime dies and another one hydrates the topic under a new epoch,  *)
(* numbered anew.                                                          *)
RuntimeRestarted ==
    /\ Disturb("restart")
    /\ \E seq \in 0 .. projection.seq :
          /\ projection' = [projection EXCEPT !.epoch = @ + 1, !.seq = seq]
          /\ floorSeq' = seq
    /\ log' = <<>>
    /\ sub' = None /\ timer' = FALSE /\ paused' = FALSE /\ outbox' = None /\ hydrating' = FALSE
    /\ wire' = <<>> /\ answers' = <<>>
    /\ served' = served \cup {projection'}
    /\ store' = Restarted(store, FALSE)
    /\ UNCHANGED <<serial, events, flushFailed>>

Next ==
    \/ Ingest(0)
    \/ Ingest(events + 1)
    \/ FlushTimer \/ Saturate \/ Drain \/ Rehydrate \/ RehydrateFlush
    \/ Subscribe \/ SubscribeFails \/ Resync \/ ResyncFails \/ Unsubscribe \/ Respond
    \/ Damage \/ TakeFrame \/ TakeAnswer \/ DeadlinePasses
    \/ Nudge \/ Retry \/ TransportReplaced \/ RuntimeRestarted

Spec == Init /\ [][Next]_vars

Fairness ==
    /\ WF_vars(FlushTimer) /\ WF_vars(Drain) /\ WF_vars(RehydrateFlush)
    /\ WF_vars(Subscribe) /\ WF_vars(Resync) /\ WF_vars(Unsubscribe) /\ WF_vars(Respond)
    /\ WF_vars(TakeFrame) /\ WF_vars(TakeAnswer) /\ WF_vars(DeadlinePasses)

FairSpec == Spec /\ Fairness

-----------------------------------------------------------------------------
TypeOK ==
    /\ projection \in Views /\ served \subseteq Views
    /\ floorSeq \in 0 .. projection.seq /\ Len(log) <= Retention
    /\ log \in Seq([seq : (floorSeq + 1) .. projection.seq, row : Int])
    /\ sub \in Subs \cup {None}
    /\ sub # None => /\ sub.id \in 1 .. serial
                     /\ sub.sentSeq <= projection.seq /\ Len(sub.buffer) <= BufferMax
    /\ outbox \in Writings \cup {None} /\ wire \in Seq(Frames) /\ answers \in Seq(Answers)
    /\ {timer, paused, hydrating, flushFailed} \subseteq BOOLEAN
    /\ store.status \in {"connecting", "live", "error"} /\ store.subId \in 0 .. serial
    /\ store.view \in Views \cup {None}

(* Whatever the reader shows is a state the projection has been in: no     *)
(* event lost, none applied twice, nothing of two projections mixed.       *)
ViewWasServed == store.view = None \/ store.view \in served

(* The server never forgets what it still owes a subscription. *)
OwedIsKept ==
    (sub # None /\ ~sub.resyncRequired) =>
        LET from == IF sub.inFlight = None THEN sub.sentSeq ELSE sub.inFlight.toSeq IN
        \E v \in served : /\ v.epoch = projection.epoch
                          /\ v.seq = from
                          /\ v.rows \o sub.buffer = projection.rows

(* The reader never goes back: neither to an older epoch nor, within one,  *)
(* to an older water mark, whatever late answers and frames still arrive.  *)
NoGoingBack ==
    [][store.view # None =>
         \/ store'.view.epoch > store.view.epoch
         \/ /\ store'.view.epoch = store.view.epoch
            /\ store'.view.seq >= store.view.seq]_vars

(* When the events and the disturbances end the reader ends up with the    *)
(* projection as it is, unless it has told the user that it gave up or a   *)
(* flush's write has failed (only the next event tries that one again).    *)
Converges == <>[](store.view = projection \/ store.status = "error" \/ flushFailed)
=============================================================================
