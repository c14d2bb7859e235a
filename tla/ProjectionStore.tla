--------------------------- MODULE ProjectionStore ---------------------------
(***************************************************************************)
(* The reader's side of a conversation topic: the state machine of         *)
(* packages/ui/src/v4/conversationProjectionStore.ts, with the two layers  *)
(* under it that decide which frames reach it: the ACK activation barrier  *)
(* (frames of a subscription whose ACK is not processed yet are staged)    *)
(* and the wire decoder (after a damaged frame the route is closed until   *)
(* the recovery).                                                          *)
(*                                                                         *)
(* The store runs on one thread and every handler runs to its end, so a    *)
(* handler is a function from the store's state to its next state.  The    *)
(* requests a handler sends are appended to s.requests; the module that    *)
(* composes the store with the server takes them from there.               *)
(*                                                                         *)
(* A view is [epoch, seq, rows]: the projection's log epoch, its water     *)
(* mark and its content.  A row stands for the effect of one event, so a   *)
(* view that lost an event or applied one twice has other rows.            *)
(***************************************************************************)
EXTENDS Integers, Sequences

CONSTANT None

Marks == [epoch : Nat, seq : Nat]
Views == [epoch : Nat, seq : Nat, rows : Seq(Int)]
Frames == [sub : Nat, kind : {"initial", "online", "recovery"}, snapshot : BOOLEAN,
           fromSeq : Nat, toSeq : Nat, epoch : Nat, rows : Seq(Int), damaged : BOOLEAN]

ASSUME NoneAssumption == None \notin Views \cup Frames

(***************************************************************************)
(* The state.  connects: the subscribe requests without an answer, oldest  *)
(* first; only the last one made is current (the source's generation).     *)
(* recovery: the one same-subscription recovery, asked while its request   *)
(* is unanswered.  abandoned: answers of recoveries nobody waits for any   *)
(* more, which come before those of the recovery in place.                 *)
(***************************************************************************)
NewStore ==
    [status |-> "connecting", view |-> None, subId |-> 0, connects |-> <<>>,
     awaitingInitial |-> None, appliedBase |-> FALSE, recovery |-> None,
     abandoned |-> 0, faulted |-> FALSE, requests |-> <<>>]

Mark(view) == [epoch |-> view.epoch, seq |-> view.seq]

DiscardRecovery(s) ==
    [s EXCEPT !.recovery = None,
              !.abandoned = IF s.recovery # None /\ s.recovery.asked THEN @ + 1 ELSE @]

FailRecovery(s) == [DiscardRecovery(s) EXCEPT !.status = "error"]

(* connect(): the older subscribe requests lose their standing. *)
Connect(s, forceSnapshot) ==
    LET base == IF forceSnapshot \/ s.view = None THEN None ELSE Mark(s.view)
        stale == [i \in DOMAIN s.connects |-> [s.connects[i] EXCEPT !.current = FALSE]]
    IN  [DiscardRecovery(s) EXCEPT
            !.status = "connecting",
            !.connects = Append(stale, [base |-> base, current |-> TRUE, staged |-> <<>>]),
            !.requests = Append(@, [kind |-> "subscribe", base |-> base])]

(* issueRecovery(): without an applied base only a snapshot can help.  The *)
(* resync call opens the decoder's route again.                            *)
IssueRecovery(s, forceSnapshot) ==
    LET forced == forceSnapshot \/ ~s.appliedBase
        base == IF s.appliedBase /\ s.view # None THEN Mark(s.view) ELSE None
    IN  [s EXCEPT
            !.recovery = [asked |-> TRUE, seen |-> FALSE, upgrade |-> FALSE, mode |-> None,
                          forced |-> forced, gap |-> FALSE, deadline |-> FALSE],
            !.faulted = FALSE,
            !.requests = Append(@, [kind |-> "resync", sub |-> s.subId,
                                    base |-> base, force |-> forced])]

(* requestRecovery(): single flight; only an event of the recovery itself  *)
(* (its frame was damaged or did not fit) raises it to a forced snapshot.  *)
RequestRecovery(s, recoveryEvent) ==
    LET r == s.recovery IN
    CASE s.subId = 0                            -> Connect(s, TRUE)
      [] s.subId # 0 /\ r = None                -> IssueRecovery(s, FALSE)
      [] s.subId # 0 /\ r # None /\ ~recoveryEvent -> s
      [] OTHER ->
           CASE r.forced                        -> FailRecovery(s)
             [] ~r.forced /\ r.asked            -> [s EXCEPT !.recovery.upgrade = TRUE]
             [] OTHER -> IF r.mode = "resume" THEN IssueRecovery(s, TRUE) ELSE FailRecovery(s)

(* settleRecovery(): the recovery ends when its answer and its frame are   *)
(* both there, in either order.                                            *)
SettleRecovery(s) ==
    LET r == s.recovery IN
    CASE r.asked                      -> s
      [] ~r.asked /\ r.upgrade        -> IF ~r.forced /\ r.mode = "resume"
                                         THEN IssueRecovery(s, TRUE) ELSE FailRecovery(s)
      [] ~r.asked /\ ~r.upgrade /\ r.seen ->
                                         IF r.gap THEN IssueRecovery(s, FALSE)
                                         ELSE [s EXCEPT !.recovery = None]
      [] OTHER                        -> [s EXCEPT !.recovery.deadline = TRUE]

MarkRecoveryFrameSeen(s) ==
    IF s.recovery = None THEN s ELSE SettleRecovery([s EXCEPT !.recovery.seen = TRUE])

(* The recovery's frame did not come within the assembly timeout. *)
RecoveryDeadline(s) ==
    LET t == [s EXCEPT !.recovery.deadline = FALSE] IN
    IF s.recovery.forced THEN FailRecovery(t) ELSE IssueRecovery(t, TRUE)

(* applyFrame(): a snapshot replaces the view, deltas apply only where     *)
(* they begin at the view's water mark.                                    *)
ApplyFrame(s, f, initial) ==
    LET recovery == f.kind = "recovery"
        seen(t) == IF recovery THEN MarkRecoveryFrameSeen(t) ELSE t
    IN  CASE f.snapshot ->
               seen([s EXCEPT !.appliedBase = TRUE,
                              !.view = [epoch |-> f.epoch, seq |-> f.toSeq, rows |-> f.rows]])
          [] ~f.snapshot /\ s.view # None /\ f.toSeq <= s.view.seq -> seen(s)
          [] ~f.snapshot /\ (s.view = None \/ (f.toSeq > s.view.seq /\ f.fromSeq # s.view.seq)) ->
               IF initial THEN Connect(s, TRUE) ELSE RequestRecovery(s, recovery)
          [] OTHER ->
               seen([s EXCEPT !.appliedBase = TRUE, !.view.seq = f.toSeq,
                              !.view.rows = @ \o f.rows])

(* handleFrame() *)
HandleFrame(s, f) ==
    LET initial == f.kind = "initial" /\ s.awaitingInitial # None
        t == IF f.kind \in {"initial", "recovery"}
             THEN [s EXCEPT !.awaitingInitial = None] ELSE s
        ahead == f.toSeq > (IF s.view = None THEN 0 ELSE s.view.seq)
    IN  CASE f.sub # s.subId -> s
          [] f.sub = s.subId /\ f.kind = "online" /\ s.recovery # None ->
               IF f.snapshot THEN ApplyFrame(t, f, FALSE)
               ELSE [t EXCEPT !.recovery.gap = @ \/ (ahead /\ s.recovery.seen)]
          [] OTHER ->
               IF ~f.snapshot /\ ~s.appliedBase
               THEN RequestRecovery(t, f.kind = "recovery")
               ELSE ApplyFrame(t, f, initial)

(* handleAssemblyFault() *)
HandleAssemblyFault(s, f) ==
    LET t == IF f.kind \in {"initial", "recovery"}
             THEN [s EXCEPT !.awaitingInitial = None] ELSE s
    IN  IF f.kind = "online" /\ s.recovery # None
        THEN [t EXCEPT !.recovery.gap = @ \/ s.recovery.seen]
        ELSE RequestRecovery(t, f.kind = "recovery")

(* The decoder: a damaged frame closes the route, a recovery opens it. *)
Decode(s, f) ==
    CASE s.faulted /\ f.kind # "recovery" -> s
      [] ~(s.faulted /\ f.kind # "recovery") /\ f.damaged ->
             HandleAssemblyFault([s EXCEPT !.faulted = TRUE], f)
      [] OTHER -> HandleFrame([s EXCEPT !.faulted = FALSE], f)

(* The barrier: frames of another subscription wait for the ACKs on their  *)
(* way; without one they are dropped.                                      *)
AcceptFrame(s, f) ==
    IF f.sub = s.subId THEN Decode(s, f)
    ELSE LET waiting == [i \in DOMAIN s.connects |->
                            [s.connects[i] EXCEPT !.staged = Append(@, f)]]
         IN  [s EXCEPT !.connects = waiting]

(* activate(): the frames of the subscription that were staged are         *)
(* delivered.                                                              *)
Activated(s, id, staged) ==
    LET after[n \in 0 .. Len(staged)] ==
          CASE n = 0                             -> s
            [] n > 0 /\ staged[n].sub = id       -> Decode(after[n - 1], staged[n])
            [] OTHER                             -> after[n - 1]
    IN  after[Len(staged)]

(* The subscription that an answer brings. *)
Subscribed(s, made, answer) ==
    [DiscardRecovery(s) EXCEPT
        !.status = "live", !.subId = answer.sub, !.faulted = FALSE,
        !.awaitingInitial = answer.mode,
        !.appliedBase = /\ made.base # None
                        /\ answer.mode = "resume"
                        /\ answer.epoch = made.base.epoch]

(* The answer to the oldest subscribe request. *)
SubscribeAnswered(s, answer) ==
    LET made == Head(s.connects)
        rest == [s EXCEPT !.connects = Tail(@)]
    IN  CASE ~made.current /\ answer.mode = "fault" -> rest
          [] ~made.current /\ answer.mode # "fault" ->
               [rest EXCEPT !.requests = Append(@, [kind |-> "unsubscribe", sub |-> answer.sub])]
          [] made.current /\ answer.mode = "fault" ->
               [rest EXCEPT !.status = "error", !.awaitingInitial = None, !.appliedBase = FALSE]
          [] OTHER -> Activated(Subscribed(rest, made, answer), answer.sub, made.staged)

(* The answer to the oldest resync request. *)
ResyncAnswered(s, answer) ==
    CASE s.abandoned > 0 -> [s EXCEPT !.abandoned = @ - 1]
      [] s.abandoned = 0 /\ answer.mode = "notOwned" ->
             Connect([s EXCEPT !.recovery = None], FALSE)
      [] s.abandoned = 0 /\ answer.mode = "fault" ->
             [s EXCEPT !.recovery = None, !.status = "error"]
      [] OTHER -> SettleRecovery([s EXCEPT !.recovery.asked = FALSE, !.recovery.mode = answer.mode])

(* handleRuntimeRestart(): the subscription and all that hangs on it is    *)
(* gone; a replaced transport keeps the water mark, a restarted runtime    *)
(* does not.                                                               *)
Restarted(s, transportReplaced) ==
    Connect([s EXCEPT !.subId = 0, !.connects = <<>>, !.awaitingInitial = None,
                      !.appliedBase = FALSE, !.recovery = None, !.abandoned = 0,
                      !.faulted = FALSE, !.requests = <<>>],
            ~transportReplaced)
=============================================================================
