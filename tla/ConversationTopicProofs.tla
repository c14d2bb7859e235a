------------------------ MODULE ConversationTopicProofs ------------------------
(***************************************************************************)
(* Theorems about ConversationTopic, for every number of events and        *)
(* disturbances, every size of the log and of the buffers, and every       *)
(* choice of disturbances: TypeOK, ViewWasServed, OwedIsKept, NoGoingBack. *)
(*                                                                         *)
(* The invariant, from the server to the reader:                           *)
(*   Server, Steps  what was served forms, within an epoch, one history    *)
(*                  whose last stretch the log retains;                    *)
(*   Subscription   the frame in flight says what was served (Sound), and  *)
(*                  OwedIsKept;                                            *)
(*   Wire           the frames on the wire are sound, come in the order of *)
(*                  their subscriptions and of their water marks, and none *)
(*                  is ahead of the frame in flight (Sent);                *)
(*   News           the answers bring subscriptions the reader does not    *)
(*                  know yet, in their order;                              *)
(*   Accounts       each subscribe request of the reader is under way in   *)
(*                  exactly one of three places;                           *)
(*   Reader         what the store shows, and asks to be resumed from, was *)
(*                  served;                                                *)
(*   Ahead          no frame that can still reach the view is behind it,   *)
(*                  wherever it is: on the wire, in flight, or staged for  *)
(*                  an answer to come.                                     *)
(*                                                                         *)
(* A handler of the reader is seen through one of four contracts only:     *)
(* Quiet (the view is as it was), Took (one frame was handled), Waits (the *)
(* frame was staged), Processed (a subscribe request was answered).        *)
(***************************************************************************)
EXTENDS ConversationTopic, SequenceTheorems, FiniteSetTheorems, WellFoundedInduction, TLAPS

(* What the reader's store and the requests it sends consist of. *)
Fields == {"status", "view", "subId", "connects", "awaitingInitial", "appliedBase", "recovery",
           "abandoned", "faulted", "requests"}

Bases == Marks \cup {None}
Connects == [base : Bases, current : BOOLEAN, staged : Seq(Frames)]
Requests ==
    [kind : {"subscribe"}, base : Bases]
        \cup [kind : {"resync"}, sub : Nat, base : Bases, force : BOOLEAN]
        \cup [kind : {"unsubscribe"}, sub : Nat]

Typed(s) ==
    /\ DOMAIN s = Fields
    /\ s.status \in {"connecting", "live", "error"}
    /\ s.view \in Views \cup {None} /\ s.subId \in Nat /\ s.appliedBase \in BOOLEAN
    /\ s.connects \in Seq(Connects) /\ s.requests \in Seq(Requests)

(* How many of a sequence of requests or of answers are of subscriptions. *)
Subscribing(q) == Cardinality({i \in DOMAIN q : q[i].kind = "subscribe"})

-----------------------------------------------------------------------------
(* The server. *)

Server ==
    /\ projection \in Views /\ floorSeq \in 0 .. projection.seq
    /\ served \subseteq Views /\ projection \in served
    /\ \A v \in served : \/ v.epoch < projection.epoch
                         \/ v.epoch = projection.epoch /\ v.seq <= projection.seq
    /\ \A v, w \in served : v.epoch = w.epoch /\ v.seq = w.seq => v = w
    /\ log \in Seq([seq : Nat, row : Int])
    /\ Len(log) = projection.seq - floorSeq /\ Len(log) <= Retention
    /\ \A i \in DOMAIN log : log[i].seq = floorSeq + i
    /\ {serial, events, spent} \subseteq Nat
    /\ {timer, paused, hydrating, flushFailed} \subseteq BOOLEAN

Retained(v) == v.epoch = projection.epoch /\ floorSeq <= v.seq

\* Whole history of the retained stretch, entry by entry.
Steps ==
    /\ \A q \in floorSeq .. projection.seq :
          \E v \in served : v.epoch = projection.epoch /\ v.seq = q
    /\ \A v, w \in served :
          Retained(v) /\ w.epoch = v.epoch /\ w.seq = v.seq + 1 =>
              LET row == log[w.seq - floorSeq].row IN
              w.rows = IF row = 0 THEN v.rows ELSE Append(v.rows, row)

View(f, rows) == [epoch |-> f.epoch, seq |-> f.toSeq, rows |-> rows]

\* What the frame would make of the view it fits was served.
Sound(f) ==
    /\ f \in Frames
    /\ f.sub \in 1 .. serial /\ f.epoch = projection.epoch
    /\ f.fromSeq <= f.toSeq /\ f.toSeq <= projection.seq
    /\ f.snapshot => View(f, f.rows) \in served
    /\ ~f.snapshot => \A v \in served :
          v.epoch = f.epoch /\ v.seq = f.fromSeq => View(f, v.rows \o f.rows) \in served

Subscription ==
    /\ sub \in Subs \cup {None}
    /\ outbox \in Writings \cup {None}
    /\ sub # None =>
          /\ sub.id \in 1 .. serial /\ sub.sentSeq <= projection.seq
          /\ Len(sub.buffer) <= BufferMax
          /\ sub.resyncRequired => sub.buffer = <<>>
          /\ sub.inFlight # None => Sound(sub.inFlight) /\ sub.inFlight.sub = sub.id
          /\ sub.inFlight # None /\ sub.inFlight.snapshot /\ sub.inFlight.kind = "online"
                => sub.resyncRequired
    /\ outbox # None /\ outbox.frame # None => sub # None /\ sub.inFlight = outbox.frame

-----------------------------------------------------------------------------
(* What is on its way. *)

Before(f, g) == f.sub <= g.sub /\ f.toSeq <= g.toSeq

Sent(f) ==
    /\ Sound(f)
    /\ sub # None => f.sub <= sub.id /\ (sub.inFlight # None => f.toSeq <= sub.inFlight.toSeq)

Wire ==
    /\ wire \in Seq(Frames)
    /\ \A i \in DOMAIN wire : Sent(wire[i])
    /\ \A i, j \in DOMAIN wire : i < j => Before(wire[i], wire[j])

\* An answer that brings a subscription.
IsNews(a) == a.kind = "subscribe" /\ a.mode # "fault"

GoodAnswer(a) == a.epoch = projection.epoch /\ a.sub <= serial

News ==
    /\ answers \in Seq(Answers)
    /\ \A i \in DOMAIN answers : GoodAnswer(answers[i])
    /\ \A i \in DOMAIN answers : IsNews(answers[i]) => store.subId < answers[i].sub
    /\ \A i, j \in DOMAIN answers :
          i < j /\ IsNews(answers[i]) /\ IsNews(answers[j]) => answers[i].sub < answers[j].sub
    /\ outbox # None =>
          /\ GoodAnswer(outbox.answer)
          /\ IsNews(outbox.answer) =>
                /\ store.subId < outbox.answer.sub
                /\ \A i \in DOMAIN answers : IsNews(answers[i]) => answers[i].sub < outbox.answer.sub

Accounts ==
    Len(store.connects) = Subscribing(store.requests) + Subscribing(answers)
                            + (IF outbox # None /\ outbox.answer.kind = "subscribe" THEN 1 ELSE 0)

-----------------------------------------------------------------------------
(* The reader. *)

MarkServed(m) == \E v \in served : v.epoch = m.epoch /\ v.seq = m.seq

Reader(s) ==
    /\ Typed(s) /\ s.subId <= serial
    /\ s.view = None \/ s.view \in served
    /\ s.appliedBase => s.view # None /\ s.view.epoch = projection.epoch
    /\ \A i \in DOMAIN s.requests :
          s.requests[i].kind # "unsubscribe" /\ s.requests[i].base # None
              => MarkServed(s.requests[i].base)
    /\ \A i \in DOMAIN s.connects :
          s.connects[i].base # None => s.view # None /\ s.connects[i].base.epoch <= s.view.epoch

\* The frame is not behind the view.
UpTo(f) == store.view # None /\ store.view.epoch = projection.epoch => store.view.seq <= f.toSeq

Staged(i) == store.connects[i].staged

Ahead ==
    /\ \A k \in DOMAIN wire : UpTo(wire[k])
    /\ sub # None /\ sub.inFlight # None => UpTo(sub.inFlight)
    /\ \A i \in DOMAIN store.connects : \A j \in DOMAIN Staged(i) :
          /\ Sent(Staged(i)[j])
          /\ Staged(i)[j].sub > store.subId => UpTo(Staged(i)[j])
          /\ \A k \in DOMAIN wire : Before(Staged(i)[j], wire[k])
          /\ \A h \in DOMAIN store.connects : \A k \in DOMAIN Staged(h) :
                Staged(i)[j].sub < Staged(h)[k].sub => Staged(i)[j].toSeq <= Staged(h)[k].toSeq

IInv ==
    /\ Server /\ Steps /\ Subscription /\ OwedIsKept /\ Wire /\ News /\ Accounts
    /\ Reader(store) /\ Ahead
-----------------------------------------------------------------------------
(* Induction over the length of a sequence.                                *)

LEMMA Least ==
    ASSUME NEW T \in SUBSET Nat, T # {}
    PROVE  \E n \in T : \A m \in T : n <= m
<1>1. PICK n \in T : \A m \in T : ~(<<m, n>> \in OpToRel(<, Nat))
  BY WFMin, NatLessThanWellFounded
<1>2. \A m, k \in Nat : <<m, k>> \in OpToRel(<, Nat) <=> m < k
  BY DEF OpToRel
<1>3. \A m \in T : n <= m
  <2>1. \A m \in T : ~(m < n)
    BY <1>1, <1>2
  <2> QED BY <2>1
<1> QED BY <1>3

LEMMA UpwardInduction ==
    ASSUME NEW T, NEW N \in Nat, 0 \in T,
           \A n \in 0 .. N - 1 : n \in T => n + 1 \in T
    PROVE  0 .. N \subseteq T
<1>1. SUFFICES ASSUME (0 .. N) \ T # {} PROVE FALSE
  OBVIOUS
<1>2. PICK n \in (0 .. N) \ T : \A m \in (0 .. N) \ T : n <= m
  <2>1. (0 .. N) \ T \in SUBSET Nat
    OBVIOUS
  <2> QED BY <1>1, <2>1, Least
<1>3. n # 0 /\ n - 1 \in 0 .. N - 1
  BY <1>2
<1>4. n - 1 \in T
  BY <1>2, <1>3
<1> QED BY <1>2, <1>3, <1>4

-----------------------------------------------------------------------------
(* Counting the subscribe requests, and their answers.                     *)

LEMMA CountEmpty == Subscribing(<<>>) = 0
<1>1. {i \in DOMAIN <<>> : <<>>[i].kind = "subscribe"} = {}
  OBVIOUS
<1> QED BY <1>1, FS_EmptySet DEF Subscribing

LEMMA CountFinite ==
    ASSUME NEW S, NEW q \in Seq(S)
    PROVE  /\ IsFiniteSet({i \in DOMAIN q : q[i].kind = "subscribe"})
           /\ Subscribing(q) \in Nat
<1>1. DOMAIN q = 1 .. Len(q) /\ Len(q) \in Nat
  BY LenProperties
<1>2. IsFiniteSet(1 .. Len(q))
  BY <1>1, FS_Interval
<1>3. IsFiniteSet({i \in DOMAIN q : q[i].kind = "subscribe"})
  BY <1>1, <1>2, FS_Subset
<1> QED BY <1>3, FS_CardinalityType DEF Subscribing

LEMMA CountAppend ==
    ASSUME NEW S, NEW q \in Seq(S), NEW x \in S
    PROVE  Subscribing(Append(q, x)) =
              Subscribing(q) + (IF x.kind = "subscribe" THEN 1 ELSE 0)
<1> DEFINE A == {i \in DOMAIN q : q[i].kind = "subscribe"}
           B == {i \in DOMAIN Append(q, x) : Append(q, x)[i].kind = "subscribe"}
<1>1. /\ DOMAIN q = 1 .. Len(q) /\ Len(q) \in Nat
      /\ DOMAIN Append(q, x) = 1 .. (Len(q) + 1)
      /\ \A i \in 1 .. Len(q) : Append(q, x)[i] = q[i]
      /\ Append(q, x)[Len(q) + 1] = x
  BY LenProperties, AppendProperties
<1>2. B = IF x.kind = "subscribe" THEN A \cup {Len(q) + 1} ELSE A
  <2>1. \A i \in 1 .. (Len(q) + 1) : i \in B <=>
            \/ i \in A
            \/ i = Len(q) + 1 /\ x.kind = "subscribe"
    BY <1>1
  <2>2. B \subseteq 1 .. (Len(q) + 1) /\ A \subseteq 1 .. (Len(q) + 1)
    BY <1>1
  <2>3. Len(q) + 1 \in 1 .. (Len(q) + 1)
    BY <1>1
  <2> HIDE DEF A, B
  <2> QED BY <2>1, <2>2, <2>3
<1>3. IsFiniteSet(A) /\ Cardinality(A) \in Nat
  BY CountFinite DEF Subscribing
<1>4. Len(q) + 1 \notin A
  BY <1>1
<1>5. Subscribing(q) = Cardinality(A) /\ Subscribing(Append(q, x)) = Cardinality(B)
  BY DEF Subscribing
<1> HIDE DEF A, B
<1>6. Cardinality(B) = Cardinality(A) + (IF x.kind = "subscribe" THEN 1 ELSE 0)
  <2>1. CASE x.kind = "subscribe"
    BY <1>2, <1>3, <1>4, <2>1, FS_AddElement
  <2>2. CASE x.kind # "subscribe"
    BY <1>2, <1>3, <2>2
  <2> QED BY <2>1, <2>2
<1> QED BY <1>5, <1>6

LEMMA CountTail ==
    ASSUME NEW S, NEW q \in Seq(S), q # <<>>
    PROVE  Subscribing(q) =
              Subscribing(Tail(q)) + (IF Head(q).kind = "subscribe" THEN 1 ELSE 0)
<1> DEFINE A == {i \in DOMAIN q : q[i].kind = "subscribe"}
           B == {i \in DOMAIN Tail(q) : Tail(q)[i].kind = "subscribe"}
           next == [i \in B |-> i + 1]
<1>1. /\ DOMAIN q = 1 .. Len(q) /\ Len(q) \in Nat \ {0} /\ Head(q) = q[1]
      /\ Tail(q) \in Seq(S) /\ DOMAIN Tail(q) = 1 .. (Len(q) - 1)
      /\ \A i \in 1 .. (Len(q) - 1) : Tail(q)[i] = q[i + 1]
  BY LenProperties, HeadTailProperties, EmptySeq
<1>2. next \in Bijection(B, A \ {1})
  <2>1. \A i \in B : i + 1 \in A \ {1} /\ i \in Nat
    BY <1>1
  <2>2. \A j \in A \ {1} : j - 1 \in B /\ (j - 1) + 1 = j
    BY <1>1
  <2>3. next \in [B -> A \ {1}]
    BY <2>1
  <2>4. \A i, j \in B : next[i] = next[j] => i = j
    BY <2>1
  <2>5. \A j \in A \ {1} : \E i \in B : next[i] = j
    BY <2>2
  <2> HIDE DEF A, B, next
  <2> QED BY <2>3, <2>4, <2>5 DEF Bijection, Injection, Surjection, IsInjective
<1>3. IsFiniteSet(A) /\ IsFiniteSet(B) /\ Cardinality(A) \in Nat /\ Cardinality(B) \in Nat
  BY <1>1, CountFinite DEF Subscribing
<1>4. 1 \in A <=> Head(q).kind = "subscribe"
  BY <1>1
<1>7. Subscribing(q) = Cardinality(A) /\ Subscribing(Tail(q)) = Cardinality(B)
  BY DEF Subscribing
<1> HIDE DEF A, B, next
<1>5. Cardinality(A \ {1}) = Cardinality(B)
  BY <1>2, <1>3, FS_Bijection DEF ExistsBijection
<1>6. Cardinality(A \ {1}) = IF 1 \in A THEN Cardinality(A) - 1 ELSE Cardinality(A)
  BY <1>3, FS_RemoveElement
<1> QED BY <1>3, <1>4, <1>5, <1>6, <1>7
-----------------------------------------------------------------------------
(* The reader's handlers.  Alike: only the recovery's book-keeping and the *)
(* status differ.  Keeps: what no handler does to the subscription it has, *)
(* to the frames that wait for an answer and to the number of answers due. *)

Due(s) == Len(s.connects) - Subscribing(s.requests)

Alike(s, t) ==
    /\ DOMAIN t = DOMAIN s /\ t.status \in {"connecting", "live", "error"}
    /\ t.view = s.view /\ t.subId = s.subId /\ t.appliedBase = s.appliedBase
    /\ t.connects = s.connects /\ t.requests = s.requests

Keeps(s, t) ==
    /\ t.subId = s.subId /\ Due(t) = Due(s)
    /\ \A i \in DOMAIN t.connects :
          \/ t.connects[i].staged = <<>>
          \/ i \in DOMAIN s.connects /\ t.connects[i].staged = s.connects[i].staged

Quiet(s, t) == Reader(t) /\ Keeps(s, t) /\ t.view = s.view

Shows(t, f) ==
    t.view \in served /\ t.view.epoch = projection.epoch /\ t.view.seq = f.toSeq

\* A handler that was given the frame f.
Took(s, t, f) == Reader(t) /\ Keeps(s, t) /\ (t.view = s.view \/ Shows(t, f))

LEMMA KeepsTrans ==
    ASSUME NEW s, NEW t, NEW u, Keeps(s, t), Keeps(t, u)
    PROVE  Keeps(s, u)
BY DEF Keeps

LEMMA QuietTrans ==
    ASSUME NEW s, NEW t, NEW u, Quiet(s, t), Quiet(t, u)
    PROVE  Quiet(s, u)
BY KeepsTrans DEF Quiet

LEMMA AlikeIsQuiet ==
    ASSUME NEW s, Reader(s), NEW t, Alike(s, t)
    PROVE  Quiet(s, t)
BY DEF Alike, Quiet, Reader, Typed, Keeps, Due

LEMMA DiscardIsAlike ==
    ASSUME NEW s, Reader(s)
    PROVE  Alike(s, DiscardRecovery(s))
BY DEF Alike, Reader, Typed, Fields, DiscardRecovery

LEMMA FailIsAlike ==
    ASSUME NEW s, Reader(s)
    PROVE  Alike(s, FailRecovery(s))
<1>1. Alike(s, DiscardRecovery(s))
  BY DiscardIsAlike
<1> QED BY <1>1 DEF Alike, FailRecovery, Reader, Typed, Fields

LEMMA MarkTyped ==
    ASSUME Server, NEW v \in served
    PROVE  Mark(v) \in Marks /\ MarkServed(Mark(v)) /\ v.epoch <= projection.epoch
           /\ v.epoch \in Nat /\ v.seq \in Nat /\ projection.epoch \in Nat
<1>1. v \in Views /\ projection \in Views
  BY DEF Server
<1>2. v.epoch \in Nat /\ v.seq \in Nat /\ projection.epoch \in Nat
  BY <1>1 DEF Views
<1>3. v.epoch < projection.epoch \/ v.epoch = projection.epoch
  BY DEF Server
<1>4. v.epoch <= projection.epoch
  BY <1>2, <1>3
<1>5. Mark(v) \in Marks /\ Mark(v).epoch = v.epoch /\ Mark(v).seq = v.seq
  BY <1>2 DEF Mark, Marks
<1>6. MarkServed(Mark(v))
  BY <1>5 DEF MarkServed
<1> QED BY <1>2, <1>4, <1>5, <1>6

LEMMA ConnectTyped ==
    ASSUME NEW q \in Seq(Connects), NEW base \in Bases
    PROVE  LET stale == [i \in DOMAIN q |-> [q[i] EXCEPT !.current = FALSE]]
               c == [base |-> base, current |-> TRUE, staged |-> <<>>]
           IN  /\ Append(stale, c) \in Seq(Connects)
               /\ Len(Append(stale, c)) = Len(q) + 1
               /\ DOMAIN q = 1 .. Len(q) /\ Len(q) \in Nat
               /\ DOMAIN Append(stale, c) = 1 .. (Len(q) + 1)
               /\ \A i \in 1 .. Len(q) : /\ Append(stale, c)[i].base = q[i].base
                                         /\ Append(stale, c)[i].staged = q[i].staged
               /\ Append(stale, c)[Len(q) + 1] = c
<1> DEFINE stale == [i \in DOMAIN q |-> [q[i] EXCEPT !.current = FALSE]]
           c == [base |-> base, current |-> TRUE, staged |-> <<>>]
<1>1. DOMAIN q = 1 .. Len(q) /\ Len(q) \in Nat /\ \A i \in 1 .. Len(q) : q[i] \in Connects
  BY LenProperties
<1>2. \A i \in 1 .. Len(q) : /\ stale[i] \in Connects /\ stale[i].base = q[i].base
                             /\ stale[i].staged = q[i].staged
  BY <1>1 DEF Connects
<1>3. stale \in Seq(Connects) /\ Len(stale) = Len(q)
  <2>1. stale \in [1 .. Len(q) -> Connects]
    BY <1>1, <1>2
  <2> QED BY <1>1, <2>1
<1>4. c \in Connects
  BY DEF Connects
<1> HIDE DEF stale, c
<1>5. /\ Append(stale, c) \in Seq(Connects)
      /\ Len(Append(stale, c)) = Len(q) + 1
      /\ \A i \in 1 .. Len(q) : Append(stale, c)[i] = stale[i]
      /\ Append(stale, c)[Len(q) + 1] = c
  BY <1>1, <1>3, <1>4, AppendProperties
<1>6. DOMAIN Append(stale, c) = 1 .. (Len(q) + 1)
  BY <1>5, LenProperties
<1> QED BY <1>1, <1>2, <1>5, <1>6 DEF stale, c

LEMMA RequestAppended ==
    ASSUME NEW q \in Seq(Requests), NEW r \in Requests
    PROVE  /\ Append(q, r) \in Seq(Requests)
           /\ DOMAIN Append(q, r) = 1 .. (Len(q) + 1)
           /\ DOMAIN q = 1 .. Len(q) /\ Len(q) \in Nat
           /\ \A i \in 1 .. Len(q) : Append(q, r)[i] = q[i]
           /\ Append(q, r)[Len(q) + 1] = r
           /\ Subscribing(Append(q, r)) =
                 Subscribing(q) + (IF r.kind = "subscribe" THEN 1 ELSE 0)
           /\ Subscribing(q) \in Nat
<1>1. /\ Append(q, r) \in Seq(Requests) /\ Len(Append(q, r)) = Len(q) + 1
      /\ \A i \in 1 .. Len(q) : Append(q, r)[i] = q[i]
      /\ Append(q, r)[Len(q) + 1] = r
  BY AppendProperties
<1>2. DOMAIN Append(q, r) = 1 .. (Len(q) + 1) /\ DOMAIN q = 1 .. Len(q) /\ Len(q) \in Nat
  BY <1>1, LenProperties
<1>3. Subscribing(Append(q, r)) = Subscribing(q) + (IF r.kind = "subscribe" THEN 1 ELSE 0)
  BY CountAppend
<1>4. Subscribing(q) \in Nat
  BY CountFinite
<1> QED BY <1>1, <1>2, <1>3, <1>4

LEMMA ConnectIsQuiet ==
    ASSUME Server, NEW s, Reader(s), NEW force
    PROVE  Quiet(s, Connect(s, force))
<1> DEFINE base == IF force \/ s.view = None THEN None ELSE Mark(s.view)
           stale == [i \in DOMAIN s.connects |-> [s.connects[i] EXCEPT !.current = FALSE]]
           c == [base |-> base, current |-> TRUE, staged |-> <<>>]
           r == [kind |-> "subscribe", base |-> base]
           d == DiscardRecovery(s)
           t == Connect(s, force)
<1>1. s.connects \in Seq(Connects) /\ s.requests \in Seq(Requests)
  BY DEF Reader, Typed
<1>2. /\ base \in Bases /\ (base # None => MarkServed(base))
      /\ base # None => s.view # None /\ base.epoch <= s.view.epoch
  <2>1. CASE s.view = None
    BY <2>1 DEF Bases
  <2>2. CASE s.view # None
    <3>1. s.view \in served
      BY <2>2 DEF Reader
    <3>2. /\ Mark(s.view) \in Marks /\ MarkServed(Mark(s.view))
          /\ Mark(s.view).epoch = s.view.epoch /\ s.view.epoch \in Nat
      BY <3>1, MarkTyped DEF Mark
    <3> QED BY <2>2, <3>2 DEF Bases
  <2> QED BY <2>1, <2>2
<1>3. r \in Requests /\ r.kind = "subscribe" /\ r.base = base
  BY <1>2 DEF Requests
<1>4. /\ Append(s.requests, r) \in Seq(Requests)
      /\ DOMAIN Append(s.requests, r) = 1 .. (Len(s.requests) + 1)
      /\ DOMAIN s.requests = 1 .. Len(s.requests) /\ Len(s.requests) \in Nat
      /\ \A i \in 1 .. Len(s.requests) : Append(s.requests, r)[i] = s.requests[i]
      /\ Append(s.requests, r)[Len(s.requests) + 1] = r
      /\ Subscribing(Append(s.requests, r)) = Subscribing(s.requests) + 1
      /\ Subscribing(s.requests) \in Nat
  <2> HIDE DEF r
  <2> QED BY <1>1, <1>3, RequestAppended
<1>5. /\ Append(stale, c) \in Seq(Connects)
      /\ Len(Append(stale, c)) = Len(s.connects) + 1
      /\ DOMAIN s.connects = 1 .. Len(s.connects) /\ Len(s.connects) \in Nat
      /\ DOMAIN Append(stale, c) = 1 .. (Len(s.connects) + 1)
      /\ \A i \in 1 .. Len(s.connects) :
            /\ Append(stale, c)[i].base = s.connects[i].base
            /\ Append(stale, c)[i].staged = s.connects[i].staged
      /\ Append(stale, c)[Len(s.connects) + 1] = c
      /\ c.staged = <<>> /\ c.base = base
  BY <1>1, <1>2, ConnectTyped
<1>6. /\ DOMAIN t = DOMAIN s /\ t.status = "connecting"
      /\ t.view = s.view /\ t.subId = s.subId /\ t.appliedBase = s.appliedBase
      /\ t.connects = Append(stale, c) /\ t.requests = Append(s.requests, r)
  <2>1. Alike(s, d)
    BY DiscardIsAlike
  <2>2. DOMAIN d = Fields
    BY <2>1 DEF Alike, Reader, Typed
  <2>3. t = [d EXCEPT !.status = "connecting", !.connects = Append(stale, c),
                      !.requests = Append(@, r)]
    BY DEF Connect
  <2> HIDE DEF t, d, stale, c, r
  <2> QED BY <2>1, <2>2, <2>3 DEF Alike, Fields
<1> HIDE DEF t, d, stale, c, r, base
<1>7. Typed(t)
  BY <1>4, <1>5, <1>6 DEF Reader, Typed
<1>8. Reader(t)
  <2>1. \A i \in DOMAIN t.requests :
          t.requests[i].kind # "unsubscribe" /\ t.requests[i].base # None
              => MarkServed(t.requests[i].base)
    BY <1>2, <1>3, <1>4, <1>6 DEF Reader
  <2>2. \A i \in DOMAIN t.connects :
          t.connects[i].base # None => t.view # None /\ t.connects[i].base.epoch <= t.view.epoch
    BY <1>2, <1>5, <1>6 DEF Reader
  <2> QED BY <1>6, <1>7, <2>1, <2>2 DEF Reader
<1>9. Keeps(s, t)
  <2>1. Due(t) = Due(s)
    BY <1>4, <1>5, <1>6 DEF Due
  <2>2. \A i \in DOMAIN t.connects :
          \/ t.connects[i].staged = <<>>
          \/ i \in DOMAIN s.connects /\ t.connects[i].staged = s.connects[i].staged
    BY <1>5, <1>6
  <2> QED BY <1>6, <2>1, <2>2 DEF Keeps
<1> QED BY <1>6, <1>8, <1>9 DEF Quiet, t

LEMMA IssueIsQuiet ==
    ASSUME Server, NEW s, Reader(s), NEW force \in BOOLEAN
    PROVE  Quiet(s, IssueRecovery(s, force))
<1> DEFINE forced == force \/ ~s.appliedBase
           base == IF s.appliedBase /\ s.view # None THEN Mark(s.view) ELSE None
           r == [kind |-> "resync", sub |-> s.subId, base |-> base, force |-> forced]
           t == IssueRecovery(s, force)
<1>1. s.requests \in Seq(Requests) /\ s.subId \in Nat /\ forced \in BOOLEAN
  BY DEF Reader, Typed
<1>2. base \in Bases /\ (base # None => MarkServed(base))
  <2>1. CASE s.appliedBase /\ s.view # None
    <3>1. Mark(s.view) \in Marks /\ MarkServed(Mark(s.view))
      BY <2>1, MarkTyped DEF Reader
    <3> QED BY <2>1, <3>1 DEF Bases
  <2>2. CASE ~(s.appliedBase /\ s.view # None)
    BY <2>2 DEF Bases
  <2> QED BY <2>1, <2>2
<1> HIDE DEF base, forced
<1>3. r \in Requests /\ r.kind = "resync" /\ r.base = base
  BY <1>1, <1>2 DEF Requests
<1>4. /\ Append(s.requests, r) \in Seq(Requests)
      /\ DOMAIN Append(s.requests, r) = 1 .. (Len(s.requests) + 1)
      /\ DOMAIN s.requests = 1 .. Len(s.requests) /\ Len(s.requests) \in Nat
      /\ \A i \in 1 .. Len(s.requests) : Append(s.requests, r)[i] = s.requests[i]
      /\ Append(s.requests, r)[Len(s.requests) + 1] = r
      /\ Subscribing(Append(s.requests, r)) = Subscribing(s.requests)
  <2> HIDE DEF r
  <2>1. r.kind # "subscribe"
    BY <1>3
  <2> QED BY <1>1, <1>3, <2>1, RequestAppended
<1>5. /\ DOMAIN t = DOMAIN s /\ t.status = s.status
      /\ t.view = s.view /\ t.subId = s.subId /\ t.appliedBase = s.appliedBase
      /\ t.connects = s.connects /\ t.requests = Append(s.requests, r)
  BY DEF IssueRecovery, Reader, Typed, Fields, base, forced
<1> HIDE DEF t, r
<1>6. Reader(t)
  <2>1. Typed(t)
    BY <1>4, <1>5 DEF Reader, Typed
  <2>2. \A i \in DOMAIN t.requests :
          t.requests[i].kind # "unsubscribe" /\ t.requests[i].base # None
              => MarkServed(t.requests[i].base)
    BY <1>2, <1>3, <1>4, <1>5 DEF Reader
  <2> QED BY <1>5, <2>1, <2>2 DEF Reader
<1>7. Keeps(s, t)
  BY <1>4, <1>5 DEF Keeps, Due
<1> QED BY <1>5, <1>6, <1>7 DEF Quiet, t

\* What the recovery's handlers end in.
Recovers(s, t) ==
    \E u : /\ Alike(s, u)
           /\ \/ t = u
              \/ \E force \in BOOLEAN : t = Connect(u, force) \/ t = IssueRecovery(u, force)

LEMMA RecoversIsQuiet ==
    ASSUME Server, NEW s, Reader(s), NEW t, Recovers(s, t)
    PROVE  Quiet(s, t)
<1>1. PICK u : /\ Alike(s, u)
               /\ \/ t = u
                  \/ \E force \in BOOLEAN : t = Connect(u, force) \/ t = IssueRecovery(u, force)
  BY DEF Recovers
<1>2. Quiet(s, u) /\ Reader(u)
  BY <1>1, AlikeIsQuiet DEF Quiet
<1>3. t = u \/ Quiet(u, t)
  BY <1>1, <1>2, ConnectIsQuiet, IssueIsQuiet
<1> QED BY <1>2, <1>3, QuietTrans

LEMMA RequestRecoveryIsQuiet ==
    ASSUME Server, NEW s, Reader(s), NEW event
    PROVE  Quiet(s, RequestRecovery(s, event))
<1> DEFINE u == [s EXCEPT !.recovery.upgrade = TRUE]
           t == RequestRecovery(s, event)
<1>1. Alike(s, s) /\ Alike(s, u)
  BY DEF Alike, Reader, Typed, Fields
<1>2. Alike(s, FailRecovery(s))
  BY FailIsAlike
<1>3. \/ t \in {s, u, FailRecovery(s)}
      \/ \E force \in BOOLEAN : t = Connect(s, force) \/ t = IssueRecovery(s, force)
  BY DEF RequestRecovery
<1> HIDE DEF t, u
<1>4. Recovers(s, t)
  BY <1>1, <1>2, <1>3 DEF Recovers
<1> QED BY <1>4, RecoversIsQuiet DEF t

LEMMA SettleIsQuiet ==
    ASSUME Server, NEW s, Reader(s)
    PROVE  Quiet(s, SettleRecovery(s))
<1> DEFINE u == [s EXCEPT !.recovery = None]
           w == [s EXCEPT !.recovery.deadline = TRUE]
           t == SettleRecovery(s)
<1>1. Alike(s, s) /\ Alike(s, u) /\ Alike(s, w)
  BY DEF Alike, Reader, Typed, Fields
<1>2. Alike(s, FailRecovery(s))
  BY FailIsAlike
<1>3. \/ t \in {s, u, w, FailRecovery(s)}
      \/ \E force \in BOOLEAN : t = IssueRecovery(s, force)
  BY DEF SettleRecovery
<1> HIDE DEF t, u, w
<1>4. Recovers(s, t)
  BY <1>1, <1>2, <1>3 DEF Recovers
<1> QED BY <1>4, RecoversIsQuiet DEF t

LEMMA SeenIsQuiet ==
    ASSUME Server, NEW s, Reader(s)
    PROVE  Quiet(s, MarkRecoveryFrameSeen(s))
<1> DEFINE u == [s EXCEPT !.recovery.seen = TRUE]
<1>1. Alike(s, s) /\ Alike(s, u)
  BY DEF Alike, Reader, Typed, Fields
<1>2. Quiet(s, s) /\ Quiet(s, u)
  BY <1>1, AlikeIsQuiet
<1>3. MarkRecoveryFrameSeen(s) \in {s, SettleRecovery(u)}
  BY DEF MarkRecoveryFrameSeen
<1> HIDE DEF u
<1>4. Quiet(u, SettleRecovery(u))
  BY <1>2, SettleIsQuiet DEF Quiet
<1> QED BY <1>2, <1>3, <1>4, QuietTrans

LEMMA DeadlineIsQuiet ==
    ASSUME Server, NEW s, Reader(s)
    PROVE  Quiet(s, RecoveryDeadline(s))
<1> DEFINE u == [s EXCEPT !.recovery.deadline = FALSE]
<1>1. Alike(s, u)
  BY DEF Alike, Reader, Typed, Fields
<1>2. Quiet(s, u) /\ Reader(u)
  BY <1>1, AlikeIsQuiet DEF Quiet
<1>3. RecoveryDeadline(s) \in {FailRecovery(u), IssueRecovery(u, TRUE)}
  BY DEF RecoveryDeadline
<1> HIDE DEF u
<1>4. Quiet(u, FailRecovery(u)) /\ Quiet(u, IssueRecovery(u, TRUE))
  BY <1>2, FailIsAlike, AlikeIsQuiet, IssueIsQuiet
<1>5. Quiet(s, FailRecovery(u)) /\ Quiet(s, IssueRecovery(u, TRUE))
  BY <1>2, <1>4, QuietTrans
<1> QED BY <1>3, <1>5

LEMMA FaultIsQuiet ==
    ASSUME Server, NEW s, Reader(s), NEW f
    PROVE  Quiet(s, HandleAssemblyFault(s, f))
<1> DEFINE t == IF f.kind \in {"initial", "recovery"}
                THEN [s EXCEPT !.awaitingInitial = None] ELSE s
           u == [t EXCEPT !.recovery.gap = @ \/ s.recovery.seen]
<1>1. Alike(s, t) /\ Alike(s, u)
  BY DEF Alike, Reader, Typed, Fields
<1>2. Quiet(s, t) /\ Reader(t) /\ Quiet(s, u)
  BY <1>1, AlikeIsQuiet DEF Quiet
<1>3. HandleAssemblyFault(s, f) \in {u, RequestRecovery(t, f.kind = "recovery")}
  BY DEF HandleAssemblyFault
<1> HIDE DEF t, u
<1>4. Quiet(t, RequestRecovery(t, f.kind = "recovery"))
  BY <1>2, RequestRecoveryIsQuiet
<1> QED BY <1>2, <1>3, <1>4, QuietTrans

LEMMA ResyncAnswerIsQuiet ==
    ASSUME Server, NEW s, Reader(s), NEW a
    PROVE  Quiet(s, ResyncAnswered(s, a))
<1> DEFINE u1 == [s EXCEPT !.abandoned = @ - 1]
           u2 == [s EXCEPT !.recovery = None]
           u3 == [s EXCEPT !.recovery = None, !.status = "error"]
           u4 == [s EXCEPT !.recovery.asked = FALSE, !.recovery.mode = a.mode]
<1>1. Alike(s, u1) /\ Alike(s, u2) /\ Alike(s, u3) /\ Alike(s, u4)
  BY DEF Alike, Reader, Typed, Fields
<1>2. /\ Quiet(s, u1) /\ Quiet(s, u2) /\ Quiet(s, u3) /\ Quiet(s, u4)
      /\ Reader(u2) /\ Reader(u4)
  BY <1>1, AlikeIsQuiet DEF Quiet
<1>3. ResyncAnswered(s, a) \in {u1, Connect(u2, FALSE), u3, SettleRecovery(u4)}
  BY DEF ResyncAnswered
<1> HIDE DEF u1, u2, u3, u4
<1>4. Quiet(u2, Connect(u2, FALSE)) /\ Quiet(u4, SettleRecovery(u4))
  BY <1>2, ConnectIsQuiet, SettleIsQuiet
<1> QED BY <1>2, <1>3, <1>4, QuietTrans

-----------------------------------------------------------------------------
(* Frames.                                                                 *)

LEMMA QuietThenTook ==
    ASSUME NEW s, NEW t, NEW u, NEW f, Quiet(s, t), Took(t, u, f)
    PROVE  Took(s, u, f)
BY KeepsTrans DEF Quiet, Took

LEMMA TookThenQuiet ==
    ASSUME NEW s, NEW t, NEW u, NEW f, Took(s, t, f), Quiet(t, u)
    PROVE  Took(s, u, f)
BY KeepsTrans DEF Quiet, Took, Shows

LEMMA QuietIsTook ==
    ASSUME NEW s, NEW t, NEW f, Quiet(s, t)
    PROVE  Took(s, t, f)
BY DEF Quiet, Took

\* The reader shows another view, of the projection's epoch.
LEMMA ViewReplaced ==
    ASSUME Server, NEW s, Reader(s), NEW f, NEW t,
           DOMAIN t = DOMAIN s, t.status = s.status, t.subId = s.subId,
           t.connects = s.connects, t.requests = s.requests,
           t.appliedBase = TRUE, t.view \in served,
           t.view.epoch = projection.epoch, t.view.seq = f.toSeq
    PROVE  Took(s, t, f)
<1>1. t.view \in Views /\ t.view # None /\ projection.epoch \in Nat
  BY NoneAssumption DEF Server, Views
<1>2. Typed(t)
  BY <1>1 DEF Typed, Reader
<1>3. ASSUME NEW i \in DOMAIN t.connects, t.connects[i].base # None
      PROVE  t.connects[i].base.epoch <= t.view.epoch
  <2>1. s.view # None /\ t.connects[i].base.epoch <= s.view.epoch
    BY <1>3 DEF Reader
  <2>2. s.view.epoch \in Nat /\ s.view.epoch <= projection.epoch
    BY <2>1, MarkTyped DEF Reader
  <2>3. t.connects[i].base.epoch \in Nat
    <3>1. s.connects \in Seq(Connects)
      BY DEF Reader, Typed
    <3>2. s.connects[i] \in Connects
      BY <3>1, LenProperties, ElementOfSeq
    <3>3. s.connects[i].base \in Marks
      BY <1>3, <3>2 DEF Connects, Bases
    <3> QED BY <3>3 DEF Marks
  <2> QED BY <1>1, <2>1, <2>2, <2>3
<1>4. Reader(t)
  BY <1>1, <1>2, <1>3 DEF Reader
<1>5. Keeps(s, t)
  BY DEF Keeps, Due
<1> QED BY <1>4, <1>5 DEF Took, Shows

LEMMA SnapshotShown ==
    ASSUME Server, NEW s, Reader(s), NEW f, Sound(f), f.snapshot
    PROVE  Took(s, [s EXCEPT !.appliedBase = TRUE,
                             !.view = [epoch |-> f.epoch, seq |-> f.toSeq, rows |-> f.rows]], f)
<1> DEFINE v == [epoch |-> f.epoch, seq |-> f.toSeq, rows |-> f.rows]
           t == [s EXCEPT !.appliedBase = TRUE, !.view = v]
<1>1. v \in served /\ v.epoch = projection.epoch /\ v.seq = f.toSeq
  BY DEF Sound, View
<1>2. /\ DOMAIN t = DOMAIN s /\ t.status = s.status /\ t.subId = s.subId
      /\ t.connects = s.connects /\ t.requests = s.requests
      /\ t.appliedBase = TRUE /\ t.view = v
  BY DEF Reader, Typed, Fields
<1> HIDE DEF t, v
<1> QED BY <1>1, <1>2, ViewReplaced DEF t, v

LEMMA DeltasShown ==
    ASSUME Server, NEW s, Reader(s), NEW f, Sound(f), ~f.snapshot,
           s.appliedBase, f.fromSeq = s.view.seq
    PROVE  Took(s, [s EXCEPT !.appliedBase = TRUE, !.view.seq = f.toSeq,
                             !.view.rows = @ \o f.rows], f)
<1> DEFINE v == [epoch |-> f.epoch, seq |-> f.toSeq, rows |-> s.view.rows \o f.rows]
           t == [s EXCEPT !.appliedBase = TRUE, !.view.seq = f.toSeq, !.view.rows = @ \o f.rows]
<1>1. s.view \in served /\ s.view \in Views /\ s.view.epoch = f.epoch
  BY DEF Reader, Sound, Server
<1>2. v \in served /\ v.epoch = projection.epoch /\ v.seq = f.toSeq
  BY <1>1 DEF Sound, View
<1>3. /\ DOMAIN t = DOMAIN s /\ t.status = s.status /\ t.subId = s.subId
      /\ t.connects = s.connects /\ t.requests = s.requests
      /\ t.appliedBase = TRUE
  BY DEF Reader, Typed, Fields
<1>4. t.view = [[s.view EXCEPT !.seq = f.toSeq] EXCEPT !.rows = s.view.rows \o f.rows]
  BY <1>1 DEF Reader, Typed, Fields, Views
<1>5. ASSUME NEW rows
      PROVE  [[s.view EXCEPT !.seq = f.toSeq] EXCEPT !.rows = rows]
                = [epoch |-> f.epoch, seq |-> f.toSeq, rows |-> rows]
  <2>1. s.view = [epoch |-> f.epoch, seq |-> s.view.seq, rows |-> s.view.rows]
    BY <1>1 DEF Views
  <2>2. [s.view EXCEPT !.seq = f.toSeq] =
          [epoch |-> f.epoch, seq |-> f.toSeq, rows |-> s.view.rows]
    BY <2>1
  <2>3. [[epoch |-> f.epoch, seq |-> f.toSeq, rows |-> s.view.rows] EXCEPT !.rows = rows]
          = [epoch |-> f.epoch, seq |-> f.toSeq, rows |-> rows]
    OBVIOUS
  <2> QED BY <2>2, <2>3
<1>6. t.view = v
  BY <1>4, <1>5
<1> HIDE DEF t, v
<1> QED BY <1>2, <1>3, <1>6, ViewReplaced DEF t, v

LEMMA ApplyTakes ==
    ASSUME Server, NEW s, Reader(s), NEW f, Sound(f), NEW initial,
           f.snapshot \/ s.appliedBase
    PROVE  Took(s, ApplyFrame(s, f, initial), f)
<1> DEFINE u1 == [s EXCEPT !.appliedBase = TRUE,
                           !.view = [epoch |-> f.epoch, seq |-> f.toSeq, rows |-> f.rows]]
           u2 == [s EXCEPT !.appliedBase = TRUE, !.view.seq = f.toSeq, !.view.rows = @ \o f.rows]
           t == ApplyFrame(s, f, initial)
<1>1. Alike(s, s)
  BY DEF Alike, Reader, Typed
<1>2. Took(s, s, f)
  BY <1>1, AlikeIsQuiet, QuietIsTook
<1>3. ASSUME NEW u, Took(s, u, f)
      PROVE  Took(s, u, f) /\ Took(s, MarkRecoveryFrameSeen(u), f)
  <2>1. Quiet(u, MarkRecoveryFrameSeen(u))
    BY <1>3, SeenIsQuiet DEF Took
  <2> QED BY <1>3, <2>1, TookThenQuiet
<1>4. CASE f.snapshot
  <2>1. Took(s, u1, f)
    BY <1>4, SnapshotShown
  <2>2. t \in {u1, MarkRecoveryFrameSeen(u1)}
    BY <1>4 DEF ApplyFrame
  <2> HIDE DEF u1, t
  <2> QED BY <1>3, <2>1, <2>2 DEF t
<1>5. CASE ~f.snapshot /\ s.view # None /\ f.toSeq <= s.view.seq
  <2>1. t \in {s, MarkRecoveryFrameSeen(s)}
    <3>1. s.view.seq \in Nat /\ f.toSeq \in Nat
      BY <1>5 DEF Reader, Typed, Views, Sound, Frames
    <3>2. ~(s.view = None \/ (f.toSeq > s.view.seq /\ f.fromSeq # s.view.seq))
      BY <1>5, <3>1
    <3> QED BY <1>5, <3>2 DEF ApplyFrame
  <2> HIDE DEF t
  <2> QED BY <1>2, <1>3, <2>1 DEF t
<1>6. CASE ~f.snapshot /\ (s.view = None \/ (f.toSeq > s.view.seq /\ f.fromSeq # s.view.seq))
  <2>1. t \in {Connect(s, TRUE), RequestRecovery(s, f.kind = "recovery")}
    <3>1. ~(s.view # None /\ f.toSeq <= s.view.seq)
      <4>1. s.view = None \/ (s.view.seq \in Nat /\ f.toSeq \in Nat)
        BY DEF Reader, Typed, Views, Sound, Frames
      <4> QED BY <1>6, <4>1
    <3> QED BY <1>6, <3>1 DEF ApplyFrame
  <2>2. Quiet(s, Connect(s, TRUE)) /\ Quiet(s, RequestRecovery(s, f.kind = "recovery"))
    BY ConnectIsQuiet, RequestRecoveryIsQuiet
  <2> HIDE DEF t
  <2> QED BY <2>1, <2>2, QuietIsTook DEF t
<1>7. CASE /\ ~f.snapshot
           /\ ~(s.view # None /\ f.toSeq <= s.view.seq)
           /\ ~(s.view = None \/ (f.toSeq > s.view.seq /\ f.fromSeq # s.view.seq))
  <2>1. s.view # None /\ f.fromSeq = s.view.seq
    <3>1. s.view # None
      BY <1>7
    <3>2. s.view.seq \in Nat /\ f.toSeq \in Nat
      BY <3>1 DEF Reader, Typed, Views, Sound, Frames
    <3> QED BY <1>7, <3>1, <3>2
  <2>2. Took(s, u2, f)
    BY <1>7, <2>1, DeltasShown
  <2>3. t \in {u2, MarkRecoveryFrameSeen(u2)}
    BY <1>7 DEF ApplyFrame
  <2> HIDE DEF u2, t
  <2> QED BY <1>3, <2>2, <2>3 DEF t
<1> QED BY <1>4, <1>5, <1>6, <1>7

LEMMA HandleTakes ==
    ASSUME Server, NEW s, Reader(s), NEW f, Sound(f)
    PROVE  Took(s, HandleFrame(s, f), f)
<1> DEFINE t == IF f.kind \in {"initial", "recovery"}
                THEN [s EXCEPT !.awaitingInitial = None] ELSE s
           ahead == f.toSeq > (IF s.view = None THEN 0 ELSE s.view.seq)
           gap == [t EXCEPT !.recovery.gap = @ \/ (ahead /\ s.recovery.seen)]
           initial == f.kind = "initial" /\ s.awaitingInitial # None
           again == RequestRecovery(t, f.kind = "recovery")
           u == HandleFrame(s, f)
<1>1. Alike(s, s) /\ Alike(s, t) /\ Alike(s, gap)
  BY DEF Alike, Reader, Typed, Fields
<1>2. t.appliedBase = s.appliedBase
  BY <1>1 DEF Alike
<1>3. \/ u \in {s, gap, again}
      \/ f.snapshot /\ u = ApplyFrame(t, f, FALSE)
      \/ (f.snapshot \/ s.appliedBase) /\ u = ApplyFrame(t, f, initial)
  BY DEF HandleFrame
<1> HIDE DEF t, gap, initial, again, u
<1>4. Quiet(s, s) /\ Quiet(s, t) /\ Quiet(s, gap) /\ Reader(t)
  BY <1>1, AlikeIsQuiet DEF Quiet
<1>5. Quiet(s, again)
  BY <1>4, RequestRecoveryIsQuiet, QuietTrans DEF again
<1>6. CASE u \in {s, gap, again}
  BY <1>4, <1>5, <1>6, QuietIsTook DEF u
<1>7. CASE f.snapshot /\ u = ApplyFrame(t, f, FALSE)
  <2>1. Took(t, ApplyFrame(t, f, FALSE), f)
    BY <1>4, <1>7, ApplyTakes
  <2> QED BY <1>4, <1>7, <2>1, QuietThenTook DEF u
<1>8. CASE (f.snapshot \/ s.appliedBase) /\ u = ApplyFrame(t, f, initial)
  <2>1. Took(t, ApplyFrame(t, f, initial), f)
    BY <1>2, <1>4, <1>8, ApplyTakes
  <2> QED BY <1>4, <1>8, <2>1, QuietThenTook DEF u
<1> QED BY <1>3, <1>6, <1>7, <1>8

LEMMA DecodeTakes ==
    ASSUME Server, NEW s, Reader(s), NEW f, Sound(f)
    PROVE  Took(s, Decode(s, f), f)
<1> DEFINE u1 == [s EXCEPT !.faulted = TRUE]
           u2 == [s EXCEPT !.faulted = FALSE]
<1>1. Alike(s, s) /\ Alike(s, u1) /\ Alike(s, u2)
  BY DEF Alike, Reader, Typed, Fields
<1>2. Decode(s, f) \in {s, HandleAssemblyFault(u1, f), HandleFrame(u2, f)}
  BY DEF Decode
<1> HIDE DEF u1, u2
<1>3. Quiet(s, s) /\ Quiet(s, u1) /\ Quiet(s, u2) /\ Reader(u1) /\ Reader(u2)
  BY <1>1, AlikeIsQuiet DEF Quiet
<1>4. Took(s, s, f)
  BY <1>3, QuietIsTook
<1>5. Took(s, HandleAssemblyFault(u1, f), f)
  <2>1. Quiet(u1, HandleAssemblyFault(u1, f))
    BY <1>3, FaultIsQuiet
  <2> QED BY <1>3, <2>1, QuietTrans, QuietIsTook
<1>6. Took(s, HandleFrame(u2, f), f)
  BY <1>3, HandleTakes, QuietThenTook
<1> QED BY <1>2, <1>4, <1>5, <1>6

\* Frames of another subscription wait.
Waits(s, t, f) ==
    /\ Reader(t) /\ t.view = s.view /\ t.subId = s.subId /\ Due(t) = Due(s)
    /\ DOMAIN t.connects = DOMAIN s.connects
    /\ \A i \in DOMAIN s.connects :
          t.connects[i].staged = Append(s.connects[i].staged, f)

LEMMA AcceptTakes ==
    ASSUME Server, NEW s, Reader(s), NEW f, Sound(f)
    PROVE  \/ f.sub = s.subId /\ Took(s, AcceptFrame(s, f), f)
           \/ f.sub # s.subId /\ Waits(s, AcceptFrame(s, f), f)
<1>1. CASE f.sub = s.subId
  BY <1>1, DecodeTakes DEF AcceptFrame
<1>2. CASE f.sub # s.subId
  <2> DEFINE q == s.connects
             p == [i \in DOMAIN q |-> [q[i] EXCEPT !.staged = Append(@, f)]]
             t == AcceptFrame(s, f)
  <2>1. q \in Seq(Connects) /\ DOMAIN q = 1 .. Len(q) /\ Len(q) \in Nat
    BY LenProperties DEF Reader, Typed
  <2>2. ASSUME NEW i \in 1 .. Len(q)
        PROVE  /\ p[i] \in Connects /\ p[i].base = q[i].base
               /\ p[i].staged = Append(q[i].staged, f)
    <3>1. q[i] \in Connects /\ f \in Frames
      BY <2>1, ElementOfSeq DEF Sound
    <3>2. Append(q[i].staged, f) \in Seq(Frames)
      BY <3>1, AppendProperties DEF Connects
    <3>3. p[i] = [q[i] EXCEPT !.staged = Append(q[i].staged, f)]
      BY <2>1
    <3> QED BY <3>1, <3>2, <3>3 DEF Connects
  <2>3. p \in Seq(Connects) /\ Len(p) = Len(q) /\ DOMAIN p = DOMAIN q
    <3>1. p \in [1 .. Len(q) -> Connects]
      BY <2>1, <2>2
    <3> QED BY <2>1, <3>1
  <2>4. /\ DOMAIN t = DOMAIN s /\ t.status = s.status /\ t.view = s.view /\ t.subId = s.subId
        /\ t.appliedBase = s.appliedBase /\ t.requests = s.requests /\ t.connects = p
    <3>1. t = [s EXCEPT !.connects = p]
      BY <1>2 DEF AcceptFrame
    <3> HIDE DEF p, t
    <3> QED BY <3>1 DEF Reader, Typed, Fields
  <2> HIDE DEF p, t
  <2>5. Typed(t)
    BY <2>3, <2>4 DEF Reader, Typed
  <2>6. Reader(t)
    BY <2>1, <2>2, <2>3, <2>4, <2>5 DEF Reader
  <2> QED BY <1>2, <2>1, <2>2, <2>3, <2>4, <2>6 DEF Waits, Due, t
<1> QED BY <1>1, <1>2

\* The staged frames of a subscription, delivered one after the other.
ShowsOne(t, id, staged) ==
    \E j \in DOMAIN staged : staged[j].sub = id /\ Shows(t, staged[j])

LEMMA ActivatedSteps ==
    ASSUME NEW s, NEW id, NEW staged \in Seq(Frames)
    PROVE  \E after :
              /\ after[0] = s /\ Activated(s, id, staged) = after[Len(staged)]
              /\ \A n \in 1 .. Len(staged) :
                    after[n] = IF staged[n].sub = id THEN Decode(after[n - 1], staged[n])
                                                     ELSE after[n - 1]
<1> DEFINE N == Len(staged)
           Def(g, M) == g = [n \in 0 .. M |->
                               CASE n = 0                       -> s
                                 [] n > 0 /\ staged[n].sub = id -> Decode(g[n - 1], staged[n])
                                 [] OTHER                       -> g[n - 1]]
           T == {M \in Nat : \E g : Def(g, M)}
<1>0. N \in Nat
  BY LenProperties
<1>1. 0 \in T
  <2>1. Def([n \in 0 .. 0 |-> s], 0)
    OBVIOUS
  <2> QED BY <2>1
<1>2. ASSUME NEW M \in 0 .. N - 1, M \in T PROVE M + 1 \in T
  <2>1. PICK g : Def(g, M)
    BY <1>2
  <2> DEFINE last == IF staged[M + 1].sub = id THEN Decode(g[M], staged[M + 1]) ELSE g[M]
             h == [n \in 0 .. M + 1 |-> IF n = M + 1 THEN last ELSE g[n]]
  <2>2. DOMAIN h = 0 .. M + 1 /\ h = [n \in 0 .. M + 1 |-> h[n]]
    OBVIOUS
  <2>3. ASSUME NEW n \in 0 .. M + 1
        PROVE  h[n] = CASE n = 0                       -> s
                        [] n > 0 /\ staged[n].sub = id -> Decode(h[n - 1], staged[n])
                        [] OTHER                       -> h[n - 1]
    <3>1. CASE n = M + 1
      <4>1. h[n] = last /\ h[n - 1] = g[M] /\ n > 0
        BY <1>0, <3>1
      <4> HIDE DEF h
      <4> QED BY <3>1, <4>1
    <3>2. CASE n # M + 1
      <4>1. n \in 0 .. M /\ h[n] = g[n] /\ (n # 0 => h[n - 1] = g[n - 1])
        BY <1>0, <3>2
      <4>2. g[n] = CASE n = 0                       -> s
                     [] n > 0 /\ staged[n].sub = id -> Decode(g[n - 1], staged[n])
                     [] OTHER                       -> g[n - 1]
        BY <2>1, <4>1
      <4> HIDE DEF h
      <4> QED BY <4>1, <4>2
    <3> QED BY <3>1, <3>2
  <2>4. Def(h, M + 1)
    <3> HIDE DEF h
    <3> QED BY <2>2, <2>3
  <2>5. M + 1 \in Nat
    BY <1>0
  <2> QED BY <2>4, <2>5
<1>3. N \in T
  <2> HIDE DEF T
  <2>1. 0 .. N \subseteq T
    BY <1>0, <1>1, <1>2, UpwardInduction
  <2> QED BY <1>0, <2>1
<1>4. \E g : Def(g, N)
  BY <1>3
<1> DEFINE after == CHOOSE g : Def(g, N)
<1>5. Def(after, N)
  BY <1>4
<1>6. Activated(s, id, staged) = after[N]
  BY DEF Activated
<1> HIDE DEF after
<1>7. after[0] = s
  BY <1>0, <1>5
<1>8. ASSUME NEW n \in 1 .. N
      PROVE  after[n] = IF staged[n].sub = id THEN Decode(after[n - 1], staged[n])
                                              ELSE after[n - 1]
  BY <1>0, <1>5
<1> QED BY <1>6, <1>7, <1>8

LEMMA ActivatedTakes ==
    ASSUME Server, NEW s, Reader(s), NEW id, NEW staged \in Seq(Frames),
           \A j \in DOMAIN staged : staged[j].sub = id => Sound(staged[j])
    PROVE  LET t == Activated(s, id, staged)
           IN  Reader(t) /\ Keeps(s, t) /\ (t.view = s.view \/ ShowsOne(t, id, staged))
<1> DEFINE Good(t) == Reader(t) /\ Keeps(s, t) /\ (t.view = s.view \/ ShowsOne(t, id, staged))
<1>1. PICK after :
         /\ after[0] = s /\ Activated(s, id, staged) = after[Len(staged)]
         /\ \A n \in 1 .. Len(staged) :
               after[n] = IF staged[n].sub = id THEN Decode(after[n - 1], staged[n])
                                                ELSE after[n - 1]
  BY ActivatedSteps
<1> DEFINE T == {n \in 0 .. Len(staged) : Good(after[n])}
<1>2. DOMAIN staged = 1 .. Len(staged) /\ Len(staged) \in Nat
  BY LenProperties
<1>3. 0 \in T
  <2>1. Good(s)
    BY DEF Keeps, Due
  <2> QED BY <1>1, <1>2, <2>1
<1>4. ASSUME NEW n \in 0 .. Len(staged) - 1, n \in T
      PROVE  n + 1 \in T
  <2> DEFINE f == staged[n + 1]
  <2>1. Good(after[n]) /\ n + 1 \in 1 .. Len(staged) /\ (n + 1) - 1 = n
    BY <1>2, <1>4
  <2>2. after[n + 1] = IF f.sub = id THEN Decode(after[n], f) ELSE after[n]
    BY <1>1, <2>1
  <2>3. CASE f.sub = id
    <3>1. Took(after[n], after[n + 1], f)
      BY <1>2, <2>1, <2>2, <2>3, DecodeTakes
    <3>2. Keeps(s, after[n + 1])
      BY <2>1, <3>1, KeepsTrans DEF Took
    <3>3. after[n + 1].view = s.view \/ ShowsOne(after[n + 1], id, staged)
      <4>1. CASE after[n + 1].view = after[n].view
        BY <2>1, <4>1 DEF ShowsOne, Shows
      <4>2. CASE Shows(after[n + 1], f)
        BY <1>2, <2>1, <2>3, <4>2 DEF ShowsOne
      <4> QED BY <3>1, <4>1, <4>2 DEF Took
    <3> QED BY <1>2, <2>1, <3>1, <3>2, <3>3 DEF Took
  <2>4. CASE f.sub # id
    BY <1>2, <2>1, <2>2, <2>4
  <2> QED BY <2>3, <2>4
<1>5. 0 .. Len(staged) \subseteq T
  <2> HIDE DEF T
  <2> QED BY <1>2, <1>3, <1>4, UpwardInduction
<1>6. Good(after[Len(staged)])
  BY <1>2, <1>5
<1> QED BY <1>1, <1>6

\* The answer a of the oldest subscribe request has been processed.
Processed(s, t, a) ==
    /\ Reader(t) /\ Due(t) = Due(s) - 1
    /\ t.subId = s.subId \/ (t.subId = a.sub /\ a.mode # "fault")
    /\ \A i \in DOMAIN t.connects :
          \/ t.connects[i].staged = <<>>
          \/ i + 1 \in DOMAIN s.connects /\ t.connects[i].staged = s.connects[i + 1].staged
    /\ \/ t.view = s.view
       \/ /\ t.subId = a.sub /\ a.mode # "fault"
          /\ ShowsOne(t, a.sub, s.connects[1].staged)

LEMMA ProcessedThenKeeps ==
    ASSUME NEW s, NEW a, NEW t, NEW u, Reader(u), t.subId = a.sub, a.mode # "fault",
           Processed(s, t, a), t.view = s.view, Keeps(t, u),
           u.view = t.view \/ ShowsOne(u, a.sub, s.connects[1].staged)
    PROVE  Processed(s, u, a)
BY DEF Processed, Keeps

LEMMA SubscribeAnswerTakes ==
    ASSUME Server, NEW s, Reader(s), s.connects # <<>>, NEW a \in Answers,
           a.epoch = projection.epoch, a.sub <= serial,
           \A j \in DOMAIN s.connects[1].staged : Sound(s.connects[1].staged[j])
    PROVE  Processed(s, SubscribeAnswered(s, a), a)
<1> DEFINE made == Head(s.connects)
           rest == [s EXCEPT !.connects = Tail(s.connects)]
           appliedBase == /\ made.base # None /\ a.mode = "resume"
                          /\ a.epoch = made.base.epoch
           d == DiscardRecovery(rest)
           live == Subscribed(rest, made, a)
           failed == [rest EXCEPT !.status = "error", !.awaitingInitial = None,
                                  !.appliedBase = FALSE]
           bye == [kind |-> "unsubscribe", sub |-> a.sub]
           late == [rest EXCEPT !.requests = Append(@, bye)]
<1>1. /\ s.connects \in Seq(Connects) /\ Len(s.connects) \in Nat \ {0}
      /\ DOMAIN s.connects = 1 .. Len(s.connects)
      /\ made = s.connects[1] /\ made \in Connects
      /\ Tail(s.connects) \in Seq(Connects)
      /\ Len(Tail(s.connects)) = Len(s.connects) - 1
      /\ DOMAIN Tail(s.connects) = 1 .. (Len(s.connects) - 1)
      /\ \A i \in 1 .. (Len(s.connects) - 1) : Tail(s.connects)[i] = s.connects[i + 1]
  <2>1. s.connects \in Seq(Connects)
    BY DEF Reader, Typed
  <2> QED BY <2>1, LenProperties, HeadTailProperties, EmptySeq
<1>2. /\ a.sub \in Nat /\ a.epoch \in Nat
      /\ a.mode \in {"fault", "notOwned", "resume", "snapshot"}
  BY DEF Answers
<1>3. /\ DOMAIN rest = DOMAIN s /\ rest.status = s.status /\ rest.view = s.view
      /\ rest.subId = s.subId /\ rest.appliedBase = s.appliedBase
      /\ rest.requests = s.requests /\ rest.connects = Tail(s.connects)
  BY DEF Reader, Typed, Fields
<1>4. Reader(rest)
  <2> HIDE DEF rest, made
  <2>1. Typed(rest)
    BY <1>1, <1>3 DEF Reader, Typed
  <2>2. \A i \in DOMAIN rest.connects :
          rest.connects[i].base # None
              => rest.view # None /\ rest.connects[i].base.epoch <= rest.view.epoch
    <3>1. \A i \in 1 .. (Len(s.connects) - 1) : i + 1 \in DOMAIN s.connects
      BY <1>1
    <3> QED BY <1>1, <1>3, <3>1 DEF Reader
  <2> QED BY <1>3, <2>1, <2>2 DEF Reader
<1>5. Processed(s, rest, a)
  <2> HIDE DEF rest, made
  <2>1. Due(rest) = Due(s) - 1
    <3>1. Subscribing(s.requests) \in Nat
      BY CountFinite DEF Reader, Typed
    <3> QED BY <1>1, <1>3, <3>1 DEF Due
  <2>2. \A i \in DOMAIN rest.connects :
          i + 1 \in DOMAIN s.connects /\ rest.connects[i].staged = s.connects[i + 1].staged
    BY <1>1, <1>3
  <2> QED BY <1>3, <1>4, <2>1, <2>2 DEF Processed
<1>6. Processed(s, failed, a)
  <2>1. /\ DOMAIN failed = DOMAIN rest /\ failed.status = "error" /\ failed.view = rest.view
        /\ failed.subId = rest.subId /\ failed.appliedBase = FALSE
        /\ failed.requests = rest.requests /\ failed.connects = rest.connects
    <3> HIDE DEF rest
    <3> QED BY <1>4 DEF Reader, Typed, Fields
  <2> HIDE DEF rest, failed
  <2>2. Reader(failed)
    BY <1>4, <2>1 DEF Reader, Typed
  <2> QED BY <1>3, <1>5, <2>1, <2>2 DEF Processed, Due
<1>7. Processed(s, late, a)
  <2>1. /\ DOMAIN late = DOMAIN rest /\ late.status = rest.status /\ late.view = rest.view
        /\ late.subId = rest.subId /\ late.appliedBase = rest.appliedBase
        /\ late.requests = Append(rest.requests, bye) /\ late.connects = rest.connects
    <3> HIDE DEF rest, bye
    <3> QED BY <1>4 DEF Reader, Typed, Fields
  <2>2. bye \in Requests /\ bye.kind = "unsubscribe"
    BY <1>2 DEF Requests
  <2> HIDE DEF rest, late, bye
  <2>3. /\ Append(rest.requests, bye) \in Seq(Requests)
        /\ DOMAIN Append(rest.requests, bye) = 1 .. (Len(rest.requests) + 1)
        /\ DOMAIN rest.requests = 1 .. Len(rest.requests) /\ Len(rest.requests) \in Nat
        /\ \A i \in 1 .. Len(rest.requests) : Append(rest.requests, bye)[i] = rest.requests[i]
        /\ Append(rest.requests, bye)[Len(rest.requests) + 1] = bye
        /\ Subscribing(Append(rest.requests, bye)) = Subscribing(rest.requests)
    <3>1. rest.requests \in Seq(Requests)
      BY <1>4 DEF Reader, Typed
    <3>2. bye.kind # "subscribe"
      BY <2>2
    <3> QED BY <2>2, <3>1, <3>2, RequestAppended
  <2>4. Typed(late)
    BY <1>4, <2>1, <2>3 DEF Reader, Typed
  <2>5. \A i \in DOMAIN late.requests :
          late.requests[i].kind # "unsubscribe" /\ late.requests[i].base # None
              => MarkServed(late.requests[i].base)
    BY <1>4, <2>1, <2>2, <2>3 DEF Reader
  <2>6. Reader(late)
    BY <1>4, <2>1, <2>4, <2>5 DEF Reader
  <2>7. Due(late) = Due(rest)
    BY <2>1, <2>3 DEF Due
  <2> QED BY <1>3, <1>5, <2>1, <2>6, <2>7 DEF Processed
<1>8. /\ DOMAIN live = DOMAIN rest /\ live.status = "live" /\ live.view = rest.view
      /\ live.subId = a.sub /\ live.appliedBase = appliedBase
      /\ live.requests = rest.requests /\ live.connects = rest.connects
  <2>1. Alike(rest, d)
    BY <1>4, DiscardIsAlike
  <2> HIDE DEF rest
  <2> QED BY <1>4, <2>1 DEF Alike, Reader, Typed, Fields, Subscribed
<1>9. appliedBase \in BOOLEAN /\ (appliedBase => s.view # None /\ s.view.epoch = projection.epoch)
  <2>1. ASSUME appliedBase PROVE s.view # None /\ s.view.epoch = projection.epoch
    <3>1. /\ s.view # None /\ made.base.epoch <= s.view.epoch
          /\ made.base.epoch = projection.epoch
      BY <1>1, <2>1 DEF Reader
    <3>2. /\ s.view.epoch <= projection.epoch
          /\ s.view.epoch \in Nat /\ projection.epoch \in Nat
      BY <3>1, MarkTyped DEF Reader
    <3>3. s.view.epoch = projection.epoch
      <4> HIDE DEF made
      <4> QED BY <3>1, <3>2
    <3> QED BY <3>1, <3>3
  <2> QED BY <2>1
<1> HIDE DEF live, rest, made, appliedBase, d
<1>10. Reader(live) /\ (a.mode # "fault" => Processed(s, live, a))
  <2>1. Typed(live)
    BY <1>2, <1>4, <1>8, <1>9 DEF Reader, Typed
  <2>2. Reader(live)
    BY <1>3, <1>4, <1>8, <1>9, <2>1 DEF Reader
  <2> QED BY <1>2, <1>3, <1>5, <1>8, <2>2 DEF Processed, Due
<1>11. a.mode # "fault" => Processed(s, Activated(live, a.sub, made.staged), a)
  <2>1. made.staged \in Seq(Frames)
    BY <1>1 DEF Connects
  <2>2. \A j \in DOMAIN made.staged : Sound(made.staged[j])
    BY <1>1
  <2> DEFINE u == Activated(live, a.sub, made.staged)
  <2>3. Reader(u) /\ Keeps(live, u) /\ (u.view = live.view \/ ShowsOne(u, a.sub, made.staged))
    BY <1>10, <2>1, <2>2, ActivatedTakes
  <2> HIDE DEF u
  <2>4. a.mode # "fault" => Processed(s, u, a)
    BY <1>1, <1>3, <1>8, <1>10, <2>3, ProcessedThenKeeps
  <2> QED BY <2>4 DEF u
<1>12. CASE ~made.current /\ a.mode = "fault"
  <2>1. SubscribeAnswered(s, a) = rest
    BY <1>12 DEF SubscribeAnswered, rest, made
  <2> QED BY <1>5, <2>1
<1>13. CASE ~made.current /\ a.mode # "fault"
  <2>1. SubscribeAnswered(s, a) = late
    BY <1>13 DEF SubscribeAnswered, rest, made
  <2> QED BY <1>7, <2>1
<1>14. CASE made.current /\ a.mode = "fault"
  <2>1. SubscribeAnswered(s, a) = failed
    BY <1>14 DEF SubscribeAnswered, rest, made
  <2> QED BY <1>6, <2>1
<1>15. CASE made.current /\ a.mode # "fault"
  <2>1. SubscribeAnswered(s, a) = Activated(live, a.sub, made.staged)
    BY <1>15 DEF SubscribeAnswered, live, rest, made
  <2> QED BY <1>11, <1>15, <2>1
<1> QED BY <1>12, <1>13, <1>14, <1>15

-----------------------------------------------------------------------------
(* The server's steps.  Stays: the epoch goes on, and the states added to  *)
(* those it has been in come after all the others.                         *)

Stays ==
    /\ projection'.epoch = projection.epoch /\ projection.seq <= projection'.seq
    /\ served \subseteq served'
    /\ \A v \in served' : v \in served \/ v.seq > projection.seq
    /\ serial <= serial' /\ serial' \in Nat

LEMMA NothingNewStays ==
    ASSUME Server, UNCHANGED <<projection, served, serial>>
    PROVE  Stays
BY DEF Server, Stays, Views

\* The log with one more event.
LEMMA LongerLog ==
    ASSUME Server, NEW row \in Nat
    PROVE  LET longer == Append(log, [seq |-> projection.seq + 1, row |-> row])
           IN  /\ longer \in Seq([seq : Nat, row : Int])
               /\ Len(longer) = projection.seq + 1 - floorSeq
               /\ Len(longer) \in Nat \ {0}
               /\ \A i \in 1 .. Len(longer) : longer[i].seq = floorSeq + i
               /\ \A i \in 1 .. (Len(longer) - 1) : longer[i] = log[i]
               /\ longer[Len(longer)].row = row
<1> DEFINE e == [seq |-> projection.seq + 1, row |-> row]
           longer == Append(log, e)
<1>1. /\ projection.seq \in Nat /\ floorSeq \in Nat /\ floorSeq <= projection.seq
      /\ log \in Seq([seq : Nat, row : Int]) /\ Len(log) = projection.seq - floorSeq
      /\ DOMAIN log = 1 .. Len(log)
  BY LenProperties DEF Server, Views
<1>2. e \in [seq : Nat, row : Int]
  BY <1>1
<1>3. /\ longer \in Seq([seq : Nat, row : Int]) /\ Len(longer) = Len(log) + 1
      /\ \A i \in 1 .. Len(log) : longer[i] = log[i]
      /\ longer[Len(log) + 1] = e
  <2> HIDE DEF e
  <2> QED BY <1>1, <1>2, AppendProperties
<1>4. \A i \in 1 .. Len(log) : log[i].seq = floorSeq + i
  BY <1>1 DEF Server
<1> HIDE DEF longer
<1>5. Len(longer) - 1 = Len(log) /\ Len(longer) \in Nat \ {0} /\ Len(log) \in Nat
  <2>1. Len(longer) \in Nat /\ Len(log) \in Nat
    BY <1>1, <1>3, LenProperties
  <2>2. Len(longer) = Len(log) + 1
    BY <1>3
  <2> QED BY ONLY <2>1, <2>2
<1>6. Len(longer) = projection.seq + 1 - floorSeq
  <2>1. Len(longer) = Len(log) + 1 /\ Len(log) = projection.seq - floorSeq
    BY <1>1, <1>3
  <2> QED BY <2>1, <1>1
<1>7. longer[Len(longer)].row = row
  BY <1>3
<1>8. ASSUME NEW i \in 1 .. Len(longer) PROVE longer[i].seq = floorSeq + i
  <2>1. CASE i \in 1 .. Len(log)
    BY <1>3, <1>4, <2>1
  <2>2. CASE i = Len(log) + 1
    <3>1. longer[i].seq = projection.seq + 1
      BY <1>3, <2>2
    <3>2. floorSeq + i = projection.seq + 1
      BY <1>1, <2>2
    <3> QED BY <3>1, <3>2
  <2> QED BY <1>3, <1>5, <2>1, <2>2
<1> QED BY <1>3, <1>5, <1>6, <1>7, <1>8 DEF longer

\* The oldest event leaves a log that is too long.
Entries == [seq : Nat, row : Int]

Shortened(longer, floor, l, low) ==
    IF Len(longer) > Retention THEN l = Tail(longer) /\ low = Head(longer).seq
                               ELSE l = longer /\ low = floor

Follows(l, low, longer, floor, top) ==
    \A q \in Nat : low < q /\ q <= top => l[q - low] = longer[q - floor]

LEMMA LogWindow ==
    ASSUME NEW longer \in Seq(Entries), NEW floor \in Nat, NEW top \in Nat, NEW l, NEW low,
           Retention \in Nat \ {0}, Len(longer) \in Nat \ {0},
           Len(longer) = top - floor, Len(longer) <= Retention + 1,
           \A i \in 1 .. Len(longer) : longer[i].seq = floor + i,
           Shortened(longer, floor, l, low)
    PROVE  /\ l \in Seq(Entries) /\ Len(l) <= Retention
           /\ low \in Nat /\ floor <= low /\ low <= top
           /\ Len(l) = top - low
           /\ \A i \in DOMAIN l : l[i].seq = low + i
           /\ Follows(l, low, longer, floor, top)
<1>0. IF Len(longer) > Retention THEN l = Tail(longer) /\ low = Head(longer).seq
                                 ELSE l = longer /\ low = floor
  BY DEF Shortened
<1>1. CASE Len(longer) > Retention
  <2>1. longer # <<>> /\ Head(longer) = longer[1]
    BY EmptySeq, HeadTailProperties
  <2>2. low = floor + 1 /\ l = Tail(longer)
    BY <1>0, <1>1, <2>1
  <2>3. /\ l \in Seq(Entries) /\ Len(l) = Len(longer) - 1
        /\ \A i \in 1 .. Len(l) : l[i] = longer[i + 1]
    BY <2>1, <2>2, HeadTailProperties
  <2>4. DOMAIN l = 1 .. Len(l)
    BY <2>3, LenProperties
  <2>5. ASSUME NEW i \in DOMAIN l PROVE l[i].seq = low + i
    <3>0. i \in 1 .. Len(l)
      BY <2>4, <2>5
    <3>4. i + 1 \in 1 .. Len(longer)
      <4>1. Len(l) = Len(longer) - 1
        BY <2>3
      <4> QED BY ONLY <3>0, <4>1, Len(longer) \in Nat
    <3>1. i + 1 \in 1 .. Len(longer) /\ l[i] = longer[i + 1]
      BY <2>3, <3>0, <3>4
    <3>2. longer[i + 1].seq = floor + (i + 1)
      BY <3>1
    <3>3. floor + (i + 1) = low + i
      BY ONLY <2>2, <3>0, floor \in Nat, Len(longer) \in Nat
    <3> QED BY <3>1, <3>2, <3>3
  <2>6. ASSUME NEW q \in Nat, low < q, q <= top
        PROVE  l[q - low] = longer[q - floor]
    <3>1. q - low \in 1 .. Len(l) /\ (q - low) + 1 = q - floor
      BY <2>2, <2>3, <2>6
    <3>2. l[q - low] = longer[(q - low) + 1]
      BY <2>3, <3>1
    <3> QED BY <3>1, <3>2
  <2>7. /\ low <= top /\ Len(l) = top - low /\ Len(l) <= Retention
        /\ low \in Nat /\ floor <= low
    <3>1. Len(l) = Len(longer) - 1
      BY <2>3
    <3> QED BY <2>2, <3>1
  <2>8. Follows(l, low, longer, floor, top)
    BY ONLY <2>6 DEF Follows
  <2> QED BY ONLY <2>3, <2>5, <2>7, <2>8
<1>2. CASE ~(Len(longer) > Retention)
  <2>1. l = longer /\ low = floor
    BY <1>0, <1>2
  <2>2. DOMAIN l = 1 .. Len(l)
    BY <2>1, LenProperties
  <2>3. Len(l) <= Retention /\ low <= top
    BY <1>2, <2>1
  <2>4. Follows(l, low, longer, floor, top)
    BY ONLY <2>1 DEF Follows
  <2> QED BY <2>1, <2>2, <2>3, <2>4
<1> QED BY <1>1, <1>2

LEMMA IngestKeepsTheServer ==
    ASSUME BoundsAssumption, Server, Steps, NEW row \in Nat, Ingest(row)
    PROVE  Server' /\ Steps' /\ Stays
<1> DEFINE longer == Append(log, [seq |-> projection.seq + 1, row |-> row])
<1>1. /\ projection \in Views /\ projection.seq \in Nat /\ projection.epoch \in Nat
      /\ projection.rows \in Seq(Int) /\ floorSeq \in Nat /\ floorSeq <= projection.seq
      /\ served \subseteq Views /\ projection \in served
  BY DEF Server, Views
<1>2. /\ longer \in Seq([seq : Nat, row : Int])
      /\ Len(longer) = projection.seq + 1 - floorSeq
      /\ Len(longer) \in Nat \ {0}
      /\ \A i \in 1 .. Len(longer) : longer[i].seq = floorSeq + i
      /\ \A i \in 1 .. (Len(longer) - 1) : longer[i] = log[i]
      /\ longer[Len(longer)].row = row
  BY LongerLog
<1>3. /\ projection' = [projection EXCEPT !.seq = @ + 1,
                                          !.rows = IF row = 0 THEN @ ELSE Append(@, row)]
      /\ IF Len(longer) > Retention
         THEN log' = Tail(longer) /\ floorSeq' = Head(longer).seq
         ELSE log' = longer /\ floorSeq' = floorSeq
      /\ served' = served \cup {projection'} /\ events' = events + 1
      /\ timer' = (timer \/ (sub # None /\ ~paused))
      /\ UNCHANGED <<paused, hydrating, serial, spent, flushFailed>>
  BY DEF Ingest
<1>4. /\ projection'.seq = projection.seq + 1 /\ projection'.epoch = projection.epoch
      /\ projection'.rows = IF row = 0 THEN projection.rows ELSE Append(projection.rows, row)
      /\ projection' \in Views
  <2>1. row \in Int /\ projection.rows \in Seq(Int)
    BY <1>1
  <2>2. Append(projection.rows, row) \in Seq(Int)
    BY <2>1, AppendProperties
  <2>3. projection' = [projection EXCEPT !.seq = projection.seq + 1,
                          !.rows = IF row = 0 THEN projection.rows
                                   ELSE Append(projection.rows, row)]
    BY <1>1, <1>3 DEF Views
  <2>4. /\ projection'.seq = projection.seq + 1 /\ projection'.epoch = projection.epoch
        /\ projection'.rows = IF row = 0 THEN projection.rows ELSE Append(projection.rows, row)
        /\ projection' = [epoch |-> projection'.epoch, seq |-> projection'.seq,
                          rows |-> projection'.rows]
    <3>1. projection = [epoch |-> projection.epoch, seq |-> projection.seq,
                        rows |-> projection.rows]
      BY <1>1 DEF Views
    <3> QED BY ONLY <2>3, <3>1
  <2>5. projection'.seq \in Nat /\ projection'.rows \in Seq(Int)
    BY ONLY <1>1, <2>2, <2>4
  <2>6. [epoch |-> projection'.epoch, seq |-> projection'.seq, rows |-> projection'.rows] \in Views
    BY ONLY <1>1, <2>4, <2>5 DEF Views
  <2> QED BY ONLY <2>4, <2>6
<1> HIDE DEF longer
<1>9. /\ Len(longer) = projection.seq + 1 - floorSeq /\ Len(longer) \in Nat
      /\ longer[Len(longer)].row = row
  BY <1>2
<1>5. /\ log' \in Seq([seq : Nat, row : Int]) /\ Len(log') <= Retention
      /\ floorSeq' \in Nat /\ floorSeq <= floorSeq' /\ floorSeq' <= projection'.seq
      /\ Len(log') = projection'.seq - floorSeq'
      /\ \A i \in DOMAIN log' : log'[i].seq = floorSeq' + i
      /\ \A q \in Nat : floorSeq' < q /\ q <= projection'.seq
                           => log'[q - floorSeq'] = longer[q - floorSeq]
  <2>1. Retention \in Nat \ {0}
    BY DEF BoundsAssumption
  <2>2. Len(longer) <= Retention + 1
    <3>1. Len(log) <= Retention /\ Len(log) = projection.seq - floorSeq
      BY DEF Server
    <3> QED BY ONLY <1>1, <1>9, <2>1, <3>1
  <2>3. projection'.seq \in Nat /\ Len(longer) = projection'.seq - floorSeq
    BY ONLY <1>1, <1>4, <1>9
  <2>4. /\ longer \in Seq(Entries) /\ Len(longer) \in Nat \ {0}
        /\ \A i \in 1 .. Len(longer) : longer[i].seq = floorSeq + i
    BY ONLY <1>2 DEF Entries
  <2>5. Shortened(longer, floorSeq, log', floorSeq')
    BY ONLY <1>3 DEF Shortened
  <2>6. /\ log' \in Seq(Entries) /\ Len(log') <= Retention
        /\ floorSeq' \in Nat /\ floorSeq <= floorSeq' /\ floorSeq' <= projection'.seq
        /\ Len(log') = projection'.seq - floorSeq'
        /\ \A i \in DOMAIN log' : log'[i].seq = floorSeq' + i
        /\ Follows(log', floorSeq', longer, floorSeq, projection'.seq)
    BY <1>1, <2>1, <2>2, <2>3, <2>4, <2>5, LogWindow
  <2> QED BY ONLY <2>6 DEF Entries, Follows
<1>6. Server'
  <2>1. ASSUME NEW v \in served' PROVE v \in Views /\ v.epoch \in Nat /\ v.seq \in Nat
    BY <1>1, <1>3, <1>4, <2>1 DEF Views
  <2>2. \A v \in served' : \/ v.epoch < projection'.epoch
                           \/ v.epoch = projection'.epoch /\ v.seq <= projection'.seq
    <3>1. ASSUME NEW v \in served
          PROVE  \/ v.epoch < projection.epoch
                 \/ v.epoch = projection.epoch /\ v.seq <= projection.seq + 1
      <4>1. v.seq \in Nat
        BY <1>3, <2>1
      <4>2. \/ v.epoch < projection.epoch
            \/ v.epoch = projection.epoch /\ v.seq <= projection.seq
        BY DEF Server
      <4> QED BY ONLY <1>1, <4>1, <4>2
    <3>2. projection'.epoch = projection'.epoch /\ projection'.seq <= projection'.seq
      BY <1>1, <1>4
    <3> QED BY <1>3, <1>4, <3>1, <3>2
  <2>3. \A v, w \in served' : v.epoch = w.epoch /\ v.seq = w.seq => v = w
    <3>1. \A v, w \in served : v.epoch = w.epoch /\ v.seq = w.seq => v = w
      BY DEF Server
    <3>2. ASSUME NEW v \in served, v.epoch = projection'.epoch PROVE v.seq # projection'.seq
      <4>1. v.seq <= projection.seq \/ v.epoch < projection.epoch
        BY DEF Server
      <4>2. v.seq \in Nat /\ v.epoch \in Nat
        BY <1>3, <2>1
      <4> QED BY ONLY <1>1, <1>4, <3>2, <4>1, <4>2
    <3> QED BY <1>3, <3>1, <3>2
  <2>4. {serial', events', spent'} \subseteq Nat
    BY <1>3 DEF Server
  <2>5. {timer', paused', hydrating', flushFailed'} \subseteq BOOLEAN
    BY <1>3 DEF Server
  <2>6. served' \subseteq Views /\ projection' \in served'
    BY <1>3, <2>1
  <2>7. floorSeq' \in 0 .. projection'.seq
    BY ONLY <1>1, <1>4, <1>5
  <2> QED BY <1>4, <1>5, <2>2, <2>3, <2>4, <2>5, <2>6, <2>7 DEF Server
<1>7. Steps'
  <2>1. ASSUME NEW q \in floorSeq' .. projection'.seq
        PROVE  \E v \in served' : v.epoch = projection'.epoch /\ v.seq = q
    <3>1. CASE q = projection'.seq
      BY <1>3, <3>1
    <3>2. CASE q # projection'.seq
      <4>1. q \in floorSeq .. projection.seq
        BY ONLY <1>1, <1>4, <1>5, <2>1, <3>2
      <4> QED BY <1>3, <1>4, <4>1 DEF Steps
    <3> QED BY <3>1, <3>2
  <2>2. ASSUME NEW v \in served', NEW w \in served',
               v.epoch = projection'.epoch, floorSeq' <= v.seq,
               w.epoch = v.epoch, w.seq = v.seq + 1
        PROVE  w.rows = IF log'[w.seq - floorSeq'].row = 0 THEN v.rows
                        ELSE Append(v.rows, log'[w.seq - floorSeq'].row)
    <3>1. v.seq \in Nat /\ w.seq \in Nat /\ w.epoch \in Nat
      BY <1>6 DEF Server, Views
    <3>6. w.seq <= projection'.seq
      <4>1. \/ w.epoch < projection'.epoch
            \/ w.epoch = projection'.epoch /\ w.seq <= projection'.seq
        BY <1>6 DEF Server
      <4> QED BY ONLY <1>1, <1>4, <2>2, <3>1, <4>1
    <3>7. v.seq < projection'.seq
      BY ONLY <1>1, <1>4, <2>2, <3>1, <3>6
    <3>2. v \in served /\ v.epoch = projection.epoch /\ floorSeq <= v.seq
      <4>1. v # projection'
        BY ONLY <1>1, <1>4, <3>1, <3>7
      <4>2. floorSeq <= v.seq
        BY ONLY <1>1, <1>5, <2>2, <3>1
      <4> QED BY <1>3, <1>4, <2>2, <4>1, <4>2
    <3>3. log'[w.seq - floorSeq'] = longer[w.seq - floorSeq]
      <4>1. floorSeq' < w.seq
        BY ONLY <1>1, <1>5, <2>2, <3>1
      <4> QED BY <1>5, <3>1, <3>6, <4>1
    <3>4. CASE w \in served
      <4>1. w.seq <= projection.seq
        <5>1. \/ w.epoch < projection.epoch
              \/ w.epoch = projection.epoch /\ w.seq <= projection.seq
          BY <3>4 DEF Server
        <5> QED BY ONLY <1>1, <1>4, <2>2, <3>1, <5>1
      <4>2. w.seq - floorSeq \in 1 .. (Len(longer) - 1)
        BY ONLY <1>1, <1>9, <2>2, <3>1, <3>2, <4>1
      <4>3. longer[w.seq - floorSeq] = log[w.seq - floorSeq]
        BY <1>2, <4>2
      <4> QED BY <2>2, <3>2, <3>3, <3>4, <4>3 DEF Steps, Retained
    <3>5. CASE w = projection'
      <4>1. v.seq = projection.seq
        BY ONLY <1>1, <1>4, <2>2, <3>1, <3>5
      <4>2. v = projection
        BY <1>1, <3>2, <4>1 DEF Server
      <4>3. w.seq - floorSeq = Len(longer)
        BY ONLY <1>1, <1>9, <1>4, <3>5
      <4> QED BY ONLY <1>9, <1>4, <3>3, <3>5, <4>2, <4>3
    <3> QED BY <1>3, <3>4, <3>5
  <2> QED BY <2>1, <2>2 DEF Steps, Retained
<1>8. Stays
  <2>1. projection.seq <= projection'.seq
    BY ONLY <1>1, <1>4
  <2>2. \A v \in served' : v \in served \/ v.seq > projection.seq
    <3>1. projection'.seq > projection.seq
      BY ONLY <1>1, <1>4
    <3> QED BY <1>3, <3>1
  <2>3. serial <= serial' /\ serial' \in Nat
    BY <1>3 DEF Server
  <2> QED BY <1>3, <1>4, <2>1, <2>2, <2>3 DEF Stays
<1> QED BY <1>6, <1>7, <1>8

LEMMA NothingNewKeepsTheServer ==
    ASSUME Server, Steps, UNCHANGED <<server, served>>,
           serial' \in Nat, serial <= serial', {events', spent'} \subseteq Nat,
           {timer', paused', hydrating', flushFailed'} \subseteq BOOLEAN
    PROVE  Server' /\ Steps' /\ Stays
<1>1. /\ projection' = projection /\ log' = log /\ floorSeq' = floorSeq /\ served' = served
  BY DEF server
<1>2. Server'
  BY <1>1 DEF Server
<1>3. Steps'
  BY <1>1 DEF Steps, Retained
<1>4. Stays
  BY <1>1 DEF Server, Stays, Views
<1> QED BY <1>2, <1>3, <1>4

\* A rebuilt projection, of this epoch or of the next one.
LEMMA RebuiltServer ==
    ASSUME Server, NEW seq \in Nat,
           projection'.seq = seq, projection' \in Views, floorSeq' = seq, log' = <<>>,
           \/ projection'.epoch = projection.epoch /\ seq = projection.seq + 1
           \/ projection'.epoch = projection.epoch + 1,
           served' = served \cup {projection'}, UNCHANGED <<serial, events>>, spent' \in Nat,
           {timer', paused', hydrating', flushFailed'} \subseteq BOOLEAN, BoundsAssumption
    PROVE  Server' /\ Steps'
<1>1. /\ projection.seq \in Nat /\ projection.epoch \in Nat /\ projection'.epoch \in Nat
      /\ served \subseteq Views /\ projection \in served
      /\ \A v \in served : v.epoch \in Nat /\ v.seq \in Nat
  BY DEF Server, Views
<1>2. ASSUME NEW v \in served
      PROVE  \/ v.epoch < projection'.epoch
             \/ v.epoch = projection'.epoch /\ v.seq < projection'.seq
  <2>1. \/ v.epoch < projection.epoch
        \/ v.epoch = projection.epoch /\ v.seq <= projection.seq
    BY DEF Server
  <2>2. v.epoch \in Nat /\ v.seq \in Nat
    BY <1>1
  <2>3. \/ projection'.epoch = projection.epoch /\ projection'.seq = projection.seq + 1
        \/ projection'.epoch = projection.epoch + 1
    OBVIOUS
  <2> QED BY ONLY <1>1, <2>1, <2>2, <2>3
<1>3. Server'
  <2>1. log' \in Seq(Entries) /\ Len(log') = 0 /\ DOMAIN log' = {} /\ Len(log') <= Retention
    BY EmptySeq DEF BoundsAssumption
  <2>2. floorSeq' \in 0 .. projection'.seq /\ Len(log') = projection'.seq - floorSeq'
    BY <2>1
  <2>3. \A v \in served' : \/ v.epoch < projection'.epoch
                           \/ v.epoch = projection'.epoch /\ v.seq <= projection'.seq
    <3>1. \A v \in served : v.seq < projection'.seq => v.seq <= projection'.seq
      BY <1>1
    <3>2. projection'.seq <= projection'.seq
      OBVIOUS
    <3> QED BY <1>2, <3>1, <3>2
  <2>4. \A v, w \in served' : v.epoch = w.epoch /\ v.seq = w.seq => v = w
    <3>1. \A v, w \in served : v.epoch = w.epoch /\ v.seq = w.seq => v = w
      BY DEF Server
    <3>2. ASSUME NEW v \in served
          PROVE  ~(v.epoch = projection'.epoch /\ v.seq = projection'.seq)
      <4>1. v.epoch \in Nat /\ v.seq \in Nat
        BY <1>1
      <4> QED BY <1>1, <1>2, <4>1
    <3> QED BY <3>1, <3>2
  <2>5. served' \subseteq Views /\ projection' \in served'
    BY <1>1
  <2>6. {serial', events', spent'} \subseteq Nat
    BY DEF Server
  <2> QED BY <2>1, <2>2, <2>3, <2>4, <2>5, <2>6 DEF Server, Entries
<1>4. Steps'
  <2>1. ASSUME NEW q \in floorSeq' .. projection'.seq
        PROVE  \E v \in served' : v.epoch = projection'.epoch /\ v.seq = q
    BY <2>1
  <2>2. ASSUME NEW v \in served', NEW w \in served',
               v.epoch = projection'.epoch, floorSeq' <= v.seq,
               w.epoch = v.epoch, w.seq = v.seq + 1
        PROVE  FALSE
    <3>1. w = projection' \/ w.epoch < projection'.epoch \/ w.seq < projection'.seq
      BY <1>2
    <3>2. w.epoch \in Nat /\ w.seq \in Nat /\ v.seq \in Nat
      BY <1>3 DEF Server, Views
    <3> QED BY <1>1, <2>2, <3>1, <3>2
  <2> QED BY <2>1, <2>2 DEF Steps, Retained
<1> QED BY <1>3, <1>4

LEMMA RehydrateKeepsTheServer ==
    ASSUME BoundsAssumption, FreshNumbers, Server, Steps, Rehydrate
    PROVE  Server' /\ Steps' /\ Stays
<1>1. /\ projection' = [projection EXCEPT !.seq = projection.seq + 1, !.rows = <<-(spent + 1)>>]
      /\ floorSeq' = projection.seq + 1 /\ log' = <<>> /\ served' = served \cup {projection'}
      /\ hydrating' = TRUE /\ spent' = spent + 1
      /\ UNCHANGED <<timer, paused, serial, events, flushFailed>>
  BY DEF Rehydrate, Disturb
<1>2. /\ projection \in Views /\ projection.seq \in Nat /\ projection.epoch \in Nat
      /\ spent \in Nat /\ serial \in Nat
      /\ {timer, paused, flushFailed} \subseteq BOOLEAN
  BY DEF Server, Views
<1>3. projection' = [epoch |-> projection.epoch, seq |-> projection.seq + 1,
                     rows |-> <<-(spent + 1)>>]
  BY <1>1, <1>2 DEF Views
<1>4. <<-(spent + 1)>> \in Seq(Int) /\ projection.seq + 1 \in Nat /\ spent + 1 \in Nat
  BY <1>2
<1>5. projection' \in Views
  BY <1>2, <1>3, <1>4 DEF Views
<1>6. projection'.seq = projection.seq + 1 /\ projection'.epoch = projection.epoch
  BY <1>3
<1>7. Server' /\ Steps'
  <2>1. {timer', paused', hydrating', flushFailed'} \subseteq BOOLEAN
    BY <1>1, <1>2
  <2> QED BY <1>1, <1>4, <1>5, <1>6, <2>1, RebuiltServer
<1>8. Stays
  <2>1. projection.seq <= projection'.seq /\ projection'.seq > projection.seq
    BY <1>2, <1>6
  <2>2. serial <= serial' /\ serial' \in Nat
    BY <1>1, <1>2
  <2> QED BY <1>1, <1>6, <2>1, <2>2 DEF Stays
<1> QED BY <1>7, <1>8

LEMMA RestartKeepsTheServer ==
    ASSUME BoundsAssumption, Server, Steps, RuntimeRestarted
    PROVE  Server' /\ Steps' /\ projection'.epoch = projection.epoch + 1
<1>1. PICK seq \in 0 .. projection.seq :
         projection' = [projection EXCEPT !.epoch = projection.epoch + 1, !.seq = seq]
         /\ floorSeq' = seq
  BY DEF RuntimeRestarted
<1>2. /\ log' = <<>> /\ served' = served \cup {projection'} /\ spent' = spent + 1
      /\ timer' = FALSE /\ paused' = FALSE /\ hydrating' = FALSE
      /\ UNCHANGED <<serial, events, flushFailed>>
  BY DEF RuntimeRestarted, Disturb
<1>3. /\ projection \in Views /\ projection.seq \in Nat /\ projection.epoch \in Nat
      /\ projection.rows \in Seq(Int) /\ spent \in Nat /\ flushFailed \in BOOLEAN
  BY DEF Server, Views
<1>4. projection' = [epoch |-> projection.epoch + 1, seq |-> seq, rows |-> projection.rows]
  BY <1>1, <1>3 DEF Views
<1>5. seq \in Nat /\ projection.epoch + 1 \in Nat /\ spent + 1 \in Nat
  BY <1>3
<1>6. /\ projection' \in Views /\ projection'.seq = seq
      /\ projection'.epoch = projection.epoch + 1
  BY <1>3, <1>4, <1>5 DEF Views
<1>7. {timer', paused', hydrating', flushFailed'} \subseteq BOOLEAN
  BY <1>2, <1>3
<1> QED BY <1>1, <1>2, <1>5, <1>6, <1>7, RebuiltServer

-----------------------------------------------------------------------------
(* What stays true of a frame and of a reader as the server goes on.       *)

LEMMA SoundStays ==
    ASSUME Server, Server', Stays, NEW f, Sound(f)
    PROVE  Sound(f)'
<1>1. /\ f \in Frames /\ f.sub \in 1 .. serial /\ f.epoch = projection.epoch
      /\ f.fromSeq <= f.toSeq /\ f.toSeq <= projection.seq
      /\ f.sub \in Nat /\ f.fromSeq \in Nat /\ f.toSeq \in Nat /\ f.epoch \in Nat
  BY DEF Sound, Frames
<1>2. /\ projection.seq \in Nat /\ projection'.seq \in Nat /\ projection.seq <= projection'.seq
      /\ serial \in Nat /\ serial' \in Nat /\ serial <= serial'
  BY DEF Server, Views, Stays
<1>3. f.sub \in 1 .. serial' /\ f.toSeq <= projection'.seq
  BY ONLY <1>1, <1>2
<1>4. f.epoch = projection'.epoch
  BY <1>1 DEF Stays
<1>5. f.snapshot => View(f, f.rows) \in served'
  BY DEF Sound, Stays
<1>6. ~f.snapshot => \A v \in served' :
          v.epoch = f.epoch /\ v.seq = f.fromSeq => View(f, v.rows \o f.rows) \in served'
  <2>1. SUFFICES ASSUME ~f.snapshot, NEW v \in served', v.epoch = f.epoch, v.seq = f.fromSeq
                 PROVE  View(f, v.rows \o f.rows) \in served'
    OBVIOUS
  <2>2. v \in served \/ v.seq > projection.seq
    BY <2>1 DEF Stays
  <2>3. ~(v.seq > projection.seq)
    BY ONLY <1>1, <1>2, <2>1
  <2>4. View(f, v.rows \o f.rows) \in served
    BY <2>1, <2>2, <2>3 DEF Sound
  <2> QED BY <2>4 DEF Stays
<1> QED BY <1>1, <1>3, <1>4, <1>5, <1>6 DEF Sound, View

LEMMA ReaderStays ==
    ASSUME Server, Server', Stays, NEW s, Reader(s)
    PROVE  Reader(s)'
<1>1. Typed(s) /\ s.subId \in Nat /\ s.subId <= serial
  BY DEF Reader, Typed
<1>2. serial \in Nat /\ serial' \in Nat /\ serial <= serial'
  BY DEF Server, Stays
<1>3. s.subId <= serial'
  BY ONLY <1>1, <1>2
<1>4. \A m : MarkServed(m) => MarkServed(m)'
  BY DEF MarkServed, Stays
<1>5. served \subseteq served' /\ projection'.epoch = projection.epoch
  BY DEF Stays
<1> QED BY <1>1, <1>3, <1>4, <1>5 DEF Reader

-----------------------------------------------------------------------------
(* The rows after a water mark that the log still reaches are those that   *)
(* lead from it to the projection.                                         *)

LEMMA ConcatAppend ==
    ASSUME NEW S, NEW p \in Seq(S), NEW q \in Seq(S), NEW x \in S
    PROVE  p \o Append(q, x) = Append(p \o q, x)
<1>1. <<x>> \in Seq(S) /\ p \o q \in Seq(S)
  BY ConcatProperties
<1>2. Append(q, x) = q \o <<x>> /\ Append(p \o q, x) = (p \o q) \o <<x>>
  BY <1>1, AppendIsConcat
<1>3. (p \o q) \o <<x>> = p \o (q \o <<x>>)
  BY <1>1, ConcatAssociative
<1> QED BY <1>2, <1>3

LEMMA ReplaySteps ==
    ASSUME Server, NEW seq
    PROVE  \E up :
              /\ up[0] = <<>> /\ Replay(seq) = up[Len(log)]
              /\ \A n \in 1 .. Len(log) :
                    up[n] = IF log[n].seq > seq /\ log[n].row # 0
                            THEN Append(up[n - 1], log[n].row) ELSE up[n - 1]
<1> DEFINE N == Len(log)
           Def(g, M) == g = [n \in 0 .. M |->
                               CASE n = 0 -> <<>>
                                 [] n > 0 /\ log[n].seq > seq /\ log[n].row # 0
                                      -> Append(g[n - 1], log[n].row)
                                 [] OTHER -> g[n - 1]]
           T == {M \in Nat : \E g : Def(g, M)}
<1>0. N \in Nat
  BY LenProperties DEF Server
<1>1. 0 \in T
  <2>1. Def([n \in 0 .. 0 |-> <<>>], 0)
    OBVIOUS
  <2> QED BY <2>1
<1>2. ASSUME NEW M \in 0 .. N - 1, M \in T PROVE M + 1 \in T
  <2>1. PICK g : Def(g, M)
    BY <1>2
  <2> DEFINE last == IF log[M + 1].seq > seq /\ log[M + 1].row # 0
                     THEN Append(g[M], log[M + 1].row) ELSE g[M]
             h == [n \in 0 .. M + 1 |-> IF n = M + 1 THEN last ELSE g[n]]
  <2>2. DOMAIN h = 0 .. M + 1 /\ h = [n \in 0 .. M + 1 |-> h[n]]
    OBVIOUS
  <2>3. ASSUME NEW n \in 0 .. M + 1
        PROVE  h[n] = CASE n = 0 -> <<>>
                        [] n > 0 /\ log[n].seq > seq /\ log[n].row # 0
                             -> Append(h[n - 1], log[n].row)
                        [] OTHER -> h[n - 1]
    <3>1. CASE n = M + 1
      <4>1. h[n] = last /\ h[n - 1] = g[M] /\ n > 0
        BY <1>0, <3>1
      <4> HIDE DEF h
      <4> QED BY <3>1, <4>1
    <3>2. CASE n # M + 1
      <4>1. n \in 0 .. M /\ h[n] = g[n] /\ (n # 0 => h[n - 1] = g[n - 1])
        BY <1>0, <3>2
      <4>2. g[n] = CASE n = 0 -> <<>>
                     [] n > 0 /\ log[n].seq > seq /\ log[n].row # 0
                          -> Append(g[n - 1], log[n].row)
                     [] OTHER -> g[n - 1]
        BY <2>1, <4>1
      <4> HIDE DEF h
      <4> QED BY <4>1, <4>2
    <3> QED BY <3>1, <3>2
  <2>4. Def(h, M + 1)
    <3> HIDE DEF h
    <3> QED BY <2>2, <2>3
  <2>5. M + 1 \in Nat
    BY <1>0
  <2> QED BY <2>4, <2>5
<1>3. N \in T
  <2> HIDE DEF T
  <2>1. 0 .. N \subseteq T
    BY <1>0, <1>1, <1>2, UpwardInduction
  <2> QED BY <1>0, <2>1
<1>4. \E g : Def(g, N)
  BY <1>3
<1> DEFINE up == CHOOSE g : Def(g, N)
<1>5. Def(up, N)
  BY <1>4
<1>6. Replay(seq) = up[N]
  BY DEF Replay
<1> HIDE DEF up
<1>7. up[0] = <<>>
  BY <1>0, <1>5
<1>8. ASSUME NEW n \in 1 .. N
      PROVE  up[n] = IF log[n].seq > seq /\ log[n].row # 0
                     THEN Append(up[n - 1], log[n].row) ELSE up[n - 1]
  <2>1. n \in 0 .. N /\ n > 0 /\ n # 0
    BY <1>0
  <2>2. up[n] = CASE n = 0 -> <<>>
                  [] n > 0 /\ log[n].seq > seq /\ log[n].row # 0
                       -> Append(up[n - 1], log[n].row)
                  [] OTHER -> up[n - 1]
    BY <1>5, <2>1
  <2> QED BY ONLY <2>1, <2>2
<1> QED BY <1>6, <1>7, <1>8

LEMMA ReplayLeadsToTheProjection ==
    ASSUME Server, Steps, NEW v \in served, Retained(v), v.seq <= projection.seq
    PROVE  Replay(v.seq) \in Seq(Int) /\ v.rows \o Replay(v.seq) = projection.rows
<1>1. PICK up :
         /\ up[0] = <<>> /\ Replay(v.seq) = up[Len(log)]
         /\ \A n \in 1 .. Len(log) :
               up[n] = IF log[n].seq > v.seq /\ log[n].row # 0
                       THEN Append(up[n - 1], log[n].row) ELSE up[n - 1]
  BY ReplaySteps
<1>2. /\ projection.seq \in Nat /\ floorSeq \in Nat /\ floorSeq <= projection.seq
      /\ Len(log) = projection.seq - floorSeq /\ Len(log) \in Nat
      /\ projection \in served
  BY DEF Server, Views
<1>3. v.seq \in Nat /\ v.epoch = projection.epoch /\ floorSeq <= v.seq /\ v.rows \in Seq(Int)
  BY DEF Server, Views, Retained
<1>4. ASSUME NEW n \in 1 .. Len(log)
      PROVE  log[n].seq = floorSeq + n /\ log[n].row \in Int
  <2>1. log \in Seq([seq : Nat, row : Int]) /\ DOMAIN log = 1 .. Len(log)
    BY LenProperties DEF Server
  <2>2. log[n] \in [seq : Nat, row : Int]
    BY <2>1, ElementOfSeq
  <2>3. log[n].seq = floorSeq + n
    BY <2>1 DEF Server
  <2> QED BY <2>2, <2>3
<1> DEFINE Reaches(n) ==
      /\ up[n] \in Seq(Int)
      /\ floorSeq + n <= v.seq => up[n] = <<>>
      /\ v.seq <= floorSeq + n =>
            \A w \in served : w.epoch = v.epoch /\ w.seq = floorSeq + n => w.rows = v.rows \o up[n]
           T == {n \in 0 .. Len(log) : Reaches(n)}
<1>5. ASSUME NEW n \in 0 .. Len(log), up[n] = <<>>, floorSeq + n <= v.seq
      PROVE  Reaches(n)
  <2>1. <<>> \in Seq(Int) /\ v.rows \o <<>> = v.rows
    BY <1>3, EmptySeq, ConcatEmptySeq
  <2>2. ASSUME v.seq <= floorSeq + n, NEW w \in served, w.epoch = v.epoch, w.seq = floorSeq + n
        PROVE  w.rows = v.rows \o up[n]
    <3>1. w.seq = v.seq
      BY ONLY <1>2, <1>3, <1>5, <2>2
    <3>2. w = v
      BY <2>2, <3>1 DEF Server
    <3> QED BY <1>5, <2>1, <3>2
  <2> QED BY <1>5, <2>1, <2>2
<1>6. 0 \in T
  <2>1. 0 \in 0 .. Len(log) /\ floorSeq + 0 <= v.seq
    BY <1>2, <1>3
  <2>2. Reaches(0)
    BY <1>1, <1>5, <2>1
  <2> QED BY <2>1, <2>2
<1>7. ASSUME NEW n \in 0 .. Len(log) - 1, n \in T PROVE n + 1 \in T
  <2>1. /\ n \in 0 .. Len(log) /\ n \in Nat /\ n + 1 \in 1 .. Len(log) /\ n + 1 \in 0 .. Len(log)
        /\ (n + 1) - 1 = n
    BY <1>2
  <2>2. Reaches(n)
    BY <1>7
  <2>3. /\ log[n + 1].seq = floorSeq + (n + 1) /\ log[n + 1].row \in Int
    BY <1>4, <2>1
  <2>4. up[n + 1] = IF log[n + 1].seq > v.seq /\ log[n + 1].row # 0
                    THEN Append(up[n], log[n + 1].row) ELSE up[n]
    BY <1>1, <2>1
  <2>5. CASE floorSeq + (n + 1) <= v.seq
    <3>1. ~(log[n + 1].seq > v.seq) /\ floorSeq + n <= v.seq
      BY ONLY <1>2, <1>3, <2>1, <2>3, <2>5
    <3>2. up[n + 1] = <<>>
      BY ONLY <2>2, <2>4, <3>1
    <3>3. Reaches(n + 1)
      BY <1>5, <2>1, <2>5, <3>2
    <3> QED BY <2>1, <3>3
  <2>6. CASE ~(floorSeq + (n + 1) <= v.seq)
    <3>1. v.seq <= floorSeq + n /\ log[n + 1].seq > v.seq
      BY ONLY <1>2, <1>3, <2>1, <2>3, <2>6
    <3>2. PICK u \in served : u.epoch = v.epoch /\ u.seq = floorSeq + n
      <4>1. floorSeq + n \in floorSeq .. projection.seq
        BY ONLY <1>2, <2>1
      <4> QED BY <1>3, <4>1 DEF Steps
    <3>3. u.rows = v.rows \o up[n] /\ up[n] \in Seq(Int)
      BY <2>2, <3>1, <3>2
    <3>4. up[n + 1] = IF log[n + 1].row # 0 THEN Append(up[n], log[n + 1].row) ELSE up[n]
      BY <2>4, <3>1
    <3>5. up[n + 1] \in Seq(Int)
      <4>1. Append(up[n], log[n + 1].row) \in Seq(Int)
        BY <2>3, <3>3, AppendProperties
      <4> QED BY ONLY <3>3, <3>4, <4>1
    <3>6. ASSUME NEW w \in served, w.epoch = v.epoch, w.seq = floorSeq + (n + 1)
          PROVE  w.rows = v.rows \o up[n + 1]
      <4>1. /\ w.epoch = u.epoch /\ w.seq = u.seq + 1 /\ Retained(u)
            /\ w.seq - floorSeq = n + 1
        <5>1. u.epoch = projection.epoch /\ floorSeq <= u.seq
          BY ONLY <1>2, <1>3, <2>1, <3>2
        <5>2. w.seq = u.seq + 1 /\ w.seq - floorSeq = n + 1
          BY ONLY <1>2, <2>1, <3>2, <3>6
        <5> QED BY <3>2, <3>6, <5>1, <5>2 DEF Retained
      <4>2. w.rows = IF log[n + 1].row = 0 THEN u.rows ELSE Append(u.rows, log[n + 1].row)
        BY <3>2, <3>6, <4>1 DEF Steps
      <4>3. v.rows \o Append(up[n], log[n + 1].row) = Append(v.rows \o up[n], log[n + 1].row)
        <5>1. v.rows \in Seq(Int) /\ up[n] \in Seq(Int) /\ log[n + 1].row \in Int
          BY ONLY <1>3, <2>3, <3>3
        <5>2. \A p, q \in Seq(Int) : \A x \in Int : p \o Append(q, x) = Append(p \o q, x)
          BY ONLY ConcatAppend
        <5> QED BY ONLY <5>1, <5>2
      <4> QED BY ONLY <3>3, <3>4, <4>2, <4>3
    <3>7. Reaches(n + 1)
      BY <2>6, <3>5, <3>6
    <3> QED BY <2>1, <3>7
  <2> QED BY <2>5, <2>6
<1>8. Len(log) \in T
  <2> HIDE DEF T
  <2>1. 0 .. Len(log) \subseteq T
    BY <1>2, <1>6, <1>7, UpwardInduction
  <2> QED BY <1>2, <2>1
<1>9. floorSeq + Len(log) = projection.seq
  BY ONLY <1>2
<1>10. projection.rows = v.rows \o up[Len(log)]
  <2>1. v.seq <= floorSeq + Len(log)
    BY <1>9
  <2> QED BY <1>2, <1>3, <1>8, <1>9, <2>1
<1> QED BY <1>1, <1>8, <1>10

-----------------------------------------------------------------------------
(* The frames the server makes.  A frame is current when it leads to the   *)
(* projection as it is.                                                    *)

Current(f, id) ==
    /\ f \in Frames /\ f.sub = id /\ f.epoch = projection.epoch
    /\ f.fromSeq <= f.toSeq /\ f.toSeq = projection.seq
    /\ f.snapshot => View(f, f.rows) \in served
    /\ ~f.snapshot => \A v \in served :
          v.epoch = f.epoch /\ v.seq = f.fromSeq => View(f, v.rows \o f.rows) \in served

FrameKinds == {"initial", "online", "recovery"}

LEMMA CurrentIsSound ==
    ASSUME Server, NEW f, NEW id \in 1 .. serial, Current(f, id)
    PROVE  Sound(f)
BY DEF Current, Sound, Server, Views

LEMMA SnapshotIsCurrent ==
    ASSUME Server, NEW id \in Nat, NEW kind \in FrameKinds
    PROVE  /\ Current(SnapshotFrame(id, kind), id)
           /\ SnapshotFrame(id, kind).snapshot /\ SnapshotFrame(id, kind).kind = kind
<1> DEFINE f == SnapshotFrame(id, kind)
<1>1. /\ projection = [epoch |-> projection.epoch, seq |-> projection.seq,
                       rows |-> projection.rows]
      /\ projection.epoch \in Nat /\ projection.seq \in Nat /\ projection.rows \in Seq(Int)
      /\ projection \in served
  BY DEF Server, Views
<1>2. /\ f.sub = id /\ f.kind = kind /\ f.snapshot = TRUE /\ f.fromSeq = 0
      /\ f.toSeq = projection.seq /\ f.epoch = projection.epoch /\ f.rows = projection.rows
  BY DEF SnapshotFrame
<1>3. f \in Frames
  BY <1>1 DEF SnapshotFrame, Frames, FrameKinds
<1> HIDE DEF f
<1>4. View(f, f.rows) \in served
  BY <1>1, <1>2 DEF View
<1>5. f.fromSeq <= f.toSeq
  BY <1>1, <1>2
<1> QED BY <1>2, <1>3, <1>4, <1>5 DEF Current, f

LEMMA DeltaIsCurrent ==
    ASSUME Server, NEW id \in Nat, NEW kind \in FrameKinds, NEW rows \in Seq(Int),
           NEW v \in served, v.epoch = projection.epoch, v.seq <= projection.seq,
           v.rows \o rows = projection.rows
    PROVE  /\ Current(DeltaFrame(id, kind, v.seq, rows), id)
           /\ ~DeltaFrame(id, kind, v.seq, rows).snapshot
           /\ DeltaFrame(id, kind, v.seq, rows).kind = kind
<1> DEFINE f == DeltaFrame(id, kind, v.seq, rows)
<1>1. /\ projection = [epoch |-> projection.epoch, seq |-> projection.seq,
                       rows |-> projection.rows]
      /\ projection.epoch \in Nat /\ projection.seq \in Nat /\ v.seq \in Nat
      /\ projection \in served
  BY DEF Server, Views
<1>2. /\ f.sub = id /\ f.kind = kind /\ f.snapshot = FALSE /\ f.fromSeq = v.seq
      /\ f.toSeq = projection.seq /\ f.epoch = projection.epoch /\ f.rows = rows
  BY DEF DeltaFrame
<1>3. f \in Frames
  BY <1>1 DEF DeltaFrame, Frames, FrameKinds
<1> HIDE DEF f
<1>4. ASSUME NEW w \in served, w.epoch = f.epoch, w.seq = f.fromSeq
      PROVE  View(f, w.rows \o f.rows) \in served
  <2>1. w = v
    BY <1>2, <1>4 DEF Server
  <2> QED BY <1>1, <1>2, <2>1 DEF View
<1> QED BY <1>2, <1>3, <1>4 DEF Current, f

\* What a flush of the subscription sends.
LEMMA FlushFrameIsSound ==
    ASSUME Server, Subscription, OwedIsKept, sub # None, NEW f, f = FlushFrame, f # None
    PROVE  /\ Sound(f) /\ f.sub = sub.id
           /\ \/ f = sub.inFlight
              \/ /\ sub.inFlight = None /\ f.toSeq = projection.seq
                 /\ f.snapshot <=> sub.resyncRequired
<1>1. /\ sub \in Subs /\ sub.id \in 1 .. serial /\ sub.sentSeq <= projection.seq
      /\ sub.inFlight # None => Sound(sub.inFlight) /\ sub.inFlight.sub = sub.id
      /\ sub.id \in Nat /\ sub.buffer \in Seq(Int) /\ sub.resyncRequired \in BOOLEAN
  BY DEF Subscription, Subs
<1>2. CASE sub.inFlight # None
  <2>1. f = sub.inFlight
    BY <1>2 DEF FlushFrame
  <2> QED BY <1>1, <1>2, <2>1
<1>3. CASE sub.inFlight = None /\ sub.resyncRequired
  <2>1. f = SnapshotFrame(sub.id, "online")
    BY <1>3 DEF FlushFrame
  <2>2. Current(f, sub.id) /\ f.snapshot
    BY <1>1, <2>1, SnapshotIsCurrent DEF FrameKinds
  <2>3. Sound(f)
    BY <1>1, <2>2, CurrentIsSound
  <2> QED BY <1>3, <2>2, <2>3 DEF Current
<1>4. CASE sub.inFlight = None /\ ~sub.resyncRequired
  <2>1. f = DeltaFrame(sub.id, "online", sub.sentSeq, sub.buffer)
    BY <1>4 DEF FlushFrame
  <2>2. PICK v \in served : /\ v.epoch = projection.epoch /\ v.seq = sub.sentSeq
                            /\ v.rows \o sub.buffer = projection.rows
    BY <1>4 DEF OwedIsKept
  <2>3. Current(f, sub.id) /\ ~f.snapshot
    <3>1. v.seq <= projection.seq /\ "online" \in FrameKinds
      BY <1>1, <2>2 DEF FrameKinds
    <3>2. LET g == DeltaFrame(sub.id, "online", v.seq, sub.buffer)
          IN  Current(g, sub.id) /\ ~g.snapshot
      BY <1>1, <2>2, <3>1, DeltaIsCurrent
    <3> QED BY <2>1, <2>2, <3>2
  <2>4. Sound(f)
    BY <1>1, <2>3, CurrentIsSound
  <2> QED BY <1>4, <2>3, <2>4 DEF Current
<1> QED BY <1>2, <1>3, <1>4

LEMMA ReservedSub ==
    ASSUME NEW f \in Frames, sub \in Subs
    PROVE  /\ Reserved(f) \in Subs
           /\ Reserved(f).id = sub.id /\ Reserved(f).resyncRequired = sub.resyncRequired
           /\ Reserved(f).sentSeq = sub.sentSeq /\ Reserved(f).inFlight = f
           /\ Reserved(f).buffer = IF sub.inFlight = None THEN <<>> ELSE sub.buffer
<1> DEFINE b == IF sub.inFlight = None THEN <<>> ELSE sub.buffer
<1>1. b \in Seq(Int)
  BY EmptySeq DEF Subs
<1>2. Reserved(f) = [sub EXCEPT !.buffer = b, !.inFlight = f]
  BY DEF Subs, Reserved
<1>3. sub \in Subs
  OBVIOUS
<1> DEFINE t == [sub EXCEPT !.buffer = b, !.inFlight = f]
<1> HIDE DEF b
<1>4. /\ t \in Subs /\ t.id = sub.id /\ t.resyncRequired = sub.resyncRequired
      /\ t.sentSeq = sub.sentSeq /\ t.inFlight = f /\ t.buffer = b
  BY <1>1, <1>3 DEF Subs
<1>5. Reserved(f) = t
  BY <1>2
<1> HIDE DEF t
<1> QED BY <1>4, <1>5 DEF b

LEMMA CommittedSub ==
    ASSUME Server, NEW s \in Subs, NEW f \in Frames, s.inFlight = f, s.id = f.sub
    PROVE  /\ Committed(s, f) \in Subs
           /\ Committed(s, f).id = s.id /\ Committed(s, f).buffer = s.buffer
           /\ Committed(s, f).sentSeq = f.toSeq /\ Committed(s, f).inFlight = None
           /\ Committed(s, f).resyncRequired = IF f.snapshot /\ f.kind = "online"
                                               THEN projection.seq > f.toSeq
                                               ELSE s.resyncRequired
<1>1. Holds(s, f)
  BY NoneAssumption, NobodyAssumption DEF Holds
<1>2. Committed(s, f) =
         [id |-> s.id, buffer |-> s.buffer,
          resyncRequired |-> IF f.snapshot /\ f.kind = "online" THEN projection.seq > f.toSeq
                             ELSE s.resyncRequired,
          sentSeq |-> f.toSeq, inFlight |-> None]
  BY <1>1 DEF Committed, Subs
<1>3. f.toSeq \in Nat /\ (projection.seq > f.toSeq) \in BOOLEAN
  BY DEF Frames
<1> DEFINE r == IF f.snapshot /\ f.kind = "online" THEN projection.seq > f.toSeq
                ELSE s.resyncRequired
<1>4. r \in BOOLEAN
  BY <1>3 DEF Subs
<1> HIDE DEF r
<1>5. [id |-> s.id, buffer |-> s.buffer, resyncRequired |-> r,
       sentSeq |-> f.toSeq, inFlight |-> None] \in Subs
  BY <1>3, <1>4 DEF Subs
<1>6. Committed(s, f) = [id |-> s.id, buffer |-> s.buffer, resyncRequired |-> r,
                         sentSeq |-> f.toSeq, inFlight |-> None]
  BY <1>2 DEF r
<1> QED BY <1>5, <1>6 DEF r

-----------------------------------------------------------------------------
(* A frame is foremost when all that is on its way comes before it and the *)
(* reader is not past it.                                                  *)

Foremost(f) ==
    /\ UpTo(f)
    /\ \A i \in DOMAIN wire : Before(wire[i], f)
    /\ \A i \in DOMAIN store.connects : \A j \in DOMAIN Staged(i) : Before(Staged(i)[j], f)

LEMMA InFlightIsForemost ==
    ASSUME IInv, sub # None, sub.inFlight # None
    PROVE  Foremost(sub.inFlight)
<1>1. \A g : Sent(g) => Before(g, sub.inFlight)
  BY DEF IInv, Subscription, Sent, Before
<1>2. UpTo(sub.inFlight)
  BY DEF IInv, Ahead
<1>3. \A i \in DOMAIN wire : Sent(wire[i])
  BY DEF IInv, Wire
<1>4. \A i \in DOMAIN store.connects : \A j \in DOMAIN Staged(i) : Sent(Staged(i)[j])
  BY DEF IInv, Ahead
<1> QED BY <1>1, <1>2, <1>3, <1>4 DEF Foremost

LEMMA NewestIsForemost ==
    ASSUME IInv, NEW f, f.toSeq = projection.seq, \A g : Sent(g) => g.sub <= f.sub
    PROVE  Foremost(f)
<1>1. \A g : Sent(g) => Before(g, f)
  BY DEF Sent, Sound, Before
<1>2. UpTo(f)
  <2>1. ASSUME store.view # None, store.view.epoch = projection.epoch
        PROVE  store.view.seq <= projection.seq
    <3>1. store.view \in served
      BY <2>1 DEF IInv, Reader
    <3>2. \/ store.view.epoch < projection.epoch
          \/ store.view.seq <= projection.seq
      BY <3>1 DEF IInv, Server
    <3>3. store.view.epoch \in Nat
      BY <3>1 DEF IInv, Server, Views
    <3> QED BY <2>1, <3>2, <3>3
  <2> QED BY <2>1 DEF UpTo
<1>3. \A i \in DOMAIN wire : Sent(wire[i])
  BY DEF IInv, Wire
<1>4. \A i \in DOMAIN store.connects : \A j \in DOMAIN Staged(i) : Sent(Staged(i)[j])
  BY DEF IInv, Ahead
<1> QED BY <1>1, <1>2, <1>3, <1>4 DEF Foremost

\* The reader as far as frames and answers concern it.
SameReader ==
    /\ store'.view = store.view /\ store'.subId = store.subId
    /\ store'.connects = store.connects

LEMMA SentIsRanked ==
    ASSUME Server, NEW f, Sent(f)
    PROVE  /\ Sound(f) /\ f \in Frames /\ f.sub \in Nat /\ f.toSeq \in Nat /\ f.sub <= serial
           /\ serial \in Nat
BY DEF Server, Sent, Sound, Frames

\* Nothing is written, and what is in flight now is foremost.
LEMMA WireKept ==
    ASSUME IInv, Server', Stays, SameReader, UNCHANGED wire,
           sub' # None =>
              /\ \A g : Sent(g) => g.sub <= sub'.id
              /\ sub'.inFlight # None => Foremost(sub'.inFlight)
    PROVE  Wire' /\ Ahead'
<1>1. Server /\ Wire /\ Ahead
  BY DEF IInv
<1>2. ASSUME NEW g, Sent(g),
             sub' # None /\ sub'.inFlight # None => g.toSeq <= sub'.inFlight.toSeq
      PROVE  Sent(g)'
  <2>1. Sound(g)'
    BY <1>1, <1>2, SoundStays DEF Sent
  <2> QED BY <1>2, <2>1 DEF Sent
<1>3. \A i \in DOMAIN wire : Sent(wire[i])'
  <2>1. ASSUME NEW i \in DOMAIN wire PROVE Sent(wire[i])'
    <3>1. PICK g : g = wire[i]
      OBVIOUS
    <3>2. Sent(g) /\ (sub' # None /\ sub'.inFlight # None => g.toSeq <= sub'.inFlight.toSeq)
      BY <1>1, <3>1 DEF Wire, Foremost, Before
    <3>3. Sent(g)'
      BY <1>2, <3>2
    <3>4. wire'[i] = g
      BY <3>1
    <3> QED BY <3>3, <3>4
  <2> QED BY <2>1
<1>4. Wire'
  BY <1>1, <1>3 DEF Wire, Before
<1>5. ASSUME NEW i \in DOMAIN store.connects, NEW j \in DOMAIN Staged(i), NEW g,
             g = Staged(i)[j]
      PROVE  Sent(g)'
  <2>1. Sent(g)
    BY <1>1, <1>5 DEF Ahead
  <2>2. sub' # None /\ sub'.inFlight # None => g.toSeq <= sub'.inFlight.toSeq
    BY <1>5 DEF Foremost, Before
  <2> QED BY <1>2, <2>1, <2>2
<1>6. ASSUME NEW g, UpTo(g) PROVE UpTo(g)'
  BY <1>6 DEF UpTo, SameReader, Stays
<1>7. sub' # None /\ sub'.inFlight # None => UpTo(sub.inFlight)'
  <2>1. SUFFICES ASSUME sub' # None, sub'.inFlight # None PROVE UpTo(sub.inFlight)'
    OBVIOUS
  <2>2. PICK g : g = sub'.inFlight
    OBVIOUS
  <2>3. UpTo(g)'
    BY <1>6, <2>1, <2>2 DEF Foremost
  <2> QED BY <2>2, <2>3 DEF UpTo
<1>8. Ahead'
  <2>1. \A k \in DOMAIN wire' : UpTo(wire[k])'
    <3>1. ASSUME NEW k \in DOMAIN wire PROVE UpTo(wire[k])'
      <4>1. PICK g : g = wire[k]
        OBVIOUS
      <4>2. UpTo(g)'
        BY <1>1, <1>6, <4>1 DEF Ahead
      <4> QED BY <4>1, <4>2 DEF UpTo
    <3> QED BY <3>1
  <2>2. /\ \A i : Staged(i)' = Staged(i)
        /\ store'.connects = store.connects /\ store'.subId = store.subId
    BY DEF SameReader, Staged
  <2>3. ASSUME NEW i \in DOMAIN store'.connects, NEW j \in DOMAIN (Staged(i)')
        PROVE  /\ Sent(Staged(i)[j])'
               /\ (Staged(i)[j].sub > store.subId => UpTo(Staged(i)[j]))'
               /\ (\A k \in DOMAIN wire : Before(Staged(i)[j], wire[k]))'
               /\ (\A h \in DOMAIN store.connects : \A k \in DOMAIN Staged(h) :
                     Staged(i)[j].sub < Staged(h)[k].sub => Staged(i)[j].toSeq <= Staged(h)[k].toSeq)'
    <3>1. i \in DOMAIN store.connects /\ j \in DOMAIN Staged(i)
      BY <2>2
    <3>2. PICK g : g = Staged(i)[j] /\ g = Staged(i)'[j]
      BY <2>2
    <3>3. Sent(g)'
      BY <1>5, <3>1, <3>2
    <3>4. g.sub > store.subId => UpTo(g)'
      BY <1>1, <1>6, <3>1, <3>2 DEF Ahead
    <3>5. \A k \in DOMAIN wire : Before(g, wire[k])
      BY <1>1, <3>1, <3>2 DEF Ahead
    <3>6. \A h \in DOMAIN store.connects : \A k \in DOMAIN Staged(h) :
             g.sub < Staged(h)[k].sub => g.toSeq <= Staged(h)[k].toSeq
      BY <1>1, <3>1, <3>2 DEF Ahead
    <3> QED BY <2>2, <3>2, <3>3, <3>4, <3>5, <3>6 DEF Before, UpTo
  <2> QED BY <1>7, <2>1, <2>3 DEF Ahead
<1> QED BY <1>4, <1>8

\* A foremost frame is written, and nothing is in flight any more.
LEMMA WireExtended ==
    ASSUME IInv, Server', Stays, SameReader, NEW f, Sound(f), Foremost(f),
           wire' = Append(wire, f), sub' # None, sub'.inFlight = None,
           f.sub <= sub'.id, \A g : Sent(g) => g.sub <= sub'.id
    PROVE  Wire' /\ Ahead'
<1>1. Server /\ Wire /\ Ahead /\ wire \in Seq(Frames) /\ f \in Frames
  BY DEF IInv, Wire, Sound
<1>2. ASSUME NEW g, Sent(g) PROVE Sent(g)'
  <2>1. Sound(g)'
    BY <1>1, <1>2, SoundStays DEF Sent
  <2> QED BY <1>2, <2>1 DEF Sent
<1>3. Sent(f)'
  <2>1. Sound(f)'
    BY <1>1, SoundStays
  <2> QED BY <2>1 DEF Sent
<1>4. /\ wire' \in Seq(Frames) /\ DOMAIN wire = 1 .. Len(wire) /\ Len(wire) \in Nat
      /\ DOMAIN wire' = 1 .. (Len(wire) + 1)
      /\ \A k \in 1 .. Len(wire) : wire'[k] = wire[k]
      /\ wire'[Len(wire) + 1] = f
  BY <1>1, AppendProperties, LenProperties
<1>5. ASSUME NEW k \in DOMAIN wire'
      PROVE  \/ k \in DOMAIN wire /\ wire'[k] = wire[k]
             \/ k = Len(wire) + 1 /\ wire'[k] = f
  BY <1>4
<1>6. ASSUME NEW k \in DOMAIN wire', NEW g, g = wire'[k] PROVE Sent(g)'
  <2>1. Sent(g) \/ g = f
    BY <1>1, <1>5, <1>6 DEF Wire
  <2> QED BY <1>2, <1>3, <2>1
<1>7. ASSUME NEW i \in DOMAIN wire', NEW j \in DOMAIN wire', i < j
      PROVE  Before(wire'[i], wire'[j])
  <2>1. i \in DOMAIN wire /\ wire'[i] = wire[i]
    BY <1>4, <1>5, <1>7
  <2>2. CASE j \in DOMAIN wire /\ wire'[j] = wire[j]
    BY <1>1, <1>7, <2>1, <2>2 DEF Wire
  <2>3. CASE wire'[j] = f
    BY <2>1, <2>3 DEF Foremost
  <2> QED BY <1>5, <2>2, <2>3
<1>8. Wire'
  BY <1>4, <1>6, <1>7 DEF Wire, Before
<1>9. ASSUME NEW g, UpTo(g) PROVE UpTo(g)'
  BY <1>9 DEF UpTo, SameReader, Stays
<1>10. Ahead'
  <2>1. ASSUME NEW k \in DOMAIN wire' PROVE UpTo(wire[k])'
    <3>1. PICK g : g = wire'[k]
      OBVIOUS
    <3>2. UpTo(g)
      BY <1>1, <1>5, <3>1 DEF Ahead, Foremost
    <3>3. UpTo(g)'
      BY <1>9, <3>2
    <3> QED BY <3>1, <3>3 DEF UpTo
  <2>2. /\ \A i : Staged(i)' = Staged(i)
        /\ store'.connects = store.connects /\ store'.subId = store.subId
    BY DEF SameReader, Staged
  <2>3. ASSUME NEW i \in DOMAIN store'.connects, NEW j \in DOMAIN (Staged(i)')
        PROVE  /\ Sent(Staged(i)[j])'
               /\ (Staged(i)[j].sub > store.subId => UpTo(Staged(i)[j]))'
               /\ (\A k \in DOMAIN wire : Before(Staged(i)[j], wire[k]))'
               /\ (\A h \in DOMAIN store.connects : \A k \in DOMAIN Staged(h) :
                     Staged(i)[j].sub < Staged(h)[k].sub => Staged(i)[j].toSeq <= Staged(h)[k].toSeq)'
    <3>1. i \in DOMAIN store.connects /\ j \in DOMAIN Staged(i)
      BY <2>2
    <3>2. PICK g : g = Staged(i)[j] /\ g = Staged(i)'[j]
      BY <2>2
    <3>3. Sent(g)'
      BY <1>1, <1>2, <3>1, <3>2 DEF Ahead
    <3>4. g.sub > store.subId => UpTo(g)'
      BY <1>1, <1>9, <3>1, <3>2 DEF Ahead
    <3>5. \A k \in DOMAIN wire' : Before(g, wire'[k])
      BY <1>1, <1>5, <3>1, <3>2 DEF Ahead, Foremost
    <3>6. \A h \in DOMAIN store.connects : \A k \in DOMAIN Staged(h) :
             g.sub < Staged(h)[k].sub => g.toSeq <= Staged(h)[k].toSeq
      BY <1>1, <3>1, <3>2 DEF Ahead
    <3> QED BY <2>2, <3>2, <3>3, <3>4, <3>5, <3>6 DEF Before, UpTo
  <2> QED BY <2>1, <2>3 DEF Ahead
<1> QED BY <1>8, <1>10

-----------------------------------------------------------------------------
(* The subscription and what it is owed, as the server goes on.            *)

LEMMA SubscriptionKept ==
    ASSUME IInv, Server', Stays, UNCHANGED <<projection, sub, outbox>>
    PROVE  Subscription' /\ OwedIsKept'
<1>1. Server /\ Subscription /\ OwedIsKept
  BY DEF IInv
<1>2. sub # None => sub.id \in 1 .. serial'
  BY <1>1 DEF Subscription, Server, Stays
<1>3. sub # None /\ sub.inFlight # None => Sound(sub.inFlight)'
  <2>1. ASSUME NEW f, f = sub.inFlight, sub # None, sub.inFlight # None
        PROVE  Sound(f)'
    BY <1>1, <2>1, SoundStays DEF Subscription
  <2> QED BY <2>1 DEF Sound
<1>4. Subscription'
  BY <1>1, <1>2, <1>3 DEF Subscription
<1>5. OwedIsKept'
  BY <1>1 DEF OwedIsKept, Stays
<1> QED BY <1>4, <1>5

\* What a flush does to the subscription and to the wire.
LEMMA FlushedSubscription ==
    ASSUME BoundsAssumption, IInv, Server', Stays, SameReader,
           UNCHANGED <<projection, served, outbox>>,
           sub # None, Flushed
    PROVE  Subscription' /\ OwedIsKept' /\ Wire' /\ Ahead'
<1>1. /\ Server /\ Subscription /\ OwedIsKept /\ sub \in Subs
      /\ \A g : Sent(g) => g.sub <= sub.id
  BY DEF IInv, Subscription, Sent
<1>2. CASE FlushFrame = None \/ Suppressed(FlushFrame)
  <2>1. UNCHANGED <<sub, wire>>
    BY <1>2 DEF Flushed
  <2>2. sub.inFlight # None => Foremost(sub.inFlight)
    BY <1>1, InFlightIsForemost
  <2>3. Wire' /\ Ahead'
    BY <1>1, <2>1, <2>2, WireKept
  <2> QED BY <2>1, <2>3, SubscriptionKept
<1>3. CASE ~(FlushFrame = None \/ Suppressed(FlushFrame))
  <2>1. PICK f : f = FlushFrame
    OBVIOUS
  <2> DEFINE r == Reserved(f)
             c == Committed(r, f)
  <2>2. /\ Sound(f) /\ f.sub = sub.id /\ f \in Frames /\ f # None
        /\ \/ f = sub.inFlight
           \/ /\ sub.inFlight = None /\ f.toSeq = projection.seq
              /\ f.snapshot <=> sub.resyncRequired
    BY <1>1, <1>3, <2>1, FlushFrameIsSound DEF Sound
  <2>3. Foremost(f)
    <3>1. CASE f = sub.inFlight
      BY <1>1, <2>2, <3>1, InFlightIsForemost
    <3>2. CASE sub.inFlight = None /\ f.toSeq = projection.seq
      BY <1>1, <2>2, <3>2, NewestIsForemost
    <3> QED BY <2>2, <3>1, <3>2
  <2>4. /\ r \in Subs /\ r.id = sub.id /\ r.resyncRequired = sub.resyncRequired
        /\ r.sentSeq = sub.sentSeq /\ r.inFlight = f
        /\ r.buffer = IF sub.inFlight = None THEN <<>> ELSE sub.buffer
    BY <1>1, <2>2, ReservedSub
  <2> HIDE DEF r
  <2>5. /\ c \in Subs /\ c.id = sub.id /\ c.buffer = r.buffer
        /\ c.sentSeq = f.toSeq /\ c.inFlight = None
        /\ c.resyncRequired = IF f.snapshot /\ f.kind = "online"
                              THEN projection.seq > f.toSeq ELSE r.resyncRequired
    BY <1>1, <2>2, <2>4, CommittedSub
  <2> HIDE DEF c
  <2>6. \/ sub' = c /\ wire' = Append(wire, f)
        \/ sub' = r /\ wire' = wire
    BY <1>3, <2>1 DEF Flushed, r, c
  <2>7. /\ outbox # None /\ outbox.frame # None => FALSE
    BY <1>1, <1>3, <2>1, <2>2 DEF Subscription, Suppressed, FlushFrame
  <2>8. /\ projection.seq \in Nat /\ f.toSeq \in Nat /\ f.toSeq <= projection.seq
        /\ sub.sentSeq <= projection.seq /\ Len(sub.buffer) <= BufferMax
        /\ sub.id \in 1 .. serial
        /\ sub.resyncRequired => sub.buffer = <<>>
    BY <1>1, <2>2 DEF Server, Views, Frames, Sound, Subscription
  <2>9. /\ r.buffer \in Seq(Int) /\ Len(r.buffer) <= BufferMax
        /\ sub.resyncRequired => r.buffer = <<>>
        /\ f = sub.inFlight \/ r.buffer = <<>>
    <3>1. Len(<<>>) <= BufferMax
      BY EmptySeq DEF BoundsAssumption
    <3>2. r.buffer \in Seq(Int)
      BY <2>4 DEF Subs
    <3>3. f # sub.inFlight => sub.inFlight = None
      BY <2>2
    <3> QED BY <2>4, <2>8, <3>1, <3>2, <3>3
  <2>10. f.snapshot /\ f.kind = "online" => sub.resyncRequired
    <3>1. sub.inFlight # None /\ sub.inFlight.snapshot /\ sub.inFlight.kind = "online"
             => sub.resyncRequired
      BY <1>1 DEF Subscription
    <3> QED BY <2>2, <3>1
  <2>11. ASSUME f.toSeq = projection.seq, r.buffer = <<>>
         PROVE  \E v \in served : /\ v.epoch = projection.epoch /\ v.seq = f.toSeq
                                 /\ v.rows \o r.buffer = projection.rows
    <3>1. projection \in served /\ projection.rows \in Seq(Int)
      BY <1>1 DEF Server, Views
    <3>2. projection.rows \o <<>> = projection.rows
      BY <3>1, ConcatEmptySeq
    <3> QED BY <2>11, <3>1, <3>2
  <2>12. ASSUME ~sub.resyncRequired
         PROVE  \E v \in served : /\ v.epoch = projection.epoch /\ v.seq = f.toSeq
                                 /\ v.rows \o r.buffer = projection.rows
    <3>1. CASE f = sub.inFlight
      <4>1. sub.inFlight # None /\ r.buffer = sub.buffer
        BY <2>2, <2>4, <3>1
      <4> QED BY <1>1, <2>12, <3>1, <4>1 DEF OwedIsKept
    <3>2. CASE f # sub.inFlight
      BY <2>2, <2>9, <2>11, <3>2
    <3> QED BY <3>1, <3>2
  <2>13. None \notin Subs /\ sub.id \in 1 .. serial'
    BY <1>1, <2>8, NobodyAssumption DEF Server, Stays
  <2>14. \A g : Sent(g) => g.sub <= sub.id
    BY <1>1
  <2>15. CASE sub' = c /\ wire' = Append(wire, f)
    <3>1. sub' \in Subs /\ sub' # None /\ sub'.inFlight = None /\ sub'.id = sub.id
      BY <2>5, <2>13, <2>15
    <3>2. Wire' /\ Ahead'
      <4>1. f.sub <= sub'.id
        BY <1>1, <2>2, <3>1, SentIsRanked DEF Subs
      <4> QED BY <2>2, <2>3, <2>14, <2>15, <3>1, <4>1, WireExtended
    <3>3. c.resyncRequired => c.buffer = <<>>
      BY <2>4, <2>5, <2>9, <2>10
    <3>4. Subscription'
      <4>1. sub'.sentSeq <= projection'.seq /\ Len(sub'.buffer) <= BufferMax
        BY <2>5, <2>8, <2>9, <2>15
      <4>2. outbox' # None /\ outbox'.frame # None => FALSE
        BY <2>7
      <4> QED BY <1>1, <2>13, <2>15, <3>1, <3>3, <4>1, <4>2 DEF Subscription
    <3>5. OwedIsKept'
      <4>1. SUFFICES ASSUME ~c.resyncRequired
                     PROVE  \E v \in served : /\ v.epoch = projection.epoch /\ v.seq = f.toSeq
                                             /\ v.rows \o r.buffer = projection.rows
        BY <2>5, <2>15, <3>1 DEF OwedIsKept
      <4>2. CASE f.snapshot /\ f.kind = "online"
        <5>1. ~(projection.seq > f.toSeq)
          BY <2>5, <4>1, <4>2
        <5>2. f.toSeq = projection.seq
          BY ONLY <2>8, <5>1
        <5> QED BY <2>9, <2>10, <2>11, <4>2, <5>2
      <4>3. CASE ~(f.snapshot /\ f.kind = "online")
        BY <2>4, <2>5, <2>12, <4>1, <4>3
      <4> QED BY <4>2, <4>3
    <3> QED BY <3>2, <3>4, <3>5
  <2>16. CASE sub' = r /\ wire' = wire
    <3>1. sub' \in Subs /\ sub' # None /\ sub'.inFlight = f /\ sub'.id = sub.id
      BY <2>4, <2>13, <2>16
    <3>2. Wire' /\ Ahead'
      BY <2>3, <2>14, <2>16, <3>1, WireKept
    <3>3. Sound(f)'
      BY <1>1, <2>2, SoundStays
    <3>4. Subscription'
      <4>1. sub'.sentSeq <= projection'.seq /\ Len(sub'.buffer) <= BufferMax
        BY <2>4, <2>8, <2>9, <2>16
      <4>2. outbox' # None /\ outbox'.frame # None => FALSE
        BY <2>7
      <4>3. Sound(sub.inFlight)'
        BY <3>1, <3>3 DEF Sound
      <4>4. sub'.resyncRequired => sub'.buffer = <<>>
        BY <2>4, <2>9, <2>16
      <4>5. sub'.inFlight.sub = sub'.id
        BY <2>2, <3>1
      <4>6. sub'.inFlight.snapshot /\ sub'.inFlight.kind = "online" => sub'.resyncRequired
        BY <2>4, <2>10, <2>16, <3>1
      <4>7. outbox' \in Writings \cup {None} /\ sub'.id \in 1 .. serial'
        BY <1>1, <2>13, <3>1 DEF Subscription
      <4> QED BY <3>1, <4>1, <4>2, <4>3, <4>4, <4>5, <4>6, <4>7 DEF Subscription
    <3>5. OwedIsKept'
      BY <2>2, <2>4, <2>12, <2>16, <3>1 DEF OwedIsKept
    <3> QED BY <3>2, <3>4, <3>5
  <2> QED BY <2>6, <2>15, <2>16
<1> QED BY <1>2, <1>3

-----------------------------------------------------------------------------
(* The answers, and the account of them.                                   *)

LEMMA NewsKept ==
    ASSUME IInv, Stays, UNCHANGED <<answers, outbox>>, store'.subId = store.subId
    PROVE  News'
<1>1. News /\ Server
  BY DEF IInv
<1>2. \A a \in Answers : GoodAnswer(a) => GoodAnswer(a)'
  BY <1>1 DEF GoodAnswer, Stays, Answers, Server
<1>3. \A i \in DOMAIN answers : answers[i] \in Answers
  BY <1>1, ElementOfSeq, LenProperties DEF News
<1>4. outbox # None => outbox.answer \in Answers
  BY DEF IInv, Subscription, Writings
<1>5. /\ \A i \in DOMAIN answers' : GoodAnswer(answers[i])'
      /\ outbox' # None => GoodAnswer(outbox.answer)'
  <2>1. ASSUME NEW a, a \in Answers, GoodAnswer(a) PROVE GoodAnswer(a)'
    BY <1>2, <2>1
  <2>2. ASSUME NEW i \in DOMAIN answers PROVE GoodAnswer(answers[i])'
    <3>1. PICK a : a = answers[i]
      OBVIOUS
    <3>2. GoodAnswer(a)'
      BY <1>1, <1>3, <2>1, <3>1 DEF News
    <3> QED BY <3>1, <3>2 DEF GoodAnswer
  <2>3. ASSUME outbox # None PROVE GoodAnswer(outbox.answer)'
    <3>1. PICK a : a = outbox.answer
      OBVIOUS
    <3>2. GoodAnswer(a)'
      BY <1>1, <1>4, <2>1, <2>3, <3>1 DEF News
    <3> QED BY <3>1, <3>2 DEF GoodAnswer
  <2> QED BY <2>2, <2>3
<1> QED BY <1>1, <1>5 DEF News, IsNews

-----------------------------------------------------------------------------
(* The steps of the server that serve no request.                          *)

LEMMA FlushStep ==
    ASSUME BoundsAssumption, IInv, Server', Steps', Stays,
           UNCHANGED <<projection, served, outbox, answers, store>>,
           \/ sub # None /\ Flushed
           \/ UNCHANGED <<sub, wire>>
    PROVE  IInv'
<1>1. SameReader
  BY DEF SameReader
<1>2. Subscription' /\ OwedIsKept' /\ Wire' /\ Ahead'
  <2>1. CASE sub # None /\ Flushed
    BY <1>1, <2>1, FlushedSubscription
  <2>2. CASE UNCHANGED <<sub, wire>>
    <3>1. \A g : sub # None /\ Sent(g) => g.sub <= sub.id
      BY DEF Sent
    <3>2. sub # None /\ sub.inFlight # None => Foremost(sub.inFlight)
      BY InFlightIsForemost
    <3>3. Wire' /\ Ahead'
      BY <1>1, <2>2, <3>1, <3>2, WireKept
    <3> QED BY <2>2, <3>3, SubscriptionKept
  <2> QED BY <2>1, <2>2
<1>3. News'
  BY NewsKept
<1>4. Accounts'
  BY DEF IInv, Accounts
<1>5. Reader(store)'
  <2>1. PICK s : s = store
    OBVIOUS
  <2>2. Reader(s)'
    BY <2>1, ReaderStays DEF IInv
  <2> QED BY <2>1, <2>2 DEF Reader
<1> QED BY <1>2, <1>3, <1>4, <1>5 DEF IInv

LEMMA Counts ==
    ASSUME Server
    PROVE  /\ serial \in Nat /\ events \in Nat /\ spent \in Nat
           /\ serial <= serial /\ serial <= serial + 1
           /\ serial + 1 \in Nat /\ events + 1 \in Nat /\ spent + 1 \in Nat
           /\ timer \in BOOLEAN /\ paused \in BOOLEAN /\ hydrating \in BOOLEAN
           /\ flushFailed \in BOOLEAN
<1>1. serial \in Nat /\ events \in Nat /\ spent \in Nat
  BY DEF Server
<1>2. /\ timer \in BOOLEAN /\ paused \in BOOLEAN /\ hydrating \in BOOLEAN
      /\ flushFailed \in BOOLEAN
  BY DEF Server
<1> QED BY ONLY <1>1, <1>2

LEMMA FlushedCounts ==
    ASSUME Server, (sub # None /\ Flushed) \/ UNCHANGED <<sub, wire, spent, flushFailed>>
    PROVE  spent' \in Nat /\ flushFailed' \in BOOLEAN
<1>1. \/ UNCHANGED <<spent, flushFailed>>
      \/ spent' = spent + 1 /\ flushFailed' = TRUE
  BY DEF Flushed, Disturb
<1> QED BY <1>1, Counts

LEMMA FlushTimerStep ==
    ASSUME BoundsAssumption, IInv, FlushTimer
    PROVE  IInv'
<1>1. /\ timer' = FALSE /\ UNCHANGED <<server, served, paused, hydrating, serial, events>>
      /\ UNCHANGED <<projection, outbox, answers, store>>
      /\ ((sub # None /\ Flushed) \/ UNCHANGED <<sub, wire, spent, flushFailed>>)
  BY DEF FlushTimer, server
<1>2. Server' /\ Steps' /\ Stays
  <2>1. Server /\ Steps
    BY DEF IInv
  <2>2. spent' \in Nat /\ flushFailed' \in BOOLEAN
    BY <1>1, <2>1, FlushedCounts
  <2>3. /\ serial' \in Nat /\ serial <= serial' /\ {events', spent'} \subseteq Nat
        /\ {timer', paused', hydrating', flushFailed'} \subseteq BOOLEAN
    BY <1>1, <2>1, <2>2, Counts
  <2> QED BY <1>1, <2>1, <2>3, NothingNewKeepsTheServer
<1> QED BY <1>1, <1>2, FlushStep

LEMMA DrainStep ==
    ASSUME BoundsAssumption, IInv, Drain
    PROVE  IInv'
<1>1. /\ timer' = FALSE /\ paused' = FALSE /\ UNCHANGED <<server, served, hydrating, serial, events>>
      /\ UNCHANGED <<projection, outbox, answers, store>>
      /\ ((sub # None /\ Flushed) \/ UNCHANGED <<sub, wire, spent, flushFailed>>)
  BY DEF Drain, server
<1>2. Server' /\ Steps' /\ Stays
  <2>1. Server /\ Steps
    BY DEF IInv
  <2>2. spent' \in Nat /\ flushFailed' \in BOOLEAN
    BY <1>1, <2>1, FlushedCounts
  <2>3. /\ serial' \in Nat /\ serial <= serial' /\ {events', spent'} \subseteq Nat
        /\ {timer', paused', hydrating', flushFailed'} \subseteq BOOLEAN
    BY <1>1, <2>1, <2>2, Counts
  <2> QED BY <1>1, <2>1, <2>3, NothingNewKeepsTheServer
<1> QED BY <1>1, <1>2, FlushStep

LEMMA RehydrateFlushStep ==
    ASSUME BoundsAssumption, IInv, RehydrateFlush
    PROVE  IInv'
<1>1. /\ timer' \in BOOLEAN /\ hydrating' = FALSE
      /\ UNCHANGED <<server, served, paused, serial, events>>
      /\ UNCHANGED <<projection, outbox, answers, store>>
      /\ ((sub # None /\ Flushed) \/ UNCHANGED <<sub, wire, spent, flushFailed>>)
  BY DEF RehydrateFlush, server
<1>2. Server' /\ Steps' /\ Stays
  <2>1. Server /\ Steps
    BY DEF IInv
  <2>2. spent' \in Nat /\ flushFailed' \in BOOLEAN
    BY <1>1, <2>1, FlushedCounts
  <2>3. /\ serial' \in Nat /\ serial <= serial' /\ {events', spent'} \subseteq Nat
        /\ {timer', paused', hydrating', flushFailed'} \subseteq BOOLEAN
    BY <1>1, <2>1, <2>2, Counts
  <2> QED BY <1>1, <2>1, <2>3, NothingNewKeepsTheServer
<1> QED BY <1>1, <1>2, FlushStep

LEMMA SaturateStep ==
    ASSUME BoundsAssumption, IInv, Saturate
    PROVE  IInv'
<1>1. /\ timer' = FALSE /\ paused' = TRUE /\ spent' = spent + 1
      /\ UNCHANGED <<server, served, hydrating, serial, events, flushFailed>>
      /\ UNCHANGED <<projection, outbox, answers, store, sub, wire>>
  BY DEF Saturate, Disturb, server
<1>2. Server' /\ Steps' /\ Stays
  <2>1. Server /\ Steps
    BY DEF IInv
  <2>3. /\ serial' \in Nat /\ serial <= serial' /\ {events', spent'} \subseteq Nat
        /\ {timer', paused', hydrating', flushFailed'} \subseteq BOOLEAN
    BY <1>1, <2>1, Counts
  <2> QED BY <1>1, <2>1, <2>3, NothingNewKeepsTheServer
<1> QED BY <1>1, <1>2, FlushStep

\* A subscription that keeps its number and what it has in flight.
LEMMA SameFlight ==
    ASSUME IInv, Server', Stays, UNCHANGED <<wire, answers, outbox, store>>,
           sub = None => sub' = None,
           sub # None /\ sub' # None =>
              /\ sub'.id = sub.id
              /\ sub'.inFlight = None \/ sub'.inFlight = sub.inFlight
    PROVE  Wire' /\ News' /\ Accounts' /\ Reader(store)' /\ Ahead'
<1>1. SameReader
  BY DEF SameReader
<1>2. \A g : sub # None /\ Sent(g) => g.sub <= sub.id
  BY DEF Sent
<1>3. sub # None /\ sub.inFlight # None => Foremost(sub.inFlight)
  BY InFlightIsForemost
<1>4. Wire' /\ Ahead'
  BY <1>1, <1>2, <1>3, WireKept
<1>5. News'
  BY NewsKept
<1>6. Accounts'
  BY DEF IInv, Accounts
<1>7. Reader(store)'
  <2>1. PICK s : s = store
    OBVIOUS
  <2>2. Reader(s)'
    BY <2>1, ReaderStays DEF IInv
  <2> QED BY <2>1, <2>2 DEF Reader
<1> QED BY <1>4, <1>5, <1>6, <1>7

LEMMA BufferedSub ==
    ASSUME BoundsAssumption, NEW s \in Subs, NEW row \in Nat, Len(s.buffer) <= BufferMax
    PROVE  /\ Buffered(s, row) \in Subs
           /\ Buffered(s, row).id = s.id /\ Buffered(s, row).sentSeq = s.sentSeq
           /\ Buffered(s, row).inFlight = s.inFlight
           /\ Len(Buffered(s, row).buffer) <= BufferMax
           /\ \/ Buffered(s, row).buffer = <<>> /\ Buffered(s, row).resyncRequired
              \/ /\ Buffered(s, row).buffer = Append(s.buffer, row)
                 /\ Buffered(s, row).resyncRequired = s.resyncRequired
<1>1. /\ s.buffer \in Seq(Int) /\ row \in Int /\ BufferMax \in Nat \ {0}
      /\ <<>> \in Seq(Int) /\ Len(<<>>) = 0
  BY EmptySeq DEF Subs, BoundsAssumption
<1>2. /\ Append(s.buffer, row) \in Seq(Int) /\ Len(Append(s.buffer, row)) = Len(s.buffer) + 1
      /\ Len(s.buffer) \in Nat
  BY <1>1, AppendProperties, LenProperties
<1>3. CASE Len(s.buffer) = BufferMax
  <2> DEFINE t == [s EXCEPT !.buffer = <<>>, !.resyncRequired = TRUE]
  <2>1. /\ t \in Subs /\ t.id = s.id /\ t.sentSeq = s.sentSeq /\ t.inFlight = s.inFlight
        /\ t.buffer = <<>> /\ t.resyncRequired = TRUE
    BY <1>1 DEF Subs
  <2>2. Buffered(s, row) = t
    BY <1>3 DEF Buffered
  <2> HIDE DEF t
  <2>3. Len(t.buffer) <= BufferMax
    BY <1>1, <2>1
  <2> QED BY <2>1, <2>2, <2>3
<1>4. CASE Len(s.buffer) # BufferMax
  <2> DEFINE t == [s EXCEPT !.buffer = Append(s.buffer, row)]
  <2>1. /\ t \in Subs /\ t.id = s.id /\ t.sentSeq = s.sentSeq /\ t.inFlight = s.inFlight
        /\ t.buffer = Append(s.buffer, row) /\ t.resyncRequired = s.resyncRequired
    BY <1>2 DEF Subs
  <2>2. Buffered(s, row) = t
    BY <1>4 DEF Buffered, Subs
  <2> HIDE DEF t
  <2>3. Len(t.buffer) <= BufferMax
    BY <1>1, <1>2, <1>4, <2>1
  <2> QED BY <2>1, <2>2, <2>3
<1> QED BY <1>3, <1>4

LEMMA IngestStep ==
    ASSUME BoundsAssumption, IInv, NEW row \in Nat, Ingest(row)
    PROVE  IInv'
<1>1. /\ Server /\ Steps /\ Subscription /\ OwedIsKept
  BY DEF IInv
<1>2. /\ sub' = IF sub = None \/ row = 0 \/ sub.resyncRequired THEN sub ELSE Buffered(sub, row)
      /\ projection' = [projection EXCEPT !.seq = @ + 1,
                                          !.rows = IF row = 0 THEN @ ELSE Append(@, row)]
      /\ UNCHANGED <<outbox, wire, answers, store, serial>>
  BY DEF Ingest
<1>3. Server' /\ Steps' /\ Stays
  BY <1>1, IngestKeepsTheServer
<1>4. /\ projection'.epoch = projection.epoch /\ projection.rows \in Seq(Int)
      /\ projection'.rows = IF row = 0 THEN projection.rows ELSE Append(projection.rows, row)
      /\ projection.seq \in Nat /\ projection'.seq \in Nat /\ projection.seq <= projection'.seq
  <2>1. projection \in Views /\ projection' \in Views /\ projection.seq <= projection'.seq
    BY <1>1, <1>3 DEF Server, Stays
  <2> QED BY <1>2, <2>1 DEF Views
<1>5. sub = None => sub' = None
  BY <1>2
<1>6. ASSUME sub # None
      PROVE  /\ sub' \in Subs /\ sub' # None /\ sub'.id = sub.id /\ sub'.sentSeq = sub.sentSeq
             /\ sub'.inFlight = sub.inFlight /\ Len(sub'.buffer) <= BufferMax
             /\ \/ sub' = sub /\ (row = 0 \/ sub.resyncRequired)
                \/ /\ row # 0 /\ ~sub.resyncRequired
                   /\ sub'.buffer = <<>> /\ sub'.resyncRequired
                \/ /\ row # 0 /\ ~sub.resyncRequired
                   /\ sub'.buffer = Append(sub.buffer, row) /\ ~sub'.resyncRequired
  <2>1. sub \in Subs /\ Len(sub.buffer) <= BufferMax /\ None \notin Subs
    BY <1>1, <1>6, NobodyAssumption DEF Subscription
  <2>2. CASE row = 0 \/ sub.resyncRequired
    BY <1>2, <1>6, <2>1, <2>2
  <2>3. CASE ~(row = 0 \/ sub.resyncRequired)
    <3>1. sub' = Buffered(sub, row)
      BY <1>2, <1>6, <2>3
    <3>2. /\ sub' \in Subs /\ sub'.id = sub.id /\ sub'.sentSeq = sub.sentSeq
          /\ sub'.inFlight = sub.inFlight /\ Len(sub'.buffer) <= BufferMax
          /\ \/ sub'.buffer = <<>> /\ sub'.resyncRequired
             \/ /\ sub'.buffer = Append(sub.buffer, row)
                /\ sub'.resyncRequired = sub.resyncRequired
      BY <2>1, <3>1, BufferedSub
    <3> QED BY <2>1, <2>3, <3>2
  <2> QED BY <2>2, <2>3
<1>7. Subscription'
  <2>1. outbox' \in Writings \cup {None} /\ sub' \in Subs \cup {None}
    BY <1>1, <1>2, <1>5, <1>6 DEF Subscription
  <2>2. ASSUME sub' # None
        PROVE  /\ sub'.id \in 1 .. serial' /\ sub'.sentSeq <= projection'.seq
               /\ Len(sub'.buffer) <= BufferMax
               /\ sub'.resyncRequired => sub'.buffer = <<>>
               /\ sub'.inFlight # None => Sound(sub.inFlight)' /\ sub'.inFlight.sub = sub'.id
               /\ sub'.inFlight # None /\ sub'.inFlight.snapshot /\ sub'.inFlight.kind = "online"
                     => sub'.resyncRequired
    <3>1. sub # None
      BY <1>5, <2>2
    <3>2. sub.sentSeq <= projection'.seq
      <4>1. sub.sentSeq \in Nat /\ sub.sentSeq <= projection.seq
        BY <1>1, <3>1 DEF Subscription, Subs
      <4> QED BY ONLY <1>4, <4>1
    <3>3. sub.inFlight # None => Sound(sub.inFlight)'
      <4>1. ASSUME NEW f, f = sub.inFlight, sub.inFlight # None PROVE Sound(f)'
        BY <1>1, <1>3, <3>1, <4>1, SoundStays DEF Subscription
      <4> QED BY <1>6, <3>1, <4>1 DEF Sound
    <3>4. sub'.resyncRequired => sub'.buffer = <<>>
      BY <1>1, <1>6, <3>1 DEF Subscription
    <3>5. sub.resyncRequired => sub'.resyncRequired
      BY <1>6, <3>1
    <3> QED BY <1>1, <1>2, <1>6, <3>1, <3>2, <3>3, <3>4, <3>5 DEF Subscription
  <2>3. outbox' # None /\ outbox'.frame # None => sub' # None /\ sub'.inFlight = outbox'.frame
    BY <1>1, <1>2, <1>6 DEF Subscription
  <2> QED BY <2>1, <2>2, <2>3 DEF Subscription
<1>8. OwedIsKept'
  <2>1. SUFFICES ASSUME sub' # None, ~sub'.resyncRequired
                 PROVE  \E v \in served' :
                           /\ v.epoch = projection'.epoch
                           /\ v.seq = IF sub'.inFlight = None THEN sub'.sentSeq
                                                              ELSE sub'.inFlight.toSeq
                           /\ v.rows \o sub'.buffer = projection'.rows
    BY DEF OwedIsKept
  <2>2. sub # None /\ ~sub.resyncRequired
    BY <1>5, <1>6, <2>1
  <2>3. PICK v \in served : /\ v.epoch = projection.epoch
                            /\ v.seq = IF sub.inFlight = None THEN sub.sentSeq
                                                              ELSE sub.inFlight.toSeq
                            /\ v.rows \o sub.buffer = projection.rows
    BY <1>1, <2>2 DEF OwedIsKept
  <2>4. v \in served' /\ v.rows \in Seq(Int) /\ sub.buffer \in Seq(Int) /\ row \in Int
    <3>1. v \in Views /\ v \in served'
      BY <1>1, <1>3 DEF Stays, Server
    <3>2. sub \in Subs
      BY <1>1, <2>2 DEF Subscription
    <3> QED BY ONLY <3>1, <3>2, row \in Nat DEF Views, Subs
  <2>5. v.rows \o sub'.buffer = projection'.rows
    <3>1. CASE row = 0
      BY <1>4, <1>6, <2>2, <2>3, <3>1
    <3>2. CASE row # 0
      <4>1. sub'.buffer = Append(sub.buffer, row)
        BY <1>6, <2>1, <2>2, <3>2
      <4>2. v.rows \o Append(sub.buffer, row) = Append(v.rows \o sub.buffer, row)
        <5>1. \A p, q \in Seq(Int) : \A x \in Int : p \o Append(q, x) = Append(p \o q, x)
          BY ONLY ConcatAppend
        <5> QED BY ONLY <2>4, <5>1
      <4> QED BY <1>4, <2>3, <3>2, <4>1, <4>2
    <3> QED BY <3>1, <3>2
  <2> QED BY <1>4, <1>6, <2>2, <2>3, <2>4, <2>5
<1>9. Wire' /\ News' /\ Accounts' /\ Reader(store)' /\ Ahead'
  BY <1>2, <1>3, <1>5, <1>6, SameFlight
<1> QED BY <1>3, <1>7, <1>8, <1>9 DEF IInv

LEMMA RehydrateStep ==
    ASSUME BoundsAssumption, FreshNumbers, IInv, Rehydrate
    PROVE  IInv'
<1>1. /\ Server /\ Steps /\ Subscription
  BY DEF IInv
<1>2. /\ sub' = IF sub = None THEN None
                ELSE [sub EXCEPT !.buffer = <<>>, !.resyncRequired = TRUE,
                                 !.sentSeq = 0, !.inFlight = None]
      /\ outbox = None
      /\ UNCHANGED <<outbox, wire, answers, store, serial>>
  BY DEF Rehydrate
<1>3. Server' /\ Steps' /\ Stays
  BY <1>1, RehydrateKeepsTheServer
<1>4. ASSUME sub # None
      PROVE  /\ sub' \in Subs /\ sub' # None /\ sub'.id = sub.id /\ sub'.sentSeq = 0
             /\ sub'.inFlight = None /\ sub'.buffer = <<>> /\ sub'.resyncRequired
  <2>1. sub \in Subs /\ None \notin Subs /\ <<>> \in Seq(Int)
    BY <1>1, <1>4, NobodyAssumption, EmptySeq DEF Subscription
  <2> DEFINE t == [sub EXCEPT !.buffer = <<>>, !.resyncRequired = TRUE,
                              !.sentSeq = 0, !.inFlight = None]
  <2>2. /\ t \in Subs /\ t.id = sub.id /\ t.sentSeq = 0
        /\ t.inFlight = None /\ t.buffer = <<>> /\ t.resyncRequired
    BY <2>1 DEF Subs
  <2>3. sub' = t
    BY <1>2, <1>4
  <2> HIDE DEF t
  <2> QED BY <2>1, <2>2, <2>3
<1>5. sub = None => sub' = None
  BY <1>2
<1>6. Subscription'
  <2>1. ASSUME sub' # None
        PROVE  /\ sub'.id \in 1 .. serial' /\ sub'.sentSeq <= projection'.seq
               /\ Len(sub'.buffer) <= BufferMax
    <3>1. projection'.seq \in Nat /\ BufferMax \in Nat /\ Len(<<>>) = 0
      BY <1>3, EmptySeq DEF Server, Views, BoundsAssumption
    <3>2. sub # None /\ sub'.sentSeq <= projection'.seq /\ Len(sub'.buffer) <= BufferMax
      BY <1>4, <1>5, <2>1, <3>1
    <3> QED BY <1>1, <1>2, <1>4, <3>2 DEF Subscription
  <2> QED BY <1>2, <1>4, <1>5, <2>1 DEF Subscription
<1>7. OwedIsKept'
  BY <1>4, <1>5 DEF OwedIsKept
<1>8. Wire' /\ News' /\ Accounts' /\ Reader(store)' /\ Ahead'
  BY <1>2, <1>3, <1>4, <1>5, SameFlight
<1> QED BY <1>3, <1>6, <1>7, <1>8 DEF IInv

-----------------------------------------------------------------------------
(* The requests.                                                           *)

LEMMA RequestTaken ==
    ASSUME IInv, Server', Stays, store.requests # <<>>, Served
    PROVE  /\ Reader(store)' /\ SameReader
           /\ Head(store.requests) \in Requests
           /\ Subscribing(store.requests) =
                 Subscribing(store'.requests)
                    + (IF Head(store.requests).kind = "subscribe" THEN 1 ELSE 0)
           /\ Subscribing(store'.requests) \in Nat
           /\ Head(store.requests).kind # "unsubscribe" /\ Head(store.requests).base # None
                 => MarkServed(Head(store.requests).base)
<1> DEFINE q == store.requests
<1>1. Server /\ Reader(store) /\ Typed(store)
  BY DEF IInv, Reader
<1>2. q \in Seq(Requests)
  BY <1>1 DEF Typed
<1>3. /\ Tail(q) \in Seq(Requests) /\ Head(q) = q[1] /\ Head(q) \in Requests
      /\ DOMAIN q = 1 .. Len(q) /\ Len(q) \in Nat \ {0}
      /\ DOMAIN Tail(q) = 1 .. (Len(q) - 1)
      /\ \A i \in 1 .. (Len(q) - 1) : Tail(q)[i] = q[i + 1]
  BY <1>2, HeadTailProperties, LenProperties, EmptySeq
<1>4. /\ DOMAIN store' = DOMAIN store /\ store'.status = store.status
      /\ store'.view = store.view /\ store'.subId = store.subId
      /\ store'.appliedBase = store.appliedBase /\ store'.connects = store.connects
      /\ store'.requests = Tail(q)
  BY <1>1 DEF Served, Typed, Fields
<1>5. Subscribing(q) = Subscribing(Tail(q)) + (IF Head(q).kind = "subscribe" THEN 1 ELSE 0)
  BY <1>2, CountTail
<1>6. Subscribing(Tail(q)) \in Nat
  BY <1>3, CountFinite
<1>7. \A i \in DOMAIN q : q[i].kind # "unsubscribe" /\ q[i].base # None => MarkServed(q[i].base)
  BY <1>1 DEF Reader
<1>8. PICK t : t = store'
  OBVIOUS
<1>9. Reader(t)
  <2>1. \A i \in DOMAIN t.requests :
           t.requests[i].kind # "unsubscribe" /\ t.requests[i].base # None
              => MarkServed(t.requests[i].base)
    <3>1. ASSUME NEW i \in DOMAIN t.requests
          PROVE  i + 1 \in DOMAIN q /\ t.requests[i] = q[i + 1]
      <4>1. i \in 1 .. (Len(q) - 1) /\ t.requests = Tail(q)
        BY <1>3, <1>4, <1>8
      <4>2. i + 1 \in DOMAIN q
        BY ONLY <1>3, <4>1
      <4> QED BY <1>3, <4>1, <4>2
    <3> HIDE DEF q
    <3> QED BY <1>7, <3>1
  <2>2. Typed(t)
    BY <1>1, <1>3, <1>4, <1>8 DEF Typed
  <2> QED BY <1>1, <1>4, <1>8, <2>1, <2>2 DEF Reader
<1>10. Reader(t)'
  BY <1>1, <1>9, ReaderStays
<1>11. Reader(store)'
  BY <1>8, <1>10 DEF Reader
<1>12. 1 \in DOMAIN q
  BY <1>3
<1> QED BY <1>3, <1>4, <1>5, <1>6, <1>7, <1>11, <1>12 DEF SameReader

\* The frame of an answer that resumes.
LEMMA ResumedIsCurrent ==
    ASSUME Server, Steps, NEW base, MarkServed(base), Resumable(base),
           NEW id \in Nat, NEW kind \in FrameKinds
    PROVE  /\ Current(DeltaFrame(id, kind, base.seq, Replay(base.seq)), id)
           /\ DeltaFrame(id, kind, base.seq, Replay(base.seq)).kind = kind
<1>1. PICK v \in served : v.epoch = base.epoch /\ v.seq = base.seq
  BY DEF MarkServed
<1>2. v.epoch = projection.epoch /\ floorSeq <= v.seq /\ v.seq <= projection.seq
  <2>1. base.seq >= floorSeq /\ base.seq <= projection.seq /\ base.epoch = projection.epoch
    BY DEF Resumable
  <2>2. v.seq \in Nat /\ floorSeq \in Nat
    BY DEF Server, Views
  <2> QED BY <1>1, <2>1, <2>2
<1>3. Replay(v.seq) \in Seq(Int) /\ v.rows \o Replay(v.seq) = projection.rows
  BY <1>2, ReplayLeadsToTheProjection DEF Retained
<1>4. /\ Current(DeltaFrame(id, kind, v.seq, Replay(v.seq)), id)
      /\ DeltaFrame(id, kind, v.seq, Replay(v.seq)).kind = kind
  <2>1. PICK rows : rows = Replay(v.seq)
    OBVIOUS
  <2>2. rows \in Seq(Int) /\ v.rows \o rows = projection.rows
    BY <1>3, <2>1
  <2>3. /\ Current(DeltaFrame(id, kind, v.seq, rows), id)
        /\ DeltaFrame(id, kind, v.seq, rows).kind = kind
    BY <1>2, <2>2, DeltaIsCurrent
  <2> QED BY <2>1, <2>3
<1> QED BY <1>1, <1>4

LEMMA CurrentIsSoundNext ==
    ASSUME UNCHANGED <<projection, served>>, Server, NEW f, NEW id, Current(f, id), id \in 1 .. serial'
    PROVE  Sound(f)'
<1>1. f.toSeq <= projection.seq
  BY DEF Current, Server, Views
<1> QED BY <1>1 DEF Current, Sound, View

\* An answer is going to be written.
LEMMA NewsAsked ==
    ASSUME IInv, Stays, outbox = None, UNCHANGED <<projection, answers>>,
           store'.subId = store.subId, outbox' # None,
           NEW a \in Answers, outbox'.answer = a, a.epoch = projection.epoch,
           a.sub <= serial', IsNews(a) => a.sub > serial
    PROVE  News'
<1>1. News /\ Server /\ Reader(store) /\ serial \in Nat /\ serial' \in Nat /\ serial <= serial'
  BY DEF IInv, Server, Stays
<1>2. \A i \in DOMAIN answers : answers[i] \in Answers /\ GoodAnswer(answers[i])
  BY <1>1, ElementOfSeq, LenProperties DEF News
<1>3. \A i \in DOMAIN answers : answers[i].sub \in Nat /\ answers[i].sub <= serial
  BY <1>2 DEF Answers, GoodAnswer
<1>4. \A i \in DOMAIN answers : answers[i].sub <= serial'
  BY <1>1, <1>3
<1>5. a.sub \in Nat /\ store.subId \in Nat /\ store.subId <= serial
  BY <1>1 DEF Answers, Reader, Typed
<1>6. IsNews(a) => /\ store.subId < a.sub
                   /\ \A i \in DOMAIN answers : answers[i].sub < a.sub
  BY <1>1, <1>3, <1>5
<1> QED BY <1>1, <1>2, <1>4, <1>6 DEF News, GoodAnswer, IsNews

\* A subscription nothing happens to while an answer without a frame is made.
LEMMA SubscriptionIdle ==
    ASSUME IInv, Server', Stays, UNCHANGED <<projection, sub>>,
           outbox' \in Writings \cup {None}, outbox' # None => outbox'.frame = None
    PROVE  Subscription' /\ OwedIsKept'
<1>1. Server /\ Subscription /\ OwedIsKept
  BY DEF IInv
<1>2. sub # None => sub.id \in 1 .. serial'
  BY <1>1 DEF Subscription, Server, Stays
<1>3. sub # None /\ sub.inFlight # None => Sound(sub.inFlight)'
  <2>1. ASSUME NEW f, f = sub.inFlight, sub # None, sub.inFlight # None
        PROVE  Sound(f)'
    BY <1>1, <2>1, SoundStays DEF Subscription
  <2> QED BY <2>1 DEF Sound
<1>4. Subscription'
  BY <1>1, <1>2, <1>3 DEF Subscription
<1>5. OwedIsKept'
  BY <1>1 DEF OwedIsKept, Stays
<1> QED BY <1>4, <1>5

LEMMA WrittenOutbox ==
    ASSUME Server, NEW kind \in {"resync", "subscribe"}, NEW id \in Nat,
           NEW mode \in {"fault", "notOwned", "resume", "snapshot"}, NEW f \in Frames \cup {None}
    PROVE  LET a == Answer(kind, id, mode)
           IN  /\ [answer |-> a, frame |-> f] \in Writings
               /\ [answer |-> a, frame |-> f] # None
               /\ a \in Answers /\ a.kind = kind /\ a.sub = id /\ a.mode = mode
               /\ a.epoch = projection.epoch
<1>1. projection.epoch \in Nat
  BY DEF Server, Views
<1>2. /\ Answer(kind, id, mode) \in Answers
      /\ Answer(kind, id, mode).kind = kind /\ Answer(kind, id, mode).sub = id
      /\ Answer(kind, id, mode).mode = mode
      /\ Answer(kind, id, mode).epoch = projection.epoch
  BY <1>1 DEF Answer, Answers
<1>3. [answer |-> Answer(kind, id, mode), frame |-> f] \in Writings
  BY <1>2 DEF Writings
<1> QED BY <1>2, <1>3, NobodyAssumption

\* A subscription that was just made, or resumed: nothing is owed but its frame.
Fresh(s, id, f) ==
    /\ s \in Subs /\ s.id = id /\ s.buffer = <<>> /\ ~s.resyncRequired /\ s.inFlight = f
    /\ s.sentSeq <= projection.seq
    /\ f = None => s.sentSeq = projection.seq
    /\ f # None => Current(f, id) /\ f.kind # "online"

LEMMA FreshSubscription ==
    ASSUME BoundsAssumption, IInv, Server', Stays, SameReader,
           UNCHANGED <<projection, served, wire>>,
           NEW id \in 1 .. serial', NEW f, Fresh(sub', id, f),
           \A g : Sent(g) => g.sub <= id,
           outbox' \in Writings, outbox'.frame = f
    PROVE  Subscription' /\ OwedIsKept' /\ Wire' /\ Ahead'
<1>1. Server /\ projection.seq \in Nat /\ projection \in served /\ projection.rows \in Seq(Int)
  BY DEF IInv, Server, Views
<1>2. sub' # None /\ sub' \in Subs /\ sub'.id = id /\ sub'.inFlight = f
  BY NobodyAssumption DEF Fresh
<1>3. f # None => Sound(f)' /\ f.sub = id /\ f.kind # "online" /\ f.toSeq = projection.seq
  BY <1>1, CurrentIsSoundNext DEF Fresh, Current
<1>4. f # None => Foremost(f)
  BY <1>3, NewestIsForemost
<1>5. Wire' /\ Ahead'
  BY <1>2, <1>4, WireKept
<1>6. Subscription'
  <2>1. Len(sub'.buffer) <= BufferMax
    BY EmptySeq DEF Fresh, BoundsAssumption
  <2>2. sub'.inFlight # None => Sound(sub.inFlight)'
    BY <1>2, <1>3 DEF Sound
  <2>3. sub'.sentSeq <= projection'.seq /\ ~sub'.resyncRequired
    BY DEF Fresh
  <2> QED BY <1>2, <1>3, <2>1, <2>2, <2>3 DEF Subscription
<1>7. OwedIsKept'
  <2>1. projection.rows \o <<>> = projection.rows
    BY <1>1, ConcatEmptySeq
  <2>2. (IF sub'.inFlight = None THEN sub'.sentSeq ELSE sub'.inFlight.toSeq) = projection.seq
    BY <1>2, <1>3 DEF Fresh
  <2>3. sub'.buffer = <<>>
    BY DEF Fresh
  <2> QED BY <1>1, <2>1, <2>2, <2>3 DEF OwedIsKept
<1> QED BY <1>5, <1>6, <1>7

LEMMA SubscribeStep ==
    ASSUME BoundsAssumption, IInv, Subscribe
    PROVE  IInv'
<1> DEFINE base == Head(store.requests).base
           resume == Resumable(base)
           aligned == resume /\ base.seq = projection.seq
           id == serial + 1
           frame == IF aligned THEN None
                    ELSE IF resume THEN DeltaFrame(id, "initial", base.seq, Replay(base.seq))
                    ELSE SnapshotFrame(id, "initial")
           a == Answer("subscribe", id, IF resume THEN "resume" ELSE "snapshot")
<1>1. /\ outbox = None /\ store.requests # <<>> /\ Head(store.requests).kind = "subscribe"
      /\ serial' = id /\ timer' = FALSE /\ Served
      /\ sub' = [id |-> id, buffer |-> <<>>, resyncRequired |-> FALSE,
                 sentSeq |-> IF resume THEN base.seq ELSE 0, inFlight |-> frame]
      /\ outbox' = [answer |-> a, frame |-> frame]
      /\ UNCHANGED <<server, paused, hydrating, wire, answers, served, events, spent, flushFailed>>
  BY DEF Subscribe, Request
<1> HIDE DEF frame, a
<1>2. Server /\ Steps /\ UNCHANGED <<projection, served>> /\ serial \in Nat /\ id \in Nat
  BY <1>1, Counts DEF IInv, server
<1>3. Server' /\ Steps' /\ Stays
  <2>1. /\ serial' \in Nat /\ serial <= serial' /\ {events', spent'} \subseteq Nat
        /\ {timer', paused', hydrating', flushFailed'} \subseteq BOOLEAN
    BY <1>1, <1>2, Counts
  <2> QED BY <1>1, <1>2, <2>1, NothingNewKeepsTheServer
<1>4. /\ Reader(store)' /\ SameReader
      /\ Head(store.requests) \in Requests
      /\ Subscribing(store.requests) = Subscribing(store'.requests) + 1
      /\ Subscribing(store'.requests) \in Nat
      /\ base # None => MarkServed(base)
  BY <1>1, <1>3, RequestTaken
<1>5. resume => base # None /\ base.seq \in Nat /\ base.seq <= projection.seq
  <2>1. resume => base # None /\ base.seq <= projection.seq
    BY DEF Resumable
  <2>2. base # None => base.seq \in Nat
    BY <1>2, <1>4 DEF MarkServed, Server, Views
  <2> QED BY <2>1, <2>2
<1>6. frame # None => Current(frame, id) /\ frame.kind # "online"
  <2>1. CASE aligned
    BY <2>1 DEF frame
  <2>2. CASE resume /\ ~aligned
    <3>1. frame = DeltaFrame(id, "initial", base.seq, Replay(base.seq))
      BY <2>2 DEF frame
    <3>2. Current(frame, id) /\ frame.kind = "initial"
      BY <1>2, <1>4, <1>5, <2>2, <3>1, ResumedIsCurrent DEF FrameKinds
    <3> QED BY <3>2
  <2>3. CASE ~resume
    <3>1. frame = SnapshotFrame(id, "initial")
      BY <2>3 DEF frame
    <3>2. Current(frame, id) /\ frame.kind = "initial"
      BY <1>2, <3>1, SnapshotIsCurrent DEF FrameKinds
    <3> QED BY <3>2
  <2> QED BY <2>1, <2>2, <2>3
<1>7. frame = None => aligned
  <2>1. ASSUME ~aligned PROVE frame \in Frames
    <3>1. DeltaFrame(id, "initial", base.seq, Replay(base.seq)) # None
             /\ SnapshotFrame(id, "initial") # None
             => frame # None
      BY <2>1 DEF frame
    <3>2. CASE resume
      <4>1. Current(DeltaFrame(id, "initial", base.seq, Replay(base.seq)), id)
        BY <1>2, <1>4, <1>5, <3>2, ResumedIsCurrent DEF FrameKinds
      <4> QED BY <2>1, <3>2, <4>1 DEF frame, Current
    <3>3. CASE ~resume
      <4>1. Current(SnapshotFrame(id, "initial"), id)
        BY <1>2, SnapshotIsCurrent DEF FrameKinds
      <4> QED BY <2>1, <3>3, <4>1 DEF frame, Current
    <3> QED BY <3>2, <3>3
  <2> QED BY <2>1, NoneAssumption
<1>8. frame \in Frames \cup {None}
  BY <1>6 DEF Current
<1>9. Fresh(sub', id, frame)
  <2>1. <<>> \in Seq(Int) /\ projection.seq \in Nat /\ 0 <= projection.seq
    BY <1>2, EmptySeq DEF Server, Views
  <2> DEFINE from == IF resume THEN base.seq ELSE 0
  <2>2. from \in Nat /\ from <= projection.seq /\ (frame = None => from = projection.seq)
    BY <1>5, <1>7, <2>1
  <2>3. sub' = [id |-> id, buffer |-> <<>>, resyncRequired |-> FALSE,
                sentSeq |-> from, inFlight |-> frame]
    BY <1>1
  <2> HIDE DEF from
  <2>4. sub' \in Subs
    BY <1>2, <1>8, <2>1, <2>2, <2>3 DEF Subs
  <2> QED BY <1>6, <2>2, <2>3, <2>4 DEF Fresh
<1>10. /\ outbox' \in Writings /\ outbox' # None /\ outbox'.frame = frame /\ outbox'.answer = a
       /\ a \in Answers /\ a.kind = "subscribe" /\ a.sub = id /\ a.epoch = projection.epoch
  <2>1. PICK mode : mode = IF resume THEN "resume" ELSE "snapshot"
    OBVIOUS
  <2>2. mode \in {"fault", "notOwned", "resume", "snapshot"} /\ a = Answer("subscribe", id, mode)
    BY <2>1 DEF a
  <2>3. /\ [answer |-> a, frame |-> frame] \in Writings /\ [answer |-> a, frame |-> frame] # None
        /\ a \in Answers /\ a.kind = "subscribe" /\ a.sub = id /\ a.epoch = projection.epoch
    BY <1>2, <1>8, <2>2, WrittenOutbox
  <2> QED BY <1>1, <2>3
<1>11. Subscription' /\ OwedIsKept' /\ Wire' /\ Ahead'
  <2>1. \A g : Sent(g) => g.sub <= id
    <3>1. ASSUME NEW g, Sent(g) PROVE g.sub <= id
      BY <1>2, <3>1, SentIsRanked
    <3> QED BY <3>1
  <2>2. id \in 1 .. serial'
    BY <1>1, <1>2
  <2>3. UNCHANGED wire
    BY <1>1
  <2> HIDE DEF id
  <2> QED BY <1>2, <1>3, <1>4, <1>9, <1>10, <2>1, <2>2, <2>3, FreshSubscription
<1>12. News'
  <2>1. a.sub <= serial' /\ a.sub > serial /\ store'.subId = store.subId
    BY <1>1, <1>2, <1>4, <1>10 DEF SameReader
  <2>2. UNCHANGED answers
    BY <1>1
  <2> QED BY <1>1, <1>2, <1>3, <1>10, <2>1, <2>2, NewsAsked
<1>13. Accounts'
  <2>1. Subscribing(answers) \in Nat
    BY CountFinite DEF IInv, News
  <2>2. Len(store.connects) = Subscribing(store.requests) + Subscribing(answers)
    BY <1>1, <2>1, <1>4 DEF IInv, Accounts
  <2>3. Len(store'.connects) = Subscribing(store'.requests) + Subscribing(answers') + 1
    BY <1>1, <1>4, <2>1, <2>2 DEF SameReader
  <2> QED BY <1>10, <2>3 DEF Accounts
<1> QED BY <1>3, <1>4, <1>11, <1>12, <1>13 DEF IInv

\* A request that leaves the subscription alone.
LEMMA SubscriptionAlone ==
    ASSUME IInv, Server', Stays, SameReader, UNCHANGED <<projection, sub, wire>>,
           outbox' \in Writings \cup {None}, outbox' # None => outbox'.frame = None
    PROVE  Subscription' /\ OwedIsKept' /\ Wire' /\ Ahead'
<1>1. \A g : sub # None /\ Sent(g) => g.sub <= sub.id
  BY DEF Sent
<1>2. sub # None /\ sub.inFlight # None => Foremost(sub.inFlight)
  BY InFlightIsForemost
<1>3. Wire' /\ Ahead'
  BY <1>1, <1>2, WireKept
<1> QED BY <1>3, SubscriptionIdle

LEMMA SubscribeFailsStep ==
    ASSUME BoundsAssumption, IInv, SubscribeFails
    PROVE  IInv'
<1> DEFINE a == Answer("subscribe", 0, "fault")
<1>1. /\ outbox = None /\ store.requests # <<>> /\ Head(store.requests).kind = "subscribe"
      /\ serial' = serial + 1 /\ spent' = spent + 1 /\ Served
      /\ outbox' = [answer |-> a, frame |-> None]
      /\ UNCHANGED <<server, sub, timer, paused, hydrating, wire, answers, served, events,
                     flushFailed>>
  BY DEF SubscribeFails, Request, Disturb
<1> HIDE DEF a
<1>2. Server /\ Steps /\ UNCHANGED <<projection, served, wire, sub, answers>>
  BY <1>1 DEF IInv, server
<1>3. Server' /\ Steps' /\ Stays
  <2>1. /\ serial' \in Nat /\ serial <= serial' /\ {events', spent'} \subseteq Nat
        /\ {timer', paused', hydrating', flushFailed'} \subseteq BOOLEAN
    BY <1>1, <1>2, Counts
  <2> QED BY <1>1, <1>2, <2>1, NothingNewKeepsTheServer
<1>4. /\ Reader(store)' /\ SameReader
      /\ Subscribing(store.requests) = Subscribing(store'.requests) + 1
      /\ Subscribing(store'.requests) \in Nat
  BY <1>1, <1>3, RequestTaken
<1>5. /\ outbox' \in Writings /\ outbox' # None /\ outbox'.frame = None /\ outbox'.answer = a
      /\ a \in Answers /\ a.kind = "subscribe" /\ a.sub = 0 /\ a.epoch = projection.epoch
      /\ a.mode = "fault"
  <2>1. /\ [answer |-> a, frame |-> None] \in Writings /\ [answer |-> a, frame |-> None] # None
        /\ a \in Answers /\ a.kind = "subscribe" /\ a.sub = 0 /\ a.epoch = projection.epoch
        /\ a.mode = "fault"
    BY <1>2, WrittenOutbox DEF a
  <2> QED BY <1>1, <2>1
<1>6. Subscription' /\ OwedIsKept' /\ Wire' /\ Ahead'
  BY <1>2, <1>3, <1>4, <1>5, SubscriptionAlone
<1>7. News'
  <2>1. a.sub <= serial' /\ ~IsNews(a) /\ store'.subId = store.subId
    BY <1>2, <1>1, <1>4, <1>5, Counts DEF SameReader, IsNews
  <2> QED BY <1>1, <1>2, <1>3, <1>5, <2>1, NewsAsked
<1>8. Accounts'
  <2>1. Subscribing(answers) \in Nat
    BY CountFinite DEF IInv, News
  <2>2. Len(store.connects) = Subscribing(store.requests) + Subscribing(answers)
    BY <1>1, <2>1, <1>4 DEF IInv, Accounts
  <2>3. Len(store'.connects) = Subscribing(store'.requests) + Subscribing(answers') + 1
    BY <1>1, <1>4, <2>1, <2>2 DEF SameReader
  <2> QED BY <1>5, <2>3 DEF Accounts
<1> QED BY <1>3, <1>4, <1>6, <1>7, <1>8 DEF IInv

\* The account, of an answer that is not of a subscribe request.
LEMMA AccountsOfResync ==
    ASSUME IInv, outbox = None, store.requests # <<>>, SameReader, UNCHANGED answers,
           Subscribing(store.requests) = Subscribing(store'.requests),
           outbox' # None => outbox'.answer.kind # "subscribe"
    PROVE  Accounts'
<1>1. Len(store.connects) = Subscribing(store.requests) + Subscribing(answers) + 0
  BY DEF IInv, Accounts
<1>2. Len(store'.connects) = Subscribing(store'.requests) + Subscribing(answers') + 0
  BY <1>1 DEF SameReader
<1> QED BY <1>2 DEF Accounts

LEMMA ResyncStep ==
    ASSUME BoundsAssumption, IInv, Resync
    PROVE  IInv'
<1> DEFINE request == Head(store.requests)
           owned == sub # None /\ sub.id = request.sub
           resume == ~request.force /\ Resumable(request.base)
           frame == IF resume THEN DeltaFrame(request.sub, "recovery", request.base.seq,
                                              Replay(request.base.seq))
                    ELSE SnapshotFrame(request.sub, "recovery")
           a == Answer("resync", sub.id, IF resume THEN "resume" ELSE "snapshot")
           b == Answer("resync", 0, "notOwned")
<1>1. /\ outbox = None /\ store.requests # <<>> /\ request.kind = "resync" /\ Served
      /\ \/ /\ owned
            /\ sub' = [sub EXCEPT !.buffer = <<>>, !.resyncRequired = FALSE, !.inFlight = frame,
                                  !.sentSeq = IF resume THEN request.base.seq ELSE 0]
            /\ outbox' = [answer |-> a, frame |-> frame]
            /\ timer' = FALSE
         \/ /\ outbox' = [answer |-> b, frame |-> None]
            /\ UNCHANGED <<sub, timer>>
      /\ UNCHANGED <<server, paused, hydrating, serial, wire, answers, served, events, spent,
                     flushFailed>>
  BY DEF Resync, Request
<1>2. /\ Server /\ Steps /\ Subscription
      /\ UNCHANGED <<projection, served, wire, answers, serial>>
  BY <1>1 DEF IInv, server
<1>3. Server' /\ Steps' /\ Stays
  <2>1. /\ serial' \in Nat /\ serial <= serial' /\ {events', spent'} \subseteq Nat
        /\ {timer', paused', hydrating', flushFailed'} \subseteq BOOLEAN
    BY <1>1, <1>2, Counts
  <2> QED BY <1>1, <1>2, <2>1, NothingNewKeepsTheServer
<1>4. /\ Reader(store)' /\ SameReader /\ request \in Requests
      /\ Subscribing(store.requests) = Subscribing(store'.requests)
      /\ request.base # None => MarkServed(request.base)
  <2>1. Subscribing(store.requests) = Subscribing(store'.requests) + 0
        /\ Subscribing(store'.requests) \in Nat
    BY <1>1, <1>3, RequestTaken
  <2> QED BY <1>1, <1>3, <2>1, RequestTaken
<1>5. ASSUME owned,
             sub' = [sub EXCEPT !.buffer = <<>>, !.resyncRequired = FALSE, !.inFlight = frame,
                                !.sentSeq = IF resume THEN request.base.seq ELSE 0],
             outbox' = [answer |-> a, frame |-> frame]
      PROVE  /\ Subscription' /\ OwedIsKept' /\ Wire' /\ Ahead'
             /\ outbox' # None /\ outbox'.answer = a /\ a \in Answers
             /\ a.kind = "resync" /\ a.sub <= serial' /\ a.epoch = projection.epoch
  <2> DEFINE id == sub.id
             from == IF resume THEN request.base.seq ELSE 0
  <2>1. id \in 1 .. serial /\ id \in Nat /\ serial \in Nat /\ sub \in Subs /\ request.sub = id
    BY <1>2, <1>5 DEF Subscription, Server
  <2>2. from \in Nat /\ from <= projection.seq
    <3>1. CASE resume
      <4>1. request.base # None /\ request.base.seq <= projection.seq
        BY <3>1 DEF Resumable
      <4>2. request.base.seq \in Nat
        BY <1>2, <1>4, <4>1 DEF MarkServed, Server, Views
      <4> QED BY <3>1, <4>1, <4>2
    <3>2. CASE ~resume
      BY <1>2, <3>2 DEF Server, Views
    <3> QED BY <3>1, <3>2
  <2>3. Current(frame, id) /\ frame.kind = "recovery"
    <3>1. CASE resume
      <4>1. request.base # None /\ MarkServed(request.base) /\ Resumable(request.base)
        BY <1>4, <3>1 DEF Resumable
      <4>2. frame = DeltaFrame(id, "recovery", request.base.seq, Replay(request.base.seq))
        BY <2>1, <3>1
      <4> QED BY <1>2, <2>1, <4>1, <4>2, ResumedIsCurrent DEF FrameKinds
    <3>2. CASE ~resume
      <4>1. frame = SnapshotFrame(id, "recovery")
        BY <2>1, <3>2
      <4> QED BY <1>2, <2>1, <4>1, SnapshotIsCurrent DEF FrameKinds
    <3> QED BY <3>1, <3>2
  <2>4. frame \in Frames /\ frame # None
    BY <2>3, NoneAssumption DEF Current
  <2>5. sub' = [sub EXCEPT !.buffer = <<>>, !.resyncRequired = FALSE, !.inFlight = frame,
                           !.sentSeq = from]
    BY <1>5
  <2>6. PICK mode : mode = IF resume THEN "resume" ELSE "snapshot"
    OBVIOUS
  <2>7. mode \in {"fault", "notOwned", "resume", "snapshot"} /\ a = Answer("resync", id, mode)
    BY <2>6
  <2> HIDE DEF frame, from, a, resume
  <2>8. Fresh(sub', id, frame)
    <3>1. <<>> \in Seq(Int)
      BY EmptySeq
    <3> DEFINE t == [sub EXCEPT !.buffer = <<>>, !.resyncRequired = FALSE, !.inFlight = frame,
                                !.sentSeq = from]
    <3>2. /\ t \in Subs /\ t.id = id /\ t.buffer = <<>> /\ t.resyncRequired = FALSE
          /\ t.inFlight = frame /\ t.sentSeq = from
      BY <2>1, <2>2, <2>4, <3>1 DEF Subs
    <3> HIDE DEF t
    <3>3. sub' = t
      BY <2>5 DEF t
    <3> QED BY <2>2, <2>3, <2>4, <3>2, <3>3 DEF Fresh
  <2>9. /\ outbox' \in Writings /\ outbox' # None /\ outbox'.frame = frame /\ outbox'.answer = a
        /\ a \in Answers /\ a.kind = "resync" /\ a.sub = id /\ a.epoch = projection.epoch
    <3>1. /\ [answer |-> a, frame |-> frame] \in Writings
          /\ [answer |-> a, frame |-> frame] # None
          /\ a \in Answers /\ a.kind = "resync" /\ a.sub = id /\ a.epoch = projection.epoch
      BY <1>2, <2>1, <2>4, <2>7, WrittenOutbox
    <3> QED BY <1>5, <3>1
  <2>10. Subscription' /\ OwedIsKept' /\ Wire' /\ Ahead'
    <3>1. \A g : Sent(g) => g.sub <= id
      BY <1>5 DEF Sent
    <3>2. id \in 1 .. serial'
      BY <1>2, <2>1
    <3>3. PICK n : n = id
      OBVIOUS
    <3>4. n \in 1 .. serial' /\ Fresh(sub', n, frame) /\ \A g : Sent(g) => g.sub <= n
      BY <2>8, <3>1, <3>2, <3>3
    <3>5. PICK f : f = frame
      OBVIOUS
    <3>6. Fresh(sub', n, f) /\ outbox'.frame = f
      BY <2>9, <3>4, <3>5
    <3> QED BY <1>2, <1>3, <1>4, <2>9, <3>4, <3>6, FreshSubscription
  <2>11. a.sub <= serial'
    BY <1>2, <2>1, <2>9
  <2> QED BY <2>9, <2>10, <2>11
<1>6. ASSUME outbox' = [answer |-> b, frame |-> None], UNCHANGED sub
      PROVE  /\ Subscription' /\ OwedIsKept' /\ Wire' /\ Ahead'
             /\ outbox' # None /\ outbox'.answer = b /\ b \in Answers
             /\ b.kind = "resync" /\ b.sub <= serial' /\ b.epoch = projection.epoch
  <2>1. /\ [answer |-> b, frame |-> None] \in Writings /\ [answer |-> b, frame |-> None] # None
        /\ b \in Answers /\ b.kind = "resync" /\ b.sub = 0 /\ b.epoch = projection.epoch
    BY <1>2, WrittenOutbox
  <2>2. outbox' \in Writings /\ outbox' # None /\ outbox'.frame = None /\ outbox'.answer = b
    BY <1>6, <2>1
  <2>3. Subscription' /\ OwedIsKept' /\ Wire' /\ Ahead'
    BY <1>2, <1>3, <1>4, <1>6, <2>2, SubscriptionAlone
  <2>4. b.sub <= serial'
    BY <1>2, <2>1, Counts
  <2> QED BY <2>1, <2>2, <2>3, <2>4
<1>7. /\ Subscription' /\ OwedIsKept' /\ Wire' /\ Ahead'
      /\ \E c \in Answers : /\ outbox' # None /\ outbox'.answer = c /\ c.kind = "resync"
                            /\ c.sub <= serial' /\ c.epoch = projection.epoch
  <2> HIDE DEF a, b, owned, frame, resume, request
  <2> QED BY <1>1, <1>5, <1>6
<1>8. News'
  <2>1. PICK c \in Answers : /\ outbox' # None /\ outbox'.answer = c /\ c.kind = "resync"
                             /\ c.sub <= serial' /\ c.epoch = projection.epoch
    BY <1>7
  <2>2. ~IsNews(c) /\ store'.subId = store.subId
    BY <1>4, <2>1 DEF SameReader, IsNews
  <2> QED BY <1>1, <1>2, <1>3, <2>1, <2>2, NewsAsked
<1>9. Accounts'
  BY <1>1, <1>2, <1>4, <1>7, AccountsOfResync
<1> QED BY <1>3, <1>4, <1>7, <1>8, <1>9 DEF IInv

LEMMA ResyncFailsStep ==
    ASSUME BoundsAssumption, IInv, ResyncFails
    PROVE  IInv'
<1> DEFINE a == Answer("resync", 0, "fault")
<1>1. /\ outbox = None /\ store.requests # <<>> /\ Head(store.requests).kind = "resync" /\ Served
      /\ sub # None /\ spent' = spent + 1 /\ timer' = ~paused
      /\ sub' = IF sub.resyncRequired THEN [sub EXCEPT !.buffer = <<>>] ELSE sub
      /\ outbox' = [answer |-> a, frame |-> None]
      /\ UNCHANGED <<server, paused, hydrating, serial, wire, answers, served, events, flushFailed>>
  BY DEF ResyncFails, Request, Disturb
<1> HIDE DEF a
<1>2. /\ Server /\ Steps /\ Subscription
      /\ UNCHANGED <<projection, served, wire, answers, serial>>
  BY <1>1 DEF IInv, server
<1>3. Server' /\ Steps' /\ Stays
  <2>1. /\ serial' \in Nat /\ serial <= serial' /\ {events', spent'} \subseteq Nat
        /\ {timer', paused', hydrating', flushFailed'} \subseteq BOOLEAN
    BY <1>1, <1>2, Counts
  <2> QED BY <1>1, <1>2, <2>1, NothingNewKeepsTheServer
<1>4. /\ Reader(store)' /\ SameReader
      /\ Subscribing(store.requests) = Subscribing(store'.requests)
  <2>1. Subscribing(store.requests) = Subscribing(store'.requests) + 0
        /\ Subscribing(store'.requests) \in Nat
    BY <1>1, <1>3, RequestTaken
  <2> QED BY <1>1, <1>3, <2>1, RequestTaken
<1>5. /\ outbox' \in Writings /\ outbox' # None /\ outbox'.frame = None /\ outbox'.answer = a
      /\ a \in Answers /\ a.kind = "resync" /\ a.sub = 0 /\ a.epoch = projection.epoch
  <2>1. /\ [answer |-> a, frame |-> None] \in Writings /\ [answer |-> a, frame |-> None] # None
        /\ a \in Answers /\ a.kind = "resync" /\ a.sub = 0 /\ a.epoch = projection.epoch
    BY <1>2, WrittenOutbox DEF a
  <2> QED BY <1>1, <2>1
<1>6. sub' = sub
  <2>1. CASE sub.resyncRequired
    <3>1. sub.buffer = <<>> /\ sub \in Subs
      BY <1>1, <1>2, <2>1 DEF Subscription
    <3>2. [sub EXCEPT !.buffer = <<>>] = sub
      BY <3>1 DEF Subs
    <3> QED BY <1>1, <2>1, <3>2
  <2> QED BY <1>1, <2>1
<1>7. Subscription' /\ OwedIsKept' /\ Wire' /\ Ahead'
  BY <1>2, <1>3, <1>4, <1>5, <1>6, SubscriptionAlone
<1>8. News'
  <2>1. a.sub <= serial' /\ ~IsNews(a) /\ store'.subId = store.subId
    BY <1>2, <1>4, <1>5, Counts DEF SameReader, IsNews
  <2> QED BY <1>1, <1>2, <1>3, <1>5, <2>1, NewsAsked
<1>9. Accounts'
  BY <1>1, <1>2, <1>4, <1>5, AccountsOfResync
<1> QED BY <1>3, <1>4, <1>7, <1>8, <1>9 DEF IInv

LEMMA UnsubscribeStep ==
    ASSUME BoundsAssumption, IInv, Unsubscribe
    PROVE  IInv'
<1>1. /\ outbox = None /\ store.requests # <<>> /\ Head(store.requests).kind = "unsubscribe"
      /\ Served /\ ((sub' = None /\ timer' = FALSE) \/ UNCHANGED <<sub, timer>>)
      /\ UNCHANGED <<server, paused, hydrating, outbox, serial, wire, answers, served, events,
                     spent, flushFailed>>
  BY DEF Unsubscribe, Request
<1>2. /\ Server /\ Steps /\ Subscription
      /\ UNCHANGED <<projection, served, wire, answers, serial>>
  BY <1>1 DEF IInv, server
<1>3. Server' /\ Steps' /\ Stays
  <2>1. /\ serial' \in Nat /\ serial <= serial' /\ {events', spent'} \subseteq Nat
        /\ {timer', paused', hydrating', flushFailed'} \subseteq BOOLEAN
    BY <1>1, <1>2, Counts
  <2> QED BY <1>1, <1>2, <2>1, NothingNewKeepsTheServer
<1>4. /\ Reader(store)' /\ SameReader
      /\ Subscribing(store.requests) = Subscribing(store'.requests)
  <2>1. Subscribing(store.requests) = Subscribing(store'.requests) + 0
        /\ Subscribing(store'.requests) \in Nat
    BY <1>1, <1>3, RequestTaken
  <2> QED BY <1>1, <1>3, <2>1, RequestTaken
<1>5. outbox' = None
  BY <1>1
<1>6. Subscription' /\ OwedIsKept' /\ Wire' /\ Ahead'
  <2>1. CASE sub' = None
    <3>1. Wire' /\ Ahead'
      BY <1>1, <1>3, <1>4, <2>1, WireKept
    <3>2. Subscription' /\ OwedIsKept'
      BY <1>5, <2>1 DEF Subscription, OwedIsKept
    <3> QED BY <3>1, <3>2
  <2>2. CASE UNCHANGED sub
    BY <1>2, <1>3, <1>4, <1>5, <2>2, SubscriptionAlone
  <2> QED BY <1>1, <2>1, <2>2
<1>7. News'
  <2>1. UNCHANGED <<answers, outbox>> /\ store'.subId = store.subId
    BY <1>1, <1>4 DEF SameReader
  <2> QED BY <1>3, <2>1, NewsKept
<1>8. Accounts'
  BY <1>1, <1>2, <1>4, <1>5, AccountsOfResync
<1> QED BY <1>3, <1>4, <1>6, <1>7, <1>8 DEF IInv

\* What is owed once the frame in flight is committed.
LEMMA CommittedOwes ==
    ASSUME IInv, sub # None, NEW f, f = sub.inFlight, f # None,
           NEW c, c = Committed(sub, f)
    PROVE  /\ c \in Subs /\ c.id = sub.id /\ c.inFlight = None
           /\ c.sentSeq <= projection.seq /\ c.buffer = sub.buffer
           /\ c.resyncRequired => c.buffer = <<>>
           /\ ~c.resyncRequired => \E v \in served :
                 /\ v.epoch = projection.epoch /\ v.seq = c.sentSeq
                 /\ v.rows \o c.buffer = projection.rows
<1>1. /\ Server /\ Subscription /\ OwedIsKept /\ sub \in Subs
      /\ Sound(f) /\ f \in Frames /\ f.sub = sub.id
      /\ f.snapshot /\ f.kind = "online" => sub.resyncRequired
      /\ sub.resyncRequired => sub.buffer = <<>>
  BY DEF IInv, Subscription, Sound
<1>2. /\ c \in Subs /\ c.id = sub.id /\ c.buffer = sub.buffer
      /\ c.sentSeq = f.toSeq /\ c.inFlight = None
      /\ c.resyncRequired = IF f.snapshot /\ f.kind = "online"
                            THEN projection.seq > f.toSeq ELSE sub.resyncRequired
  BY <1>1, CommittedSub
<1>3. /\ f.toSeq <= projection.seq /\ f.toSeq \in Nat /\ projection.seq \in Nat
      /\ projection \in served /\ projection.rows \in Seq(Int)
  BY <1>1 DEF Sound, Frames, Server, Views
<1>4. ASSUME ~c.resyncRequired
      PROVE  \E v \in served : /\ v.epoch = projection.epoch /\ v.seq = c.sentSeq
                               /\ v.rows \o c.buffer = projection.rows
  <2>1. CASE f.snapshot /\ f.kind = "online"
    <3>1. ~(projection.seq > f.toSeq)
      BY <1>2, <1>4, <2>1
    <3>2. c.sentSeq = projection.seq
      BY ONLY <1>2, <1>3, <3>1
    <3>3. projection.rows \o <<>> = projection.rows
      BY <1>3, ConcatEmptySeq
    <3> QED BY <1>1, <1>2, <1>3, <2>1, <3>2, <3>3
  <2>2. CASE ~(f.snapshot /\ f.kind = "online")
    BY <1>1, <1>2, <1>4, <2>2 DEF OwedIsKept
  <2> QED BY <2>1, <2>2
<1> QED BY <1>1, <1>2, <1>3, <1>4

LEMMA RespondStep ==
    ASSUME BoundsAssumption, IInv, Respond
    PROVE  IInv'
<1> DEFINE f == outbox.frame
           a == outbox.answer
<1>1. /\ outbox # None /\ answers' = Append(answers, a)
      /\ wire' = (IF f = None THEN wire ELSE Append(wire, f))
      /\ sub' = Committed(sub, f) /\ timer' = (timer \/ FlushDue(f)) /\ outbox' = None
      /\ UNCHANGED <<server, paused, hydrating, serial, store, served, events, spent, flushFailed>>
  BY DEF Respond
<1>2. /\ Server /\ Steps /\ Subscription /\ News
      /\ UNCHANGED <<projection, served, serial>>
  BY <1>1 DEF IInv, server
<1>3. Server' /\ Steps' /\ Stays
  <2>1. timer' \in BOOLEAN
    BY <1>1, <1>2, Counts DEF FlushDue
  <2>2. /\ serial' \in Nat /\ serial <= serial' /\ {events', spent'} \subseteq Nat
        /\ {timer', paused', hydrating', flushFailed'} \subseteq BOOLEAN
    BY <1>1, <1>2, <2>1, Counts
  <2> QED BY <1>1, <1>2, <2>2, NothingNewKeepsTheServer
<1>4. SameReader
  BY <1>1 DEF SameReader
<1>5. a \in Answers /\ GoodAnswer(a)
  BY <1>1, <1>2 DEF Subscription, Writings, News
<1>6. Subscription' /\ OwedIsKept' /\ Wire' /\ Ahead'
  <2>1. CASE f = None
    <3>1. sub' = sub /\ wire' = wire
      BY <1>1, <2>1 DEF Committed, Holds
    <3> QED BY <1>1, <1>2, <1>3, <1>4, <3>1, SubscriptionAlone
  <2>2. CASE f # None
    <3>1. PICK g : g = f
      OBVIOUS
    <3>2. sub # None /\ g = sub.inFlight /\ g # None /\ sub' = Committed(sub, g)
          /\ wire' = Append(wire, g)
      BY <1>1, <1>2, <2>2, <3>1 DEF Subscription
    <3>3. PICK c : c = Committed(sub, g)
      OBVIOUS
    <3>4. /\ c \in Subs /\ c.id = sub.id /\ c.inFlight = None
          /\ c.sentSeq <= projection.seq /\ c.buffer = sub.buffer
          /\ c.resyncRequired => c.buffer = <<>>
          /\ ~c.resyncRequired => \E v \in served :
                /\ v.epoch = projection.epoch /\ v.seq = c.sentSeq
                /\ v.rows \o c.buffer = projection.rows
      BY <3>2, <3>3, CommittedOwes
    <3>5. sub' = c /\ c # None
      BY <3>2, <3>3, <3>4, NobodyAssumption
    <3>6. /\ Sound(g) /\ g.sub = sub.id /\ Len(sub.buffer) <= BufferMax /\ sub.id \in 1 .. serial
          /\ \A h : Sent(h) => h.sub <= sub.id
      BY <1>2, <3>2 DEF Subscription, Sent
    <3>7. Foremost(g)
      BY <3>2, InFlightIsForemost
    <3>8. Wire' /\ Ahead'
      <4>1. g.sub <= sub'.id
        BY <1>2, <3>4, <3>5, <3>6 DEF Server
      <4>2. \A h : Sent(h) => h.sub <= sub'.id
        BY <3>4, <3>5, <3>6
      <4> QED BY <1>3, <1>4, <3>2, <3>4, <3>5, <3>6, <3>7, <4>1, <4>2, WireExtended
    <3>9. Subscription'
      BY <1>1, <1>2, <3>4, <3>5, <3>6 DEF Subscription
    <3>10. OwedIsKept'
      BY <1>2, <3>4, <3>5 DEF OwedIsKept
    <3> QED BY <3>8, <3>9, <3>10
  <2> QED BY <2>1, <2>2
<1>7. /\ answers \in Seq(Answers) /\ answers' \in Seq(Answers)
      /\ DOMAIN answers = 1 .. Len(answers) /\ Len(answers) \in Nat
      /\ DOMAIN answers' = 1 .. (Len(answers) + 1)
      /\ \A i \in 1 .. Len(answers) : answers'[i] = answers[i]
      /\ answers'[Len(answers) + 1] = a
  <2>1. answers \in Seq(Answers)
    BY <1>2 DEF News
  <2> QED BY <1>1, <1>5, <2>1, AppendProperties, LenProperties
<1>8. News'
  <2>1. ASSUME NEW i \in DOMAIN answers'
        PROVE  \/ i \in DOMAIN answers /\ answers'[i] = answers[i]
               \/ i = Len(answers) + 1 /\ answers'[i] = a
    BY <1>7
  <2>2. ASSUME NEW i \in DOMAIN answers'
        PROVE  /\ GoodAnswer(answers'[i])
               /\ IsNews(answers'[i]) => store.subId < answers'[i].sub
    BY <1>1, <1>2, <1>5, <2>1 DEF News
  <2>3. ASSUME NEW i \in DOMAIN answers', NEW j \in DOMAIN answers', i < j,
               IsNews(answers'[i]), IsNews(answers'[j])
        PROVE  answers'[i].sub < answers'[j].sub
    <3>1. i \in DOMAIN answers /\ answers'[i] = answers[i]
      BY <1>7, <2>1, <2>3
    <3>2. CASE j \in DOMAIN answers /\ answers'[j] = answers[j]
      BY <1>2, <2>3, <3>1, <3>2 DEF News
    <3>3. CASE answers'[j] = a
      BY <1>1, <1>2, <2>3, <3>1, <3>3 DEF News
    <3> QED BY <2>1, <3>2, <3>3
  <2> QED BY <1>1, <1>2, <1>7, <2>2, <2>3 DEF News, GoodAnswer
<1>9. Accounts'
  <2>1. Subscribing(answers') = Subscribing(answers) + (IF a.kind = "subscribe" THEN 1 ELSE 0)
    BY <1>1, <1>5, <1>7, CountAppend
  <2>2. Subscribing(answers) \in Nat /\ Subscribing(store.requests) \in Nat
    <3>1. store.requests \in Seq(Requests)
      BY DEF IInv, Reader, Typed
    <3> QED BY <1>7, <3>1, CountFinite
  <2>3. Len(store.connects) = Subscribing(store.requests) + Subscribing(answers)
                                + (IF a.kind = "subscribe" THEN 1 ELSE 0)
    BY <1>1 DEF IInv, Accounts
  <2>4. Len(store'.connects) = Subscribing(store'.requests) + Subscribing(answers') + 0
    BY <1>1, <2>1, <2>2, <2>3
  <2> QED BY <1>1, <2>4 DEF Accounts
<1>10. Reader(store)'
  <2>1. PICK s : s = store
    OBVIOUS
  <2>2. Reader(s)'
    BY <1>3, <2>1, ReaderStays DEF IInv
  <2> QED BY <1>1, <2>1, <2>2 DEF Reader
<1> QED BY <1>3, <1>6, <1>8, <1>9, <1>10 DEF IInv

-----------------------------------------------------------------------------
(* The reader's steps.  The frames that wait, wherever they do.            *)

Waiting(g) == \E i \in DOMAIN store.connects : \E j \in DOMAIN Staged(i) : Staged(i)[j] = g

LEMMA WaitingFrames ==
    ASSUME Ahead, NEW g, Waiting(g)
    PROVE  /\ Sent(g) /\ (g.sub > store.subId => UpTo(g))
           /\ \A k \in DOMAIN wire : Before(g, wire[k])
           /\ \A h : Waiting(h) /\ g.sub < h.sub => g.toSeq <= h.toSeq
BY DEF Ahead, Waiting

LEMMA AheadAgain ==
    ASSUME \A g : (\E k \in DOMAIN wire' : g = wire'[k]) => UpTo(g)',
           \A g : sub' # None /\ sub'.inFlight # None /\ g = sub'.inFlight => UpTo(g)',
           \A g : Waiting(g)' =>
              /\ Sent(g)' /\ (g.sub > store'.subId => UpTo(g)')
              /\ \A k \in DOMAIN wire' : Before(g, wire'[k])
              /\ \A h : Waiting(h)' /\ g.sub < h.sub => g.toSeq <= h.toSeq
    PROVE  Ahead'
<1>1. ASSUME NEW k \in DOMAIN wire' PROVE UpTo(wire[k])'
  <2>1. PICK g : g = wire'[k]
    OBVIOUS
  <2>2. UpTo(g)'
    BY <2>1
  <2> QED BY <2>1, <2>2 DEF UpTo
<1>2. ASSUME sub' # None, sub'.inFlight # None PROVE UpTo(sub.inFlight)'
  <2>1. PICK g : g = sub'.inFlight
    OBVIOUS
  <2>2. UpTo(g)'
    BY <1>2, <2>1
  <2> QED BY <2>1, <2>2 DEF UpTo
<1>3. ASSUME NEW i \in DOMAIN store'.connects, NEW j \in DOMAIN (Staged(i)')
      PROVE  /\ Sent(Staged(i)[j])'
             /\ (Staged(i)[j].sub > store.subId => UpTo(Staged(i)[j]))'
             /\ (\A k \in DOMAIN wire : Before(Staged(i)[j], wire[k]))'
             /\ (\A h \in DOMAIN store.connects : \A k \in DOMAIN Staged(h) :
                   Staged(i)[j].sub < Staged(h)[k].sub => Staged(i)[j].toSeq <= Staged(h)[k].toSeq)'
  <2>1. PICK g : g = Staged(i)'[j]
    OBVIOUS
  <2>2. Waiting(g)'
    BY <2>1 DEF Waiting
  <2>3. /\ Sent(g)' /\ (g.sub > store'.subId => UpTo(g)')
        /\ \A k \in DOMAIN wire' : Before(g, wire'[k])
        /\ \A h : Waiting(h)' /\ g.sub < h.sub => g.toSeq <= h.toSeq
    BY <2>2
  <2>4. ASSUME NEW h \in DOMAIN store'.connects, NEW k \in DOMAIN (Staged(h)'),
               g.sub < Staged(h)'[k].sub
        PROVE  g.toSeq <= Staged(h)'[k].toSeq
    <3>1. PICK e : e = Staged(h)'[k]
      OBVIOUS
    <3>2. Waiting(e)'
      BY <3>1 DEF Waiting
    <3> QED BY <2>3, <2>4, <3>1, <3>2
  <2>5. (\A k \in DOMAIN wire : Before(Staged(i)[j], wire[k]))'
    BY <2>1, <2>3 DEF Before
  <2>6. (Staged(i)[j].sub > store.subId => UpTo(Staged(i)[j]))'
    BY <2>1, <2>3 DEF UpTo
  <2>7. Sent(Staged(i)[j])'
    BY <2>1, <2>3
  <2> QED BY <2>1, <2>4, <2>5, <2>6, <2>7
<1> QED BY <1>1, <1>2, <1>3 DEF Ahead

\* What a step of the reader leaves alone.
ReaderMoves ==
    /\ UNCHANGED <<server, gateway, served, events, flushFailed>>
    /\ spent' = spent \/ spent' = spent + 1

LEMMA ReaderMovesServer ==
    ASSUME IInv, ReaderMoves
    PROVE  /\ Server' /\ Steps' /\ Stays /\ Subscription' /\ OwedIsKept'
           /\ UNCHANGED <<projection, served, sub, outbox, serial>>
           /\ \A g : Sent(g) => Sent(g)'
<1>1. /\ UNCHANGED <<server, served, timer, paused, hydrating, serial, events, flushFailed>>
      /\ UNCHANGED <<projection, sub, outbox>> /\ spent' \in {spent, spent + 1}
  BY DEF ReaderMoves, server, gateway
<1>2. Server /\ Steps
  BY DEF IInv
<1>3. Server' /\ Steps' /\ Stays
  <2>1. /\ serial' \in Nat /\ serial <= serial' /\ {events', spent'} \subseteq Nat
        /\ {timer', paused', hydrating', flushFailed'} \subseteq BOOLEAN
    BY <1>1, <1>2, Counts
  <2> QED BY <1>1, <1>2, <2>1, NothingNewKeepsTheServer
<1>4. Subscription' /\ OwedIsKept'
  BY <1>1, <1>3, SubscriptionKept
<1>5. ASSUME NEW g, Sent(g) PROVE Sent(g)'
  <2>1. Sound(g)'
    BY <1>2, <1>3, <1>5, SoundStays DEF Sent
  <2> QED BY <1>1, <1>5, <2>1 DEF Sent
<1> QED BY <1>1, <1>3, <1>4, <1>5

LEMMA ReaderArrives ==
    ASSUME Server, Server', Stays, NEW t, t = store', Reader(t)
    PROVE  Reader(store)'
<1>1. Reader(t)'
  BY ReaderStays
<1> QED BY <1>1 DEF Reader

LEMMA DueIsCounted ==
    ASSUME NEW s, Reader(s)
    PROVE  /\ Len(s.connects) \in Nat /\ Subscribing(s.requests) \in Nat
           /\ Due(s) \in Int /\ Len(s.connects) = Subscribing(s.requests) + Due(s)
<1>1. s.connects \in Seq(Connects) /\ s.requests \in Seq(Requests)
  BY DEF Reader, Typed
<1>2. Len(s.connects) \in Nat /\ Subscribing(s.requests) \in Nat
  BY <1>1, LenProperties, CountFinite
<1> QED BY <1>2 DEF Due

\* What the requests of the reader and the answers due to it add up to.
LEMMA AccountsOfTheReader ==
    ASSUME IInv, Reader(store'), Due(store') = Due(store), UNCHANGED <<answers, outbox>>
    PROVE  Accounts'
<1>1. Len(store.connects) - Subscribing(store.requests)
         = Len(store'.connects) - Subscribing(store'.requests)
  BY DEF Due
<1>2. /\ Len(store.connects) \in Nat /\ Len(store'.connects) \in Nat
      /\ Subscribing(store.requests) \in Nat /\ Subscribing(store'.requests) \in Nat
  BY DueIsCounted DEF IInv
<1>3. Subscribing(answers) \in Nat
  BY CountFinite DEF IInv, News
<1> DEFINE due == IF outbox # None /\ outbox.answer.kind = "subscribe" THEN 1 ELSE 0
<1>4. due \in Nat
  OBVIOUS
<1>5. Len(store.connects) = Subscribing(store.requests) + Subscribing(answers) + due
  BY DEF IInv, Accounts
<1> HIDE DEF due
<1>6. Len(store'.connects) = Subscribing(store'.requests) + Subscribing(answers) + due
  <2>1. PICK c, d, q, r, w, e :
           /\ c = Len(store.connects) /\ d = Len(store'.connects)
           /\ q = Subscribing(store.requests) /\ r = Subscribing(store'.requests)
           /\ w = Subscribing(answers) /\ e = due
    OBVIOUS
  <2>2. c \in Nat /\ d \in Nat /\ q \in Nat /\ r \in Nat /\ w \in Nat /\ e \in Nat
    BY ONLY <1>2, <1>3, <1>4, <2>1
  <2>3. c - q = d - r
    BY ONLY <1>1, <2>1
  <2>4. c = q + w + e
    BY ONLY <1>5, <2>1
  <2>5. d = r + w + e
    BY ONLY <2>2, <2>3, <2>4
  <2> QED BY ONLY <2>1, <2>5
<1>7. due' = due /\ Subscribing(answers') = Subscribing(answers)
  BY DEF due
<1> QED BY <1>6, <1>7 DEF Accounts, due

\* The reader asks, or gives up, and shows what it showed.
LEMMA QuietMove ==
    ASSUME IInv, ReaderMoves, UNCHANGED wire, NEW t, t = store', Quiet(store, t), News', Accounts'
    PROVE  IInv'
<1>1. /\ Server' /\ Steps' /\ Stays /\ Subscription' /\ OwedIsKept'
      /\ UNCHANGED <<projection, served, sub, outbox, serial>>
      /\ \A g : Sent(g) => Sent(g)'
  BY ReaderMovesServer
<1>2. /\ Server /\ Wire /\ Ahead /\ Reader(store) /\ Reader(t) /\ t.view = store.view
      /\ t.subId = store.subId /\ Due(t) = Due(store)
      /\ \A i \in DOMAIN t.connects :
            \/ t.connects[i].staged = <<>>
            \/ i \in DOMAIN store.connects /\ t.connects[i].staged = store.connects[i].staged
  BY DEF IInv, Quiet, Keeps
<1>3. Reader(store)'
  BY <1>1, <1>2, ReaderArrives
<1>4. Wire'
  <2>1. ASSUME NEW i \in DOMAIN wire PROVE Sent(wire[i])'
    <3>1. PICK g : g = wire[i]
      OBVIOUS
    <3>2. Sent(g)'
      BY <1>1, <1>2, <3>1 DEF Wire
    <3> QED BY <3>1, <3>2
  <2> QED BY <1>2, <2>1 DEF Wire, Before
<1>5. \A g : UpTo(g) => UpTo(g)'
  BY <1>1, <1>2 DEF UpTo
<1>6. \A g : Waiting(g)' => Waiting(g)
  <2>1. ASSUME NEW g, Waiting(g)' PROVE Waiting(g)
    <3>1. PICK i \in DOMAIN t.connects : \E j \in DOMAIN t.connects[i].staged :
             t.connects[i].staged[j] = g
      BY <2>1 DEF Waiting, Staged
    <3>2. t.connects[i].staged # <<>>
      BY <3>1
    <3> QED BY <1>2, <3>1, <3>2 DEF Waiting, Staged
  <2> QED BY <2>1
<1>7. Ahead'
  <2>1. \A g : (\E k \in DOMAIN wire' : g = wire'[k]) => UpTo(g)'
    BY <1>2, <1>5 DEF Ahead
  <2>2. \A g : sub' # None /\ sub'.inFlight # None /\ g = sub'.inFlight => UpTo(g)'
    BY <1>1, <1>2, <1>5 DEF Ahead
  <2>3. ASSUME NEW g, Waiting(g)'
        PROVE  /\ Sent(g)' /\ (g.sub > store'.subId => UpTo(g)')
               /\ \A k \in DOMAIN wire' : Before(g, wire'[k])
               /\ \A h : Waiting(h)' /\ g.sub < h.sub => g.toSeq <= h.toSeq
    <3>1. Waiting(g)
      BY <1>6, <2>3
    <3>2. /\ Sent(g) /\ (g.sub > store.subId => UpTo(g))
          /\ \A k \in DOMAIN wire : Before(g, wire[k])
          /\ \A h : Waiting(h) /\ g.sub < h.sub => g.toSeq <= h.toSeq
      BY <1>2, <3>1, WaitingFrames
    <3> QED BY <1>1, <1>2, <1>5, <1>6, <3>2
  <2> QED BY <2>1, <2>2, <2>3, AheadAgain
<1> QED BY <1>1, <1>3, <1>4, <1>7 DEF IInv

LEMMA QuietStep ==
    ASSUME IInv, ReaderMoves, UNCHANGED <<wire, answers>>, NEW t, t = store', Quiet(store, t)
    PROVE  IInv'
<1>1. /\ Stays /\ UNCHANGED <<answers, outbox>> /\ store'.subId = store.subId
      /\ Reader(store') /\ Due(store') = Due(store)
  BY ReaderMovesServer DEF Quiet, Keeps
<1>2. News' /\ Accounts'
  BY <1>1, NewsKept, AccountsOfTheReader
<1> QED BY <1>2, QuietMove

\* A step of the reader that took frames off the wire or answers.
LEMMA UpToKept ==
    ASSUME IInv, Server', Stays, UNCHANGED projection, NEW f, Sound(f), UpTo(f), NEW e, Sound(e),
           store'.view = store.view \/ (Shows(store', e) /\ e.toSeq <= f.toSeq)
    PROVE  UpTo(f)'
BY DEF UpTo, Shows

LEMMA TakeFrameStep ==
    ASSUME IInv, TakeFrame
    PROVE  IInv'
<1>1. PICK f, t : f = Head(wire) /\ t = store'
  OBVIOUS
<1>2. /\ Server /\ Wire /\ Ahead /\ Reader(store) /\ wire \in Seq(Frames) /\ wire # <<>>
      /\ t = AcceptFrame(store, f) /\ wire' = Tail(wire)
      /\ ReaderMoves /\ UNCHANGED <<answers, outbox>>
  BY <1>1 DEF IInv, TakeFrame, Wire, ReaderMoves, gateway
<1>3. /\ wire' \in Seq(Frames) /\ f = wire[1] /\ 1 \in DOMAIN wire
      /\ \A k \in DOMAIN wire' : k + 1 \in DOMAIN wire /\ wire'[k] = wire[k + 1] /\ 1 < k + 1
      /\ \A i, j \in DOMAIN wire' : i < j => i + 1 < j + 1
  <2>1. /\ Head(wire) = wire[1] /\ Tail(wire) \in Seq(Frames) /\ Len(Tail(wire)) = Len(wire) - 1
        /\ \A i \in 1 .. Len(Tail(wire)) : Tail(wire)[i] = wire[i + 1]
    BY <1>2, HeadTailProperties
  <2>2. /\ DOMAIN wire = 1 .. Len(wire) /\ DOMAIN Tail(wire) = 1 .. Len(Tail(wire))
        /\ Len(wire) \in Nat /\ Len(wire) # 0
    BY <1>2, <2>1, LenProperties, EmptySeq
  <2> QED BY <1>1, <1>2, <2>1, <2>2
<1>4. /\ Sent(f) /\ UpTo(f) /\ Sound(f)
      /\ \A k \in DOMAIN wire' : Before(f, wire'[k]) /\ Sent(wire'[k]) /\ UpTo(wire'[k])
      /\ \A g : Waiting(g) => Before(g, f) /\ \A k \in DOMAIN wire' : Before(g, wire'[k])
  <2>1. \A k \in DOMAIN wire : Sent(wire[k]) /\ UpTo(wire[k])
    BY <1>2 DEF Wire, Ahead
  <2>2. \A k \in DOMAIN wire' : Before(f, wire'[k]) /\ Sent(wire'[k]) /\ UpTo(wire'[k])
    BY <1>2, <1>3, <2>1 DEF Wire
  <2>3. \A g : Waiting(g) => \A k \in DOMAIN wire : Before(g, wire[k])
    BY <1>2, WaitingFrames
  <2> QED BY <1>3, <2>1, <2>2, <2>3 DEF Sent
<1>5. /\ Server' /\ Steps' /\ Stays /\ Subscription' /\ OwedIsKept'
      /\ UNCHANGED <<projection, served, sub, outbox, serial>>
      /\ \A g : Sent(g) => Sent(g)'
  BY <1>2, ReaderMovesServer
<1>6. \/ f.sub = store.subId /\ Took(store, t, f)
      \/ f.sub # store.subId /\ Waits(store, t, f)
  BY <1>2, <1>4, AcceptTakes
<1>7. Reader(t) /\ t.subId = store.subId /\ Due(t) = Due(store)
  BY <1>6 DEF Took, Keeps, Waits
<1>8. Reader(store)'
  BY <1>1, <1>2, <1>5, <1>7, ReaderArrives
<1>9. Wire'
  <2>1. ASSUME NEW k \in DOMAIN wire' PROVE Sent(wire[k])'
    <3>1. PICK g : g = wire'[k]
      OBVIOUS
    <3>2. Sent(g)'
      BY <1>4, <1>5, <3>1
    <3> QED BY <3>1, <3>2
  <2>2. \A i, j \in DOMAIN wire' : i < j => Before(wire'[i], wire'[j])
    BY <1>2, <1>3 DEF Wire
  <2> QED BY <1>3, <2>1, <2>2 DEF Wire, Before
<1>10. News'
  BY <1>1, <1>2, <1>5, <1>7, NewsKept
<1>11. Accounts'
  BY <1>1, <1>2, <1>7, AccountsOfTheReader
<1>12. Ahead'
  <2>1. CASE f.sub = store.subId /\ Took(store, t, f)
    <3>1. t.view = store.view \/ Shows(t, f)
      BY <2>1 DEF Took
    <3>2. ASSUME NEW g, Sound(g), UpTo(g), f.toSeq <= g.toSeq PROVE UpTo(g)'
      BY <1>1, <1>4, <1>5, <3>1, <3>2, UpToKept
    <3>3. \A g : Waiting(g)' => Waiting(g)
      <4>1. ASSUME NEW g, Waiting(g)' PROVE Waiting(g)
        <5>1. PICK i \in DOMAIN t.connects : \E j \in DOMAIN t.connects[i].staged :
                 t.connects[i].staged[j] = g
          BY <1>1, <4>1 DEF Waiting, Staged
        <5>2. t.connects[i].staged # <<>>
          BY <5>1
        <5>3. i \in DOMAIN store.connects /\ t.connects[i].staged = store.connects[i].staged
          BY <2>1, <5>2 DEF Took, Keeps
        <5> QED BY <5>1, <5>3 DEF Waiting, Staged
      <4> QED BY <4>1
    <3>4. \A g : (\E k \in DOMAIN wire' : g = wire'[k]) => UpTo(g)'
      BY <1>4, <3>2 DEF Sent, Before
    <3>5. \A g : sub' # None /\ sub'.inFlight # None /\ g = sub'.inFlight => UpTo(g)'
      BY <1>2, <1>4, <1>5, <3>2 DEF Ahead, Sent, IInv, Subscription
    <3>6. ASSUME NEW g, Waiting(g)'
          PROVE  /\ Sent(g)' /\ (g.sub > store'.subId => UpTo(g)')
                 /\ \A k \in DOMAIN wire' : Before(g, wire'[k])
                 /\ \A h : Waiting(h)' /\ g.sub < h.sub => g.toSeq <= h.toSeq
      <4>1. Waiting(g)
        BY <3>3, <3>6
      <4>2. /\ Sent(g) /\ \A h : Waiting(h) /\ g.sub < h.sub => g.toSeq <= h.toSeq
        BY <1>2, <4>1, WaitingFrames
      <4>3. g.sub <= f.sub /\ g.sub \in Nat /\ store'.subId = f.sub /\ store'.subId \in Nat
        BY <1>1, <1>2, <1>4, <1>7, <2>1, <4>1, <4>2, SentIsRanked DEF Before, Reader, Typed
      <4>4. ~(g.sub > store'.subId)
        BY <4>3
      <4> QED BY <1>4, <1>5, <3>3, <4>1, <4>2, <4>4
    <3> QED BY <3>4, <3>5, <3>6, AheadAgain
  <2>2. CASE f.sub # store.subId /\ Waits(store, t, f)
    <3>1. t.view = store.view
      BY <2>2 DEF Waits
    <3>2. \A g : UpTo(g) => UpTo(g)'
      BY <1>1, <1>5, <3>1 DEF UpTo
    <3>3. \A g : Waiting(g)' => Waiting(g) \/ g = f
      <4>1. ASSUME NEW g, Waiting(g)', g # f PROVE Waiting(g)
        <5>1. PICK i \in DOMAIN t.connects : \E j \in DOMAIN t.connects[i].staged :
                 t.connects[i].staged[j] = g
          BY <1>1, <4>1 DEF Waiting, Staged
        <5>2. i \in DOMAIN store.connects /\ t.connects[i].staged = Append(store.connects[i].staged, f)
          BY <2>2, <5>1 DEF Waits
        <5>3. store.connects[i].staged \in Seq(Frames)
          <6>1. store.connects[i] \in Connects
            BY <1>2, <5>2, LenProperties, ElementOfSeq DEF Reader, Typed
          <6> QED BY <6>1 DEF Connects
        <5>4. \A j \in DOMAIN Append(store.connects[i].staged, f) :
                 \/ j \in DOMAIN store.connects[i].staged
                      /\ Append(store.connects[i].staged, f)[j] = store.connects[i].staged[j]
                 \/ Append(store.connects[i].staged, f)[j] = f
          BY <1>4, <5>3, AppendProperties, LenProperties DEF Sound
        <5> QED BY <4>1, <5>1, <5>2, <5>4 DEF Waiting, Staged
      <4> QED BY <4>1
    <3>4. \A g : (\E k \in DOMAIN wire' : g = wire'[k]) => UpTo(g)'
      BY <1>4, <3>2
    <3>5. \A g : sub' # None /\ sub'.inFlight # None /\ g = sub'.inFlight => UpTo(g)'
      BY <1>2, <1>5, <3>2 DEF Ahead
    <3>6. ASSUME NEW g, Waiting(g)'
          PROVE  /\ Sent(g)' /\ (g.sub > store'.subId => UpTo(g)')
                 /\ \A k \in DOMAIN wire' : Before(g, wire'[k])
                 /\ \A h : Waiting(h)' /\ g.sub < h.sub => g.toSeq <= h.toSeq
      <4>1. CASE Waiting(g)
        <5>1. /\ Sent(g) /\ (g.sub > store.subId => UpTo(g))
              /\ \A h : Waiting(h) /\ g.sub < h.sub => g.toSeq <= h.toSeq
          BY <1>2, <4>1, WaitingFrames
        <5>2. g.toSeq <= f.toSeq
          BY <1>4, <4>1 DEF Before
        <5> QED BY <1>1, <1>4, <1>5, <1>7, <3>2, <3>3, <4>1, <5>1, <5>2
      <4>2. CASE g = f
        <5>1. ASSUME NEW h, Waiting(h)', g.sub < h.sub PROVE g.toSeq <= h.toSeq
          <6>1. f.sub \in Nat
            BY <1>2, <1>4, SentIsRanked
          <6>2. Waiting(h)
            BY <3>3, <4>2, <5>1, <6>1
          <6>3. h.sub <= f.sub /\ Sent(h)
            BY <1>2, <1>4, <6>2, WaitingFrames DEF Before
          <6>4. h.sub \in Nat
            BY <1>2, <6>3, SentIsRanked
          <6> QED BY <4>2, <5>1, <6>1, <6>3, <6>4
        <5> QED BY <1>4, <1>5, <3>2, <4>2, <5>1
      <4> QED BY <3>3, <3>6, <4>1, <4>2
    <3> QED BY <3>4, <3>5, <3>6, AheadAgain
  <2> QED BY <1>6, <2>1, <2>2
<1> QED BY <1>5, <1>8, <1>9, <1>10, <1>11, <1>12 DEF IInv

\* The oldest answer is taken.
LEMMA AnswersLeft ==
    ASSUME IInv, answers # <<>>, answers' = Tail(answers)
    PROVE  /\ answers' \in Seq(Answers) /\ 1 \in DOMAIN answers
           /\ Head(answers) = answers[1] /\ Head(answers) \in Answers
           /\ \A i \in DOMAIN answers' :
                 i + 1 \in DOMAIN answers /\ answers'[i] = answers[i + 1] /\ 1 < i + 1
           /\ \A i, j \in DOMAIN answers' : i < j => i + 1 < j + 1
           /\ Subscribing(answers) =
                 Subscribing(answers') + (IF Head(answers).kind = "subscribe" THEN 1 ELSE 0)
           /\ Subscribing(answers') \in Nat
<1>1. answers \in Seq(Answers)
  BY DEF IInv, News
<1>2. /\ Head(answers) = answers[1] /\ Head(answers) \in Answers
      /\ Tail(answers) \in Seq(Answers) /\ Len(Tail(answers)) = Len(answers) - 1
      /\ \A i \in 1 .. Len(Tail(answers)) : Tail(answers)[i] = answers[i + 1]
  BY <1>1, HeadTailProperties
<1>3. /\ DOMAIN answers = 1 .. Len(answers) /\ DOMAIN Tail(answers) = 1 .. Len(Tail(answers))
      /\ Len(answers) \in Nat /\ Len(answers) # 0
  BY <1>1, <1>2, LenProperties, EmptySeq
<1>4. /\ Subscribing(answers) =
            Subscribing(Tail(answers)) + (IF Head(answers).kind = "subscribe" THEN 1 ELSE 0)
      /\ Subscribing(Tail(answers)) \in Nat
  BY <1>1, <1>2, CountTail, CountFinite
<1>5. \A i \in DOMAIN Tail(answers) : i + 1 \in DOMAIN answers /\ 1 < i + 1 /\ i \in Nat
  BY <1>2, <1>3
<1>6. \A i, j \in DOMAIN Tail(answers) : i < j => i + 1 < j + 1
  BY <1>5
<1> QED BY <1>2, <1>3, <1>4, <1>5, <1>6

LEMMA NewsOfTheRest ==
    ASSUME IInv, Stays, answers # <<>>, answers' = Tail(answers), UNCHANGED outbox,
           \/ store'.subId = store.subId
           \/ IsNews(Head(answers)) /\ store'.subId = Head(answers).sub
    PROVE  News'
<1> DEFINE a == Head(answers)
<1>1. News /\ Server
  BY DEF IInv
<1>2. /\ answers' \in Seq(Answers) /\ 1 \in DOMAIN answers /\ a = answers[1]
      /\ \A i \in DOMAIN answers' :
            i + 1 \in DOMAIN answers /\ answers'[i] = answers[i + 1] /\ 1 < i + 1
      /\ \A i, j \in DOMAIN answers' : i < j => i + 1 < j + 1
  BY AnswersLeft
<1>3. \A b \in Answers : GoodAnswer(b) => GoodAnswer(b)'
  BY <1>1 DEF Stays, Server, GoodAnswer, Answers
<1>4. \A i \in DOMAIN answers : answers[i] \in Answers
  BY <1>1, LenProperties, ElementOfSeq DEF News
<1>5. \A i \in DOMAIN answers' : GoodAnswer(answers[i])'
  <2>1. ASSUME NEW i \in DOMAIN answers' PROVE GoodAnswer(answers[i])'
    <3>1. PICK b : b = answers'[i]
      OBVIOUS
    <3>2. GoodAnswer(b)'
      BY <1>1, <1>2, <1>3, <1>4, <3>1 DEF News
    <3> QED BY <3>1, <3>2 DEF GoodAnswer
  <2> QED BY <2>1
<1>6. \A i \in DOMAIN answers' : IsNews(answers'[i]) => store'.subId < answers'[i].sub
  BY <1>1, <1>2 DEF News
<1>7. \A i, j \in DOMAIN answers' :
         i < j /\ IsNews(answers'[i]) /\ IsNews(answers'[j]) => answers'[i].sub < answers'[j].sub
  BY <1>1, <1>2 DEF News
<1>8. outbox # None =>
         /\ GoodAnswer(outbox.answer)'
         /\ IsNews(outbox.answer) =>
               /\ store'.subId < outbox.answer.sub
               /\ \A i \in DOMAIN answers' : IsNews(answers'[i]) => answers'[i].sub < outbox.answer.sub
  <2>1. ASSUME outbox # None PROVE GoodAnswer(outbox.answer)'
    <3>1. PICK b : b = outbox.answer
      OBVIOUS
    <3>2. b \in Answers
      BY <2>1, <3>1 DEF IInv, Subscription, Writings
    <3>3. GoodAnswer(b)'
      BY <1>1, <1>3, <2>1, <3>1, <3>2 DEF News
    <3> QED BY <3>1, <3>3 DEF GoodAnswer
  <2>2. ASSUME outbox # None, IsNews(outbox.answer)
        PROVE  /\ store'.subId < outbox.answer.sub
               /\ \A i \in DOMAIN answers' : IsNews(answers'[i]) => answers'[i].sub < outbox.answer.sub
    BY <1>1, <1>2, <2>2 DEF News
  <2> QED BY <2>1, <2>2
<1> QED BY <1>2, <1>5, <1>6, <1>7, <1>8 DEF News, GoodAnswer, IsNews

LEMMA AccountsOfTheRest ==
    ASSUME IInv, answers # <<>>, answers' = Tail(answers), UNCHANGED outbox, Reader(store'),
           Due(store') = IF Head(answers).kind = "subscribe" THEN Due(store) - 1 ELSE Due(store)
    PROVE  Accounts'
<1> DEFINE taken == IF Head(answers).kind = "subscribe" THEN 1 ELSE 0
           due == IF outbox # None /\ outbox.answer.kind = "subscribe" THEN 1 ELSE 0
<1>1. PICK c, d, q, r, w, x, e, n :
         /\ c = Len(store.connects) /\ d = Len(store'.connects)
         /\ q = Subscribing(store.requests) /\ r = Subscribing(store'.requests)
         /\ w = Subscribing(answers) /\ x = Subscribing(answers') /\ e = due /\ n = taken
  OBVIOUS
<1>2. c \in Nat /\ d \in Nat /\ q \in Nat /\ r \in Nat
  BY <1>1, DueIsCounted DEF IInv
<1>3. w = x + n /\ x \in Nat
  BY <1>1, AnswersLeft
<1>4. e \in Nat /\ n \in Nat
  BY <1>1
<1>5. c = q + w + e
  BY <1>1 DEF IInv, Accounts
<1>6. d - r = (c - q) - n
  BY <1>1, <1>2 DEF Due
<1>7. d = r + x + e
  BY ONLY <1>2, <1>3, <1>4, <1>5, <1>6
<1>8. Len(store'.connects) = Subscribing(store'.requests) + Subscribing(answers') + due
  BY ONLY <1>1, <1>7
<1> QED BY <1>8 DEF Accounts

LEMMA AnswerIsDue ==
    ASSUME IInv, answers # <<>>, Head(answers).kind = "subscribe"
    PROVE  store.connects # <<>> /\ 1 \in DOMAIN store.connects
<1>1. answers \in Seq(Answers) /\ store.connects \in Seq(Connects)
  BY DEF IInv, News, Reader, Typed
<1>2. Subscribing(answers) = Subscribing(Tail(answers)) + 1 /\ Subscribing(Tail(answers)) \in Nat
  BY <1>1, CountTail, CountFinite, HeadTailProperties
<1>3. /\ Len(store.connects) \in Nat /\ Subscribing(store.requests) \in Nat
  BY DueIsCounted DEF IInv
<1>4. PICK c, q, w, e : /\ c = Len(store.connects) /\ q = Subscribing(store.requests)
                        /\ w = Subscribing(Tail(answers))
                        /\ e = IF outbox # None /\ outbox.answer.kind = "subscribe" THEN 1 ELSE 0
  OBVIOUS
<1>5. c = q + (w + 1) + e
  BY <1>2, <1>4 DEF IInv, Accounts
<1>6. c \in Nat /\ q \in Nat /\ w \in Nat
  BY ONLY <1>2, <1>3, <1>4
<1>7. e \in Nat
  BY <1>4
<1>8. c > 0
  BY ONLY <1>5, <1>6, <1>7
<1> QED BY <1>1, <1>4, <1>6, <1>8, LenProperties, EmptySeq

LEMMA TakeAnswerStep ==
    ASSUME IInv, TakeAnswer
    PROVE  IInv'
<1>1. PICK a, t : a = Head(answers) /\ t = store'
  OBVIOUS
<1>2. /\ Server /\ Wire /\ Ahead /\ Reader(store) /\ News
      /\ answers # <<>> /\ answers' = Tail(answers)
      /\ t = IF a.kind = "subscribe" THEN SubscribeAnswered(store, a) ELSE ResyncAnswered(store, a)
      /\ ReaderMoves /\ UNCHANGED <<wire, outbox>>
  BY <1>1 DEF IInv, TakeAnswer, ReaderMoves, gateway
<1>3. a = answers[1] /\ 1 \in DOMAIN answers /\ a \in Answers /\ GoodAnswer(a)
      /\ (IsNews(a) => store.subId < a.sub)
  BY <1>1, <1>2, AnswersLeft DEF News
<1>4. /\ Server' /\ Steps' /\ Stays /\ Subscription' /\ OwedIsKept'
      /\ UNCHANGED <<projection, served, sub, outbox, serial>>
      /\ \A g : Sent(g) => Sent(g)'
  BY <1>2, ReaderMovesServer
<1>5. CASE a.kind # "subscribe"
  <2>1. Quiet(store, t)
    BY <1>2, <1>5, ResyncAnswerIsQuiet
  <2>2. News' /\ Accounts'
    BY <1>1, <1>2, <1>4, <1>5, <2>1, NewsOfTheRest, AccountsOfTheRest DEF Quiet, Keeps
  <2> QED BY <1>1, <1>2, <2>1, <2>2, QuietMove
<1>6. CASE a.kind = "subscribe"
  <2>1. store.connects # <<>> /\ 1 \in DOMAIN store.connects
    BY <1>1, <1>2, <1>6, AnswerIsDue
  <2>2. \A j \in DOMAIN store.connects[1].staged : Sound(store.connects[1].staged[j])
    BY <1>2, <2>1 DEF Ahead, Sent, Staged
  <2>3. Processed(store, t, a)
    BY <1>2, <1>3, <1>6, <2>1, <2>2, SubscribeAnswerTakes DEF GoodAnswer
  <2>4. /\ Reader(t) /\ Due(t) = Due(store) - 1
        /\ t.subId = store.subId \/ (IsNews(a) /\ t.subId = a.sub)
        /\ \A i \in DOMAIN t.connects :
              \/ t.connects[i].staged = <<>>
              \/ i + 1 \in DOMAIN store.connects
                   /\ t.connects[i].staged = store.connects[i + 1].staged
    BY <1>6, <2>3 DEF Processed, IsNews
  <2>5. \/ t.view = store.view
        \/ \E e : Waiting(e) /\ IsNews(a) /\ t.subId = a.sub /\ e.sub = a.sub /\ Shows(t, e)
    BY <1>6, <2>1, <2>3 DEF Processed, ShowsOne, Waiting, Staged, IsNews
  <2>6. Reader(store)'
    BY <1>1, <1>2, <1>4, <2>4, ReaderArrives
  <2>7. Wire'
    <3>1. ASSUME NEW i \in DOMAIN wire PROVE Sent(wire[i])'
      <4>1. PICK g : g = wire[i]
        OBVIOUS
      <4>2. Sent(g)'
        BY <1>2, <1>4, <4>1 DEF Wire
      <4> QED BY <1>2, <4>1, <4>2
    <3> QED BY <1>2, <3>1 DEF Wire, Before
  <2>8. News' /\ Accounts'
    BY <1>1, <1>2, <1>4, <1>6, <2>4, NewsOfTheRest, AccountsOfTheRest
  <2>9. \A g : Waiting(g)' => Waiting(g)
    <3>1. ASSUME NEW g, Waiting(g)' PROVE Waiting(g)
      <4>1. PICK i \in DOMAIN t.connects : \E j \in DOMAIN t.connects[i].staged :
               t.connects[i].staged[j] = g
        BY <1>1, <3>1 DEF Waiting, Staged
      <4>2. t.connects[i].staged # <<>>
        BY <4>1
      <4>3. i + 1 \in DOMAIN store.connects /\ t.connects[i].staged = store.connects[i + 1].staged
        BY <2>4, <4>2
      <4> QED BY <4>1, <4>3 DEF Waiting, Staged
    <3> QED BY <3>1
  <2>10. ASSUME NEW g, Sound(g), UpTo(g),
                \A e : Waiting(e) /\ e.sub = a.sub /\ t.subId = a.sub => e.toSeq <= g.toSeq
         PROVE  UpTo(g)'
    <3>1. CASE t.view = store.view
      BY <1>1, <1>4, <2>10, <3>1 DEF UpTo
    <3>2. ASSUME NEW e, Waiting(e), IsNews(a), t.subId = a.sub, e.sub = a.sub, Shows(t, e)
          PROVE  UpTo(g)'
      <4>1. e.toSeq <= g.toSeq /\ Sound(e)
        BY <1>2, <2>10, <3>2, WaitingFrames DEF Sent
      <4> QED BY <1>1, <1>4, <2>10, <3>2, <4>1, UpToKept
    <3> QED BY <2>5, <3>1, <3>2
  <2>11. \A g : (\E k \in DOMAIN wire' : g = wire'[k]) => UpTo(g)'
    <3>1. ASSUME NEW k \in DOMAIN wire, NEW g, g = wire[k] PROVE UpTo(g)'
      <4>1. Sound(g) /\ UpTo(g)
        BY <1>2, <3>1 DEF Wire, Sent, Ahead
      <4>2. \A e : Waiting(e) => e.toSeq <= g.toSeq
        BY <1>2, <3>1, WaitingFrames DEF Before
      <4> QED BY <2>10, <4>1, <4>2
    <3> QED BY <1>2, <3>1
  <2>12. \A g : sub' # None /\ sub'.inFlight # None /\ g = sub'.inFlight => UpTo(g)'
    <3>1. ASSUME sub # None, sub.inFlight # None, NEW g, g = sub.inFlight PROVE UpTo(g)'
      <4>1. Sound(g) /\ UpTo(g)
        BY <1>2, <3>1 DEF IInv, Subscription, Ahead
      <4>2. \A e : Waiting(e) => e.toSeq <= g.toSeq
        BY <1>2, <3>1, WaitingFrames DEF Sent
      <4> QED BY <2>10, <4>1, <4>2
    <3> QED BY <1>4, <3>1
  <2>13. ASSUME NEW g, Waiting(g)'
         PROVE  /\ Sent(g)' /\ (g.sub > store'.subId => UpTo(g)')
                /\ \A k \in DOMAIN wire' : Before(g, wire'[k])
                /\ \A h : Waiting(h)' /\ g.sub < h.sub => g.toSeq <= h.toSeq
    <3>1. Waiting(g)
      BY <2>9, <2>13
    <3>2. /\ Sent(g) /\ (g.sub > store.subId => UpTo(g))
          /\ \A k \in DOMAIN wire : Before(g, wire[k])
          /\ \A h : Waiting(h) /\ g.sub < h.sub => g.toSeq <= h.toSeq
      BY <1>2, <3>1, WaitingFrames
    <3>3. ASSUME g.sub > t.subId PROVE UpTo(g)'
      <4>1. g.sub \in Nat /\ t.subId \in Nat /\ store.subId \in Nat /\ a.sub \in Nat
        BY <1>2, <1>3, <2>4, <3>2, SentIsRanked DEF Reader, Typed, Answers
      <4>2. g.sub > store.subId
        BY <1>3, <2>4, <3>3, <4>1
      <4>3. \A e : Waiting(e) /\ e.sub = a.sub /\ t.subId = a.sub => e.toSeq <= g.toSeq
        <5>1. ASSUME NEW e, Waiting(e), e.sub = a.sub, t.subId = a.sub PROVE e.toSeq <= g.toSeq
          <6>1. e.sub < g.sub
            BY <3>3, <4>1, <5>1
          <6> QED BY <1>2, <3>1, <5>1, <6>1, WaitingFrames
        <5> QED BY <5>1
      <4> QED BY <2>10, <3>2, <4>2, <4>3 DEF Sent
    <3> QED BY <1>1, <1>2, <1>4, <2>9, <3>2, <3>3
  <2>14. Ahead'
    BY <2>11, <2>12, <2>13, AheadAgain
  <2> QED BY <1>4, <2>6, <2>7, <2>8, <2>14 DEF IInv
<1> QED BY <1>5, <1>6

LEMMA ReaderAsks ==
    ASSUME IInv, DeadlinePasses \/ Nudge \/ Retry
    PROVE  IInv'
<1>1. Server /\ Reader(store) /\ spent \in Nat
  BY Counts DEF IInv
<1>2. /\ ReaderMoves /\ UNCHANGED <<wire, answers>>
      /\ \/ store' = RecoveryDeadline(store)
         \/ store' = RequestRecovery(store, FALSE)
         \/ store' = Connect(store, FALSE)
  BY DEF DeadlinePasses, Nudge, Retry, Disturb, ReaderMoves
<1>3. PICK t : t = store'
  OBVIOUS
<1>4. Quiet(store, t)
  BY <1>1, <1>2, <1>3, DeadlineIsQuiet, RequestRecoveryIsQuiet, ConnectIsQuiet
<1> QED BY <1>2, <1>3, <1>4, QuietStep

LEMMA DamageStep ==
    ASSUME IInv, Damage
    PROVE  IInv'
<1>1. /\ Server /\ Wire /\ Ahead /\ Reader(store) /\ spent \in Nat /\ wire # <<>>
      /\ wire' = [wire EXCEPT ![1].damaged = TRUE]
      /\ UNCHANGED <<store, answers, outbox, sub>>
  BY Counts DEF IInv, Damage, gateway
<1>2. ReaderMoves
  BY <1>1 DEF Damage, Disturb, ReaderMoves
<1>3. /\ Server' /\ Steps' /\ Stays /\ Subscription' /\ OwedIsKept'
      /\ UNCHANGED <<projection, served, sub, outbox, serial>>
      /\ \A g : Sent(g) => Sent(g)'
  BY <1>2, ReaderMovesServer
<1>4. /\ DOMAIN wire' = DOMAIN wire /\ wire' \in Seq(Frames)
      /\ \A k \in DOMAIN wire :
            /\ wire[k] \in Frames
            /\ wire'[k] = wire[k] \/ wire'[k] = [wire[k] EXCEPT !.damaged = TRUE]
  <2>1. /\ wire \in Seq(Frames) /\ DOMAIN wire = 1 .. Len(wire) /\ Len(wire) \in Nat
        /\ \A k \in DOMAIN wire : wire[k] \in Frames
    BY <1>1, LenProperties, ElementOfSeq DEF Wire
  <2>2. /\ DOMAIN wire' = DOMAIN wire
        /\ \A k \in DOMAIN wire :
              wire'[k] = wire[k] \/ wire'[k] = [wire[k] EXCEPT !.damaged = TRUE]
    BY <1>1
  <2>3. \A k \in DOMAIN wire : [wire[k] EXCEPT !.damaged = TRUE] \in Frames
    BY <2>1 DEF Frames
  <2>4. wire' = [k \in 1 .. Len(wire) |-> wire'[k]]
    BY <1>1, <2>1
  <2>5. wire' \in Seq(Frames)
    BY <2>1, <2>2, <2>3, <2>4
  <2> QED BY <2>1, <2>2, <2>5
<1>5. ASSUME NEW f \in Frames, NEW g, g = f \/ g = [f EXCEPT !.damaged = TRUE]
      PROVE  /\ g.sub = f.sub /\ g.toSeq = f.toSeq /\ (Sent(f) => Sent(g))
  <2>1. /\ g \in Frames /\ g.sub = f.sub /\ g.toSeq = f.toSeq /\ g.fromSeq = f.fromSeq
        /\ g.epoch = f.epoch /\ g.rows = f.rows /\ g.snapshot = f.snapshot
    BY <1>5 DEF Frames
  <2> QED BY <2>1 DEF Sent, Sound, View
<1>6. \A k \in DOMAIN wire :
         wire'[k].sub = wire[k].sub /\ wire'[k].toSeq = wire[k].toSeq /\ Sent(wire'[k])
  <2>1. ASSUME NEW k \in DOMAIN wire
        PROVE  wire'[k].sub = wire[k].sub /\ wire'[k].toSeq = wire[k].toSeq /\ Sent(wire'[k])
    <3>1. PICK f, g : f = wire[k] /\ g = wire'[k]
      OBVIOUS
    <3>2. Sent(f)
      BY <1>1, <3>1 DEF Wire
    <3> QED BY <1>4, <1>5, <3>1, <3>2
  <2> QED BY <2>1
<1>7. Wire'
  <2>1. ASSUME NEW k \in DOMAIN wire' PROVE Sent(wire[k])'
    <3>1. PICK g : g = wire'[k]
      OBVIOUS
    <3>2. Sent(g)'
      BY <1>3, <1>4, <1>6, <3>1
    <3> QED BY <3>1, <3>2
  <2>2. \A i, j \in DOMAIN wire' : i < j => Before(wire'[i], wire'[j])
    BY <1>1, <1>4, <1>6 DEF Wire, Before
  <2> QED BY <1>4, <2>1, <2>2 DEF Wire, Before
<1>8. News' /\ Accounts' /\ Reader(store)'
  <2>1. Due(store') = Due(store) /\ Reader(store') /\ store'.subId = store.subId
    BY <1>1
  <2> QED BY <1>1, <1>3, <2>1, NewsKept, AccountsOfTheReader, ReaderArrives
<1>9. Ahead'
  <2>1. \A g : UpTo(g) => UpTo(g)'
    BY <1>1, <1>3 DEF UpTo
  <2>2. \A g : Waiting(g)' <=> Waiting(g)
    BY <1>1 DEF Waiting, Staged
  <2>3. \A g : (\E k \in DOMAIN wire' : g = wire'[k]) => UpTo(g)'
    <3>1. ASSUME NEW k \in DOMAIN wire, NEW g, g = wire'[k] PROVE UpTo(g)
      BY <1>1, <1>6, <3>1 DEF Ahead, UpTo
    <3> QED BY <1>4, <2>1, <3>1
  <2>4. \A g : sub' # None /\ sub'.inFlight # None /\ g = sub'.inFlight => UpTo(g)'
    BY <1>1, <2>1 DEF Ahead
  <2>5. ASSUME NEW g, Waiting(g)'
        PROVE  /\ Sent(g)' /\ (g.sub > store'.subId => UpTo(g)')
               /\ \A k \in DOMAIN wire' : Before(g, wire'[k])
               /\ \A h : Waiting(h)' /\ g.sub < h.sub => g.toSeq <= h.toSeq
    <3>1. /\ Sent(g) /\ (g.sub > store.subId => UpTo(g))
          /\ \A k \in DOMAIN wire : Before(g, wire[k])
          /\ \A h : Waiting(h) /\ g.sub < h.sub => g.toSeq <= h.toSeq
      BY <1>1, <2>2, <2>5, WaitingFrames
    <3>2. \A k \in DOMAIN wire' : Before(g, wire'[k])
      BY <1>4, <1>6, <3>1 DEF Before
    <3> QED BY <1>1, <1>3, <2>1, <2>2, <3>1, <3>2
  <2> QED BY <2>3, <2>4, <2>5, AheadAgain
<1> QED BY <1>3, <1>7, <1>8, <1>9 DEF IInv

-----------------------------------------------------------------------------
(* Beginnings.                                                             *)

StartsAnew(t) ==
    /\ t.appliedBase = FALSE /\ t.subId = 0 /\ Due(t) = 0
    /\ \A i \in DOMAIN t.connects : t.connects[i].staged = <<>>

LEMMA FirstConnect ==
    ASSUME Server, NEW s, Typed(s), s.view = None \/ s.view \in served,
           s.subId = 0, s.appliedBase = FALSE, s.connects = <<>>, s.requests = <<>>, NEW force
    PROVE  LET t == Connect(s, force)
           IN  Reader(t) /\ StartsAnew(t) /\ t.view = s.view
<1> DEFINE t == Connect(s, force)
<1>1. DOMAIN s.connects = {} /\ DOMAIN s.requests = {} /\ 0 <= serial
  BY DEF Server
<1>2. Reader(s)
  BY <1>1 DEF Reader
<1>3. Quiet(s, t)
  BY <1>2, ConnectIsQuiet
<1>4. Due(s) = 0
  BY CountEmpty DEF Due
<1>5. t.appliedBase = FALSE
  BY DEF Connect, DiscardRecovery, Typed, Fields
<1> QED BY <1>1, <1>3, <1>4, <1>5 DEF Quiet, Keeps, StartsAnew

LEMMA RestartedReader ==
    ASSUME Server, NEW s, Reader(s), NEW replaced
    PROVE  LET t == Restarted(s, replaced)
           IN  Reader(t) /\ StartsAnew(t) /\ t.view = s.view
<1> DEFINE z == [s EXCEPT !.subId = 0, !.connects = <<>>, !.awaitingInitial = None,
                          !.appliedBase = FALSE, !.recovery = None, !.abandoned = 0,
                          !.faulted = FALSE, !.requests = <<>>]
<1>1. /\ DOMAIN z = DOMAIN s /\ z.status = s.status /\ z.view = s.view /\ z.subId = 0
      /\ z.appliedBase = FALSE /\ z.connects = <<>> /\ z.requests = <<>>
  BY DEF Reader, Typed, Fields
<1>2. Restarted(s, replaced) = Connect(z, ~replaced)
  BY DEF Restarted
<1> HIDE DEF z
<1>3. Typed(z)
  <2>1. <<>> \in Seq(Connects) /\ <<>> \in Seq(Requests)
    OBVIOUS
  <2>2. Typed(s)
    BY DEF Reader
  <2>3. z.connects \in Seq(Connects) /\ z.requests \in Seq(Requests)
    BY <1>1, <2>1
  <2>4. z.subId \in Nat /\ z.appliedBase \in BOOLEAN
    <3>1. z.subId \in Nat
      BY <1>1
    <3>2. z.appliedBase \in BOOLEAN
      BY <1>1, Zenon
    <3> QED BY ONLY <3>1, <3>2
  <2>5. /\ DOMAIN z = Fields /\ z.status \in {"connecting", "live", "error"}
        /\ z.view \in Views \cup {None}
    BY <1>1, <2>2 DEF Typed
  <2> QED BY <2>3, <2>4, <2>5 DEF Typed
<1>4. z.view = None \/ z.view \in served
  BY <1>1 DEF Reader
<1>5. LET t == Connect(z, ~replaced)
      IN  Reader(t) /\ StartsAnew(t) /\ t.view = z.view
  BY <1>1, <1>3, <1>4, FirstConnect
<1> QED BY <1>1, <1>2, <1>5

\* Nothing is under way but the reader's first request.
Idle ==
    /\ Server /\ Steps /\ Reader(store) /\ StartsAnew(store)
    /\ sub = None /\ outbox = None /\ wire = <<>> /\ answers = <<>>

LEMMA IdleIsFine == Idle => IInv
<1> SUFFICES ASSUME Idle PROVE IInv
  OBVIOUS
<1>1. DOMAIN wire = {} /\ DOMAIN answers = {}
  BY DEF Idle
<1>2. Subscription /\ OwedIsKept
  BY DEF Idle, Subscription, OwedIsKept
<1>3. Wire /\ News
  BY <1>1 DEF Idle, Wire, News
<1>4. Accounts
  <2>1. /\ Len(store.connects) \in Nat /\ Subscribing(store.requests) \in Nat
        /\ Len(store.connects) = Subscribing(store.requests) + 0
    BY DueIsCounted DEF Idle, StartsAnew
  <2>2. Subscribing(answers) = 0
    BY CountEmpty DEF Idle
  <2> QED BY <2>1, <2>2 DEF Idle, Accounts
<1>5. Ahead
  BY <1>1 DEF Idle, StartsAnew, Ahead, Staged
<1> QED BY <1>2, <1>3, <1>4, <1>5 DEF Idle, IInv

LEMMA TransportReplacedStep ==
    ASSUME IInv, TransportReplaced
    PROVE  IInv'
<1>1. /\ Server /\ Steps /\ Reader(store) /\ spent' \in Nat
      /\ store' = Restarted(store, TRUE) /\ serial' = serial
      /\ sub' = None /\ outbox' = None /\ wire' = <<>> /\ answers' = <<>>
      /\ UNCHANGED <<server, served, events, hydrating, flushFailed>> /\ timer' = FALSE /\ paused' = FALSE
  BY Counts DEF IInv, TransportReplaced, Disturb
<1>2. Server' /\ Steps' /\ Stays
  <2>1. /\ serial' \in Nat /\ serial <= serial' /\ {events', spent'} \subseteq Nat
        /\ {timer', paused', hydrating', flushFailed'} \subseteq BOOLEAN
    BY <1>1, Counts
  <2> QED BY <1>1, <2>1, NothingNewKeepsTheServer
<1>3. PICK t : t = store'
  OBVIOUS
<1>4. Reader(t) /\ StartsAnew(t)
  BY <1>1, <1>3, RestartedReader
<1>5. Reader(store)' /\ StartsAnew(store)'
  BY <1>1, <1>2, <1>3, <1>4, ReaderArrives DEF StartsAnew
<1>6. Idle'
  BY <1>1, <1>2, <1>5 DEF Idle
<1>7. Idle' => IInv'
  BY IdleIsFine, PTL
<1> QED BY <1>6, <1>7

LEMMA RuntimeRestartedStep ==
    ASSUME BoundsAssumption, IInv, RuntimeRestarted
    PROVE  IInv'
<1>1. /\ Server /\ Steps /\ Reader(store) /\ serial \in Nat /\ served \subseteq served'
      /\ store' = Restarted(store, FALSE) /\ serial' = serial
      /\ sub' = None /\ outbox' = None /\ wire' = <<>> /\ answers' = <<>>
  BY Counts DEF IInv, RuntimeRestarted
<1>2. Server' /\ Steps'
  BY <1>1, RestartKeepsTheServer
<1>3. PICK t : t = store'
  OBVIOUS
<1>4. Reader(t) /\ StartsAnew(t)
  BY <1>1, <1>3, RestartedReader
<1>5. Reader(t)'
  <2>1. \A m : MarkServed(m) => MarkServed(m)'
    BY <1>1 DEF MarkServed
  <2> QED BY <1>1, <1>4, <2>1 DEF Reader, StartsAnew
<1>6. Reader(store)' /\ StartsAnew(store)'
  BY <1>3, <1>4, <1>5 DEF Reader, StartsAnew
<1>7. Idle'
  BY <1>1, <1>2, <1>6 DEF Idle
<1>8. Idle' => IInv'
  BY IdleIsFine, PTL
<1> QED BY <1>7, <1>8

LEMMA InitIsFine ==
    ASSUME BoundsAssumption, Init
    PROVE  IInv
<1>1. Server
  <2>1. /\ projection \in Views /\ projection.epoch \in Nat /\ projection.seq = 0
        /\ served = {projection} /\ floorSeq = 0 /\ log = <<>> /\ Len(log) = 0
    BY DEF Init, Views
  <2>2. Retention \in Nat
    BY DEF BoundsAssumption
  <2>3. log \in Seq([seq : Nat, row : Int]) /\ DOMAIN log = {}
    BY <2>1
  <2>4. \A v, w \in served : v.epoch = w.epoch /\ v.seq = w.seq => v = w
    BY <2>1
  <2>5. /\ floorSeq \in 0 .. projection.seq /\ Len(log) = projection.seq - floorSeq
        /\ Len(log) <= Retention
    BY <2>1, <2>2
  <2>6. /\ {serial, events, spent} \subseteq Nat
        /\ {timer, paused, hydrating, flushFailed} \subseteq BOOLEAN
    <3>1. serial = 0 /\ events = 0 /\ spent = 0
      BY DEF Init
    <3>2. timer = FALSE /\ paused = FALSE /\ hydrating = FALSE /\ flushFailed = FALSE
      BY DEF Init
    <3>3. {serial, events, spent} \subseteq Nat
      BY ONLY <3>1
    <3>4. {timer, paused, hydrating, flushFailed} \subseteq BOOLEAN
      BY ONLY <3>2, Zenon
    <3> QED BY ONLY <3>3, <3>4
  <2>7. \A v \in served : v.epoch = projection.epoch /\ v.seq <= projection.seq
    BY <2>1
  <2>8. served \subseteq Views /\ projection \in served
    BY <2>1
  <2> QED BY <2>1, <2>3, <2>4, <2>5, <2>6, <2>7, <2>8 DEF Server
<1>2. Steps
  <2>1. projection.seq = 0 /\ floorSeq = 0 /\ served = {projection}
    BY DEF Init
  <2> QED BY <2>1 DEF Steps, Retained
<1>3. Reader(store) /\ StartsAnew(store)
  <2>1. Typed(NewStore)
    BY DEF Typed, Fields, NewStore
  <2>2. /\ NewStore.view = None /\ NewStore.subId = 0 /\ NewStore.appliedBase = FALSE
        /\ NewStore.connects = <<>> /\ NewStore.requests = <<>>
    BY DEF NewStore
  <2>3. store = Connect(NewStore, FALSE)
    BY DEF Init
  <2> HIDE DEF NewStore
  <2> QED BY <1>1, <2>1, <2>2, <2>3, FirstConnect
<1>4. Idle
  BY <1>1, <1>2, <1>3 DEF Init, Idle
<1> QED BY <1>4, IdleIsFine

LEMMA StutteringStep ==
    ASSUME IInv, UNCHANGED vars
    PROVE  IInv'
<1>1. /\ ReaderMoves /\ UNCHANGED <<wire, answers>>
  BY DEF vars, ReaderMoves
<1>2. PICK t : t = store'
  OBVIOUS
<1>3. Quiet(store, t)
  BY <1>2 DEF vars, Quiet, Keeps, IInv
<1> QED BY <1>1, <1>2, <1>3, QuietStep

-----------------------------------------------------------------------------
(* The invariant and what follows from it.  A rebuilt projection is taken  *)
(* to be numbered above the one it replaces; without rebuilds nothing is   *)
(* assumed.                                                                *)

RebuildsAreFresh == "rebuild" \in Disturbances => FreshNumbers

LEMMA NextStep ==
    ASSUME BoundsAssumption, RebuildsAreFresh, IInv, [Next]_vars
    PROVE  IInv'
<1>1. CASE Ingest(0) \/ Ingest(events + 1)
  <2>1. 0 \in Nat /\ events + 1 \in Nat
    BY Counts DEF IInv
  <2> QED BY <1>1, <2>1, IngestStep
<1>2. CASE FlushTimer \/ Saturate \/ Drain \/ Rehydrate \/ RehydrateFlush
  <2>1. Rehydrate => FreshNumbers
    BY DEF Rehydrate, Disturb, RebuildsAreFresh
  <2> QED
    BY <1>2, <2>1, FlushTimerStep, SaturateStep, DrainStep, RehydrateStep, RehydrateFlushStep
<1>3. CASE Subscribe \/ SubscribeFails \/ Resync \/ ResyncFails \/ Unsubscribe \/ Respond
  BY <1>3, SubscribeStep, SubscribeFailsStep, ResyncStep, ResyncFailsStep, UnsubscribeStep,
     RespondStep
<1>4. CASE Damage \/ TakeFrame \/ TakeAnswer
  BY <1>4, DamageStep, TakeFrameStep, TakeAnswerStep
<1>5. CASE DeadlinePasses \/ Nudge \/ Retry
  BY <1>5, ReaderAsks
<1>6. CASE TransportReplaced \/ RuntimeRestarted
  BY <1>6, TransportReplacedStep, RuntimeRestartedStep
<1>7. CASE UNCHANGED vars
  BY <1>7, StutteringStep
<1> QED BY <1>1, <1>2, <1>3, <1>4, <1>5, <1>6, <1>7 DEF Next

LEMMA Invariance == RebuildsAreFresh => (Spec => []IInv)
<1> SUFFICES ASSUME RebuildsAreFresh PROVE Spec => []IInv
  OBVIOUS
<1>1. Init => IInv
  BY BoundsAssumption, InitIsFine
<1>2. IInv /\ [Next]_vars => IInv'
  BY BoundsAssumption, NextStep
<1> QED BY <1>1, <1>2, PTL DEF Spec

(* Whatever the reader shows is a state the projection has been in: no     *)
(* event is lost and none is applied twice, whatever is lost, damaged,     *)
(* superseded or overtaken on the way.                                     *)
THEOREM ViewIsServed == RebuildsAreFresh => (Spec => []ViewWasServed)
<1> SUFFICES ASSUME RebuildsAreFresh PROVE Spec => []ViewWasServed
  OBVIOUS
<1>1. IInv => ViewWasServed
  BY DEF IInv, Reader, ViewWasServed
<1> QED BY <1>1, Invariance, PTL

(* The server never forgets what it still owes a subscription: its sent    *)
(* water mark or the frame in flight, and its buffer, make up the          *)
(* projection, unless a snapshot is promised.                              *)
THEOREM NothingOwedIsLost == RebuildsAreFresh => (Spec => []OwedIsKept)
<1> SUFFICES ASSUME RebuildsAreFresh PROVE Spec => []OwedIsKept
  OBVIOUS
<1>1. IInv => OwedIsKept
  BY DEF IInv
<1> QED BY <1>1, Invariance, PTL

(* Every variable keeps its type; numbers, buffers and the log keep their  *)
(* bounds.                                                                 *)
THEOREM TypeCorrect == RebuildsAreFresh => (Spec => []TypeOK)
<1> SUFFICES ASSUME RebuildsAreFresh PROVE Spec => []TypeOK
  OBVIOUS
<1>1. ASSUME IInv PROVE TypeOK
  <2>1. /\ Server /\ Subscription /\ Wire /\ News /\ Reader(store) /\ Typed(store)
    BY <1>1 DEF IInv, Reader
  <2>2. log \in Seq([seq : (floorSeq + 1) .. projection.seq, row : Int])
    <3>1. /\ log \in Seq([seq : Nat, row : Int]) /\ Len(log) \in Nat /\ DOMAIN log = 1 .. Len(log)
          /\ \A i \in DOMAIN log : log[i] \in [seq : Nat, row : Int]
          /\ log = [i \in 1 .. Len(log) |-> log[i]]
      BY <2>1, LenProperties, ElementOfSeq DEF Server
    <3>2. /\ floorSeq \in Nat /\ projection.seq \in Nat /\ Len(log) = projection.seq - floorSeq
          /\ floorSeq <= projection.seq
      BY <2>1 DEF Server, Views
    <3>3. ASSUME NEW i \in 1 .. Len(log) PROVE floorSeq + i \in (floorSeq + 1) .. projection.seq
      BY ONLY <3>1, <3>2, <3>3
    <3>4. \A i \in 1 .. Len(log) : log[i].seq \in (floorSeq + 1) .. projection.seq
      BY <2>1, <3>1, <3>3 DEF Server
    <3>5. \A i \in 1 .. Len(log) : log[i] \in [seq : (floorSeq + 1) .. projection.seq, row : Int]
      BY <3>1, <3>4
    <3>6. log \in [1 .. Len(log) -> [seq : (floorSeq + 1) .. projection.seq, row : Int]]
      BY <3>1, <3>5
    <3>7. \A T : \A n \in Nat : \A q \in [1 .. n -> T] : q \in Seq(T)
      OBVIOUS
    <3>8. Len(log) \in Nat
      BY <3>1
    <3> QED BY ONLY <3>6, <3>7, <3>8
  <2>3. store.subId \in 0 .. serial
    BY <2>1 DEF Reader, Typed, Server
  <2> QED BY <2>1, <2>2, <2>3 DEF TypeOK, Server, Subscription, Wire, News, Typed
<1> QED BY <1>1, Invariance, PTL

-----------------------------------------------------------------------------
(* The reader never goes back.                                             *)

GoesOn(v, w) == v # None => w.epoch > v.epoch \/ (w.epoch = v.epoch /\ w.seq >= v.seq)

LEMMA SameViewGoesOn ==
    ASSUME Reader(store), NEW w, w = store.view
    PROVE  GoesOn(store.view, w)
BY DEF GoesOn, Reader, Typed, Views

\* What waits for a subscription to come, or comes from the one in place,
\* is never behind what the reader shows.
LEMMA ShownGoesOn ==
    ASSUME Server, Reader(store), NEW f, Sound(f), UpTo(f), NEW t, Shows(t, f)
    PROVE  GoesOn(store.view, t.view)
<1> SUFFICES ASSUME store.view # None
             PROVE  \/ t.view.epoch > store.view.epoch
                    \/ t.view.epoch = store.view.epoch /\ t.view.seq >= store.view.seq
  BY DEF GoesOn
<1>1. store.view \in served /\ store.view \in Views /\ projection \in Views
  BY DEF Reader, Server
<1>2. /\ store.view.epoch \in Nat /\ store.view.seq \in Nat /\ projection.epoch \in Nat
      /\ f.toSeq \in Nat
  BY <1>1 DEF Views, Sound, Frames
<1>3. store.view.epoch <= projection.epoch
  <2>1. store.view.epoch < projection.epoch \/ store.view.epoch = projection.epoch
    BY <1>1 DEF Server
  <2> QED BY <1>2, <2>1
<1>4. t.view.epoch = projection.epoch /\ t.view.seq = f.toSeq
  BY DEF Shows
<1>5. store.view.epoch = projection.epoch => store.view.seq <= f.toSeq
  BY DEF UpTo
<1> QED BY <1>2, <1>3, <1>4, <1>5

LEMMA FramesGoOn ==
    ASSUME IInv, TakeFrame
    PROVE  GoesOn(store.view, store'.view)
<1>1. PICK f, t : f = Head(wire) /\ t = store'
  OBVIOUS
<1>2. /\ Server /\ Wire /\ Ahead /\ Reader(store) /\ wire \in Seq(Frames) /\ wire # <<>>
      /\ t = AcceptFrame(store, f)
  BY <1>1 DEF IInv, TakeFrame, Wire
<1>3. f = wire[1] /\ 1 \in DOMAIN wire
  BY <1>1, <1>2, HeadTailProperties, LenProperties, EmptySeq
<1>4. Sound(f) /\ UpTo(f)
  BY <1>2, <1>3 DEF Wire, Sent, Ahead
<1>5. t.view = store.view \/ Shows(t, f)
  BY <1>2, <1>4, AcceptTakes DEF Took, Waits
<1> QED BY <1>1, <1>2, <1>4, <1>5, SameViewGoesOn, ShownGoesOn

LEMMA AnswersGoOn ==
    ASSUME IInv, TakeAnswer
    PROVE  GoesOn(store.view, store'.view)
<1>1. PICK a, t : a = Head(answers) /\ t = store'
  OBVIOUS
<1>2. /\ Server /\ Ahead /\ Reader(store) /\ News
      /\ answers # <<>> /\ answers' = Tail(answers)
      /\ t = IF a.kind = "subscribe" THEN SubscribeAnswered(store, a) ELSE ResyncAnswered(store, a)
  BY <1>1 DEF IInv, TakeAnswer
<1>3. a \in Answers /\ GoodAnswer(a) /\ (IsNews(a) => store.subId < a.sub)
  BY <1>1, <1>2, AnswersLeft DEF News
<1>4. CASE a.kind # "subscribe"
  <2>1. t.view = store.view
    BY <1>2, <1>4, ResyncAnswerIsQuiet DEF Quiet
  <2> QED BY <1>1, <1>2, <2>1, SameViewGoesOn
<1>5. CASE a.kind = "subscribe"
  <2>1. store.connects # <<>> /\ 1 \in DOMAIN store.connects
    BY <1>1, <1>2, <1>5, AnswerIsDue
  <2>2. \A j \in DOMAIN store.connects[1].staged : Sound(store.connects[1].staged[j])
    BY <1>2, <2>1 DEF Ahead, Sent, Staged
  <2>3. Processed(store, t, a)
    BY <1>2, <1>3, <1>5, <2>1, <2>2, SubscribeAnswerTakes DEF GoodAnswer
  <2>4. \/ t.view = store.view
        \/ \E e : Waiting(e) /\ IsNews(a) /\ e.sub = a.sub /\ Shows(t, e)
    BY <1>5, <2>1, <2>3 DEF Processed, ShowsOne, Waiting, Staged, IsNews
  <2>5. ASSUME NEW e, Waiting(e), IsNews(a), e.sub = a.sub, Shows(t, e)
        PROVE  GoesOn(store.view, t.view)
    <3>1. Sent(e) /\ (e.sub > store.subId => UpTo(e))
      BY <1>2, <2>5, WaitingFrames
    <3>2. e.sub > store.subId
      BY <1>2, <1>3, <2>5 DEF Reader, Typed, Answers
    <3> QED BY <1>2, <2>5, <3>1, <3>2, ShownGoesOn DEF Sent
  <2> QED BY <1>1, <1>2, <2>4, <2>5, SameViewGoesOn
<1> QED BY <1>4, <1>5

LEMMA TheReaderGoesOn ==
    ASSUME IInv, [Next]_vars
    PROVE  GoesOn(store.view, store'.view)
<1>1. Server /\ Reader(store)
  BY DEF IInv
<1>2. CASE TakeFrame \/ TakeAnswer
  BY <1>2, FramesGoOn, AnswersGoOn
<1>3. CASE store'.view = store.view
  BY <1>1, <1>3, SameViewGoesOn
<1>4. CASE DeadlinePasses \/ Nudge \/ Retry
  <2>1. \/ store' = RecoveryDeadline(store)
        \/ store' = RequestRecovery(store, FALSE)
        \/ store' = Connect(store, FALSE)
    BY <1>4 DEF DeadlinePasses, Nudge, Retry
  <2>2. store'.view = store.view
    BY <1>1, <2>1, DeadlineIsQuiet, RequestRecoveryIsQuiet, ConnectIsQuiet DEF Quiet
  <2> QED BY <1>3, <2>2
<1>5. CASE TransportReplaced \/ RuntimeRestarted
  <2>1. store' = Restarted(store, TRUE) \/ store' = Restarted(store, FALSE)
    BY <1>5 DEF TransportReplaced, RuntimeRestarted
  <2>2. store'.view = store.view
    BY <1>1, <2>1, RestartedReader
  <2> QED BY <1>3, <2>2
<1>6. CASE Subscribe \/ SubscribeFails \/ Resync \/ ResyncFails \/ Unsubscribe
  <2>1. store' = [store EXCEPT !.requests = Tail(@)]
    BY <1>6 DEF Subscribe, SubscribeFails, Resync, ResyncFails, Unsubscribe, Served
  <2>2. store'.view = store.view
    BY <1>1, <2>1 DEF Reader, Typed, Fields
  <2> QED BY <1>3, <2>2
<1>7. CASE \/ Ingest(0) \/ Ingest(events + 1)
           \/ FlushTimer \/ Saturate \/ Drain \/ Rehydrate \/ RehydrateFlush
           \/ Respond \/ Damage \/ UNCHANGED vars
  <2>1. store' = store
    BY <1>7 DEF Ingest, FlushTimer, Saturate, Drain, Rehydrate, RehydrateFlush, Respond, Damage,
                vars
  <2> QED BY <1>3, <2>1
<1> QED BY <1>2, <1>4, <1>5, <1>6, <1>7 DEF Next

(* The reader never goes back: neither to an older epoch nor, within one,  *)
(* to an older water mark, whatever late answers and frames still arrive.  *)
THEOREM NeverBack == RebuildsAreFresh => (Spec => NoGoingBack)
<1> SUFFICES ASSUME RebuildsAreFresh PROVE Spec => NoGoingBack
  OBVIOUS
<1>1. ASSUME IInv, [Next]_vars
      PROVE  [store.view # None =>
                 \/ store'.view.epoch > store.view.epoch
                 \/ /\ store'.view.epoch = store.view.epoch
                    /\ store'.view.seq >= store.view.seq]_vars
  BY <1>1, TheReaderGoesOn DEF GoesOn
<1> QED BY <1>1, Invariance, PTL DEF Spec, NoGoingBack
=============================================================================
