-------------------------- MODULE CommandInboxProofs --------------------------
(***************************************************************************)
(* Proofs about CommandInbox, for every number of inputs, requests and     *)
(* loads and every size of the table of settled commands.                  *)
(*                                                                         *)
(* The invariant has three layers.  Types says what the variables are;     *)
(* GateInv, that one call at a time is in the gate of the session and that *)
(* only it executes; Life, what a call in the gate may rely on: the       *)
(* command it has not found is nowhere in memory, and what the load it     *)
(* reads may be stale about is only a first try that failed.               *)
(***************************************************************************)
EXTENDS CommandInbox, SequenceTheorems, TLAPS

-----------------------------------------------------------------------------
(* Types.                                                                  *)

Executing == {"admit", "execute", "handed", "cancel"}

Record == [state : {"begun", "read", "failed"}, cold : BOOLEAN, facts : Facts]

Keys ==
    /\ \A c \in Calls :
          /\ pc[c] # "idle" => key[c] \in Commands
          /\ pc[c] \in Waiting => ref[c] \in Loads
          /\ pc[c] \in {"admit", "handed", "cancel"} => key[c] \in Inputs
    /\ \A k \in Inputs :
          /\ pending[k] \in {"saved", "recording"} => k \in Compacts
          /\ pending[k] = "recording" => recorder[k] \in Loads

Types == TypeOK /\ Keys

LEMMA KeyGateTyped ==
    ASSUME Types, NEW c \in Calls, key[c] \in Commands, LeaveKey(c)
    PROVE  keyGate' \in [Commands -> Seq(Calls)]
BY DEF Types, TypeOK, LeaveKey, HoldsKey

LEMMA SessionGateTyped ==
    ASSUME Types, NEW c \in Calls, LeaveSession(c)
    PROVE  sessionGate' \in Seq(Calls)
BY DEF Types, TypeOK, LeaveSession, HoldsSession

LEMMA EnsuredTyped ==
    ASSUME Types, CanEnsure
    PROVE  Ensured \in Loads
BY DEF Types, TypeOK, CanEnsure, Ensured, Free

LEMMA BegunTyped ==
    ASSUME Types, CanEnsure
    PROVE  Begun \in [Loads -> Record]
<1>1. NoFacts \in Facts
  BY DEF NoFacts, Facts
<1>2. load \in [Loads -> Record] /\ resident \in BOOLEAN
  BY DEF Types, TypeOK, Record
<1>3. (~resident) \in BOOLEAN
  BY <1>2
<1>4. [state |-> "begun", cold |-> ~resident, facts |-> NoFacts] \in Record
  BY <1>1, <1>3 DEF Record
<1> QED
  BY <1>2, <1>4, EnsuredTyped DEF Begun

LEMMA CollectedTyped ==
    ASSUME NEW loads \in [Loads -> Record], load' = Collected(loads)
    PROVE  /\ load' \in [Loads -> Record]
           /\ \A l \in Loads : load'[l] = loads[l] \/ load'[l] = NoLoad
<1>1. NoLoad \in Record
  BY DEF NoLoad, Record, NoFacts, Facts
<1> QED
  BY <1>1 DEF Collected

\* Entries of the table.
Entries == Seq(Commands \X Statuses)

LEMMA DropTyped ==
    ASSUME NEW table \in Entries, NEW k
    PROVE  /\ Drop(table, k) \in Entries /\ Len(Drop(table, k)) <= Len(table)
           /\ (\E i \in DOMAIN table : table[i][1] = k) => Len(Drop(table, k)) = Len(table) - 1
<1> DEFINE at == {i \in DOMAIN table : table[i][1] = k}
           i == CHOOSE i \in at : TRUE
<1>1. Len(table) \in Nat /\ DOMAIN table = 1 .. Len(table)
      /\ \A j \in 1 .. Len(table) : table[j] \in Commands \X Statuses
  BY LenProperties DEF Entries
<1>2. CASE at = {}
  <2>1. Drop(table, k) = table
    BY <1>2 DEF Drop
  <2>2. ~ \E j \in DOMAIN table : table[j][1] = k
    BY <1>2
  <2>3. (\E j \in DOMAIN table : table[j][1] = k) => Len(Drop(table, k)) = Len(table) - 1
    BY ONLY <2>2
  <2>4. Len(Drop(table, k)) <= Len(table)
    BY <1>1, <2>1
  <2> QED
    BY <2>1, <2>3, <2>4
<1>3. CASE at # {}
  <2>1. i \in 1 .. Len(table)
    BY <1>1, <1>3
  <2> HIDE DEF i
  <2> DEFINE front == SubSeq(table, 1, i - 1)
             back == SubSeq(table, i + 1, Len(table))
  <2>2. front \in Entries /\ Len(front) = i - 1
    BY <1>1, <2>1, SubSeqProperties DEF Entries
  <2>3. back \in Entries /\ Len(back) = Len(table) - i
    <3>1. i + 1 \in Int /\ Len(table) \in Int
      BY <1>1, <2>1
    <3>2. \A j \in i + 1 .. Len(table) : table[j] \in Commands \X Statuses
      BY <1>1, <2>1
    <3>3. /\ back \in Entries
          /\ Len(back) = IF i + 1 <= Len(table) THEN Len(table) - (i + 1) + 1 ELSE 0
      BY <3>1, <3>2, SubSeqProperties DEF Entries
    <3> HIDE DEF back
    <3>4. Len(table) \in Nat /\ i \in 1 .. Len(table)
      BY <1>1, <2>1
    <3>5. Len(back) = IF i + 1 <= Len(table) THEN Len(table) - (i + 1) + 1 ELSE 0
      BY <3>3
    <3>6. Len(back) = Len(table) - i
      BY ONLY <3>4, <3>5
    <3> QED
      BY <3>3, <3>6
  <2>4. Drop(table, k) = front \o back
    BY <1>3 DEF Drop, i, front, back
  <2> HIDE DEF front, back
  <2>5. front \o back \in Entries /\ Len(front \o back) = Len(front) + Len(back)
    BY <2>2, <2>3, ConcatProperties DEF Entries
  <2> QED
    BY <1>1, <2>1, <2>2, <2>3, <2>4, <2>5
<1> QED
  BY <1>2, <1>3

\* The entry that was found is dropped: there is room for another.
LEMMA DropShorter ==
    ASSUME NEW table \in Entries, NEW i \in DOMAIN table, Len(table) <= TableSize,
           NEW k \in Commands, table[i][1] = k, NEW status \in Statuses
    PROVE  /\ Append(Drop(table, k), <<k, status>>) \in Entries
           /\ Len(Append(Drop(table, k), <<k, status>>)) <= TableSize
<1>1. Drop(table, k) \in Entries /\ Len(Drop(table, k)) = Len(table) - 1
  BY DropTyped
<1>2. Len(table) \in Nat /\ <<k, status>> \in Commands \X Statuses
  BY LenProperties DEF Entries
<1> HIDE DEF Entries
<1>3. /\ Append(Drop(table, k), <<k, status>>) \in Entries
      /\ Len(Append(Drop(table, k), <<k, status>>)) = Len(Drop(table, k)) + 1
  BY <1>1, <1>2 DEF Entries
<1> QED
  BY <1>1, <1>2, <1>3, TableSizeAssumption

LEMMA RememberTyped ==
    ASSUME NEW table \in Entries, NEW k \in Commands, NEW status \in Statuses
    PROVE  Remember(table, k, status) \in Entries
           /\ Len(Remember(table, k, status)) <= TableSize
<1> DEFINE longer == Append(Drop(table, k), <<k, status>>)
<1>1. longer \in Entries /\ Len(longer) \in Nat
  BY DropTyped DEF Entries
<1> HIDE DEF longer
<1>2. Newest(longer) \in Entries /\ Len(Newest(longer)) <= TableSize
  <2>1. TableSize \in Nat
    BY TableSizeAssumption
  <2>2. CASE Len(longer) <= TableSize
    BY <1>1, <2>1, <2>2 DEF Newest
  <2>3. CASE Len(longer) > TableSize
    <3> DEFINE m == Len(longer) - TableSize + 1
    <3>1. /\ m \in 1 .. Len(longer) + 1 /\ Len(longer) - m + 1 = TableSize
          /\ m <= Len(longer)
      BY <1>1, <2>1, <2>3, TableSizeAssumption
    <3>2. \A j \in m .. Len(longer) : longer[j] \in Commands \X Statuses
      BY <1>1, <3>1, LenProperties DEF Entries
    <3>3. /\ SubSeq(longer, m, Len(longer)) \in Entries
          /\ Len(SubSeq(longer, m, Len(longer))) = Len(longer) - m + 1
      BY <1>1, <3>1, <3>2, SubSeqProperties DEF Entries
    <3>4. Newest(longer) = SubSeq(longer, m, Len(longer))
      BY <2>3 DEF Newest
    <3> QED
      BY <3>1, <3>3, <3>4, <2>1
  <2> QED
    BY <1>1, <2>1, <2>2, <2>3
<1> QED
  BY <1>2 DEF Remember, longer

\* What the requests are told of, typed.
CallsTyped ==
    /\ pc \in [Calls -> {"idle", "key", "joining", "transcript", "discarded", "session",
                         "admit", "execute", "handed", "cancel"} \cup Statuses]
    /\ key \in [Calls -> Commands \cup {None}] /\ query \in [Calls -> BOOLEAN]
    /\ ref \in [Calls -> Loads \cup {None}] /\ answer \in Answers
    /\ \A c \in Calls :
          /\ pc[c] # "idle" => key[c] \in Commands
          /\ pc[c] \in Waiting => ref[c] \in Loads
          /\ pc[c] \in {"admit", "handed", "cancel"} => key[c] \in Inputs

GatesTyped == keyGate \in [Commands -> Seq(Calls)] /\ sessionGate \in Seq(Calls)

CacheTyped == index \in Loads \cup {None} /\ load \in [Loads -> Record]

TableTyped == settled \in Entries /\ Len(settled) <= TableSize

RestTyped ==
    /\ row \in [Inputs -> RowStates] /\ saved \subseteq Compacts
    /\ inFlight \subseteq Commands /\ live \subseteq Inputs
    /\ resident \in BOOLEAN
    /\ pending \in [Inputs -> {"none", "queued", "taken", "withdrawn", "saved", "recording"}]
    /\ recorder \in [Compacts -> Loads \cup {None}]
    /\ \A k \in Inputs :
          /\ pending[k] \in {"saved", "recording"} => k \in Compacts
          /\ pending[k] = "recording" => recorder[k] \in Loads

LEMMA TypesByParts ==
    Types <=> CallsTyped /\ GatesTyped /\ CacheTyped /\ TableTyped /\ RestTyped
BY DEF Types, TypeOK, Keys, CallsTyped, GatesTyped, CacheTyped, TableTyped, RestTyped,
       Record, Entries

LEMMA TypesByPartsThen ==
    Types' <=> CallsTyped' /\ GatesTyped' /\ CacheTyped' /\ TableTyped' /\ RestTyped'
BY DEF Types, TypeOK, Keys, CallsTyped, GatesTyped, CacheTyped, TableTyped, RestTyped,
       Record, Entries

LEMMA AnsweredTyped ==
    ASSUME Types, NEW c \in Calls, pc[c] # "idle", NEW a \in Answers, Answered(c, a)
    PROVE  CallsTyped' /\ GatesTyped'
<1>1. CallsTyped
  BY TypesByParts
<1>2. CallsTyped'
  BY <1>1 DEF CallsTyped, Answered, Waiting
<1>3. key[c] \in Commands
  BY <1>1 DEF CallsTyped
<1>4. GatesTyped'
  BY <1>3, KeyGateTyped, SessionGateTyped DEF GatesTyped, Answered
<1> QED
  BY <1>2, <1>4

LEMMA RetryTyped ==
    ASSUME NEW c \in Calls, NEW status \in Statuses
    PROVE  Retry(c, status) \in Answers
BY DEF Retry, Statuses, Answers

LEMMA SeekTyped ==
    ASSUME Types, NEW c \in Calls, pc[c] # "idle", NEW stage \in Waiting, Seek(c, stage),
           load' = Collected(Begun)
    PROVE  CallsTyped' /\ GatesTyped' /\ CacheTyped'
<1>1. CallsTyped /\ GatesTyped /\ CacheTyped
  BY TypesByParts
<1>2. CanEnsure /\ Ensured \in Loads
  BY EnsuredTyped DEF Seek
<1>3. CallsTyped'
  BY <1>1, <1>2 DEF CallsTyped, Seek, Silent, Answers, Waiting
<1>4. CacheTyped'
  BY <1>2, BegunTyped, CollectedTyped DEF CacheTyped, Seek
<1> QED
  BY <1>1, <1>3, <1>4 DEF GatesTyped, Seek, gates

LEMMA SettleTyped ==
    ASSUME Types, NEW c \in Calls, pc[c] # "idle", NEW status \in Statuses,
           NEW pinned \in SUBSET Inputs, NEW table \in Entries, Len(table) <= TableSize,
           Settle(c, pinned, table, status)
    PROVE  /\ CallsTyped' /\ GatesTyped' /\ TableTyped'
           /\ inFlight' \subseteq Commands /\ live' \subseteq Inputs
<1>1. CallsTyped /\ GatesTyped /\ RestTyped
  BY TypesByParts
<1>2. key[c] \in Commands
  BY <1>1 DEF CallsTyped
<1>3. CallsTyped'
  BY <1>1, <1>2 DEF CallsTyped, Settle, Statuses, Answers, Waiting
<1>4. GatesTyped'
  BY <1>1, SessionGateTyped DEF GatesTyped, Settle
<1>5. TableTyped'
  BY <1>2, RememberTyped DEF TableTyped, Settle
<1> QED
  BY <1>1, <1>3, <1>4, <1>5 DEF Settle, RestTyped

LEMMA FactsTyped ==
    ASSUME NEW rows
    PROVE  [k \in Commands |-> FactOf(k, rows)] \in Facts
BY DEF FactOf, Facts

LEMMA TypesInit == Init => Types
<1> SUFFICES ASSUME Init PROVE Types
  OBVIOUS
<1>1. NoLoad \in Record
  BY DEF NoLoad, Record, NoFacts, Facts
<1>2. CallsTyped
  BY DEF Init, EmptyMemory, CallsTyped, Answers, Waiting
<1>3. CacheTyped
  BY <1>1 DEF Init, EmptyMemory, CacheTyped
<1>4. TableTyped
  BY TableSizeAssumption DEF Init, EmptyMemory, TableTyped, Entries
<1>5. GatesTyped
  BY DEF Init, EmptyMemory, GatesTyped
<1>6. RestTyped
  BY DEF Init, EmptyMemory, RestTyped, RowStates
<1> QED
  BY <1>2, <1>3, <1>4, <1>5, <1>6, TypesByParts

LEMMA RequestsTyped ==
    ASSUME Types, NEW c \in Calls,
           \/ \E k \in Commands, q \in BOOLEAN : Arrive(c, k, q)
           \/ Look(c) \/ Deliver(c) \/ Unavailable(c) \/ LookTranscript(c) \/ LookDiscarded(c)
    PROVE  Types'
<1>0. CallsTyped /\ GatesTyped /\ CacheTyped /\ TableTyped /\ RestTyped
  BY TypesByParts
<1> USE TypesByPartsThen
<1>r. ASSUME UNCHANGED <<store, inFlight, live, runtime>>
      PROVE  RestTyped'
  BY <1>0, <1>r DEF RestTyped, store, runtime
<1>c. ASSUME UNCHANGED cache
      PROVE  CacheTyped'
  BY <1>0, <1>c DEF CacheTyped, cache
<1>t. ASSUME UNCHANGED settled
      PROVE  TableTyped'
  BY <1>0, <1>t DEF TableTyped
<1>1. ASSUME NEW k \in Commands, NEW q \in BOOLEAN, Arrive(c, k, q)
      PROVE  Types'
  <2>1. CallsTyped'
    BY <1>0, <1>1 DEF CallsTyped, Arrive, Silent, Answers, Waiting
  <2>2. GatesTyped'
    BY <1>0, <1>1 DEF GatesTyped, Arrive
  <2> QED
    BY <1>1, <1>r, <1>c, <1>t, <2>1, <2>2 DEF Arrive, inbox
<1>2. CASE Look(c)
  <2> DEFINE k == key[c]
  <2>0. pc[c] # "idle" /\ k \in Commands /\ RestTyped'
    BY <1>0, <1>2, <1>r DEF Look, CallsTyped
  <2>1. CASE /\ pc' = [pc EXCEPT ![c] = "joining"] /\ Silent
             /\ UNCHANGED <<settled, gates, cache, key, query, ref>>
    <3>1. CallsTyped'
      BY <1>0, <2>0, <2>1 DEF CallsTyped, Silent, Answers, Waiting
    <3>2. GatesTyped'
      BY <1>0, <2>1 DEF GatesTyped, gates
    <3> QED
      BY <2>0, <2>1, <3>1, <3>2, <1>c, <1>t
  <2>2. CASE Answered(c, Retry(c, "accepted")) /\ UNCHANGED <<settled, cache>>
    BY <2>0, <2>2, <1>c, <1>t, AnsweredTyped, RetryTyped DEF Statuses
  <2>3. ASSUME NEW status \in Remembered(k), UNCHANGED cache,
               settled' = Append(Drop(settled, k), <<k, status>>),
               Answered(c, Retry(c, status))
        PROVE  Types'
    <3>1. PICK i \in DOMAIN settled : settled[i][1] = k /\ settled[i][2] = status
      BY DEF Remembered
    <3>2. settled[i] \in Commands \X Statuses /\ status \in Statuses
      BY <1>0, <3>1, LenProperties DEF TableTyped, Entries
    <3>3. TableTyped'
      BY <1>0, <2>0, <2>3, <3>1, <3>2, DropShorter DEF TableTyped
    <3> QED
      BY <2>0, <2>3, <3>2, <3>3, <1>c, AnsweredTyped, RetryTyped
  <2>4. CASE Seek(c, "transcript") /\ load' = Collected(Begun) /\ UNCHANGED settled
    BY <2>0, <2>4, <1>t, SeekTyped DEF Waiting
  <2> QED
    BY <1>2, <2>1, <2>2, <2>3, <2>4 DEF Look
<1>3. CASE Deliver(c)
  <2>1. pc[c] \in Statuses /\ pc[c] # "idle"
    BY <1>3 DEF Deliver, Statuses
  <2> QED
    BY <1>3, <2>1, <1>r, <1>c, <1>t, AnsweredTyped, RetryTyped DEF Deliver, inbox
<1>4. CASE Unavailable(c)
  <2>1. pc[c] # "idle" /\ "unavailable" \in Answers
    BY <1>4 DEF Unavailable, Waiting, Answers
  <2> QED
    BY <1>4, <2>1, <1>r, <1>c, <1>t, AnsweredTyped DEF Unavailable, inbox
<1>5. CASE LookTranscript(c)
  <2>0. pc[c] # "idle" /\ RestTyped' /\ TableTyped'
    BY <1>5, <1>r, <1>t DEF LookTranscript, inbox
  <2>1. CASE Answered(c, Retry(c, "accepted")) /\ UNCHANGED index /\ load' = Collected(load)
    <3>1. CacheTyped'
      BY <1>0, <2>1, CollectedTyped DEF CacheTyped
    <3> QED
      BY <2>0, <2>1, <3>1, AnsweredTyped, RetryTyped DEF Statuses
  <2>2. CASE Seek(c, "discarded") /\ load' = Collected(Begun)
    BY <2>0, <2>2, SeekTyped DEF Waiting
  <2> QED
    BY <1>5, <2>1, <2>2 DEF LookTranscript
<1>6. CASE LookDiscarded(c)
  <2>0. pc[c] # "idle" /\ TableTyped' /\ key[c] \in Commands
    BY <1>0, <1>6, <1>t DEF LookDiscarded, CallsTyped
  <2>1. CacheTyped'
    BY <1>0, <1>6, CollectedTyped DEF CacheTyped, LookDiscarded
  <2>2. inFlight' \subseteq Commands => RestTyped'
    BY <1>0, <1>6 DEF LookDiscarded, RestTyped, store, runtime
  <2>3. ASSUME NEW a \in Answers, Answered(c, a), UNCHANGED inFlight
        PROVE  Types'
    BY <1>0, <2>0, <2>1, <2>2, <2>3, AnsweredTyped DEF RestTyped
  <2>4. CASE /\ sessionGate' = Append(sessionGate, c)
             /\ pc' = [pc EXCEPT ![c] = "session"]
             /\ ref' = [ref EXCEPT ![c] = None]
             /\ Silent
             /\ UNCHANGED <<keyGate, inFlight, key, query>>
    <3>1. CallsTyped'
      BY <1>0, <2>0, <2>4 DEF CallsTyped, Silent, Answers, Waiting
    <3>2. GatesTyped'
      BY <1>0, <2>4 DEF GatesTyped
    <3> QED
      BY <1>0, <2>0, <2>1, <2>2, <2>4, <3>1, <3>2 DEF RestTyped
  <2>5. CASE /\ inFlight' = inFlight \cup {key[c]}
             /\ pc' = [pc EXCEPT ![c] = IF key[c] \in Inputs THEN "admit" ELSE "execute"]
             /\ ref' = [ref EXCEPT ![c] = None]
             /\ LeaveKey(c)
             /\ Silent
             /\ UNCHANGED <<sessionGate, key, query>>
    <3>1. CallsTyped'
      BY <1>0, <2>0, <2>5 DEF CallsTyped, Silent, Answers, Waiting
    <3>2. GatesTyped'
      BY <1>0, <2>0, <2>5, KeyGateTyped DEF GatesTyped
    <3> QED
      BY <1>0, <2>0, <2>1, <2>2, <2>5, <3>1, <3>2 DEF RestTyped
  <2>6. {"failed", "unknown", "refused"} \subseteq Answers
    BY DEF Answers
  <2> QED
    BY <1>6, <2>3, <2>4, <2>5, <2>6 DEF LookDiscarded, NotFound, Decide
<1> QED
  BY <1>1, <1>2, <1>3, <1>4, <1>5, <1>6

LEMMA ExecutionsTyped ==
    ASSUME Types, NEW c \in Calls,
           \/ Admit(c) \/ AdmitFails(c) \/ HandOver(c) \/ Succeed(c) \/ Fail(c) \/ Cancel(c)
    PROVE  Types'
<1>0. CallsTyped /\ GatesTyped /\ CacheTyped /\ TableTyped /\ RestTyped
  BY TypesByParts
<1> USE TypesByPartsThen
<1>c. UNCHANGED cache /\ CacheTyped'
  BY <1>0 DEF CacheTyped, cache, Admit, AdmitFails, HandOver, Succeed, Fail, Cancel
<1>p. pc[c] # "idle" /\ key[c] \in Commands /\ {"accepted", "failed"} \subseteq Statuses
  BY <1>0 DEF CallsTyped, Admit, AdmitFails, HandOver, Succeed, Fail, Cancel, Statuses
<1>s. ASSUME NEW status \in Statuses, Settle(c, live, settled, status), UNCHANGED <<store, runtime>>
      PROVE  Types'
  <2>1. live \in SUBSET Inputs /\ settled \in Entries /\ Len(settled) <= TableSize
    BY <1>0 DEF RestTyped, TableTyped
  <2>2. CallsTyped' /\ GatesTyped' /\ TableTyped' /\ inFlight' \subseteq Commands /\ live' \subseteq Inputs
    BY <1>p, <1>s, <2>1, SettleTyped
  <2>3. RestTyped'
    BY <1>0, <1>s, <2>2 DEF RestTyped, store, runtime
  <2> QED
    BY <1>c, <2>2, <2>3
<1>1. CASE Admit(c)
  <2>0. key[c] \in Inputs
    BY <1>0, <1>1 DEF CallsTyped, Admit
  <2>1. CallsTyped'
    BY <1>0, <1>1, <2>0 DEF CallsTyped, Admit, Silent, Answers, Waiting
  <2>2. GatesTyped'
    BY <1>0, <1>1 DEF GatesTyped, Admit, gates
  <2>3. TableTyped'
    <3>1. Len(settled) \in Nat /\ Len(Drop(settled, key[c])) \in Nat
      BY <1>0, DropTyped, LenProperties DEF TableTyped, Entries
    <3> QED
      BY <1>0, <1>1, <3>1, DropTyped, TableSizeAssumption DEF TableTyped, Admit
  <2>4. RestTyped'
    BY <1>0, <1>1, <2>0 DEF RestTyped, Admit, runtime, RowStates
  <2> QED
    BY <1>c, <2>1, <2>2, <2>3, <2>4
<1>2. CASE AdmitFails(c)
  BY <1>2, <1>p, <1>s DEF AdmitFails
<1>3. CASE HandOver(c)
  <2>1. CallsTyped'
    BY <1>0, <1>3 DEF CallsTyped, HandOver, Silent, Answers, Waiting
  <2>2. GatesTyped' /\ TableTyped'
    BY <1>0, <1>3 DEF GatesTyped, TableTyped, HandOver, gates, inbox
  <2>3. RestTyped'
    BY <1>0, <1>3 DEF RestTyped, HandOver, store, inbox
  <2> QED
    BY <1>c, <2>1, <2>2, <2>3
<1>4. CASE Succeed(c)
  BY <1>4, <1>p, <1>s DEF Succeed
<1>5. CASE Fail(c)
  <2>1. CASE key[c] \in Inputs
    <3>1. CallsTyped'
      BY <1>0, <1>5, <2>1 DEF CallsTyped, Fail, Silent, Answers, Waiting
    <3>2. GatesTyped' /\ TableTyped'
      BY <1>0, <1>5, <2>1 DEF GatesTyped, TableTyped, Fail, gates, inbox
    <3>3. RestTyped'
      BY <1>0, <1>5, <2>1 DEF RestTyped, Fail, store, inbox, runtime
    <3> QED
      BY <1>c, <3>1, <3>2, <3>3
  <2> QED
    BY <1>5, <1>p, <1>s, <2>1 DEF Fail
<1>6. CASE Cancel(c)
  <2> DEFINE pinned == live \ {key[c]}
             table == Remember(settled, key[c], "failed")
  <2>1. pinned \in SUBSET Inputs /\ table \in Entries /\ Len(table) <= TableSize
    BY <1>0, <1>p, RememberTyped DEF RestTyped, TableTyped
  <2>2. Settle(c, pinned, table, "failed")
    BY <1>6 DEF Cancel
  <2> HIDE DEF pinned, table
  <2>3. CallsTyped' /\ GatesTyped' /\ TableTyped' /\ inFlight' \subseteq Commands /\ live' \subseteq Inputs
    BY <1>p, <2>1, <2>2, SettleTyped
  <2>4. row' \in [Inputs -> RowStates]
    BY <1>0, <1>6 DEF Cancel, CancelRow, RestTyped, RowStates
  <2>5. RestTyped'
    BY <1>0, <1>6, <2>3, <2>4 DEF RestTyped, Cancel, runtime
  <2> QED
    BY <1>c, <2>3, <2>5
<1> QED
  BY <1>1, <1>2, <1>3, <1>4, <1>5, <1>6

LEMMA LoadsTyped ==
    ASSUME Types, NEW l \in Loads, Loading(l)
    PROVE  Types'
<1>0. CallsTyped /\ GatesTyped /\ CacheTyped /\ TableTyped /\ RestTyped
  BY TypesByParts
<1> USE TypesByPartsThen
<1>1. CallsTyped' /\ GatesTyped' /\ TableTyped'
  BY <1>0 DEF Loading, ReadStore, LoadFails, CallsTyped, GatesTyped, TableTyped, calls, gates,
              inbox, Silent, Answers
<1>2. row' \in [Inputs -> RowStates]
  BY <1>0 DEF Loading, ReadStore, LoadFails, RestTyped, store, Discarded, RowStates
<1>3. RestTyped'
  BY <1>0, <1>2 DEF Loading, ReadStore, LoadFails, RestTyped, store, inbox, runtime
<1>4. CacheTyped'
  <2>1. NoLoad \in Record
    BY DEF NoLoad, Record, NoFacts, Facts
  <2>2. CASE LoadFails(l)
    BY <1>0, <2>1, <2>2 DEF CacheTyped, LoadFails
  <2>3. CASE ReadStore(l)
    <3> DEFINE found == [k \in Commands |-> FactOf(k, row')]
    <3>1. found \in Facts
      BY FactsTyped
    <3>2. load' = [load EXCEPT ![l].state = "read", ![l].facts = found] /\ UNCHANGED index
      BY <2>3 DEF ReadStore
    <3> HIDE DEF found
    <3> QED
      BY <1>0, <3>1, <3>2 DEF CacheTyped, Record
  <2> QED
    BY <2>2, <2>3 DEF Loading
<1> QED
  BY <1>1, <1>3, <1>4

LEMMA EventsTyped ==
    ASSUME Types, NEW k \in Inputs,
           \/ Promote(k) \/ EndUnpromoted(k) \/ SaveFact(k) \/ Withdraw(k)
           \/ Aftermath(k)
    PROVE  Types'
<1>0. CallsTyped /\ GatesTyped /\ CacheTyped /\ TableTyped /\ RestTyped
  BY TypesByParts
<1> USE TypesByPartsThen
<1>1. CallsTyped' /\ GatesTyped'
  BY <1>0 DEF Promote, EndUnpromoted, SaveFact, Withdraw, Aftermath, Ingest, RecordFact, FactRecorded,
              CallsTyped, GatesTyped, calls, gates, Silent, Answers
<1>2. CASE Promote(k) \/ EndUnpromoted(k) \/ SaveFact(k) \/ Withdraw(k)
  <2>1. CacheTyped' /\ TableTyped'
    BY <1>0, <1>2 DEF Promote, EndUnpromoted, SaveFact, Withdraw, CacheTyped, TableTyped, cache, inbox
  <2>2. RestTyped'
    BY <1>0, <1>2 DEF Promote, EndUnpromoted, SaveFact, Withdraw, RestTyped, inbox, store, RowStates
  <2> QED
    BY <1>1, <2>1, <2>2
<1>3. CASE Ingest(k)
  <2>1. CacheTyped'
    BY <1>0, <1>3, CollectedTyped DEF Ingest, Invalidate, CacheTyped
  <2>2. TableTyped'
    BY <1>0, <1>3, RememberTyped DEF Ingest, TableTyped, Statuses, Commands
  <2>3. RestTyped'
    BY <1>0, <1>3 DEF Ingest, RestTyped, store
  <2> QED
    BY <1>1, <2>1, <2>2, <2>3
<1>4. CASE RecordFact(k)
  <2>1. Ensured \in Loads /\ k \in Compacts
    BY <1>0, <1>4, EnsuredTyped DEF RecordFact, RestTyped
  <2>2. CacheTyped'
    BY <1>4, <2>1, BegunTyped DEF RecordFact, CacheTyped
  <2>3. TableTyped' /\ RestTyped'
    BY <1>0, <1>4, <2>1 DEF RecordFact, TableTyped, RestTyped, inbox, store
  <2> QED
    BY <1>1, <2>2, <2>3
<1>5. CASE FactRecorded(k)
  <2> DEFINE loads == IF load[recorder[k]].state = "read"
                      THEN [load EXCEPT ![recorder[k]].facts[k] = "accepted"] ELSE load
  <2>1. loads \in [Loads -> Record]
    BY <1>0 DEF CacheTyped, Record, Facts
  <2>2. load' = Collected(loads) /\ UNCHANGED index
    BY <1>5 DEF FactRecorded
  <2> HIDE DEF loads
  <2>3. CacheTyped'
    BY <1>0, <2>1, <2>2, CollectedTyped DEF CacheTyped
  <2>4. TableTyped' /\ RestTyped'
    BY <1>0, <1>5 DEF FactRecorded, TableTyped, RestTyped, inbox, store
  <2> QED
    BY <1>1, <2>3, <2>4
<1> QED
  BY <1>2, <1>3, <1>4, <1>5 DEF Aftermath

LEMMA LivesTyped ==
    ASSUME Types, Deactivate \/ Resume \/ Restart \/ UNCHANGED vars
    PROVE  Types'
<1>0. CallsTyped /\ GatesTyped /\ CacheTyped /\ TableTyped /\ RestTyped
  BY TypesByParts
<1> USE TypesByPartsThen
<1>1. CASE Deactivate
  <2>1. TableTyped'
    BY <1>1, TableSizeAssumption DEF Deactivate, TableTyped, Entries
  <2>2. CallsTyped' /\ GatesTyped' /\ CacheTyped' /\ RestTyped'
    BY <1>0, <1>1 DEF Deactivate, CallsTyped, GatesTyped, CacheTyped, RestTyped, calls, gates,
                      cache, store, Silent, Answers
  <2> QED
    BY <2>1, <2>2
<1>2. CASE Resume
  <2>1. TableTyped' /\ CallsTyped' /\ GatesTyped' /\ CacheTyped'
    BY <1>0, <1>2 DEF Resume, TableTyped, CallsTyped, GatesTyped, CacheTyped, calls, gates,
                      cache, inbox, Silent, Answers
  <2>2. RestTyped'
    BY <1>0, <1>2 DEF Resume, RestTyped, inbox, Discarded, RowStates
  <2> QED
    BY <2>1, <2>2
<1>3. CASE Restart
  <2>1. NoLoad \in Record
    BY DEF NoLoad, Record, NoFacts, Facts
  <2>2. CallsTyped' /\ GatesTyped' /\ CacheTyped'
    BY <1>3, <2>1 DEF Restart, CallsTyped, GatesTyped, CacheTyped, Silent, Answers, Waiting
  <2>3. TableTyped'
    BY <1>3, TableSizeAssumption DEF Restart, TableTyped, Entries
  <2>4. RestTyped'
    BY <1>0, <1>3 DEF Restart, RestTyped, store
  <2> QED
    BY <2>2, <2>3, <2>4
<1>4. CASE UNCHANGED vars
  BY <1>0, <1>4 DEF vars, store, inbox, gates, cache, runtime, calls, CallsTyped, GatesTyped,
                    CacheTyped, TableTyped, RestTyped
<1> QED
  BY <1>1, <1>2, <1>3, <1>4

LEMMA TypesKept == Types /\ [Next]_vars => Types'
BY RequestsTyped, ExecutionsTyped, LoadsTyped, EventsTyped, LivesTyped DEF Next, Step

(* The types of CommandInbox, for all values of its constants: the table of settled *)
(* commands never grows past its limit (command-inbox.ts:487).                      *)
THEOREM TypeCorrect == Spec => []TypeOK
<1>1. Types => TypeOK
  BY DEF Types
<1> QED
  BY <1>1, TypesInit, TypesKept, PTL DEF Spec

-----------------------------------------------------------------------------
(* The gate of the session.                                                *)

\* A call waits in the gate once, and only the first one is past "session".
InGate ==
    /\ \A i, j \in DOMAIN sessionGate : sessionGate[i] = sessionGate[j] => i = j
    /\ \A i \in DOMAIN sessionGate :
          \/ pc[sessionGate[i]] = "session"
          \/ i = 1 /\ pc[sessionGate[i]] \in Waiting \cup Executing
    /\ \A c \in Calls : pc[c] \in Executing => HoldsSession(c)

\* What is in flight is what the call in the gate executes.
Flights ==
    /\ \A c \in Calls : pc[c] \in Executing => key[c] \in inFlight
    /\ \A k \in inFlight : \E c \in Calls : pc[c] \in Executing /\ key[c] = k

GateInv == InGate /\ Flights

LEMMA Gate ==
    ASSUME Types
    PROVE  /\ sessionGate \in Seq(Calls) /\ Len(sessionGate) \in Nat
           /\ DOMAIN sessionGate = 1 .. Len(sessionGate)
           /\ \A i \in 1 .. Len(sessionGate) : sessionGate[i] \in Calls
           /\ pc \in [Calls -> {"idle", "key", "joining", "transcript", "discarded", "session",
                                "admit", "execute", "handed", "cancel"} \cup Statuses]
           /\ \A c \in Calls : HoldsSession(c) <=> Len(sessionGate) > 0 /\ sessionGate[1] = c
<1>1. sessionGate \in Seq(Calls)
  BY DEF Types, TypeOK
<1>2. /\ Len(sessionGate) \in Nat
      /\ DOMAIN sessionGate = 1 .. Len(sessionGate)
      /\ \A i \in 1 .. Len(sessionGate) : sessionGate[i] \in Calls
  BY <1>1, LenProperties
<1>3. \A c \in Calls : HoldsSession(c) <=> Len(sessionGate) > 0 /\ sessionGate[1] = c
  BY <1>1, <1>2 DEF HoldsSession
<1> QED
  BY <1>1, <1>2, <1>3 DEF Types, TypeOK

LEMMA OneInGate ==
    ASSUME Types, NEW c \in Calls, NEW d \in Calls, HoldsSession(c), HoldsSession(d)
    PROVE  c = d
BY Gate

\* Whoever is in the gate without holding it waits for it.
LEMMA NotInGate ==
    ASSUME Types, InGate, NEW c \in Calls, pc[c] # "session", ~HoldsSession(c)
    PROVE  \A i \in DOMAIN sessionGate : sessionGate[i] # c
BY Gate DEF InGate

LEMMA GateLeft ==
    ASSUME Types, Types', InGate, NEW c \in Calls, LeaveSession(c),
           HoldsSession(c) \/ pc[c] # "session",
           pc'[c] = "idle",
           \A d \in Calls \ {c} : pc'[d] = pc[d] \/ (pc[d] = "joining" /\ pc'[d] \in Statuses)
    PROVE  InGate'
<1>0. /\ sessionGate \in Seq(Calls) /\ Len(sessionGate) \in Nat
      /\ DOMAIN sessionGate = 1 .. Len(sessionGate)
      /\ \A i \in 1 .. Len(sessionGate) : sessionGate[i] \in Calls
  BY Gate
<1>1. \A d \in Calls : pc'[d] \in Executing => d # c /\ pc[d] = pc'[d]
  BY DEF Executing, Statuses
<1>2. CASE HoldsSession(c)
  <2>1. Len(sessionGate) > 0 /\ sessionGate[1] = c /\ sessionGate' = Tail(sessionGate)
    BY <1>2, Gate DEF LeaveSession
  <2>2. /\ Len(sessionGate') = Len(sessionGate) - 1
        /\ \A i \in 1 .. Len(sessionGate) - 1 : sessionGate'[i] = sessionGate[i + 1]
    <3>1. sessionGate # <<>>
      BY <1>0, <2>1
    <3> QED
      BY <1>0, <2>1, <3>1, HeadTailProperties
  <2>3. DOMAIN sessionGate' = 1 .. Len(sessionGate) - 1
    BY <2>2, LenProperties DEF Types, TypeOK
  <2>4. ASSUME NEW i \in DOMAIN sessionGate'
        PROVE  /\ i + 1 \in DOMAIN sessionGate /\ i + 1 # 1
               /\ sessionGate'[i] = sessionGate[i + 1] /\ sessionGate[i + 1] # c
    BY <1>0, <2>1, <2>2, <2>3 DEF InGate
  <2>5. ASSUME NEW i \in DOMAIN sessionGate'
        PROVE  pc'[sessionGate'[i]] = "session"
    <3>1. pc[sessionGate[i + 1]] = "session"
      BY <2>4 DEF InGate
    <3> QED
      BY <1>0, <2>4, <3>1
  <2>6. ASSUME NEW i \in DOMAIN sessionGate', NEW j \in DOMAIN sessionGate',
               sessionGate'[i] = sessionGate'[j]
        PROVE  i = j
    <3>1. i + 1 = j + 1
      BY <2>4, <2>6 DEF InGate
    <3> QED
      BY <1>0, <2>3, <3>1
  <2>7. \A d \in Calls : pc'[d] \notin Executing
    BY <1>1, <1>2, OneInGate DEF InGate
  <2> QED
    BY <2>5, <2>6, <2>7 DEF InGate
<1>3. CASE ~HoldsSession(c)
  <2>1. sessionGate' = sessionGate
    BY <1>3 DEF LeaveSession
  <2>2. \A i \in DOMAIN sessionGate : sessionGate[i] # c
    BY <1>3, NotInGate
  <2>3. \A i \in DOMAIN sessionGate : pc'[sessionGate[i]] = pc[sessionGate[i]]
    BY <1>0, <2>2 DEF InGate, Waiting, Executing
  <2>4. \A d \in Calls : HoldsSession(d)' <=> HoldsSession(d)
    BY <2>1 DEF HoldsSession
  <2> QED
    BY <1>1, <2>1, <2>3, <2>4 DEF InGate
<1> QED
  BY <1>2, <1>3

\* A request that executes nothing is answered.
LEMMA GateAnswered ==
    ASSUME Types, Types', GateInv, NEW c \in Calls, NEW a, Answered(c, a), UNCHANGED inFlight,
           pc[c] \notin Executing, HoldsSession(c) \/ pc[c] # "session"
    PROVE  GateInv'
<1>0. pc \in [Calls -> {"idle", "key", "joining", "transcript", "discarded", "session",
                        "admit", "execute", "handed", "cancel"} \cup Statuses]
      /\ key \in [Calls -> Commands \cup {None}]
  BY DEF Types, TypeOK
<1>1. LeaveSession(c) /\ pc'[c] = "idle" /\ \A d \in Calls \ {c} : pc'[d] = pc[d] /\ key'[d] = key[d]
  BY <1>0 DEF Answered
<1>2. InGate'
  BY <1>1, GateLeft DEF GateInv
<1>3. Flights'
  BY <1>1 DEF GateInv, Flights, Executing
<1> QED
  BY <1>2, <1>3 DEF GateInv

\* The call in the gate is through.
LEMMA GateSettled ==
    ASSUME Types, Types', GateInv, NEW c \in Calls, NEW pinned, NEW table, NEW status \in Statuses,
           pc[c] \in Executing, Settle(c, pinned, table, status)
    PROVE  GateInv' /\ inFlight' = {}
<1>0. pc \in [Calls -> {"idle", "key", "joining", "transcript", "discarded", "session",
                        "admit", "execute", "handed", "cancel"} \cup Statuses]
      /\ key \in [Calls -> Commands \cup {None}]
  BY DEF Types, TypeOK
<1>1. LeaveSession(c) /\ pc'[c] = "idle"
      /\ \A d \in Calls \ {c} : pc'[d] = pc[d] \/ (pc[d] = "joining" /\ pc'[d] \in Statuses)
  BY <1>0 DEF Settle
<1>2. HoldsSession(c)
  BY DEF GateInv, InGate
<1>3. InGate'
  BY <1>1, <1>2, GateLeft DEF GateInv
<1>4. \A d \in Calls : pc[d] \in Executing => d = c
  BY <1>2, OneInGate DEF GateInv, InGate
<1>5. inFlight' = {}
  BY <1>4 DEF GateInv, Flights, Settle
<1>6. \A d \in Calls : pc'[d] \notin Executing
  BY <1>1, <1>4 DEF Executing, Statuses
<1> QED
  BY <1>3, <1>5, <1>6 DEF GateInv, Flights

\* A call takes its next step in the gate, or outside of it.
LEMMA GateAdvanced ==
    ASSUME Types, Types', GateInv, NEW c \in Calls, NEW stage,
           pc' = [pc EXCEPT ![c] = stage],
           \A d \in Calls \ {c} : key'[d] = key[d],
           UNCHANGED sessionGate,
           \/ /\ ~HoldsSession(c) /\ pc[c] # "session" /\ stage \notin Executing
              /\ UNCHANGED inFlight
           \/ /\ HoldsSession(c) /\ pc[c] \notin Executing /\ stage \in Waiting
              /\ UNCHANGED inFlight
           \/ /\ HoldsSession(c) /\ stage \in Executing
              /\ inFlight' = inFlight \cup {key[c]} /\ key'[c] = key[c]
    PROVE  GateInv'
<1>0. pc \in [Calls -> {"idle", "key", "joining", "transcript", "discarded", "session",
                        "admit", "execute", "handed", "cancel"} \cup Statuses]
  BY DEF Types, TypeOK
<1>1. pc'[c] = stage /\ \A d \in Calls \ {c} : pc'[d] = pc[d]
  BY <1>0
<1>2. \A d \in Calls : HoldsSession(d)' <=> HoldsSession(d)
  BY DEF HoldsSession
<1>3. \A i \in DOMAIN sessionGate : sessionGate[i] \in Calls /\ (sessionGate[i] = c => HoldsSession(c) \/ pc[c] = "session")
  BY Gate, NotInGate DEF GateInv
<1>4. \A i \in DOMAIN sessionGate : sessionGate[i] = c /\ HoldsSession(c) => i = 1
  <2>1. HoldsSession(c) => 1 \in DOMAIN sessionGate /\ sessionGate[1] = c
    BY Gate
  <2> QED
    BY <2>1 DEF GateInv, InGate
<1>5. InGate'
  <2>1. \A i \in DOMAIN sessionGate :
          \/ pc'[sessionGate[i]] = "session"
          \/ i = 1 /\ pc'[sessionGate[i]] \in Waiting \cup Executing
    BY <1>1, <1>3, <1>4 DEF GateInv, InGate
  <2>2. \A d \in Calls : pc'[d] \in Executing => HoldsSession(d)
    BY <1>1 DEF GateInv, InGate, Executing, Waiting
  <2> QED
    BY <1>2, <2>1, <2>2 DEF GateInv, InGate
<1>6. Flights'
  <2>1. CASE stage \notin Executing /\ pc[c] \notin Executing /\ UNCHANGED inFlight
    BY <1>1, <2>1 DEF GateInv, Flights
  <2>2. CASE stage \in Executing /\ inFlight' = inFlight \cup {key[c]} /\ key'[c] = key[c]
    BY <1>1, <2>2 DEF GateInv, Flights
  <2>3. pc[c] \in Executing => HoldsSession(c)
    BY DEF GateInv, InGate
  <2> QED
    BY <2>1, <2>2, <2>3 DEF Waiting, Executing
<1> QED
  BY <1>5, <1>6 DEF GateInv

\* A call lines up before the gate.
LEMMA GateEntered ==
    ASSUME Types, Types', GateInv, NEW c \in Calls, ~HoldsSession(c),
           pc[c] \notin {"session"} \cup Executing,
           pc' = [pc EXCEPT ![c] = "session"], sessionGate' = Append(sessionGate, c),
           UNCHANGED <<inFlight, key>>
    PROVE  GateInv'
<1>0. /\ sessionGate \in Seq(Calls) /\ Len(sessionGate) \in Nat
      /\ DOMAIN sessionGate = 1 .. Len(sessionGate)
      /\ pc \in [Calls -> {"idle", "key", "joining", "transcript", "discarded", "session",
                           "admit", "execute", "handed", "cancel"} \cup Statuses]
      /\ \A i \in 1 .. Len(sessionGate) : sessionGate[i] \in Calls
  BY Gate
<1>1. pc'[c] = "session" /\ \A d \in Calls \ {c} : pc'[d] = pc[d]
  BY <1>0
<1>2. \A i \in DOMAIN sessionGate : sessionGate[i] # c
  BY NotInGate DEF GateInv
<1>3. /\ DOMAIN sessionGate' = 1 .. Len(sessionGate) + 1
      /\ \A i \in 1 .. Len(sessionGate) : sessionGate'[i] = sessionGate[i]
      /\ sessionGate'[Len(sessionGate) + 1] = c
  BY <1>0
<1>4. ASSUME NEW d \in Calls, HoldsSession(d)
      PROVE  HoldsSession(d)'
  <2>1. Len(sessionGate) > 0 /\ sessionGate[1] = d
    BY <1>4, Gate
  <2>2. sessionGate' # <<>> /\ sessionGate' \in Seq(Calls) /\ sessionGate'[1] = d
    <3>1. sessionGate' # <<>> /\ sessionGate' \in Seq(Calls)
      BY <1>0
    <3> QED
      BY <1>0, <1>3, <2>1, <3>1
  <2> QED
    BY <2>2 DEF HoldsSession
<1>5. InGate'
  <2>1. \A i, j \in DOMAIN sessionGate' : sessionGate'[i] = sessionGate'[j] => i = j
    BY <1>0, <1>2, <1>3 DEF GateInv, InGate
  <2>2. ASSUME NEW i \in DOMAIN sessionGate'
        PROVE  \/ pc'[sessionGate'[i]] = "session"
               \/ i = 1 /\ pc'[sessionGate'[i]] \in Waiting \cup Executing
    <3>1. CASE i = Len(sessionGate) + 1
      BY <1>1, <1>3, <3>1
    <3>2. CASE i \in 1 .. Len(sessionGate)
      <4>1. sessionGate'[i] = sessionGate[i] /\ pc'[sessionGate[i]] = pc[sessionGate[i]]
        BY <1>0, <1>1, <1>2, <1>3, <3>2
      <4> QED
        BY <1>0, <3>2, <4>1 DEF GateInv, InGate
    <3> QED
      BY <1>0, <1>3, <3>1, <3>2
  <2>3. \A d \in Calls : pc'[d] \in Executing => HoldsSession(d)'
    BY <1>1, <1>4 DEF GateInv, InGate, Executing
  <2> QED
    BY <2>1, <2>2, <2>3 DEF InGate
<1>6. Flights'
  BY <1>1 DEF GateInv, Flights, Executing
<1> QED
  BY <1>5, <1>6 DEF GateInv

LEMMA GateInit == Init => GateInv
BY DEF Init, EmptyMemory, GateInv, InGate, Flights, Executing

LEMMA GateOfRequests ==
    ASSUME Types, Types', GateInv, NEW c \in Calls,
           \/ \E k \in Commands, q \in BOOLEAN : Arrive(c, k, q)
           \/ Look(c) \/ Deliver(c) \/ Unavailable(c) \/ LookTranscript(c) \/ LookDiscarded(c)
    PROVE  GateInv'
<1>0. /\ pc \in [Calls -> {"idle", "key", "joining", "transcript", "discarded", "session",
                           "admit", "execute", "handed", "cancel"} \cup Statuses]
      /\ key \in [Calls -> Commands \cup {None}]
  BY DEF Types, TypeOK
<1>1. HoldsSession(c) => pc[c] \in {"session"} \cup Waiting \cup Executing
  <2>1. HoldsSession(c) => 1 \in DOMAIN sessionGate /\ sessionGate[1] = c
    BY Gate
  <2> QED
    BY <2>1 DEF GateInv, InGate
<1> USE DEF Waiting, Executing
<1>2. ASSUME NEW k \in Commands, NEW q \in BOOLEAN, Arrive(c, k, q)
      PROVE  GateInv'
  <2>1. ~HoldsSession(c) /\ pc[c] # "session"
    BY <1>1, <1>2 DEF Arrive
  <2> QED
    BY <1>0, <1>2, <2>1, GateAdvanced DEF Arrive, inbox
<1>3. CASE Look(c)
  <2>0. /\ pc[c] \notin Executing /\ UNCHANGED inFlight
        /\ \/ pc[c] = "key" /\ ~HoldsSession(c)
           \/ pc[c] = "session" /\ HoldsSession(c)
    BY <1>1, <1>3 DEF Look
  <2>1. CASE /\ key[c] \in inFlight /\ pc' = [pc EXCEPT ![c] = "joining"] /\ UNCHANGED <<gates, key>>
    <3>1. ~HoldsSession(c) /\ pc[c] # "session"
      <4>1. PICK d \in Calls : pc[d] \in Executing /\ key[d] = key[c]
        BY <2>1 DEF GateInv, Flights
      <4>2. HoldsSession(d)
        BY <4>1 DEF GateInv, InGate
      <4> QED
        BY <2>0, <4>1, <4>2, OneInGate
    <3> QED
      BY <2>0, <2>1, <3>1, GateAdvanced DEF gates
  <2>2. ASSUME NEW a, Answered(c, a)
        PROVE  GateInv'
    BY <2>0, <2>2, GateAnswered
  <2>3. CASE Seek(c, "transcript")
    BY <1>0, <2>0, <2>3, GateAdvanced DEF Seek, gates
  <2> QED
    BY <1>3, <2>1, <2>2, <2>3 DEF Look
<1>4. CASE Deliver(c) \/ Unavailable(c)
  BY <1>4, GateAnswered DEF Deliver, Unavailable, inbox, Statuses
<1>5. CASE LookTranscript(c)
  <2>1. pc[c] = "transcript" /\ UNCHANGED inFlight
    BY <1>5 DEF LookTranscript, inbox
  <2>2. CASE Seek(c, "discarded")
    BY <1>0, <2>1, <2>2, GateAdvanced DEF Seek, gates
  <2>3. ASSUME NEW a, Answered(c, a)
        PROVE  GateInv'
    BY <2>1, <2>3, GateAnswered
  <2> QED
    BY <1>5, <2>2, <2>3 DEF LookTranscript
<1>6. CASE LookDiscarded(c)
  <2>1. pc[c] = "discarded"
    BY <1>6 DEF LookDiscarded
  <2>2. ASSUME NEW a, Answered(c, a), UNCHANGED inFlight
        PROVE  GateInv'
    BY <2>1, <2>2, GateAnswered
  <2>3. CASE /\ ~HoldsSession(c)
             /\ sessionGate' = Append(sessionGate, c)
             /\ pc' = [pc EXCEPT ![c] = "session"]
             /\ UNCHANGED <<inFlight, key>>
    BY <2>1, <2>3, GateEntered
  <2>4. CASE /\ HoldsSession(c)
             /\ inFlight' = inFlight \cup {key[c]}
             /\ pc' = [pc EXCEPT ![c] = IF key[c] \in Inputs THEN "admit" ELSE "execute"]
             /\ UNCHANGED <<sessionGate, key>>
    BY <1>0, <2>1, <2>4, GateAdvanced
  <2> QED
    BY <1>6, <2>2, <2>3, <2>4 DEF LookDiscarded, NotFound, Decide
<1> QED
  BY <1>2, <1>3, <1>4, <1>5, <1>6

LEMMA GateKept == Types /\ Types' /\ GateInv /\ [Next]_vars => GateInv'
<1> SUFFICES ASSUME Types, Types', GateInv, [Next]_vars PROVE GateInv'
  OBVIOUS
<1>0. /\ pc \in [Calls -> {"idle", "key", "joining", "transcript", "discarded", "session",
                           "admit", "execute", "handed", "cancel"} \cup Statuses]
      /\ key \in [Calls -> Commands \cup {None}]
  BY DEF Types, TypeOK
<1>1. ASSUME UNCHANGED <<inFlight, sessionGate, pc, key>>
      PROVE  GateInv'
  BY <1>1 DEF GateInv, InGate, Flights, HoldsSession
<1>2. ASSUME NEW c \in Calls, Admit(c) \/ HandOver(c)
      PROVE  GateInv'
  <2>1. pc[c] \in Executing /\ HoldsSession(c) /\ key[c] \in inFlight
    BY <1>2 DEF Admit, HandOver, Executing, GateInv, InGate, Flights
  <2>2. inFlight' = inFlight \cup {key[c]} /\ UNCHANGED <<sessionGate, key>>
    BY <1>2, <2>1 DEF Admit, HandOver, gates, inbox
  <2> QED
    BY <1>0, <1>2, <2>1, <2>2, GateAdvanced DEF Admit, HandOver, Executing
<1>3. ASSUME NEW c \in Calls, AdmitFails(c) \/ Succeed(c) \/ Fail(c) \/ Cancel(c)
      PROVE  GateInv'
  <2>1. pc[c] \in Executing /\ HoldsSession(c) /\ key[c] \in inFlight
        /\ {"accepted", "failed"} \subseteq Statuses
    BY <1>3 DEF AdmitFails, Succeed, Fail, Cancel, Executing, GateInv, InGate, Flights, Statuses
  <2>2. CASE pc' = [pc EXCEPT ![c] = "cancel"] /\ UNCHANGED <<inbox, gates, key>>
    <3>1. inFlight' = inFlight \cup {key[c]} /\ UNCHANGED <<sessionGate, key>>
      BY <2>1, <2>2 DEF inbox, gates
    <3> QED
      BY <1>0, <2>1, <2>2, <3>1, GateAdvanced DEF Executing
  <2> QED
    BY <1>3, <2>1, <2>2, GateSettled DEF AdmitFails, Succeed, Fail, Cancel
<1>4. CASE Restart
  BY <1>4 DEF Restart, GateInv, InGate, Flights, Executing
<1>5. ASSUME NEW l \in Loads, Loading(l)
      PROVE  GateInv'
  BY <1>1, <1>5 DEF Loading, ReadStore, LoadFails, inbox, gates, calls
<1>6. ASSUME NEW k \in Inputs, \/ Promote(k) \/ EndUnpromoted(k) \/ SaveFact(k) \/ Withdraw(k) \/ Aftermath(k)
      PROVE  GateInv'
  BY <1>1, <1>6 DEF Promote, EndUnpromoted, SaveFact, Withdraw, Aftermath, Ingest, RecordFact, FactRecorded,
                    inbox, gates, calls
<1>7. CASE Deactivate \/ Resume \/ UNCHANGED vars
  BY <1>1, <1>7 DEF Deactivate, Resume, vars, inbox, gates, calls
<1> QED
  BY <1>2, <1>3, <1>4, <1>5, <1>6, <1>7, GateOfRequests DEF Next, Step

-----------------------------------------------------------------------------
(* What the tables, the store and the loads say of each other.             *)

\* A load that has been read knows what has become of an input, except that a
\* first try has failed.
Fresh(l, k) ==
    load[l].state = "read" =>
        /\ row[k] = "promoted" \/ k \in saved => load[l].facts[k] = "accepted"
        /\ row[k] \in {"removed", "discarded"} /\ k \notin saved => load[l].facts[k] = "failed"

AtRest ==
    ~resident => live = {} /\ inFlight = {} /\ \A k \in Inputs : pending[k] = "none"

\* What the runtime holds is pinned, and its row is as far as its events say.
Progress ==
    \A k \in Inputs :
        /\ pending[k] # "none" => k \in live
        /\ pending[k] = "queued" => k \notin saved /\ row[k] \in {"admitted", "failed"}
        /\ pending[k] = "taken" => row[k] = "promoted"
        /\ pending[k] = "withdrawn" => k \notin saved /\ row[k] \in {"removed", "failed"}
        /\ pending[k] \in {"saved", "recording"} => k \in saved

\* What is executed has not been carried out.
Executions ==
    \A c \in Calls :
        LET k == key[c] IN
        /\ pc[c] = "admit" => k \notin live /\ k \notin saved /\ row[k] \in {"none", "failed"}
        /\ pc[c] \in {"execute", "cancel"} /\ k \in Inputs =>
              /\ k \in live /\ k \notin saved /\ row[k] \in {"admitted", "failed"}
              /\ pending[k] = "none"

\* A load that may not sweep runs only while nothing has to be swept, and the
\* cached one knows of every input that is not pinned.
Loadings ==
    /\ \A l \in Loads :
          /\ load[l].state = "read" \/ (load[l].state = "begun" /\ ~load[l].cold) =>
                resident \/ \A k \in Inputs : row[k] # "admitted"
          /\ load[l].state = "begun" /\ load[l].cold => ~resident
    /\ index # None => \A k \in Inputs \ live : Fresh(index, k)

\* The call in the gate that waits for the facts of an input.
WaitsOf(c) ==
    HoldsSession(c) /\ pc[c] \in Waiting =>
        /\ key[c] \notin live
        /\ key[c] \in Inputs =>
              /\ Fresh(ref[c], key[c])
              /\ pc[c] = "discarded" => row[key[c]] # "promoted" /\ key[c] \notin saved

Waits == \A c \in Calls : WaitsOf(c)

Life == AtRest /\ OpenIsPinned /\ Progress /\ Executions /\ Loadings /\ Waits

LEMMA LifeInit == Init => Life
BY DEF Init, EmptyMemory, Life, AtRest, OpenIsPinned, Progress,
       Executions, Loadings, Waits, WaitsOf, NoLoad, Waiting

\* The call that executes is alone.
LEMMA Executor ==
    ASSUME Types, GateInv, Life, NEW c \in Calls, pc[c] \in Executing
    PROVE  /\ HoldsSession(c) /\ resident
           /\ key[c] \in Commands /\ inFlight = {key[c]}
           /\ \A d \in Calls : HoldsSession(d) \/ pc[d] \in Executing => d = c
<1>1. HoldsSession(c) /\ key[c] \in inFlight
  BY DEF GateInv, InGate, Flights
<1>2. \A d \in Calls : HoldsSession(d) \/ pc[d] \in Executing => d = c
  BY <1>1, OneInGate DEF GateInv, InGate
<1>3. inFlight = {key[c]}
  BY <1>1, <1>2 DEF GateInv, Flights
<1>4. resident
  BY <1>1 DEF Life, AtRest
<1>5. key[c] \in Commands
  BY DEF Types, Keys, Executing
<1> QED
  BY <1>1, <1>2, <1>3, <1>4, <1>5

\* A call past "session" does not come into the gate: it was there.
LEMMA StillHeld ==
    ASSUME Types, Types', GateInv, NEW d \in Calls, pc[d] # "session", HoldsSession(d)',
           NEW c \in Calls,
           \/ UNCHANGED sessionGate
           \/ LeaveSession(c)
           \/ c # d /\ sessionGate' = Append(sessionGate, c)
    PROVE  HoldsSession(d)
<1>0. /\ sessionGate \in Seq(Calls) /\ Len(sessionGate) \in Nat
      /\ DOMAIN sessionGate = 1 .. Len(sessionGate)
  BY Gate
<1>1. sessionGate' \in Seq(Calls) /\ Len(sessionGate') > 0 /\ sessionGate'[1] = d
  BY DEF Types, TypeOK, HoldsSession
<1>2. \E i \in DOMAIN sessionGate : sessionGate[i] = d
  <2>1. CASE UNCHANGED sessionGate
    BY <1>0, <1>1, <2>1
  <2>2. CASE sessionGate' = Tail(sessionGate) /\ sessionGate # <<>>
    <3>1. /\ Len(sessionGate') = Len(sessionGate) - 1
          /\ \A i \in 1 .. Len(sessionGate') : sessionGate'[i] = sessionGate[i + 1]
      BY <1>0, <2>2, HeadTailProperties
    <3>2. sessionGate[2] = d /\ 2 \in 1 .. Len(sessionGate)
      BY <1>0, <1>1, <3>1
    <3> QED
      BY <1>0, <3>2
  <2>3. CASE c # d /\ sessionGate' = Append(sessionGate, c)
    <3>1. /\ Len(sessionGate') = Len(sessionGate) + 1
          /\ \A i \in 1 .. Len(sessionGate) : sessionGate'[i] = sessionGate[i]
          /\ sessionGate'[Len(sessionGate) + 1] = c
      <4> DEFINE longer == Append(sessionGate, c)
      <4>1. /\ Len(longer) = Len(sessionGate) + 1
            /\ \A i \in 1 .. Len(sessionGate) : longer[i] = sessionGate[i]
            /\ longer[Len(sessionGate) + 1] = c
        BY <1>0, AppendProperties
      <4> HIDE DEF longer
      <4>2. sessionGate' = longer
        BY <2>3 DEF longer
      <4> QED
        BY <4>1, <4>2
    <3>2. Len(sessionGate) > 0
      <4>1. CASE Len(sessionGate) = 0
        BY <1>1, <2>3, <3>1, <4>1
      <4> QED
        BY <1>0, <4>1
    <3> QED
      BY <1>0, <1>1, <3>1, <3>2
  <2> QED
    BY <2>1, <2>2, <2>3 DEF LeaveSession, HoldsSession
<1> QED
  BY <1>2, NotInGate DEF GateInv

\* What the steps of calls do to the loads.
LoadsMove ==
    /\ \A l \in Loads :
          \/ load'[l] = load[l]
          \/ load'[l] = NoLoad
          \/ load'[l] = [state |-> "begun", cold |-> ~resident, facts |-> NoFacts]
    /\ \/ index' = index \/ index' = None
       \/ index' \in Loads /\ load'[index'].state # "read"

LEMMA Collecting ==
    ASSUME Types, load' = Collected(load), index' = index \/ index' = None
    PROVE  LoadsMove
BY CollectedTyped, TypesByParts DEF LoadsMove, CacheTyped

LEMMA Ensuring ==
    ASSUME Types, Loadings, CanEnsure, index' = Ensured,
           load' = Begun \/ load' = Collected(Begun), UNCHANGED <<row, saved>>
    PROVE  LoadsMove /\ \A k \in Inputs \ live : Fresh(index, k)'
<1> DEFINE new == [state |-> "begun", cold |-> ~resident, facts |-> NoFacts]
<1>1. Ensured \in Loads /\ Begun \in [Loads -> Record]
  BY EnsuredTyped, BegunTyped
<1>2. \A l \in Loads : load'[l] = Begun[l] \/ load'[l] = NoLoad
  BY <1>1, CollectedTyped
<1>3. CASE index # None
  <2>1. Ensured = index /\ Begun = load
    BY <1>3 DEF Ensured, Begun
  <2>2. LoadsMove
    BY <1>2, <2>1 DEF LoadsMove
  <2>3. load'[index] = load[index] \/ load'[index] = NoLoad
    BY <1>1, <1>2, <2>1
  <2> QED
    BY <1>3, <2>1, <2>2, <2>3 DEF Loadings, Fresh, NoLoad
<1>4. CASE index = None
  <2>1. \A l \in Loads : Begun[l] = IF l = Ensured THEN new ELSE load[l]
    BY <1>1, <1>4, TypesByParts DEF Begun, CacheTyped
  <2>2. load'[Ensured] = new \/ load'[Ensured] = NoLoad
    BY <1>1, <1>2, <2>1
  <2>3. load'[Ensured].state # "read"
    BY <2>2 DEF NoLoad
  <2> QED
    BY <1>1, <1>2, <2>1, <2>3 DEF LoadsMove, Fresh
<1> QED
  BY <1>3, <1>4

LEMMA LoadingsKept ==
    ASSUME Types, Loadings, LoadsMove, UNCHANGED <<row, saved, resident>>,
           \A k \in live \ live' : index' = None
    PROVE  /\ Loadings'
           /\ \A l \in Loads, k \in Inputs : Fresh(l, k) => Fresh(l, k)'
<1>1. \A l \in Loads : load'[l].state = "read" => load'[l] = load[l]
  BY DEF LoadsMove, NoLoad
<1>2. \A l \in Loads, k \in Inputs : Fresh(l, k) => Fresh(l, k)'
  BY <1>1 DEF Fresh
<1>3. ASSUME NEW l \in Loads
      PROVE  /\ load'[l].state = "read" \/ (load'[l].state = "begun" /\ ~load'[l].cold) =>
                    resident \/ \A k \in Inputs : row[k] # "admitted"
             /\ load'[l].state = "begun" /\ load'[l].cold => ~resident
  <2>1. CASE load'[l] = load[l]
    BY <2>1 DEF Loadings
  <2>2. CASE load'[l] = NoLoad
    BY <2>2 DEF NoLoad
  <2>3. CASE load'[l] = [state |-> "begun", cold |-> ~resident, facts |-> NoFacts]
    <3>1. load'[l].state = "begun" /\ load'[l].cold = (~resident)
      BY <2>3
    <3> QED
      BY <3>1
  <2> QED
    BY <2>1, <2>2, <2>3 DEF LoadsMove
<1>4. ASSUME index' # None, NEW k \in Inputs \ live'
      PROVE  Fresh(index, k)'
  <2>1. k \in Inputs \ live
    BY <1>4
  <2>2. CASE index' = index
    <3>1. index \in Loads
      BY <1>4, <2>2 DEF Types, TypeOK
    <3> QED
      BY <1>2, <1>4, <2>1, <2>2, <3>1 DEF Loadings, Fresh
  <2>3. CASE load'[index'].state # "read"
    BY <2>3 DEF Fresh
  <2> QED
    BY <1>4, <2>2, <2>3 DEF LoadsMove
<1> QED
  BY <1>2, <1>3, <1>4 DEF Loadings

\* A step of a request that only looks.
LEMMA Looking ==
    ASSUME Types, Types', GateInv, Life, NEW c \in Calls,
           UNCHANGED <<row, saved, resident, pending, live, inFlight>>, LoadsMove,
           pc'[c] \notin Executing,
           \A d \in Calls \ {c} : pc'[d] = pc[d] /\ key'[d] = key[d] /\ ref'[d] = ref[d],
           \/ UNCHANGED sessionGate
           \/ LeaveSession(c)
           \/ sessionGate' = Append(sessionGate, c),
           WaitsOf(c)'
    PROVE  Life'
<1>1. Loadings' /\ \A l \in Loads, k \in Inputs : Fresh(l, k) => Fresh(l, k)'
  BY LoadingsKept DEF Life
<1>2. AtRest' /\ OpenIsPinned' /\ Progress'
  BY DEF Life, AtRest, OpenIsPinned, Progress
<1>3. Executions'
  BY DEF Life, Executions, Executing
<1>4. ASSUME NEW d \in Calls \ {c}, HoldsSession(d)', pc'[d] \in Waiting
      PROVE  WaitsOf(d)'
  <2>1. HoldsSession(d)
    BY <1>4, StillHeld DEF Waiting
  <2>2. ref[d] \in Loads
    BY <1>4 DEF Types, Keys
  <2>3. WaitsOf(d)
    BY DEF Life, Waits
  <2> QED
    BY <1>1, <1>4, <2>1, <2>2, <2>3 DEF WaitsOf, Fresh
<1> QED
  BY <1>1, <1>2, <1>3, <1>4 DEF Life, Waits, WaitsOf

\* Without a call that waits in the gate there is nothing to wait for.
LEMMA AnswerWaitsNot ==
    ASSUME NEW c \in Calls, pc'[c] \notin Waiting
    PROVE  WaitsOf(c)'
BY DEF WaitsOf

LEMMA LifeOfRequests ==
    ASSUME Types, Types', GateInv, Life, NEW c \in Calls,
           \/ \E k \in Commands, q \in BOOLEAN : Arrive(c, k, q)
           \/ Look(c) \/ Deliver(c) \/ Unavailable(c) \/ LookTranscript(c)
    PROVE  Life'
<1>0. /\ pc \in [Calls -> {"idle", "key", "joining", "transcript", "discarded", "session",
                           "admit", "execute", "handed", "cancel"} \cup Statuses]
      /\ key \in [Calls -> Commands \cup {None}] /\ ref \in [Calls -> Loads \cup {None}]
  BY DEF Types, TypeOK
<1>1. HoldsSession(c) => pc[c] \in {"session"} \cup Waiting \cup Executing
  <2>1. HoldsSession(c) => 1 \in DOMAIN sessionGate /\ sessionGate[1] = c
    BY Gate
  <2> QED
    BY <2>1 DEF GateInv, InGate
<1>2. ASSUME NEW a, Answered(c, a), LoadsMove, UNCHANGED <<store, inFlight, live, runtime>>
      PROVE  Life'
  <2>1. pc'[c] = "idle" /\ LeaveSession(c)
        /\ \A d \in Calls \ {c} : pc'[d] = pc[d] /\ key'[d] = key[d] /\ ref'[d] = ref[d]
    BY <1>0, <1>2 DEF Answered
  <2>2. WaitsOf(c)'
    BY <2>1, AnswerWaitsNot DEF Waiting
  <2> QED
    BY <1>2, <2>1, <2>2, Looking DEF store, runtime, Executing
<1>3. ASSUME NEW stage \in Waiting, Seek(c, stage), load' = Collected(Begun), pc[c] # "idle",
             UNCHANGED <<store, inFlight, live, runtime>>,
             HoldsSession(c) => /\ key[c] \notin live
                                /\ stage = "discarded" /\ key[c] \in Inputs =>
                                      row[key[c]] # "promoted" /\ key[c] \notin saved
      PROVE  Life'
  <2>1. LoadsMove /\ \A k \in Inputs \ live : Fresh(index, k)'
    BY <1>3, Ensuring DEF Seek, Life, store
  <2>2. pc'[c] = stage /\ ref'[c] = index' /\ key'[c] = key[c] /\ UNCHANGED sessionGate
        /\ \A d \in Calls \ {c} : pc'[d] = pc[d] /\ key'[d] = key[d] /\ ref'[d] = ref[d]
    BY <1>0, <1>3 DEF Seek, gates
  <2>3. HoldsSession(c)' <=> HoldsSession(c)
    BY <2>2 DEF HoldsSession
  <2>4. WaitsOf(c)'
    BY <1>3, <2>1, <2>2, <2>3 DEF WaitsOf, Fresh, store
  <2> QED
    BY <1>3, <2>1, <2>2, <2>4, Looking DEF store, runtime, Executing, Waiting
<1>4. ASSUME UNCHANGED cache
      PROVE  LoadsMove
  BY <1>4 DEF LoadsMove, cache
<1>5. ASSUME NEW k \in Commands, NEW q \in BOOLEAN, Arrive(c, k, q)
      PROVE  Life'
  <2>1. pc'[c] = "key" /\ UNCHANGED sessionGate
        /\ \A d \in Calls \ {c} : pc'[d] = pc[d] /\ key'[d] = key[d] /\ ref'[d] = ref[d]
    BY <1>0, <1>5 DEF Arrive
  <2>2. WaitsOf(c)'
    BY <2>1, AnswerWaitsNot DEF Waiting
  <2> QED
    BY <1>4, <1>5, <2>1, <2>2, Looking DEF Arrive, store, inbox, runtime, Executing
<1>6. CASE Look(c)
  <2>1. CASE pc' = [pc EXCEPT ![c] = "joining"] /\ UNCHANGED <<gates, cache, key, ref>>
    <3>1. pc'[c] = "joining" /\ UNCHANGED sessionGate
          /\ \A d \in Calls \ {c} : pc'[d] = pc[d] /\ key'[d] = key[d] /\ ref'[d] = ref[d]
      BY <1>0, <2>1 DEF gates
    <3>2. WaitsOf(c)'
      BY <3>1, AnswerWaitsNot DEF Waiting
    <3> QED
      BY <1>4, <1>6, <2>1, <3>1, <3>2, Looking DEF Look, store, runtime, Executing
  <2>2. ASSUME NEW a, Answered(c, a), UNCHANGED cache
        PROVE  Life'
    BY <1>2, <1>4, <1>6, <2>2 DEF Look
  <2>3. CASE key[c] \notin live /\ Seek(c, "transcript") /\ load' = Collected(Begun)
    BY <1>3, <1>6, <2>3 DEF Look, Waiting
  <2> QED
    BY <1>6, <2>1, <2>2, <2>3 DEF Look
<1>7. CASE Deliver(c) \/ Unavailable(c)
  BY <1>2, <1>4, <1>7 DEF Deliver, Unavailable, inbox
<1>8. CASE LookTranscript(c)
  <2>1. UNCHANGED <<store, inFlight, live, runtime>> /\ pc[c] = "transcript"
        /\ load[ref[c]].state = "read"
    BY <1>8 DEF LookTranscript, inbox
  <2>2. CASE Answered(c, Retry(c, "accepted")) /\ UNCHANGED index /\ load' = Collected(load)
    BY <1>2, <2>1, <2>2, Collecting
  <2>3. CASE Fact(c) # "accepted" /\ Seek(c, "discarded") /\ load' = Collected(Begun)
    <3>1. ASSUME HoldsSession(c), key[c] \in Inputs
          PROVE  row[key[c]] # "promoted" /\ key[c] \notin saved
      BY <2>1, <2>3, <3>1 DEF Life, Waits, WaitsOf, Fresh, Fact, Waiting
    <3>2. HoldsSession(c) => key[c] \notin live
      BY <2>1 DEF Life, Waits, WaitsOf, Waiting
    <3> QED
      BY <1>3, <2>1, <2>3, <3>1, <3>2 DEF Waiting
  <2> QED
    BY <1>8, <2>2, <2>3 DEF LookTranscript
<1> QED
  BY <1>5, <1>6, <1>7, <1>8

\* What is decided on in the gate has not been carried out.
LEMMA Undone ==
    ASSUME Types, GateInv, Life, NEW c \in Calls, HoldsSession(c), resident,
           pc[c] = "discarded", load[ref[c]].state = "read", Fact(c) # "failed",
           key[c] \in Inputs
    PROVE  key[c] \notin live /\ key[c] \notin saved /\ row[key[c]] \in {"none", "failed"}
<1>1. key[c] \notin live /\ Fresh(ref[c], key[c]) /\ row[key[c]] # "promoted" /\ key[c] \notin saved
  BY DEF Life, Waits, WaitsOf, Waiting
<1>2. row[key[c]] \notin {"removed", "discarded"}
  BY <1>1 DEF Fresh, Fact
<1>3. row[key[c]] # "admitted"
  BY <1>1 DEF Life, OpenIsPinned
<1>4. row[key[c]] \in RowStates
  BY DEF Types, TypeOK
<1> QED
  BY <1>1, <1>2, <1>3, <1>4 DEF RowStates

LEMMA LifeOfDecision ==
    ASSUME Types, Types', GateInv, GateInv', Life, NEW c \in Calls, LookDiscarded(c)
    PROVE  Life'
<1>0. /\ pc \in [Calls -> {"idle", "key", "joining", "transcript", "discarded", "session",
                           "admit", "execute", "handed", "cancel"} \cup Statuses]
      /\ key \in [Calls -> Commands \cup {None}] /\ ref \in [Calls -> Loads \cup {None}]
  BY DEF Types, TypeOK
<1>1. /\ UNCHANGED <<row, saved, resident, pending, live>>
      /\ pc[c] = "discarded" /\ load[ref[c]].state = "read"
      /\ load' = Collected(load) /\ UNCHANGED index
  BY DEF LookDiscarded, store, runtime
<1>2. LoadsMove
  BY <1>1, Collecting
<1>3. ASSUME NEW a, Answered(c, a), UNCHANGED inFlight
      PROVE  Life'
  <2>1. pc'[c] = "idle" /\ LeaveSession(c)
        /\ \A d \in Calls \ {c} : pc'[d] = pc[d] /\ key'[d] = key[d] /\ ref'[d] = ref[d]
    BY <1>0, <1>3 DEF Answered
  <2>2. WaitsOf(c)'
    BY <2>1, AnswerWaitsNot DEF Waiting
  <2> QED
    BY <1>1, <1>2, <1>3, <2>1, <2>2, Looking DEF Executing
<1>4. CASE /\ sessionGate' = Append(sessionGate, c)
           /\ pc' = [pc EXCEPT ![c] = "session"]
           /\ ref' = [ref EXCEPT ![c] = None]
           /\ UNCHANGED <<inFlight, key>>
  <2>1. pc'[c] = "session"
        /\ \A d \in Calls \ {c} : pc'[d] = pc[d] /\ key'[d] = key[d] /\ ref'[d] = ref[d]
    BY <1>0, <1>4
  <2>2. WaitsOf(c)'
    BY <2>1, AnswerWaitsNot DEF Waiting
  <2> QED
    BY <1>1, <1>2, <1>4, <2>1, <2>2, Looking DEF Executing
<1>5. CASE /\ resident /\ HoldsSession(c) /\ Fact(c) # "failed"
           /\ inFlight' = inFlight \cup {key[c]}
           /\ pc' = [pc EXCEPT ![c] = IF key[c] \in Inputs THEN "admit" ELSE "execute"]
           /\ ref' = [ref EXCEPT ![c] = None]
           /\ UNCHANGED <<sessionGate, key>>
  <2>1. pc'[c] \in {"admit", "execute"} /\ (key[c] \in Inputs <=> pc'[c] = "admit")
        /\ \A d \in Calls \ {c} : pc'[d] = pc[d] /\ key'[d] = key[d] /\ ref'[d] = ref[d]
    BY <1>0, <1>5
  <2>2. AtRest' /\ OpenIsPinned' /\ Progress'
    BY <1>1, <1>5 DEF Life, AtRest, OpenIsPinned, Progress
  <2>3. Loadings'
    BY <1>1, <1>2, LoadingsKept DEF Life
  <2>4. \A d \in Calls : pc'[d] \in Executing => d = c
    BY <1>5, <2>1, OneInGate DEF GateInv, InGate
  <2>5. Executions'
    <3>1. key[c] \in Inputs => /\ key[c] \notin live /\ key[c] \notin saved
                               /\ row[key[c]] \in {"none", "failed"}
      BY <1>1, <1>5, Undone
    <3> QED
      BY <1>1, <1>5, <2>1, <2>4, <3>1 DEF Executions, Executing
  <2>6. Waits'
    <3>1. \A d \in Calls : HoldsSession(d)' => d = c
      BY <1>5, OneInGate DEF HoldsSession
    <3> QED
      BY <2>1, <3>1 DEF Waits, WaitsOf, Waiting
  <2> QED
    BY <2>2, <2>3, <2>5, <2>6 DEF Life
<1> QED
  BY <1>3, <1>4, <1>5 DEF LookDiscarded, NotFound, Decide

\* The store takes back the row of an input that failed.
Cancels == CancelMayFail = FALSE

LEMMA LifeOfExecutions ==
    ASSUME Cancels, Types, Types', GateInv, GateInv', Life, NEW c \in Calls,
           \/ Admit(c) \/ AdmitFails(c) \/ HandOver(c) \/ Succeed(c) \/ Fail(c) \/ Cancel(c)
    PROVE  Life'
<1> DEFINE k == key[c]
<1>0. /\ pc \in [Calls -> {"idle", "key", "joining", "transcript", "discarded", "session",
                           "admit", "execute", "handed", "cancel"} \cup Statuses]
      /\ row \in [Inputs -> RowStates] /\ live \subseteq Inputs
      /\ pending \in [Inputs -> {"none", "queued", "taken", "withdrawn", "saved", "recording"}]
      /\ index \in Loads \cup {None}
  BY DEF Types, TypeOK
<1>1. pc[c] \in Executing
  BY DEF Admit, AdmitFails, HandOver, Succeed, Fail, Cancel, Executing
<1>2. /\ HoldsSession(c) /\ resident /\ k \in Commands /\ inFlight = {k}
      /\ \A d \in Calls : HoldsSession(d) \/ pc[d] \in Executing => d = c
  BY <1>1, Executor
<1>3. UNCHANGED <<resident, index, load>>
  BY DEF Admit, AdmitFails, HandOver, Succeed, Fail, Cancel, runtime, cache
<1>4. AtRest'
  BY <1>2, <1>3 DEF AtRest
<1>5. \A d \in Calls \ {c} : pc'[d] \notin Executing
  BY <1>0, <1>2 DEF Admit, AdmitFails, HandOver, Succeed, Fail, Cancel, Settle, Executing, Statuses
<1>6. Waits'
  <2>1. pc'[c] \notin Waiting
    BY <1>0, <1>1 DEF Admit, AdmitFails, HandOver, Succeed, Fail, Cancel, Settle, Executing, Waiting
  <2>2. ASSUME NEW d \in Calls \ {c}, pc'[d] \in Waiting
        PROVE  ~HoldsSession(d)'
    <3>1. pc'[d] = pc[d] /\ (UNCHANGED sessionGate \/ LeaveSession(c))
      BY <1>0, <2>2 DEF Admit, AdmitFails, HandOver, Succeed, Fail, Cancel, Settle, Waiting, gates, Statuses
    <3> QED
      BY <1>2, <2>2, <3>1, StillHeld DEF Waiting
  <2> QED
    BY <2>1, <2>2 DEF Waits, WaitsOf
<1>7. ASSUME \A j \in Inputs \ live' :
                \/ j \notin live /\ row'[j] = row[j]
                \/ row'[j] = "failed" /\ j \notin saved,
             UNCHANGED saved
      PROVE  Loadings'
  BY <1>2, <1>3, <1>7 DEF Life, Loadings, Fresh
<1>8. CASE Admit(c)
  <2>1. k \in Inputs /\ k \notin live /\ k \notin saved /\ row[k] \in {"none", "failed"}
    BY <1>8 DEF Life, Executions, Admit, Types, Keys
  <2>2. /\ live' = live \cup {k} /\ row'[k] \in {"admitted", "failed"}
        /\ \A j \in Inputs \ {k} : row'[j] = row[j]
        /\ UNCHANGED <<saved, inFlight, pending, key>> /\ pc'[c] = "execute"
    BY <1>0, <1>8, <2>1 DEF Admit, runtime
  <2>3. OpenIsPinned'
    BY <1>2, <2>2 DEF Life, OpenIsPinned
  <2>4. pending[k] = "none"
    BY <1>0, <2>1 DEF Life, Progress
  <2>5. Progress'
    BY <2>2, <2>4 DEF Life, Progress
  <2>6. Executions'
    BY <1>5, <2>1, <2>2, <2>4 DEF Executions, Executing
  <2>7. Loadings'
    BY <1>7, <2>2
  <2> QED
    BY <1>4, <1>6, <2>3, <2>5, <2>6, <2>7 DEF Life
<1>9. CASE HandOver(c)
  <2>1. k \in Inputs /\ k \in live /\ k \notin saved /\ row[k] \in {"admitted", "failed"}
    BY <1>9 DEF Life, Executions, HandOver
  <2>2. /\ UNCHANGED <<row, saved, inFlight, live, key>> /\ pc'[c] = "handed"
        /\ pending'[k] = "queued" /\ \A j \in Inputs \ {k} : pending'[j] = pending[j]
    BY <1>0, <1>9, <2>1 DEF HandOver, store, inbox
  <2>3. OpenIsPinned' /\ Progress'
    BY <1>0, <1>3, <2>1, <2>2 DEF Life, OpenIsPinned, Progress
  <2>4. Executions'
    BY <1>5, <2>1, <2>2 DEF Executions, Executing
  <2>5. Loadings'
    BY <1>7, <2>2
  <2> QED
    BY <1>4, <1>6, <2>3, <2>4, <2>5 DEF Life
<1>10. ASSUME pc'[c] = "cancel", pc[c] = "execute",
              UNCHANGED <<row, saved, pending, inFlight, live, key>>
       PROVE  Life'
  <2>1. OpenIsPinned' /\ Progress' /\ Loadings'
    BY <1>3, <1>7, <1>10 DEF Life, OpenIsPinned, Progress
  <2>2. Executions'
    BY <1>5, <1>10 DEF Life, Executions, Executing
  <2> QED
    BY <1>4, <1>6, <2>1, <2>2 DEF Life
<1>11. ASSUME NEW status, Settle(c, live, settled, status), UNCHANGED <<row, saved, pending>>
       PROVE  Life'
  <2>1. UNCHANGED live /\ pc'[c] = "idle"
    BY <1>0, <1>11 DEF Settle
  <2>2. OpenIsPinned'
    BY <1>2, <1>3, <1>11, <2>1 DEF Life, OpenIsPinned
  <2>3. Progress' /\ Loadings'
    BY <1>7, <1>11, <2>1 DEF Life, Progress
  <2>4. Executions'
    BY <1>5, <2>1 DEF Executions, Executing
  <2> QED
    BY <1>4, <1>6, <2>2, <2>3, <2>4 DEF Life
<1>12. CASE Cancel(c)
  <2>1. k \in Inputs /\ k \in live /\ k \notin saved /\ row[k] \in {"admitted", "failed"}
        /\ pending[k] = "none"
    BY <1>12 DEF Life, Executions, Cancel, Types, Keys
  <2>2. /\ live' = live \ {k} /\ row'[k] = "failed" /\ pc'[c] = "idle"
        /\ \A j \in Inputs \ {k} : row'[j] = row[j]
        /\ UNCHANGED <<saved, pending>>
    BY <1>0, <1>12, <2>1 DEF Cancel, CancelRow, Settle, Cancels, runtime
  <2>3. OpenIsPinned'
    BY <1>2, <1>3, <2>1, <2>2 DEF Life, OpenIsPinned
  <2>4. Progress'
    BY <2>1, <2>2 DEF Life, Progress
  <2>5. Loadings'
    BY <1>7, <2>1, <2>2
  <2>6. Executions'
    BY <1>5, <2>2 DEF Executions, Executing
  <2> QED
    BY <1>4, <1>6, <2>3, <2>4, <2>5, <2>6 DEF Life
<1>13. CASE AdmitFails(c)
  BY <1>11, <1>13 DEF AdmitFails, store, runtime
<1>14. CASE Succeed(c)
  BY <1>11, <1>14 DEF Succeed, store, runtime
<1>15. CASE Fail(c)
  <2>1. CASE key[c] \in Inputs
    <3>1. pc'[c] = "cancel" /\ pc[c] = "execute" /\ UNCHANGED <<row, saved, pending, inFlight, live, key>>
      BY <1>0, <1>15, <2>1 DEF Fail, store, runtime, inbox
    <3> QED
      BY <1>10, <3>1
  <2>2. CASE key[c] \notin Inputs
    BY <1>11, <1>15, <2>2 DEF Fail, store, runtime, Inputs
  <2> QED
    BY <2>1, <2>2
<1> QED
  BY <1>8, <1>9, <1>12, <1>13, <1>14, <1>15

\* A reading load sweeps only what no load that was read has seen.
LEMMA Reading ==
    ASSUME Types, Types', Life, NEW l \in Loads, ReadStore(l)
    PROVE  /\ load[l].state = "begun"
           /\ row' = IF load[l].cold THEN Discarded(row) ELSE row
           /\ \A m \in Loads \ {l} : load'[m] = load[m]
           /\ load'[l].state = "read"
           /\ load'[l].facts = [k \in Commands |-> FactOf(k, row')]
           /\ resident => row' = row
           /\ ~resident => \A k \in Inputs : row'[k] # "admitted"
           /\ \A m \in Loads, k \in Inputs : Fresh(m, k) => Fresh(m, k)'
<1>0. load \in [Loads -> Record] /\ UNCHANGED saved
  BY TypesByParts DEF CacheTyped, ReadStore
<1>1. /\ load[l].state = "begun"
      /\ row' = IF load[l].cold THEN Discarded(row) ELSE row
      /\ \A m \in Loads \ {l} : load'[m] = load[m]
      /\ load'[l].state = "read"
      /\ load'[l].facts = [k \in Commands |-> FactOf(k, row')]
  BY <1>0 DEF ReadStore, Record
<1>2. resident => row' = row
  BY <1>1 DEF Life, Loadings
<1>3. (\A k \in Inputs : row[k] # "admitted") => row' = row
  BY <1>1 DEF Discarded, Types, TypeOK
<1>4. ~resident => \A k \in Inputs : row'[k] # "admitted"
  BY <1>1 DEF Life, Loadings, Discarded
<1>5. \A k \in Inputs : Fresh(l, k)'
  BY <1>0, <1>1 DEF Fresh, FactOf, Inputs, Commands
<1>6. ASSUME NEW m \in Loads, NEW k \in Inputs, Fresh(m, k)
      PROVE  Fresh(m, k)'
  <2>1. CASE m = l
    BY <1>5, <2>1
  <2>2. CASE m # l /\ load[m].state = "read"
    <3>1. row' = row
      BY <1>2, <1>3, <2>2 DEF Life, Loadings
    <3> QED
      BY <1>0, <1>1, <1>6, <2>2, <3>1 DEF Fresh
  <2>3. CASE m # l /\ load[m].state # "read"
    BY <1>1, <2>3 DEF Fresh
  <2> QED
    BY <2>1, <2>2, <2>3
<1> QED
  BY <1>1, <1>2, <1>4, <1>6

LEMMA LifeOfLoads ==
    ASSUME Types, Types', GateInv, GateInv', Life, NEW l \in Loads, Loading(l)
    PROVE  Life'
<1>0. load \in [Loads -> Record] /\ index \in Loads \cup {None}
  BY TypesByParts DEF CacheTyped
<1>1. /\ UNCHANGED <<saved, inFlight, live, resident, pending, pc, key, ref, sessionGate>>
      /\ \A c \in Calls : HoldsSession(c)' <=> HoldsSession(c)
  BY DEF Loading, ReadStore, LoadFails, store, inbox, gates, runtime, calls, HoldsSession
<1>2. CASE LoadFails(l)
  <2>1. LoadsMove /\ UNCHANGED row
    BY <1>0, <1>2 DEF LoadFails, LoadsMove, store
  <2>2. Loadings' /\ \A m \in Loads, k \in Inputs : Fresh(m, k) => Fresh(m, k)'
    BY <1>1, <2>1, LoadingsKept DEF Life
  <2>3. AtRest' /\ OpenIsPinned' /\ Progress' /\ Executions'
    BY <1>1, <2>1 DEF Life, AtRest, OpenIsPinned, Progress, Executions
  <2>4. Waits'
    <3>1. \A c \in Calls : pc[c] \in Waiting => ref[c] \in Loads
      BY DEF Types, Keys
    <3>2. ASSUME NEW c \in Calls, HoldsSession(c), pc[c] \in Waiting
          PROVE  WaitsOf(c)'
      BY <1>1, <2>1, <2>2, <3>1, <3>2 DEF Life, Waits, WaitsOf, Fresh
    <3> QED
      BY <1>1, <3>2 DEF Waits, WaitsOf
  <2> QED
    BY <2>2, <2>3, <2>4 DEF Life
<1>3. CASE ReadStore(l)
  <2>1. /\ load[l].state = "begun" /\ UNCHANGED index
        /\ row' = IF load[l].cold THEN Discarded(row) ELSE row
        /\ \A m \in Loads \ {l} : load'[m] = load[m]
        /\ load'[l].state = "read"
    BY <1>3, Reading DEF ReadStore
  <2>2. resident => row' = row
    BY <1>3, Reading
  <2>4. ~resident => \A k \in Inputs : row'[k] # "admitted"
    BY <1>3, Reading
  <2>6. \A m \in Loads, k \in Inputs : Fresh(m, k) => Fresh(m, k)'
    BY <1>3, Reading
  <2>7. Loadings'
    <3>1. ASSUME NEW m \in Loads
          PROVE  /\ load'[m].state = "read" \/ (load'[m].state = "begun" /\ ~load'[m].cold) =>
                        resident' \/ \A k \in Inputs : row'[k] # "admitted"
                 /\ load'[m].state = "begun" /\ load'[m].cold => ~resident'
      BY <1>1, <2>1, <2>4 DEF Life, Loadings
    <3>2. index' # None => \A k \in Inputs \ live' : Fresh(index, k)'
      BY <1>0, <1>1, <2>1, <2>6 DEF Life, Loadings, Fresh
    <3> QED
      BY <3>1, <3>2 DEF Loadings
  <2>8. AtRest' /\ OpenIsPinned'
    BY <1>1, <2>2 DEF Life, AtRest, OpenIsPinned
  <2>9. Progress'
    BY <1>1, <2>2 DEF Life, AtRest, Progress
  <2>10. Executions'
    <3>1. ASSUME NEW c \in Calls, pc[c] \in Executing
          PROVE  resident
      BY <3>1, Executor
    <3> QED
      BY <1>1, <2>2, <3>1 DEF Life, Executions, Executing
  <2>11. Waits'
    <3>1. ASSUME NEW k \in Inputs, row'[k] = "promoted"
          PROVE  row[k] = "promoted"
      BY <2>1, <3>1 DEF Discarded
    <3>2. \A c \in Calls : pc[c] \in Waiting => ref[c] \in Loads
      BY DEF Types, Keys
    <3>3. ASSUME NEW c \in Calls, HoldsSession(c), pc[c] \in Waiting
          PROVE  WaitsOf(c)'
      BY <1>1, <2>6, <3>1, <3>2, <3>3 DEF Life, Waits, WaitsOf, Fresh
    <3> QED
      BY <1>1, <3>3 DEF Waits, WaitsOf
  <2> QED
    BY <2>7, <2>8, <2>9, <2>10, <2>11 DEF Life
<1> QED
  BY <1>2, <1>3 DEF Loading

\* The fact that is recorded is of one input.
LEMMA Recording ==
    ASSUME Types, Life, NEW k \in Inputs, FactRecorded(k)
    PROVE  /\ k \in saved
           /\ \A l \in Loads :
                 \/ load'[l].state = "failed"
                 \/ /\ load'[l].state = load[l].state /\ load'[l].cold = load[l].cold
                    /\ \A j \in Inputs \ {k} : load'[l].facts[j] = load[l].facts[j]
           /\ \A l \in Loads, j \in Inputs \ {k} : Fresh(l, j) => Fresh(l, j)'
<1> DEFINE m == recorder[k]
           loads == IF load[m].state = "read" THEN [load EXCEPT ![m].facts[k] = "accepted"] ELSE load
<1>0. load \in [Loads -> Record]
  BY TypesByParts DEF CacheTyped
<1>1. UNCHANGED <<row, saved>> /\ load' = Collected(loads) /\ pending[k] = "recording"
  BY DEF FactRecorded, store
<1>2. k \in saved /\ m \in Loads
  BY <1>1 DEF Life, Progress, Types, Keys
<1>3. loads \in [Loads -> Record]
  BY <1>0, <1>2 DEF Record, Facts
<1>4. \A l \in Loads : /\ loads[l].state = load[l].state /\ loads[l].cold = load[l].cold
                       /\ \A j \in Inputs \ {k} : loads[l].facts[j] = load[l].facts[j]
  BY <1>0, <1>2 DEF Record, Facts, Inputs, Commands
<1> HIDE DEF loads, m
<1>5. \A l \in Loads : load'[l] = loads[l] \/ load'[l].state = "failed"
  BY <1>1, <1>3, CollectedTyped DEF NoLoad
<1>6. \A l \in Loads, j \in Inputs \ {k} : Fresh(l, j) => Fresh(l, j)'
  BY <1>1, <1>4, <1>5 DEF Fresh
<1> QED
  BY <1>2, <1>4, <1>5, <1>6

\* What the runtime does with an input that is pinned disturbs no other one.
LEMMA LifeOfEvents ==
    ASSUME Types, Types', GateInv, GateInv', Life, NEW k \in Inputs,
           \/ Promote(k) \/ EndUnpromoted(k) \/ SaveFact(k) \/ Withdraw(k)
           \/ Aftermath(k)
    PROVE  Life'
<1>0. /\ row \in [Inputs -> RowStates] /\ live \subseteq Inputs
      /\ pending \in [Inputs -> {"none", "queued", "taken", "withdrawn", "saved", "recording"}]
      /\ load \in [Loads -> Record] /\ index \in Loads \cup {None}
  BY TypesByParts DEF RestTyped, CacheTyped
<1>1. /\ UNCHANGED <<inFlight, resident, pc, key, ref, sessionGate>>
      /\ \A c \in Calls : HoldsSession(c)' <=> HoldsSession(c)
  BY DEF Promote, EndUnpromoted, SaveFact, Withdraw, Aftermath, Ingest, RecordFact, FactRecorded, inbox, gates,
         calls, HoldsSession
<1>2. k \in live /\ pending[k] # "none" /\ resident
  BY DEF Promote, EndUnpromoted, SaveFact, Withdraw, Aftermath, Ingest, RecordFact, FactRecorded, Life, Progress,
         AtRest
<1>3. \A c \in Calls : key[c] = k => pc[c] \notin {"admit", "execute", "cancel"}
  BY <1>2 DEF Life, Executions
<1>4. \A c \in Calls : HoldsSession(c) /\ pc[c] \in Waiting => key[c] # k /\ ref[c] \in Loads
  BY <1>2 DEF Life, Waits, WaitsOf, Types, Keys
<1>5. /\ \A j \in Inputs \ {k} :
            /\ row'[j] = row[j] /\ pending'[j] = pending[j]
            /\ j \in saved' <=> j \in saved
            /\ j \in live' <=> j \in live
      /\ live' \subseteq live
  BY <1>0 DEF Promote, EndUnpromoted, SaveFact, Withdraw, Aftermath, Ingest, RecordFact, FactRecorded, inbox, store
<1>6. AtRest'
  BY <1>1, <1>2 DEF AtRest
<1>7. ASSUME /\ k \notin live' => row'[k] # "admitted"
             /\ pending'[k] # "none" => k \in live'
             /\ pending'[k] = "taken" => row'[k] = "promoted"
             /\ pending'[k] = "withdrawn" => k \notin saved' /\ row'[k] \in {"removed", "failed"}
             /\ pending'[k] \in {"saved", "recording"} => k \in saved'
             /\ pending'[k] # "queued"
      PROVE  OpenIsPinned' /\ Progress' /\ Executions'
  <2>1. OpenIsPinned'
    BY <1>0, <1>1, <1>5, <1>7 DEF Life, OpenIsPinned
  <2>2. Progress'
    BY <1>5, <1>7 DEF Life, Progress
  <2>3. Executions'
    <3>1. ASSUME NEW c \in Calls, pc[c] = "admit" \/ (pc[c] \in {"execute", "cancel"} /\ key[c] \in Inputs)
          PROVE  key[c] \in Inputs \ {k}
      BY <1>3, <3>1 DEF Types, Keys
    <3> QED
      BY <1>1, <1>5, <3>1 DEF Life, Executions
  <2> QED
    BY <2>1, <2>2, <2>3
<1>8. ASSUME \A l \in Loads, j \in Inputs \ {k} : Fresh(l, j) => Fresh(l, j)'
      PROVE  Waits'
  <2>1. ASSUME NEW c \in Calls, HoldsSession(c), pc[c] \in Waiting
        PROVE  WaitsOf(c)'
    <3>1. WaitsOf(c) /\ key[c] # k /\ ref[c] \in Loads
      BY <1>4, <2>1 DEF Life, Waits
    <3> QED
      BY <1>1, <1>5, <1>8, <2>1, <3>1 DEF WaitsOf, Fresh
  <2> QED
    BY <1>1, <2>1 DEF Waits, WaitsOf
<1>9. CASE Promote(k) \/ EndUnpromoted(k) \/ Withdraw(k) \/ SaveFact(k)
  <2>1. UNCHANGED <<index, load, live>>
    BY <1>9 DEF Promote, EndUnpromoted, Withdraw, SaveFact, cache, inbox
  <2>2. \A l \in Loads, j \in Inputs \ {k} : Fresh(l, j) => Fresh(l, j)'
    BY <1>5, <2>1 DEF Fresh
  <2>3. Loadings'
    BY <1>0, <1>1, <1>2, <1>5, <2>1, <2>2 DEF Life, Loadings, Fresh
  <2>4. OpenIsPinned' /\ Progress' /\ Executions'
    BY <1>0, <1>2, <1>7, <1>9, <2>1 DEF Promote, EndUnpromoted, Withdraw, SaveFact, Life, Progress, RowStates
  <2> QED
    BY <1>6, <1>8, <2>2, <2>3, <2>4 DEF Life
<1>10. CASE Ingest(k) \/ RecordFact(k)
  <2>1. UNCHANGED <<row, saved>>
    BY <1>10 DEF Ingest, RecordFact, store
  <2>2. LoadsMove /\ \A j \in live \ live' : index' = None
    <3>1. CASE Ingest(k)
      BY <3>1, Collecting DEF Ingest, Invalidate
    <3>2. CASE RecordFact(k)
      BY <2>1, <3>2, Ensuring DEF RecordFact, Life, inbox
    <3> QED
      BY <1>10, <3>1, <3>2
  <2>3. Loadings' /\ \A l \in Loads, j \in Inputs : Fresh(l, j) => Fresh(l, j)'
    BY <1>1, <2>1, <2>2, LoadingsKept DEF Life
  <2>4. OpenIsPinned' /\ Progress' /\ Executions'
    BY <1>0, <1>2, <1>7, <1>10 DEF Ingest, RecordFact, Life, Progress, RowStates, store, inbox
  <2> QED
    BY <1>6, <1>8, <2>3, <2>4 DEF Life
<1>11. CASE FactRecorded(k)
  <2>1. /\ UNCHANGED <<row, saved, live, index>>
        /\ pending[k] = "recording" /\ pending'[k] = "none"
    BY <1>0, <1>11 DEF FactRecorded, store, inbox
  <2>2. k \in saved /\ k \in Compacts /\ k \notin Texts
    BY <2>1, KindsAssumption DEF Life, Progress, Types, Keys
  <2>4. \A l \in Loads : \/ load'[l].state = "failed"
                         \/ load'[l].state = load[l].state /\ load'[l].cold = load[l].cold
    BY <1>11, Recording
  <2>6. \A l \in Loads, j \in Inputs \ {k} : Fresh(l, j) => Fresh(l, j)'
    BY <1>11, Recording
  <2>7. Loadings'
    <3>1. ASSUME NEW l \in Loads
          PROVE  /\ load'[l].state = "read" \/ (load'[l].state = "begun" /\ ~load'[l].cold) =>
                        resident' \/ \A j \in Inputs : row'[j] # "admitted"
                 /\ load'[l].state = "begun" /\ load'[l].cold => ~resident'
      BY <1>1, <1>2, <2>4 DEF Life, Loadings
    <3>2. index' # None => \A j \in Inputs \ live' : Fresh(index, j)'
      BY <1>0, <1>2, <2>1, <2>6 DEF Life, Loadings, Fresh
    <3> QED
      BY <3>1, <3>2 DEF Loadings
  <2>8. OpenIsPinned' /\ Progress' /\ Executions'
    BY <1>0, <1>2, <1>7, <2>1, <2>2 DEF RowStates
  <2> QED
    BY <1>6, <1>8, <2>6, <2>7, <2>8 DEF Life
<1> QED
  BY <1>9, <1>10, <1>11 DEF Aftermath

\* Reopening a session changes nothing that a load has seen.
LEMMA Reopening ==
    ASSUME Types, Life, Resume
    PROVE  \A l \in Loads, k \in Inputs : Fresh(l, k) => Fresh(l, k)'
<1>1. UNCHANGED <<saved, load>> /\ row' = Discarded(row) /\ ~resident
  BY DEF Resume, cache
<1>2. ASSUME NEW l \in Loads, NEW k \in Inputs, Fresh(l, k)
      PROVE  Fresh(l, k)'
  <2>1. CASE load[l].state = "read"
    <3>1. \A j \in Inputs : row[j] # "admitted"
      BY <1>1, <2>1 DEF Life, Loadings
    <3>2. row' = row
      BY <1>1, <3>1 DEF Discarded, Types, TypeOK
    <3> QED
      BY <1>1, <1>2, <3>2 DEF Fresh
  <2> QED
    BY <1>1, <2>1 DEF Fresh
<1> QED
  BY <1>2

LEMMA LifeOfLives ==
    ASSUME Types, Types', GateInv, GateInv', Life, Deactivate \/ Resume \/ Restart
    PROVE  Life'
<1>0. row \in [Inputs -> RowStates]
  BY DEF Types, TypeOK
<1>1. CASE Restart
  <2>1. OpenIsPinned' /\ AtRest' /\ Progress'
    BY <1>1 DEF Restart, OpenIsPinned, AtRest, Progress
  <2>2. Executions' /\ Waits'
    BY <1>1 DEF Restart, Executions, Waits, WaitsOf, Waiting
  <2>3. Loadings'
    BY <1>1 DEF Restart, Loadings, NoLoad
  <2> QED
    BY <2>1, <2>2, <2>3 DEF Life
<1>2. CASE Deactivate
  <2>1. /\ UNCHANGED <<row, saved, inFlight, live, pending, index, load, pc, key, ref, sessionGate>>
        /\ inFlight = {} /\ live = {} /\ \A k \in Inputs : pending[k] = "none"
        /\ resident /\ ~resident'
    BY <1>2 DEF Deactivate, store, gates, cache, calls
  <2>2. \A k \in Inputs : row[k] # "admitted"
    BY <2>1 DEF Life, OpenIsPinned
  <2>3. OpenIsPinned' /\ AtRest' /\ Progress'
    BY <2>1 DEF OpenIsPinned, AtRest, Progress
  <2>4. Executions' /\ Waits'
    BY <2>1 DEF Life, Executions, Waits, WaitsOf, HoldsSession, Fresh
  <2>5. Loadings'
    BY <2>1, <2>2 DEF Life, Loadings, Fresh
  <2> QED
    BY <2>3, <2>4, <2>5 DEF Life
<1>3. CASE Resume
  <2>1. /\ UNCHANGED <<saved, inFlight, live, pending, index, load, pc, key, ref, sessionGate>>
        /\ row' = Discarded(row) /\ ~resident /\ resident'
        /\ \A l \in Loads : load[l].state # "begun"
    BY <1>3 DEF Resume, inbox, gates, cache, calls
  <2>2. inFlight = {} /\ live = {} /\ \A k \in Inputs : pending[k] = "none"
    BY <2>1 DEF Life, AtRest
  <2>3. \A k \in Inputs : row'[k] # "admitted" /\ (row'[k] = "promoted" => row[k] = "promoted")
    BY <2>1 DEF Discarded
  <2>4. \A l \in Loads, k \in Inputs : Fresh(l, k) => Fresh(l, k)'
    BY <1>3, Reopening
  <2>5. OpenIsPinned' /\ AtRest' /\ Progress'
    BY <2>1, <2>2, <2>3 DEF OpenIsPinned, AtRest, Progress
  <2>6. Executions'
    <3>1. \A c \in Calls : pc[c] \notin Executing
      BY <2>1, Executor
    <3> QED
      BY <2>1, <3>1 DEF Executions, Executing
  <2>7. Waits'
    <3>1. \A c \in Calls : pc[c] \in Waiting => ref[c] \in Loads
      BY DEF Types, Keys
    <3>2. ASSUME NEW c \in Calls, HoldsSession(c), pc[c] \in Waiting
          PROVE  WaitsOf(c)'
      BY <2>1, <2>3, <2>4, <3>1, <3>2 DEF Life, Waits, WaitsOf, Fresh
    <3> QED
      BY <2>1, <3>2 DEF Waits, WaitsOf, HoldsSession
  <2>8. Loadings'
    <3>1. index \in Loads \cup {None}
      BY DEF Types, TypeOK
    <3>2. index' # None => \A k \in Inputs \ live' : Fresh(index, k)'
      BY <2>1, <2>4, <3>1 DEF Life, Loadings, Fresh
    <3> QED
      BY <2>1, <3>2 DEF Loadings
  <2> QED
    BY <2>5, <2>6, <2>7, <2>8 DEF Life
<1> QED
  BY <1>1, <1>2, <1>3

Inv == Types /\ GateInv /\ Life

LEMMA InvInit == Init => Inv
BY TypesInit, GateInit, LifeInit DEF Inv

LEMMA InvKept == ASSUME Cancels PROVE Inv /\ [Next]_vars => Inv'
<1> SUFFICES ASSUME Inv, [Next]_vars PROVE Inv'
  OBVIOUS
<1>1. Types' /\ GateInv'
  BY TypesKept, GateKept DEF Inv
<1>2. CASE UNCHANGED vars
  <2>1. UNCHANGED <<row, saved, inFlight, live, pending, index, load, pc, key, ref, sessionGate, resident>>
    BY <1>2 DEF vars, store, inbox, gates, cache, runtime, calls
  <2>2. AtRest' /\ OpenIsPinned' /\ Progress' /\ Executions'
    BY <2>1 DEF Inv, Life, AtRest, OpenIsPinned, Progress, Executions
  <2>3. Loadings' /\ Waits'
    BY <2>1 DEF Inv, Life, Loadings, Fresh, Waits, WaitsOf, HoldsSession
  <2> QED
    BY <1>1, <2>2, <2>3 DEF Inv, Life
<1>3. CASE Next
  BY <1>1, <1>3, LifeOfRequests, LifeOfDecision, LifeOfExecutions, LifeOfLoads, LifeOfEvents,
     LifeOfLives DEF Inv, Next, Step
<1> QED
  BY <1>2, <1>3

LEMMA Invariance == ASSUME Cancels PROVE Spec => []Inv
BY InvInit, InvKept, PTL DEF Spec

(* The pins cover whatever is still open (command-inbox.ts:224, v4-gateway.ts:2595): for     *)
(* any number of inputs and requests, any table size, turns that end without their input    *)
(* and compacts included, provided that the store takes rows back.                          *)
THEOREM PinsCover == ASSUME Cancels PROVE Spec => []OpenIsPinned
<1>1. Inv => OpenIsPinned
  BY DEF Inv, Life
<1> QED
  BY <1>1, Invariance, PTL
-----------------------------------------------------------------------------
(* The inbox implements CommandPromise.                                    *)

Seen == [k \in Inputs |-> Phase(k)]

LEMMA Moved ==
    ASSUME NEW k \in Inputs, NEW from, NEW to, Phase(k) \in from, Phase(k)' = to,
           \A j \in Inputs \ {k} : Phase(j)' = Phase(j)
    PROVE  Promise!Move(k, from, to)
BY DEF Promise!Move

LEMMA Kept ==
    ASSUME \A k \in Inputs : Phase(k)' = Phase(k)
    PROVE  UNCHANGED Seen
BY DEF Seen

\* An input of which the store and the tables say what they said before.
LEMMA PhaseKept ==
    ASSUME NEW k \in Inputs, row'[k] = row[k], k \in saved' <=> k \in saved,
           k \in live' <=> k \in live, k \in live => (k \in inFlight' <=> k \in inFlight)
    PROVE  Phase(k)' = Phase(k)
BY DEF Phase

LEMMA PromiseOfRequests ==
    ASSUME Inv, NEW c \in Calls,
           \/ \E k \in Commands, q \in BOOLEAN : Arrive(c, k, q)
           \/ Look(c) \/ Deliver(c) \/ Unavailable(c) \/ LookTranscript(c) \/ LookDiscarded(c)
    PROVE  UNCHANGED Seen
<1>1. CASE UNCHANGED <<row, saved, live, inFlight>>
  BY <1>1, PhaseKept, Kept
<1>2. CASE LookDiscarded(c)
  <2>1. UNCHANGED <<row, saved, live>> /\ pc[c] = "discarded"
    BY <1>2 DEF LookDiscarded, store
  <2>2. CASE UNCHANGED inFlight
    BY <1>1, <2>1, <2>2
  <2>3. CASE HoldsSession(c) /\ inFlight' = inFlight \cup {key[c]}
    <3>1. key[c] \notin live
      BY <2>1, <2>3 DEF Inv, Life, Waits, WaitsOf, Waiting
    <3> QED
      BY <2>1, <2>3, <3>1, PhaseKept, Kept
  <2> QED
    BY <1>2, <2>2, <2>3 DEF LookDiscarded, NotFound, Decide
<1> QED
  BY <1>1, <1>2 DEF Arrive, Look, Deliver, Unavailable, LookTranscript, store, inbox

LEMMA PromiseOfExecutions ==
    ASSUME Cancels, Inv, NEW c \in Calls, NEW k \in Commands, key[c] = k,
           \/ Admit(c) \/ AdmitFails(c) \/ HandOver(c) \/ Succeed(c) \/ Fail(c) \/ Cancel(c)
    PROVE  Promise!Next \/ UNCHANGED Seen
<1>0. row \in [Inputs -> RowStates] /\ live \subseteq Inputs
  BY DEF Inv, Types, TypeOK
<1>1. inFlight = {k}
  <2>1. pc[c] \in Executing
    BY DEF Admit, AdmitFails, HandOver, Succeed, Fail, Cancel, Executing
  <2> QED
    BY <2>1, Executor DEF Inv
<1>2. CASE Admit(c)
  <2>1. k \in Inputs /\ k \notin live /\ k \notin saved /\ row[k] \in {"none", "failed"}
    BY <1>2 DEF Inv, Life, Executions, Admit, Types, Keys
  <2>2. /\ live' = live \cup {k} /\ UNCHANGED <<saved, inFlight>>
        /\ row'[k] = IF row[k] = "none" THEN "admitted" ELSE "failed"
        /\ \A j \in Inputs \ {k} : row'[j] = row[j]
    BY <1>0, <1>2, <2>1 DEF Admit
  <2>3. \A j \in Inputs \ {k} : Phase(j)' = Phase(j)
    BY <2>2, PhaseKept
  <2>4. \/ Phase(k) = "fresh" /\ Phase(k)' = "running"
        \/ Phase(k) = "failed" /\ Phase(k)' = "retrying"
    BY <1>1, <2>1, <2>2 DEF Phase
  <2>5. Promise!Begin(k)
    BY <2>1, <2>3, <2>4, Moved DEF Promise!Begin
  <2> QED
    BY <2>1, <2>5 DEF Promise!Next
<1>3. CASE HandOver(c) \/ UNCHANGED <<row, saved, live, inFlight>>
  BY <1>3, PhaseKept, Kept DEF HandOver, store, inbox
<1>4. ASSUME UNCHANGED <<row, saved, live>>, inFlight' = {}, k \notin live
      PROVE  UNCHANGED Seen
  BY <1>1, <1>4, PhaseKept, Kept
<1>5. CASE AdmitFails(c)
  <2>1. k \notin live
    BY <1>5 DEF Inv, Life, Executions, AdmitFails
  <2> QED
    BY <1>1, <1>4, <1>5, <2>1 DEF AdmitFails, Settle, store
<1>6. CASE Succeed(c)
  <2>1. UNCHANGED <<row, saved, live>> /\ inFlight' = {}
    BY <1>1, <1>6 DEF Succeed, Settle, store
  <2>2. CASE k \notin live
    BY <1>4, <2>1, <2>2
  <2>3. CASE k \in live
    <3>1. k \in Inputs /\ row[k] \in RowStates
      BY <1>0, <2>3
    <3>2. \A j \in Inputs \ {k} : Phase(j)' = Phase(j)
      BY <1>1, <2>1, PhaseKept
    <3>3. CASE k \notin saved /\ row[k] \in {"admitted", "failed"}
      <4>1. \/ Phase(k) = "running" /\ Phase(k)' = "accepted"
            \/ Phase(k) = "retrying" /\ Phase(k)' = "reaccepted"
        BY <1>1, <2>1, <2>3, <3>3 DEF Phase
      <4>2. Promise!Accept(k)
        BY <3>1, <3>2, <4>1, Moved DEF Promise!Accept
      <4> QED
        BY <3>1, <4>2 DEF Promise!Next
    <3>4. CASE k \in saved \/ row[k] \notin {"admitted", "failed"}
      <4>1. Phase(k)' = Phase(k)
        BY <2>1, <3>4 DEF Phase
      <4> QED
        BY <3>2, <4>1, Kept
    <3> QED
      BY <3>3, <3>4
  <2> QED
    BY <2>2, <2>3
<1>7. CASE Fail(c)
  <2>1. CASE k \in Inputs
    BY <1>3, <1>7, <2>1 DEF Fail, inbox, store
  <2>2. CASE k \notin Inputs
    BY <1>0, <1>1, <1>4, <1>7, <2>2 DEF Fail, Settle, store
  <2> QED
    BY <2>1, <2>2
<1>8. CASE Cancel(c)
  <2>1. k \in Inputs /\ k \in live /\ k \notin saved /\ row[k] \in {"admitted", "failed"}
    BY <1>8 DEF Inv, Life, Executions, Cancel, Types, Keys
  <2>2. /\ live' = live \ {k} /\ row'[k] = "failed" /\ inFlight' = {} /\ UNCHANGED saved
        /\ \A j \in Inputs \ {k} : row'[j] = row[j]
    BY <1>0, <1>1, <1>8, <2>1 DEF Cancel, CancelRow, Settle, Cancels
  <2>3. \A j \in Inputs \ {k} : Phase(j)' = Phase(j)
    BY <1>1, <2>2, PhaseKept
  <2>4. Phase(k) \in {"running", "retrying"} /\ Phase(k)' = "failed"
    BY <1>1, <2>1, <2>2 DEF Phase
  <2>5. Promise!Fail(k)
    BY <2>1, <2>3, <2>4, Moved DEF Promise!Fail
  <2> QED
    BY <2>1, <2>5 DEF Promise!Next
<1> QED
  BY <1>2, <1>3, <1>5, <1>6, <1>7, <1>8

LEMMA PromiseOfEvents ==
    ASSUME Inv, NEW k \in Inputs,
           \/ Promote(k) \/ EndUnpromoted(k) \/ SaveFact(k) \/ Withdraw(k)
           \/ Aftermath(k)
    PROVE  Promise!Next \/ UNCHANGED Seen
<1>0. row \in [Inputs -> RowStates] /\ k \in live
  BY DEF Inv, Types, TypeOK, Life, Progress, Promote, EndUnpromoted, SaveFact, Withdraw, Aftermath, Ingest,
         RecordFact, FactRecorded
<1>1. /\ UNCHANGED inFlight
      /\ \A j \in Inputs \ {k} :
            /\ row'[j] = row[j]
            /\ j \in saved' <=> j \in saved
            /\ j \in live' <=> j \in live
  BY <1>0 DEF Promote, EndUnpromoted, SaveFact, Withdraw, Aftermath, Ingest, RecordFact, FactRecorded, inbox, store
<1>2. \A j \in Inputs \ {k} : Phase(j)' = Phase(j)
  BY <1>1, PhaseKept
<1>3. CASE Phase(k)' = Phase(k)
  BY <1>2, <1>3, Kept
<1>4. ASSUME k \notin saved, row[k] \in {"admitted", "failed"}
      PROVE  Phase(k) = IF row[k] = "admitted"
                        THEN IF k \in inFlight THEN "running" ELSE "accepted"
                        ELSE IF k \in inFlight THEN "retrying" ELSE "reaccepted"
  BY <1>0, <1>4 DEF Phase
<1>5. CASE Promote(k) \/ SaveFact(k)
  <2>1. k \notin saved /\ row[k] \in {"admitted", "failed"}
    BY <1>5 DEF Promote, EndUnpromoted, SaveFact, Inv, Life, Progress
  <2>2. Phase(k)' = "entered"
    BY <1>0, <1>5 DEF Promote, EndUnpromoted, SaveFact, Phase
  <2>3. Promise!Enter(k)
    BY <1>2, <1>4, <2>1, <2>2, Moved DEF Promise!Enter
  <2> QED
    BY <2>3 DEF Promise!Next
<1>6. CASE Withdraw(k)
  <2>1. k \notin saved /\ row[k] \in {"admitted", "failed"}
    BY <1>6 DEF Withdraw, Inv, Life, Progress
  <2>2. CASE row[k] = "admitted"
    <3>1. Phase(k)' = "removed"
      BY <1>0, <1>6, <2>1, <2>2 DEF Withdraw, Phase
    <3>2. Promise!Remove(k)
      BY <1>2, <1>4, <2>1, <2>2, <3>1, Moved DEF Promise!Remove
    <3> QED
      BY <3>2 DEF Promise!Next
  <2>3. CASE row[k] = "failed"
    BY <1>0, <1>1, <1>3, <1>6, <2>3, PhaseKept DEF Withdraw, inbox
  <2> QED
    BY <2>1, <2>2, <2>3
<1>7. CASE Ingest(k)
  <2>1. UNCHANGED <<row, saved>> /\ k \notin live'
        /\ \/ row[k] = "promoted"
           \/ k \notin saved /\ row[k] \in {"removed", "failed"}
    BY <1>7 DEF Ingest, store, Inv, Life, Progress
  <2>2. CASE row[k] \in {"promoted", "removed"}
    BY <1>3, <2>1, <2>2 DEF Phase
  <2>3. CASE k \notin saved /\ row[k] = "failed"
    <3>1. Phase(k)' = "failed"
      BY <2>1, <2>3 DEF Phase
    <3>2. Promise!Fail(k)
      BY <1>2, <1>4, <2>3, <3>1, Moved DEF Promise!Fail
    <3> QED
      BY <3>2 DEF Promise!Next
  <2> QED
    BY <2>1, <2>2, <2>3
<1>8. CASE EndUnpromoted(k) \/ RecordFact(k) \/ FactRecorded(k)
  BY <1>1, <1>3, <1>8, PhaseKept DEF EndUnpromoted, RecordFact, FactRecorded, store, inbox
<1> QED
  BY <1>5, <1>6, <1>7, <1>8 DEF Aftermath

\* Sweeping a session that is not resident: what it discards was lost already.
LEMMA PromiseOfSweeps ==
    ASSUME Inv, ~resident, row' \in {row, Discarded(row)}, UNCHANGED <<saved, live, inFlight>>
    PROVE  UNCHANGED Seen
<1>1. live = {}
  BY DEF Inv, Life, AtRest
<1>2. ASSUME NEW k \in Inputs
      PROVE  Phase(k)' = Phase(k)
  <2>1. CASE row'[k] = row[k]
    BY <2>1, PhaseKept
  <2>2. CASE row[k] = "admitted" /\ row'[k] = "discarded"
    BY <1>1, <2>2 DEF Phase
  <2> QED
    BY <2>1, <2>2 DEF Discarded
<1> QED
  BY <1>2, Kept

LEMMA PromiseOfRestart ==
    ASSUME Inv, Restart
    PROVE  Promise!Next
<1> DEFINE Open == {"running", "accepted", "retrying", "reaccepted"}
           K == {k \in Inputs : Phase(k) \in Open}
<1>1. UNCHANGED <<row, saved>> /\ live' = {} /\ row \in [Inputs -> RowStates]
  BY DEF Restart, store, Inv, Types, TypeOK
<1>2. ASSUME NEW k \in Inputs
      PROVE  Phase(k)' = IF k \notin K THEN Phase(k)
                         ELSE IF Phase(k) \in {"running", "accepted"} THEN "lost" ELSE "failed"
  <2>1. CASE k \in saved \/ row[k] \notin {"admitted", "failed"}
    BY <1>1, <2>1 DEF Phase
  <2>2. CASE k \notin saved /\ row[k] = "admitted"
    BY <1>1, <2>2 DEF Phase
  <2>3. CASE k \notin saved /\ row[k] = "failed"
    BY <1>1, <2>3 DEF Phase
  <2> QED
    BY <2>1, <2>2, <2>3
<1>3. Promise!Lose
  BY <1>2 DEF Promise!Lose
<1> QED
  BY <1>3 DEF Promise!Next

LEMMA StepsKeepPromise ==
    ASSUME Cancels PROVE Inv /\ [Next]_vars => [Promise!Next]_Seen
<1> SUFFICES ASSUME Inv, [Next]_vars PROVE Promise!Next \/ UNCHANGED Seen
  OBVIOUS
<1>1. ASSUME UNCHANGED <<row, saved, live, inFlight>>
      PROVE  UNCHANGED Seen
  BY <1>1, PhaseKept, Kept
<1>2. ASSUME NEW l \in Loads, Loading(l)
      PROVE  UNCHANGED Seen
  <2>1. CASE LoadFails(l)
    BY <1>1, <2>1 DEF LoadFails, store, inbox
  <2>2. CASE ReadStore(l)
    <3>1. UNCHANGED <<saved, live, inFlight>> /\ load[l].state = "begun"
          /\ row' = IF load[l].cold THEN Discarded(row) ELSE row
      BY <2>2 DEF ReadStore, inbox
    <3>2. load[l].cold => ~resident
      BY <3>1 DEF Inv, Life, Loadings
    <3> QED
      BY <1>1, <3>1, <3>2, PromiseOfSweeps
  <2> QED
    BY <1>2, <2>1, <2>2 DEF Loading
<1>3. CASE Deactivate \/ Resume \/ Restart
  <2>1. CASE Deactivate
    BY <1>1, <2>1 DEF Deactivate, store
  <2>2. CASE Resume
    BY <2>2, PromiseOfSweeps DEF Resume, inbox
  <2> QED
    BY <1>3, <2>1, <2>2, PromiseOfRestart
<1>4. CASE UNCHANGED vars
  BY <1>1, <1>4 DEF vars, store, inbox
<1>5. ASSUME NEW c \in Calls,
             \/ Admit(c) \/ AdmitFails(c) \/ HandOver(c) \/ Succeed(c) \/ Fail(c) \/ Cancel(c)
      PROVE  Promise!Next \/ UNCHANGED Seen
  <2>1. key[c] \in Commands
    BY <1>5 DEF Inv, Types, Keys, Admit, AdmitFails, HandOver, Succeed, Fail, Cancel
  <2> QED
    BY <1>5, <2>1, PromiseOfExecutions
<1> QED
  BY <1>2, <1>3, <1>4, <1>5, PromiseOfRequests, PromiseOfEvents DEF Next, Step

(* Every input is carried out once, through repetitions, eviction from the table, stale    *)
(* loads, reclaimed sessions and restarts (command-inbox.ts:128, v4-gateway.ts:2480), for  *)
(* any number of inputs and requests, provided that the store takes rows back.             *)
THEOREM CarriedOut == ASSUME Cancels PROVE Spec => CarriedOutOnce
<1>1. Init => Promise!Init
  BY DEF Init, EmptyMemory, Promise!Init, Phase
<1> QED
  BY <1>1, StepsKeepPromise, Invariance, PTL DEF Spec, CarriedOutOnce, Promise!Spec, Seen

-----------------------------------------------------------------------------
(***************************************************************************)
(* The answers are true.                                                   *)
(*                                                                         *)
(* An answer comes from the tables, from the loads or from a command that  *)
(* was joined, so the invariant Told says of each of them what it is good  *)
(* for.  What makes it inductive is the gate of the command: whoever looks *)
(* or has joined keeps it, so nobody begins to execute the command between *)
(* the look and the answer.                                                *)
(***************************************************************************)

-----------------------------------------------------------------------------
(* The table of settled commands.                                          *)

\* A command has one entry.
IsMap(table) == \A i, j \in DOMAIN table : table[i][1] = table[j][1] => i = j

LEMMA EntriesTyped ==
    ASSUME NEW table \in Entries
    PROVE  /\ Len(table) \in Nat /\ DOMAIN table = 1 .. Len(table)
           /\ \A i \in 1 .. Len(table) : table[i] \in Commands \X Statuses
BY LenProperties DEF Entries

LEMMA DropEntries ==
    ASSUME NEW table \in Entries, IsMap(table), NEW k
    PROVE  /\ IsMap(Drop(table, k))
           /\ \A m \in DOMAIN Drop(table, k) :
                 /\ Drop(table, k)[m][1] # k
                 /\ \E n \in DOMAIN table : Drop(table, k)[m] = table[n]
<1> DEFINE at == {i \in DOMAIN table : table[i][1] = k}
           i == CHOOSE i \in at : TRUE
<1>0. /\ Len(table) \in Nat /\ DOMAIN table = 1 .. Len(table)
      /\ \A j \in 1 .. Len(table) : table[j] \in Commands \X Statuses
  BY EntriesTyped
<1>1. CASE at = {}
  BY <1>1 DEF Drop
<1>2. CASE at # {}
  <2>1. i \in 1 .. Len(table) /\ table[i][1] = k
    BY <1>0, <1>2
  <2>2. Drop(table, k) = SubSeq(table, 1, i - 1) \o SubSeq(table, i + 1, Len(table))
    BY <1>2 DEF Drop
  <2> HIDE DEF i, at
  <2> DEFINE front == SubSeq(table, 1, i - 1)
             back == SubSeq(table, i + 1, Len(table))
  <2>3. /\ front \in Entries /\ Len(front) = i - 1
        /\ \A m \in 1 .. i - 1 : front[m] = table[m]
    BY <1>0, <2>1, SubSeqProperties DEF Entries
  <2>4. /\ back \in Entries /\ Len(back) = Len(table) - i
        /\ \A m \in 1 .. Len(table) - i : back[m] = table[i + m]
    <3>1. i + 1 \in Int /\ Len(table) \in Int
      BY <1>0, <2>1
    <3>2. \A j \in i + 1 .. Len(table) : table[j] \in Commands \X Statuses
      BY <1>0, <2>1
    <3>3. /\ back \in Entries
          /\ Len(back) = IF i + 1 <= Len(table) THEN Len(table) - (i + 1) + 1 ELSE 0
          /\ \A m \in 1 .. Len(table) - (i + 1) + 1 : back[m] = table[i + 1 + m - 1]
      BY <3>1, <3>2, SubSeqProperties DEF Entries
    <3> HIDE DEF back
    <3>4. Len(back) = Len(table) - i
      <4>1. Len(table) \in Nat /\ i \in 1 .. Len(table)
        BY <1>0, <2>1
      <4>2. Len(back) = IF i + 1 <= Len(table) THEN Len(table) - (i + 1) + 1 ELSE 0
        BY <3>3
      <4> QED
        BY ONLY <4>1, <4>2
    <3>5. ASSUME NEW m \in 1 .. Len(table) - i
          PROVE  back[m] = table[i + m]
      <4>1. m \in 1 .. Len(table) - (i + 1) + 1 /\ i + 1 + m - 1 = i + m
        BY <1>0, <2>1
      <4> QED
        BY <3>3, <4>1
    <3> QED
      BY <3>3, <3>4, <3>5
  <2> DEFINE short == Drop(table, k)
  <2>5. /\ short \in Entries /\ Len(short) = Len(table) - 1
        /\ \A m \in 1 .. Len(table) - 1 : short[m] = IF m < i THEN table[m] ELSE table[m + 1]
    <3> HIDE DEF front, back
    <3>1. /\ front \o back \in Entries /\ Len(front \o back) = Len(front) + Len(back)
          /\ \A m \in 1 .. Len(front) + Len(back) :
                (front \o back)[m] = IF m <= Len(front) THEN front[m] ELSE back[m - Len(front)]
      BY <2>3, <2>4, ConcatProperties DEF Entries
    <3>2. short = front \o back
      BY <2>2 DEF front, back
    <3> HIDE DEF short
    <3>3. Len(short) = Len(table) - 1
      <4>1. Len(table) \in Nat /\ i \in 1 .. Len(table)
        BY <1>0, <2>1
      <4>2. Len(short) = (i - 1) + (Len(table) - i)
        BY <2>3, <2>4, <3>1, <3>2
      <4> QED
        BY ONLY <4>1, <4>2
    <3>4. ASSUME NEW m \in 1 .. Len(table) - 1
          PROVE  short[m] = IF m < i THEN table[m] ELSE table[m + 1]
      <4>1. short[m] = IF m <= i - 1 THEN front[m] ELSE back[m - (i - 1)]
        BY <1>0, <2>1, <2>3, <2>4, <3>1, <3>2
      <4>2. CASE m < i
        BY <1>0, <2>1, <2>3, <4>1, <4>2
      <4>3. CASE m >= i
        <5>1. m - (i - 1) \in 1 .. Len(table) - i /\ i + (m - (i - 1)) = m + 1 /\ ~(m <= i - 1)
          BY <1>0, <2>1, <4>3
        <5> QED
          BY <2>1, <2>4, <4>1, <4>3, <5>1
      <4> QED
        BY <1>0, <2>1, <4>2, <4>3
    <3> QED
      BY <3>1, <3>2, <3>3, <3>4
  <2> HIDE DEF short
  <2>6. DOMAIN short = 1 .. Len(table) - 1
    BY <2>5, EntriesTyped
  <2>7. \A m \in 1 .. Len(table) - 1 :
           \E n \in DOMAIN table : short[m] = table[n] /\ n = (IF m < i THEN m ELSE m + 1)
    BY <1>0, <2>1, <2>5
  <2>8. \A m \in DOMAIN short : short[m][1] # k
    BY <1>0, <2>1, <2>6, <2>7 DEF IsMap
  <2>9. IsMap(short)
    BY <1>0, <2>1, <2>6, <2>7 DEF IsMap
  <2> QED
    BY <2>6, <2>7, <2>8, <2>9 DEF short
<1> QED
  BY <1>1, <1>2

\* An entry for a command that has none.
LEMMA AppendEntries ==
    ASSUME NEW table \in Entries, IsMap(table), NEW k \in Commands, NEW status \in Statuses,
           \A m \in DOMAIN table : table[m][1] # k
    PROVE  /\ IsMap(Append(table, <<k, status>>))
           /\ \A m \in DOMAIN Append(table, <<k, status>>) :
                 \/ Append(table, <<k, status>>)[m] = <<k, status>>
                 \/ m \in DOMAIN table /\ Append(table, <<k, status>>)[m] = table[m]
<1> DEFINE longer == Append(table, <<k, status>>)
<1>0. Len(table) \in Nat /\ DOMAIN table = 1 .. Len(table)
  BY EntriesTyped
<1>1. /\ Len(longer) = Len(table) + 1 /\ DOMAIN longer = 1 .. Len(table) + 1
      /\ \A m \in 1 .. Len(table) : longer[m] = table[m]
      /\ longer[Len(table) + 1] = <<k, status>>
  <2>1. table \in Seq(Commands \X Statuses) /\ <<k, status>> \in Commands \X Statuses
    BY DEF Entries
  <2>2. longer \in Seq(Commands \X Statuses) /\ Len(longer) = Len(table) + 1
    BY <2>1, AppendProperties
  <2>3. DOMAIN longer = 1 .. Len(table) + 1
    BY <2>2, LenProperties
  <2> QED
    BY <1>0, <2>1, <2>2, <2>3, AppendProperties
<1> HIDE DEF longer
<1>2. IsMap(longer)
  BY <1>0, <1>1 DEF IsMap
<1> QED
  BY <1>0, <1>1, <1>2 DEF longer

LEMMA NewestEntries ==
    ASSUME NEW table \in Entries, IsMap(table)
    PROVE  /\ IsMap(Newest(table))
           /\ \A m \in DOMAIN Newest(table) : \E n \in DOMAIN table : Newest(table)[m] = table[n]
<1>0. /\ Len(table) \in Nat /\ DOMAIN table = 1 .. Len(table)
      /\ \A j \in 1 .. Len(table) : table[j] \in Commands \X Statuses
  BY EntriesTyped
<1>1. CASE Len(table) <= TableSize
  BY <1>0, <1>1, TableSizeAssumption DEF Newest
<1>2. CASE Len(table) > TableSize
  <2> DEFINE first == Len(table) - TableSize + 1
             newest == SubSeq(table, first, Len(table))
  <2>1. first \in 1 .. Len(table) /\ Len(table) - first + 1 = TableSize
    BY <1>0, <1>2, TableSizeAssumption
  <2>2. \A j \in first .. Len(table) : table[j] \in Commands \X Statuses
    BY <1>0, <2>1
  <2>3. /\ newest \in Entries
        /\ Len(newest) = IF first <= Len(table) THEN Len(table) - first + 1 ELSE 0
        /\ \A m \in 1 .. Len(table) - first + 1 : newest[m] = table[first + m - 1]
    <3> HIDE DEF first
    <3>1. first \in Int /\ Len(table) \in Int
      BY <1>0, <2>1
    <3> QED
      BY <2>2, <3>1, SubSeqProperties DEF Entries
  <2> HIDE DEF newest, first
  <2>4. DOMAIN newest = 1 .. TableSize
    BY <2>1, <2>3, EntriesTyped
  <2>5. \A m \in 1 .. TableSize :
           first + m - 1 \in DOMAIN table /\ newest[m] = table[first + m - 1]
    BY <1>0, <2>1, <2>3, TableSizeAssumption
  <2>6. IsMap(newest)
    <3>1. ASSUME NEW m \in 1 .. TableSize, NEW n \in 1 .. TableSize, newest[m][1] = newest[n][1]
          PROVE  m = n
      <4>1. first + m - 1 = first + n - 1
        BY <2>5, <3>1 DEF IsMap
      <4>2. first \in Int /\ m \in Int /\ n \in Int
        BY <1>0, <2>1, TableSizeAssumption
      <4> QED
        BY <4>1, <4>2
    <3> QED
      BY <2>4, <3>1 DEF IsMap
  <2>7. Newest(table) = newest
    BY <1>2 DEF Newest, newest, first
  <2> QED
    BY <2>4, <2>5, <2>6, <2>7
<1> QED
  BY <1>0, <1>1, <1>2, TableSizeAssumption

\* A table with a new entry for a command, and perhaps without some older ones.
Renewed(new, table, k, status) ==
    /\ IsMap(new)
    /\ \A m \in DOMAIN new :
          \/ new[m] = <<k, status>>
          \/ new[m][1] # k /\ \E n \in DOMAIN table : new[m] = table[n]

LEMMA RememberEntries ==
    ASSUME NEW table \in Entries, IsMap(table), NEW k \in Commands, NEW status \in Statuses
    PROVE  /\ Renewed(Append(Drop(table, k), <<k, status>>), table, k, status)
           /\ Renewed(Remember(table, k, status), table, k, status)
<1> DEFINE longer == Append(Drop(table, k), <<k, status>>)
<1>1. /\ Drop(table, k) \in Entries /\ IsMap(Drop(table, k))
      /\ \A m \in DOMAIN Drop(table, k) :
            Drop(table, k)[m][1] # k /\ \E n \in DOMAIN table : Drop(table, k)[m] = table[n]
  BY DropTyped, DropEntries
<1>2. longer \in Entries
  BY <1>1 DEF Entries
<1>3. Renewed(longer, table, k, status)
  BY <1>1, AppendEntries DEF Renewed
<1>4. Renewed(Newest(longer), table, k, status)
  <2> HIDE DEF longer
  <2>1. /\ IsMap(Newest(longer))
        /\ \A m \in DOMAIN Newest(longer) : \E n \in DOMAIN longer : Newest(longer)[m] = longer[n]
    BY <1>2, <1>3, NewestEntries DEF Renewed
  <2> QED
    BY <1>3, <2>1 DEF Renewed
<1> QED
  BY <1>3, <1>4 DEF Remember

-----------------------------------------------------------------------------
(* What may be told.                                                       *)

\* A call past the first look holds the gate of its command until it has decided
\* or is answered.
Holding == Waiting \cup {"joining", "session"} \cup Statuses

KeyHeld == \A c \in Calls : pc[c] \in Holding => HoldsKey(c)

\* What a call that waits for the facts of an input may rely on.
SeeksOf(c) ==
    pc[c] \in Waiting /\ key[c] \in Inputs =>
        /\ key[c] \notin live /\ key[c] \notin inFlight
        /\ Fresh(ref[c], key[c])
        /\ pc[c] = "discarded" => row[key[c]] # "promoted" /\ key[c] \notin saved

\* What is so of an input that has been answered with a status.
Settled(k, status) ==
    /\ status = "accepted" => row[k] # "none"
    /\ status = "failed" => k \notin live /\ row[k] # "promoted" /\ k \notin saved

\* What a call that joined is going to hear.
HearsOf(c) ==
    pc[c] \in Statuses /\ key[c] \in Inputs =>
        key[c] \notin inFlight /\ Settled(key[c], pc[c])

Table ==
    /\ IsMap(settled)
    /\ \A i \in DOMAIN settled :
          settled[i][1] \in Inputs => Settled(settled[i][1], settled[i][2])

\* A load takes nothing for accepted that is not; what is pinned has a row.
FactsTrue ==
    /\ \A l \in Loads, k \in Inputs :
          load[l].state = "read" /\ load[l].facts[k] = "accepted" =>
              row[k] = "promoted" \/ k \in saved
    /\ \A k \in live : row[k] # "none"

\* An input that the runtime has taken has a row.
Handed == \A c \in Calls : pc[c] = "handed" => row[key[c]] # "none"

Told == KeyHeld /\ Table /\ FactsTrue /\ Handed /\ \A c \in Calls : SeeksOf(c) /\ HearsOf(c)

LEMMA ToldInit == Init => Told
BY DEF Init, EmptyMemory, Told, KeyHeld, Table, IsMap, FactsTrue, Handed, SeeksOf, HearsOf, Holding,
       Waiting, Statuses, NoLoad

\* Two calls past the first look are about different commands.
LEMMA OneHoldsKey ==
    ASSUME KeyHeld, NEW c \in Calls, NEW d \in Calls, HoldsKey(c), pc[d] \in Holding,
           key[c] = key[d]
    PROVE  c = d
BY DEF KeyHeld, HoldsKey

LEMMA KeyOfOthers ==
    ASSUME Types, KeyHeld, NEW c \in Calls,
           \/ UNCHANGED keyGate
           \/ LeaveKey(c)
           \/ \E k \in Commands : keyGate' = [keyGate EXCEPT ![k] = Append(@, c)],
           NEW d \in Calls \ {c}, key'[d] = key[d], pc[d] \in Holding
    PROVE  HoldsKey(d)'
<1> DEFINE k == key[d]
<1>0. keyGate \in [Commands -> Seq(Calls)] /\ HoldsKey(d) /\ k \in Commands
  BY DEF Types, TypeOK, Keys, KeyHeld, Holding, Waiting, Statuses
<1>1. keyGate[k] \in Seq(Calls) /\ keyGate[k] # <<>> /\ Head(keyGate[k]) = d
  BY <1>0 DEF HoldsKey
<1>2. SUFFICES keyGate'[k] # <<>> /\ Head(keyGate'[k]) = d
  BY DEF HoldsKey
<1>3. CASE UNCHANGED keyGate
  BY <1>1, <1>3
<1>4. CASE LeaveKey(c)
  <2>1. CASE HoldsKey(c)
    <3>1. key[c] # k
      BY <2>1, OneHoldsKey
    <3> QED
      BY <1>0, <1>1, <1>4, <2>1, <3>1 DEF LeaveKey
  <2>2. CASE ~HoldsKey(c)
    BY <1>1, <1>4, <2>2 DEF LeaveKey
  <2> QED
    BY <2>1, <2>2
<1>5. ASSUME NEW j \in Commands, keyGate' = [keyGate EXCEPT ![j] = Append(@, c)]
      PROVE  keyGate'[k] # <<>> /\ Head(keyGate'[k]) = d
  <2>1. CASE j # k
    BY <1>0, <1>1, <1>5, <2>1
  <2>2. CASE j = k
    <3>1. keyGate'[k] = Append(keyGate[k], c)
      BY <1>0, <1>5, <2>2
    <3>2. Append(keyGate[k], c) # <<>> /\ Head(Append(keyGate[k], c)) = Head(keyGate[k])
      BY <1>1, HeadTailAppend, AppendProperties
    <3> QED
      BY <1>1, <3>1, <3>2
  <2> QED
    BY <2>1, <2>2
<1> QED
  BY <1>3, <1>4, <1>5

\* A step of one call: what the others rely on.
LEMMA ToldOfOthers ==
    ASSUME Types, Told, LoadsMove, NEW c \in Calls,
           \/ UNCHANGED keyGate
           \/ LeaveKey(c)
           \/ \E k \in Commands : keyGate' = [keyGate EXCEPT ![k] = Append(@, c)],
           \A d \in Calls \ {c} :
              /\ key'[d] = key[d] /\ ref'[d] = ref[d]
              /\ \/ pc'[d] = pc[d]
                 \/ /\ pc[d] = "joining" /\ pc'[d] \in Statuses
                    /\ \A j \in Inputs, s \in Statuses : key[d] = j /\ pc'[d] = s =>
                          j \notin inFlight' /\ Settled(j, s)'
              /\ pc[d] \in Waiting \cup Statuses /\ key[d] \in Inputs =>
                    /\ row'[key[d]] = row[key[d]]
                    /\ key[d] \in saved' <=> key[d] \in saved
                    /\ key[d] \in live' <=> key[d] \in live
                    /\ key[d] \notin inFlight => key[d] \notin inFlight',
           pc'[c] \in Holding => HoldsKey(c)', SeeksOf(c)', HearsOf(c)'
    PROVE  KeyHeld' /\ \A d \in Calls : SeeksOf(d)' /\ HearsOf(d)'
<1>1. KeyHeld'
  <2>1. ASSUME NEW d \in Calls \ {c}, pc'[d] \in Holding
        PROVE  HoldsKey(d)'
    <3>1. pc[d] \in Holding /\ key'[d] = key[d]
      BY <2>1 DEF Holding
    <3> QED
      BY <3>1, KeyOfOthers DEF Told
  <2> QED
    BY <2>1 DEF KeyHeld
<1>2. ASSUME NEW d \in Calls \ {c}
      PROVE  SeeksOf(d)'
  <2>1. CASE pc'[d] \in Waiting /\ key[d] \in Inputs
    <3>1. pc'[d] = pc[d] /\ key'[d] = key[d] /\ ref'[d] = ref[d]
      BY <2>1 DEF Waiting, Statuses
    <3>2. ref[d] \in Loads
      BY <2>1, <3>1 DEF Types, Keys
    <3>3. load'[ref[d]].state = "read" => load'[ref[d]] = load[ref[d]]
      BY <3>2 DEF LoadsMove, NoLoad
    <3>4. SeeksOf(d)
      BY DEF Told
    <3> QED
      BY <2>1, <3>1, <3>3, <3>4 DEF SeeksOf, Fresh
  <2> QED
    BY <2>1 DEF SeeksOf
<1>3. ASSUME NEW d \in Calls \ {c}
      PROVE  HearsOf(d)'
  <2>1. CASE pc'[d] = pc[d]
    BY <2>1 DEF Told, HearsOf, Settled
  <2>2. CASE pc'[d] # pc[d]
    BY <2>2 DEF HearsOf, Settled
  <2> QED
    BY <2>1, <2>2
<1> QED
  BY <1>1, <1>2, <1>3

\* The table is renewed for an input of which the new entry is true.
LEMMA TableRenewed ==
    ASSUME Types, Table, NEW k \in Commands, NEW status \in Statuses,
           Renewed(settled', settled, k, status), k \in Inputs => Settled(k, status)',
           \A j \in Inputs \ {k}, s \in Statuses : Settled(j, s) => Settled(j, s)'
    PROVE  Table'
<1>1. \A n \in DOMAIN settled : settled[n] \in Commands \X Statuses
  BY EntriesTyped, TypesByParts DEF TableTyped
<1>2. ASSUME NEW m \in DOMAIN settled', NEW j \in Inputs, NEW s,
             settled'[m][1] = j, settled'[m][2] = s
      PROVE  Settled(j, s)'
  <2>1. CASE settled'[m] = <<k, status>>
    BY <1>2, <2>1
  <2>2. ASSUME j # k, NEW n \in DOMAIN settled, settled'[m] = settled[n]
        PROVE  Settled(j, s)'
    <3>1. s \in Statuses
      BY <1>1, <1>2, <2>2
    <3>2. Settled(j, s)
      BY <1>2, <2>2 DEF Table
    <3> QED
      BY <2>2, <3>1, <3>2
  <2> QED
    BY <1>2, <2>1, <2>2 DEF Renewed
<1>3. \A m \in DOMAIN settled' : settled'[m][1] \in Inputs =>
         Settled(settled[m][1], settled[m][2])'
  BY <1>2
<1> QED
  BY <1>3 DEF Table, Renewed

\* The table stays, or loses entries.
LEMMA TableKept ==
    ASSUME Types, Table,
           \/ UNCHANGED settled
           \/ /\ IsMap(settled')
              /\ \A m \in DOMAIN settled' : \E n \in DOMAIN settled : settled'[m] = settled[n],
           NEW K \in SUBSET Inputs,
           \A j \in Inputs \ K, s \in Statuses : Settled(j, s) => Settled(j, s)',
           \A m \in DOMAIN settled' : settled'[m][1] \notin K
    PROVE  Table'
<1>1. \A n \in DOMAIN settled : settled[n] \in Commands \X Statuses
  BY EntriesTyped, TypesByParts DEF TableTyped
<1>2. ASSUME NEW m \in DOMAIN settled', NEW j \in Inputs, NEW s,
             settled'[m][1] = j, settled'[m][2] = s
      PROVE  Settled(j, s)'
  <2>1. PICK n \in DOMAIN settled : settled'[m] = settled[n]
    BY <1>2
  <2>2. j \in Inputs \ K /\ s \in Statuses
    BY <1>1, <1>2, <2>1
  <2>3. Settled(j, s)
    BY <1>2, <2>1 DEF Table
  <2> QED
    BY <2>2, <2>3
<1>3. \A m \in DOMAIN settled' : settled'[m][1] \in Inputs =>
         Settled(settled[m][1], settled[m][2])'
  BY <1>2
<1> QED
  BY <1>3 DEF Table

LEMMA FactsKept ==
    ASSUME FactsTrue, LoadsMove,
           \A k \in Inputs : row[k] = "promoted" \/ k \in saved =>
                                row'[k] = "promoted" \/ k \in saved',
           \A k \in live' : row'[k] # "none"
    PROVE  FactsTrue'
<1>1. \A l \in Loads : load'[l].state = "read" => load'[l] = load[l]
  BY DEF LoadsMove, NoLoad
<1> QED
  BY <1>1 DEF FactsTrue

\* A step of a call that changes neither the store nor the pins.
LEMMA ToldLooking ==
    ASSUME Types, Told, LoadsMove, NEW c \in Calls, UNCHANGED <<row, saved, live>>,
           \/ UNCHANGED keyGate
           \/ LeaveKey(c)
           \/ \E k \in Commands : keyGate' = [keyGate EXCEPT ![k] = Append(@, c)],
           \A d \in Calls \ {c} :
              /\ pc'[d] = pc[d] /\ key'[d] = key[d] /\ ref'[d] = ref[d]
              /\ pc[d] \in Waiting \cup Statuses /\ key[d] \notin inFlight =>
                    key[d] \notin inFlight',
           pc'[c] \in Holding => HoldsKey(c)', SeeksOf(c)', pc'[c] \notin Statuses, Table',
           pc'[c] = "handed" => row[key[c]] # "none" /\ key'[c] = key[c]
    PROVE  Told'
<1>1. FactsTrue'
  BY FactsKept DEF Told, FactsTrue
<1>2. HearsOf(c)'
  BY DEF HearsOf
<1>3. KeyHeld' /\ \A d \in Calls : SeeksOf(d)' /\ HearsOf(d)'
  BY <1>2, ToldOfOthers
<1>4. Handed'
  BY DEF Told, Handed
<1> QED
  BY <1>1, <1>3, <1>4 DEF Told

\* The table does not change.
LEMMA TableUntouched ==
    ASSUME Table, UNCHANGED <<settled, row, saved, live>>
    PROVE  Table'
BY DEF Table, IsMap, Settled

LEMMA ToldOfRequests ==
    ASSUME Inv, Told, NEW c \in Calls,
           \/ \E k \in Commands, q \in BOOLEAN : Arrive(c, k, q)
           \/ Look(c) \/ Deliver(c) \/ Unavailable(c) \/ LookTranscript(c) \/ LookDiscarded(c)
    PROVE  Told'
<1>0. /\ pc \in [Calls -> {"idle", "key", "joining", "transcript", "discarded", "session",
                           "admit", "execute", "handed", "cancel"} \cup Statuses]
      /\ key \in [Calls -> Commands \cup {None}] /\ ref \in [Calls -> Loads \cup {None}]
      /\ keyGate \in [Commands -> Seq(Calls)] /\ index \in Loads \cup {None} /\ Types /\ Loadings
  BY DEF Inv, Types, TypeOK, Life
<1>1. ASSUME NEW a, Answered(c, a), LoadsMove, UNCHANGED <<row, saved, live, inFlight>>, Table'
      PROVE  Told'
  <2>1. pc'[c] = "idle" /\ LeaveKey(c)
        /\ \A d \in Calls \ {c} : pc'[d] = pc[d] /\ key'[d] = key[d] /\ ref'[d] = ref[d]
    BY <1>0, <1>1 DEF Answered
  <2>2. pc'[c] \notin Holding /\ pc'[c] \notin Statuses /\ SeeksOf(c)'
    BY <2>1 DEF Holding, Waiting, Statuses, SeeksOf
  <2> QED
    BY <1>0, <1>1, <2>1, <2>2, ToldLooking
<1>2. ASSUME NEW stage \in Waiting, Seek(c, stage), load' = Collected(Begun), HoldsKey(c),
             UNCHANGED <<row, saved, live, inFlight, settled>>,
             key[c] \notin live, key[c] \notin inFlight,
             stage = "discarded" /\ key[c] \in Inputs =>
                row[key[c]] # "promoted" /\ key[c] \notin saved
      PROVE  Told'
  <2>1. LoadsMove /\ \A k \in Inputs \ live : Fresh(index, k)'
    BY <1>0, <1>2, Ensuring DEF Seek
  <2>2. pc'[c] = stage /\ ref'[c] = index' /\ key'[c] = key[c] /\ UNCHANGED <<keyGate, key>>
        /\ \A d \in Calls \ {c} : pc'[d] = pc[d] /\ key'[d] = key[d] /\ ref'[d] = ref[d]
    BY <1>0, <1>2 DEF Seek, gates
  <2>3. HoldsKey(c)' /\ stage \notin Statuses /\ stage # "handed"
    BY <1>2, <2>2 DEF HoldsKey, Waiting, Statuses
  <2>4. SeeksOf(c)'
    BY <1>2, <2>1, <2>2 DEF SeeksOf, Fresh
  <2>5. Table'
    BY <1>2, TableUntouched DEF Told
  <2> QED
    BY <1>0, <1>2, <2>1, <2>2, <2>3, <2>4, <2>5, ToldLooking
<1>3. ASSUME NEW stage \in {"key", "joining", "session", "admit", "execute"},
             pc'[c] = stage, LoadsMove, UNCHANGED <<row, saved, live, settled>>,
             \/ UNCHANGED keyGate
             \/ LeaveKey(c)
             \/ \E k \in Commands : keyGate' = [keyGate EXCEPT ![k] = Append(@, c)],
             \A d \in Calls \ {c} :
                /\ pc'[d] = pc[d] /\ key'[d] = key[d] /\ ref'[d] = ref[d]
                /\ pc[d] \in Waiting \cup Statuses /\ key[d] \notin inFlight =>
                      key[d] \notin inFlight',
             stage \in {"joining", "session"} => HoldsKey(c)'
      PROVE  Told'
  <2>1. Table'
    BY <1>3, TableUntouched DEF Told
  <2>2. (pc'[c] \in Holding => HoldsKey(c)') /\ pc'[c] \notin Statuses /\ SeeksOf(c)'
    BY <1>3 DEF Holding, Waiting, Statuses, SeeksOf
  <2> QED
    BY <1>0, <1>3, <2>1, <2>2, ToldLooking
<1>4. ASSUME UNCHANGED cache
      PROVE  LoadsMove
  BY <1>4 DEF LoadsMove, cache
<1>5. ASSUME NEW k \in Commands, NEW q \in BOOLEAN, Arrive(c, k, q)
      PROVE  Told'
  <2>1. /\ pc'[c] = "key" /\ UNCHANGED <<row, saved, live, settled, inFlight, cache>>
        /\ keyGate' = [keyGate EXCEPT ![k] = Append(@, c)]
        /\ \A d \in Calls \ {c} : pc'[d] = pc[d] /\ key'[d] = key[d] /\ ref'[d] = ref[d]
    BY <1>0, <1>5 DEF Arrive, store, inbox
  <2> QED
    BY <1>3, <1>4, <2>1
<1>6. CASE Look(c)
  <2>1. HoldsKey(c) /\ key[c] \in Commands
    BY <1>0, <1>6 DEF Look, Told, KeyHeld, Holding, Types, Keys
  <2>2. UNCHANGED <<row, saved, live, inFlight>>
    BY <1>6 DEF Look, store
  <2>3. CASE pc' = [pc EXCEPT ![c] = "joining"] /\ UNCHANGED <<settled, gates, cache, key, ref>>
    <3>1. /\ pc'[c] = "joining" /\ UNCHANGED keyGate /\ HoldsKey(c)'
          /\ \A d \in Calls \ {c} : pc'[d] = pc[d] /\ key'[d] = key[d] /\ ref'[d] = ref[d]
      BY <1>0, <2>1, <2>3 DEF gates, HoldsKey
    <3> QED
      BY <1>3, <1>4, <2>2, <2>3, <3>1
  <2>4. CASE Answered(c, Retry(c, "accepted")) /\ UNCHANGED <<settled, cache>>
    <3>1. Table'
      BY <2>2, <2>4, TableUntouched DEF Told
    <3> QED
      BY <1>1, <1>4, <2>2, <2>4, <3>1
  <2>5. ASSUME NEW status \in Remembered(key[c]), UNCHANGED cache,
               settled' = Append(Drop(settled, key[c]), <<key[c], status>>),
               Answered(c, Retry(c, status))
        PROVE  Told'
    <3>1. settled \in Entries /\ IsMap(settled)
      BY <1>0, TypesByParts DEF TableTyped, Told, Table
    <3>2. PICK i \in DOMAIN settled : settled[i][1] = key[c] /\ settled[i][2] = status
      BY <2>5 DEF Remembered
    <3>3. status \in Statuses
      BY <3>1, <3>2, EntriesTyped
    <3>4. PICK k \in Commands : k = key[c]
      BY <2>1
    <3>5. Renewed(settled', settled, k, status)
      BY <2>5, <3>1, <3>3, <3>4, RememberEntries
    <3>6. \A j \in Inputs, s \in Statuses : Settled(j, s) => Settled(j, s)'
      BY <2>2 DEF Settled
    <3>7. k \in Inputs => Settled(k, status)
      BY <3>2, <3>4 DEF Told, Table
    <3>8. Table'
      BY <1>0, <3>3, <3>5, <3>6, <3>7, TableRenewed DEF Told
    <3> QED
      BY <1>1, <1>4, <2>2, <2>5, <3>8
  <2>6. CASE /\ key[c] \notin inFlight \cup live
             /\ Seek(c, "transcript") /\ load' = Collected(Begun) /\ UNCHANGED settled
    BY <1>2, <2>1, <2>2, <2>6 DEF Waiting
  <2> QED
    BY <1>6, <2>3, <2>4, <2>5, <2>6 DEF Look
<1>7. CASE Deliver(c) \/ Unavailable(c)
  <2>1. UNCHANGED <<row, saved, live, inFlight, settled, cache>>
    BY <1>7 DEF Deliver, Unavailable, store, inbox
  <2>2. Table'
    BY <2>1, TableUntouched DEF Told
  <2> QED
    BY <1>1, <1>4, <1>7, <2>1, <2>2 DEF Deliver, Unavailable
<1>8. CASE LookTranscript(c)
  <2>1. /\ UNCHANGED <<row, saved, live, inFlight, settled>> /\ pc[c] = "transcript"
        /\ load[ref[c]].state = "read"
    BY <1>8 DEF LookTranscript, store, inbox
  <2>2. HoldsKey(c) /\ key[c] \in Commands
    BY <1>0, <2>1 DEF Told, KeyHeld, Holding, Waiting, Types, Keys
  <2>3. CASE Answered(c, Retry(c, "accepted")) /\ UNCHANGED index /\ load' = Collected(load)
    <3>1. Table'
      BY <2>1, TableUntouched DEF Told
    <3>2. LoadsMove
      BY <1>0, <2>3, Collecting
    <3> QED
      BY <1>1, <2>1, <2>3, <3>1, <3>2
  <2>4. CASE Fact(c) # "accepted" /\ Seek(c, "discarded") /\ load' = Collected(Begun)
    <3>1. CASE key[c] \in Inputs
      <4>1. /\ key[c] \notin live /\ key[c] \notin inFlight
            /\ row[key[c]] # "promoted" /\ key[c] \notin saved
        BY <2>1, <2>4, <3>1 DEF Told, SeeksOf, Fresh, Fact, Waiting
      <4> QED
        BY <1>2, <2>1, <2>2, <2>4, <4>1 DEF Waiting
    <3>2. CASE key[c] \notin Inputs
      <4>1. /\ pc'[c] = "discarded" /\ key'[c] = key[c] /\ UNCHANGED <<keyGate, key>>
            /\ \A d \in Calls \ {c} : pc'[d] = pc[d] /\ key'[d] = key[d] /\ ref'[d] = ref[d]
        BY <1>0, <2>4 DEF Seek, gates
      <4>2. HoldsKey(c)' /\ SeeksOf(c)' /\ pc'[c] \notin Statuses
        BY <2>2, <3>2, <4>1 DEF HoldsKey, SeeksOf, Statuses
      <4>3. Table'
        BY <2>1, TableUntouched DEF Told
      <4>4. LoadsMove
        BY <1>0, <2>1, <2>4, Ensuring DEF Seek
      <4> QED
        BY <1>0, <2>1, <4>1, <4>2, <4>3, <4>4, ToldLooking
    <3> QED
      BY <3>1, <3>2
  <2> QED
    BY <1>8, <2>3, <2>4 DEF LookTranscript
<1>9. CASE LookDiscarded(c)
  <2>1. /\ UNCHANGED <<row, saved, live, settled, index>> /\ pc[c] = "discarded"
        /\ load' = Collected(load)
    BY <1>9 DEF LookDiscarded, store
  <2>2. LoadsMove
    BY <1>0, <2>1, Collecting
  <2>3. HoldsKey(c) /\ key[c] \in Commands
    BY <1>0, <2>1 DEF Told, KeyHeld, Holding, Waiting, Types, Keys
  <2>4. ASSUME NEW a, Answered(c, a), UNCHANGED inFlight
        PROVE  Told'
    <3>1. Table'
      BY <2>1, TableUntouched DEF Told
    <3> QED
      BY <1>1, <2>1, <2>2, <2>4, <3>1
  <2>5. CASE /\ pc' = [pc EXCEPT ![c] = "session"] /\ ref' = [ref EXCEPT ![c] = None]
             /\ UNCHANGED <<keyGate, inFlight, key>>
    <3>1. /\ pc'[c] = "session" /\ HoldsKey(c)'
          /\ \A d \in Calls \ {c} : pc'[d] = pc[d] /\ key'[d] = key[d] /\ ref'[d] = ref[d]
      BY <1>0, <2>3, <2>5 DEF HoldsKey
    <3> QED
      BY <1>3, <2>1, <2>2, <2>5, <3>1
  <2>6. CASE /\ inFlight' = inFlight \cup {key[c]} /\ LeaveKey(c)
             /\ pc' = [pc EXCEPT ![c] = IF key[c] \in Inputs THEN "admit" ELSE "execute"]
             /\ ref' = [ref EXCEPT ![c] = None] /\ UNCHANGED key
    <3>1. /\ pc'[c] \in {"admit", "execute"}
          /\ \A d \in Calls \ {c} : pc'[d] = pc[d] /\ key'[d] = key[d] /\ ref'[d] = ref[d]
      BY <1>0, <2>6
    <3>2. \A d \in Calls \ {c} : pc[d] \in Waiting \cup Statuses => key[d] # key[c]
      BY <2>3, OneHoldsKey DEF Told, Holding
    <3> QED
      BY <1>3, <2>1, <2>2, <2>6, <3>1, <3>2
  <2> QED
    BY <1>9, <2>4, <2>5, <2>6 DEF LookDiscarded, NotFound, Decide
<1> QED
  BY <1>5, <1>6, <1>7, <1>8, <1>9

LEMMA RenewedTwice ==
    ASSUME NEW table, NEW older, NEW newer, NEW k, NEW status,
           Renewed(older, table, k, status), Renewed(newer, older, k, status)
    PROVE  Renewed(newer, table, k, status)
BY DEF Renewed

\* A command is settled: what its call and those that joined hear is so.
LEMMA ToldSettling ==
    ASSUME Inv, Told, NEW c \in Calls, NEW k \in Commands, key[c] = k, pc[c] \in Executing,
           NEW status \in Statuses, NEW pinned, NEW table, Settle(c, pinned, table, status),
           UNCHANGED <<saved, cache>>, pinned \subseteq live,
           \A j \in Inputs \ {k} : row'[j] = row[j] /\ (j \in live' <=> j \in live),
           k \in Inputs => /\ Settled(k, status)'
                           /\ k \in live' => row'[k] # "none"
                           /\ row[k] = "promoted" => row'[k] = "promoted",
           Table'
    PROVE  Told'
<1>0. /\ pc \in [Calls -> {"idle", "key", "joining", "transcript", "discarded", "session",
                           "admit", "execute", "handed", "cancel"} \cup Statuses]
      /\ key \in [Calls -> Commands \cup {None}] /\ live \subseteq Inputs /\ Types /\ LoadsMove
  BY DEF Inv, Types, TypeOK, LoadsMove, cache
<1>1. inFlight = {k} /\ \A d \in Calls : pc[d] \in Executing => d = c
  BY Executor DEF Inv
<1>2. /\ pc'[c] = "idle" /\ UNCHANGED <<keyGate, ref>> /\ inFlight' = {} /\ live' = pinned
      /\ \A d \in Calls \ {c} : key'[d] = key[d]
      /\ \A d \in Calls \ {c} :
            \/ pc'[d] = pc[d]
            \/ pc[d] = "joining" /\ key[d] = k /\ pc'[d] = status
  BY <1>0, <1>1 DEF Settle
<1>3. FactsTrue'
  BY <1>0, <1>2, FactsKept DEF Told, FactsTrue
<1>4. SeeksOf(c)' /\ HearsOf(c)' /\ pc'[c] \notin Holding
  BY <1>2 DEF SeeksOf, HearsOf, Holding, Waiting, Statuses
<1>5. ASSUME NEW d \in Calls, pc[d] \in Waiting \cup Statuses, key[d] \in Inputs
      PROVE  key[d] # k
  BY <1>1, <1>5 DEF Told, SeeksOf, HearsOf
<1>6. \A d \in Calls \ {c} :
         /\ key'[d] = key[d] /\ ref'[d] = ref[d]
         /\ \/ pc'[d] = pc[d]
            \/ /\ pc[d] = "joining" /\ pc'[d] \in Statuses
               /\ \A j \in Inputs, s \in Statuses : key[d] = j /\ pc'[d] = s =>
                     j \notin inFlight' /\ Settled(j, s)'
         /\ pc[d] \in Waiting \cup Statuses /\ key[d] \in Inputs =>
               /\ row'[key[d]] = row[key[d]]
               /\ key[d] \in saved' <=> key[d] \in saved
               /\ key[d] \in live' <=> key[d] \in live
               /\ key[d] \notin inFlight => key[d] \notin inFlight'
  BY <1>2, <1>5
<1>7. KeyHeld' /\ \A d \in Calls : SeeksOf(d)' /\ HearsOf(d)'
  BY <1>0, <1>2, <1>4, <1>6, ToldOfOthers
<1>8. Handed'
  BY <1>1, <1>2 DEF Handed, Executing, Statuses
<1> QED
  BY <1>3, <1>7, <1>8 DEF Told

LEMMA ToldOfExecutions ==
    ASSUME Cancels, Inv, Told, NEW c \in Calls, NEW k \in Commands, key[c] = k,
           \/ Admit(c) \/ AdmitFails(c) \/ HandOver(c) \/ Succeed(c) \/ Fail(c) \/ Cancel(c)
    PROVE  Told'
<1>0. /\ pc \in [Calls -> {"idle", "key", "joining", "transcript", "discarded", "session",
                           "admit", "execute", "handed", "cancel"} \cup Statuses]
      /\ row \in [Inputs -> RowStates] /\ live \subseteq Inputs /\ Types
      /\ settled \in Entries /\ IsMap(settled)
  BY TypesByParts DEF Inv, RestTyped, CallsTyped, TableTyped, Told, Table
<1>1. pc[c] \in Executing
  BY DEF Admit, AdmitFails, HandOver, Succeed, Fail, Cancel, Executing
<1>2. inFlight = {k} /\ \A d \in Calls : pc[d] \in Executing => d = c
  BY <1>1, Executor DEF Inv
<1>3. LoadsMove /\ UNCHANGED cache
  BY DEF Admit, AdmitFails, HandOver, Succeed, Fail, Cancel, LoadsMove, cache
<1>4. CASE Admit(c)
  <2>1. k \in Inputs /\ row[k] \in {"none", "failed"}
    BY <1>4 DEF Inv, Life, Executions, Admit, Types, Keys
  <2>2. /\ live' = live \cup {k} /\ row'[k] \in {"admitted", "failed"} /\ pc'[c] = "execute"
        /\ \A j \in Inputs \ {k} : row'[j] = row[j]
        /\ UNCHANGED <<saved, inFlight, keyGate, key, ref>> /\ settled' = Drop(settled, k)
        /\ \A d \in Calls \ {c} : pc'[d] = pc[d]
    BY <1>0, <1>4, <2>1 DEF Admit, gates
  <2>3. Table'
    <3>1. /\ IsMap(settled')
          /\ \A m \in DOMAIN settled' :
                settled'[m][1] # k /\ \E n \in DOMAIN settled : settled'[m] = settled[n]
      BY <1>0, <2>2, DropEntries
    <3>2. \A j \in Inputs \ {k}, s \in Statuses : Settled(j, s) => Settled(j, s)'
      BY <2>2 DEF Settled
    <3>3. {k} \in SUBSET Inputs /\ \A m \in DOMAIN settled' : settled'[m][1] \notin {k}
      BY <2>1, <3>1
    <3> QED
      BY <1>0, <3>1, <3>2, <3>3, TableKept DEF Told
  <2>4. FactsTrue'
    BY <1>0, <1>3, <2>1, <2>2, FactsKept DEF Told, FactsTrue
  <2>5. SeeksOf(c)' /\ HearsOf(c)' /\ pc'[c] \notin Holding
    BY <2>2 DEF SeeksOf, HearsOf, Holding, Waiting, Statuses
  <2>6. ASSUME NEW d \in Calls, pc[d] \in Waiting \cup Statuses, key[d] \in Inputs
        PROVE  key[d] # k
    BY <1>2, <2>6 DEF Told, SeeksOf, HearsOf
  <2>7. KeyHeld' /\ \A d \in Calls : SeeksOf(d)' /\ HearsOf(d)'
    BY <1>0, <1>3, <2>2, <2>5, <2>6, ToldOfOthers
  <2>8. Handed'
    BY <1>2, <2>2 DEF Handed, Executing
  <2> QED
    BY <2>3, <2>4, <2>7, <2>8 DEF Told
<1>5. ASSUME NEW stage \in {"handed", "cancel"}, pc' = [pc EXCEPT ![c] = stage], k \in Inputs,
             pc[c] = "execute", UNCHANGED <<row, saved, live, inFlight, settled, keyGate, key, ref>>
      PROVE  Told'
  <2>1. row[k] # "none"
    BY <1>5 DEF Inv, Life, Executions
  <2>2. pc'[c] = stage /\ \A d \in Calls \ {c} : pc'[d] = pc[d] /\ key'[d] = key[d] /\ ref'[d] = ref[d]
    BY <1>0, <1>5
  <2>3. pc'[c] \notin Holding /\ pc'[c] \notin Statuses /\ SeeksOf(c)'
    BY <2>2 DEF Holding, Waiting, Statuses, SeeksOf
  <2>4. Table'
    BY <1>5, TableUntouched DEF Told
  <2> QED
    BY <1>0, <1>3, <1>5, <2>1, <2>2, <2>3, <2>4, ToldLooking
<1>6. ASSUME NEW status \in Statuses, Settle(c, live, settled, status), UNCHANGED <<row, saved>>,
             k \in Inputs => Settled(k, status)
      PROVE  Told'
  <2>1. UNCHANGED live
    BY <1>6 DEF Settle
  <2>2. \A j \in Inputs, s \in Statuses : Settled(j, s) => Settled(j, s)'
    BY <1>6, <2>1 DEF Settled
  <2>3. Table'
    <3>1. CASE settled' = settled
      BY <1>6, <2>1, <3>1, TableUntouched DEF Told
    <3>2. CASE settled' = Remember(settled, k, status)
      <4>1. Renewed(settled', settled, k, status)
        BY <1>0, <3>2, RememberEntries
      <4> QED
        BY <1>0, <1>6, <2>2, <4>1, TableRenewed DEF Told
    <3> QED
      BY <1>6, <3>1, <3>2 DEF Settle
  <2>4. k \in Inputs => Settled(k, status)'
    BY <1>6, <2>2
  <2>5. \A j \in live : row'[j] # "none"
    BY <1>6 DEF Told, FactsTrue
  <2> QED
    BY <1>1, <1>3, <1>6, <2>1, <2>3, <2>4, <2>5, ToldSettling
<1>7. CASE AdmitFails(c)
  <2>1. k \in Inputs /\ k \notin live /\ k \notin saved /\ row[k] \in {"none", "failed"}
    BY <1>7 DEF Inv, Life, Executions, AdmitFails, Types, Keys
  <2>2. Settled(k, "failed")
    BY <2>1 DEF Settled
  <2> QED
    BY <1>6, <1>7, <2>2 DEF AdmitFails, store, Statuses
<1>8. CASE HandOver(c)
  BY <1>5, <1>8 DEF HandOver, store, inbox, gates
<1>9. CASE Succeed(c)
  <2>1. k \in Inputs => row[k] # "none"
    BY <1>9, KindsAssumption DEF Succeed, Told, Handed
  <2> QED
    BY <1>6, <1>9, <2>1 DEF Succeed, store, Settled, Statuses
<1>10. CASE Fail(c)
  <2>1. CASE k \in Inputs
    BY <1>5, <1>10, <2>1 DEF Fail, store, inbox, gates
  <2>2. CASE k \notin Inputs
    BY <1>6, <1>10, <2>2 DEF Fail, store, Statuses
  <2> QED
    BY <2>1, <2>2
<1>11. CASE Cancel(c)
  <2>1. k \in Inputs /\ k \in live /\ k \notin saved /\ row[k] \in {"admitted", "failed"}
    BY <1>11 DEF Inv, Life, Executions, Cancel, Types, Keys
  <2> DEFINE table == Remember(settled, k, "failed")
  <2>2. Settle(c, live \ {k}, table, "failed") /\ UNCHANGED saved
    BY <1>11 DEF Cancel
  <2>3. /\ live' = live \ {k} /\ row'[k] = "failed"
        /\ \A j \in Inputs \ {k} : row'[j] = row[j]
    BY <1>0, <1>11, <2>1 DEF Cancel, CancelRow, Settle, Cancels
  <2>4. Settled(k, "failed")' /\ row[k] # "promoted"
    BY <2>1, <2>2, <2>3 DEF Settled
  <2>5. Table'
    <3>1. "failed" \in Statuses
      BY DEF Statuses
    <3>2. table \in Entries /\ Renewed(table, settled, k, "failed")
      BY <1>0, <3>1, RememberTyped, RememberEntries
    <3>3. settled' = Remember(table, k, "failed")
      BY <2>2 DEF Settle
    <3> HIDE DEF table
    <3>4. Renewed(settled', table, k, "failed")
      <4>1. IsMap(table)
        BY <3>2 DEF Renewed
      <4> QED
        BY <3>1, <3>2, <3>3, <4>1, RememberEntries
    <3>5. Renewed(settled', settled, k, "failed")
      BY <3>2, <3>4, RenewedTwice
    <3>6. \A j \in Inputs \ {k}, s \in Statuses : Settled(j, s) => Settled(j, s)'
      BY <2>2, <2>3 DEF Settled
    <3> QED
      BY <1>0, <2>4, <3>1, <3>5, <3>6, TableRenewed DEF Told
  <2> HIDE DEF table
  <2> QED
    BY <1>1, <1>3, <2>1, <2>2, <2>3, <2>4, <2>5, ToldSettling DEF Statuses
<1> QED
  BY <1>4, <1>7, <1>8, <1>9, <1>10, <1>11

\* A step of the store or of the runtime: only what is pinned is disturbed.
LEMMA ToldOfStore ==
    ASSUME Told, Types, UNCHANGED <<pc, key, ref, keyGate, inFlight>>,
           NEW K \in SUBSET live,
           \A j \in Inputs \ K :
              /\ row'[j] = "promoted" => row[j] = "promoted"
              /\ j \in saved' => j \in saved
              /\ j \in live' => j \in live,
           \A j \in Inputs : row[j] # "none" => row'[j] # "none",
           \A l \in Loads, j \in Inputs \ K : Fresh(l, j) => Fresh(l, j)',
           Table', FactsTrue'
    PROVE  Told'
<1>1. KeyHeld' /\ Handed'
  <2>1. \A c \in Calls : pc[c] = "handed" => key[c] \in Inputs
    BY DEF Types, Keys
  <2> QED
    BY <2>1 DEF Told, KeyHeld, HoldsKey, Handed
<1>2. ASSUME NEW c \in Calls
      PROVE  SeeksOf(c)'
  <2>1. CASE pc[c] \in Waiting /\ key[c] \in Inputs
    <3>1. PICK k \in Inputs : k = key[c]
      BY <2>1
    <3>2. PICK l \in Loads : l = ref[c]
      BY <2>1 DEF Types, Keys
    <3>3. /\ k \notin live /\ k \notin inFlight /\ Fresh(l, k)
          /\ pc[c] = "discarded" => row[k] # "promoted" /\ k \notin saved
      BY <2>1, <3>1, <3>2 DEF Told, SeeksOf
    <3>4. k \notin K /\ Fresh(l, k)'
      BY <3>3
    <3> QED
      BY <3>1, <3>2, <3>3, <3>4 DEF SeeksOf, Fresh
  <2> QED
    BY <2>1 DEF SeeksOf
<1>3. ASSUME NEW c \in Calls
      PROVE  HearsOf(c)'
  BY DEF Told, HearsOf, Settled
<1> QED
  BY <1>1, <1>2, <1>3 DEF Told

LEMMA ToldOfLoads ==
    ASSUME Inv, Inv', Told, NEW l \in Loads, Loading(l)
    PROVE  Told'
<1>0. Types /\ Types' /\ Life /\ load \in [Loads -> Record] /\ row \in [Inputs -> RowStates]
  BY TypesByParts DEF Inv, CacheTyped, RestTyped
<1>1. UNCHANGED <<pc, key, ref, keyGate, inFlight, saved, live, settled>>
  BY DEF Loading, ReadStore, LoadFails, store, inbox, gates, calls
<1>2. CASE LoadFails(l)
  <2>1. LoadsMove /\ UNCHANGED <<row, resident>>
    BY <1>0, <1>2 DEF LoadFails, LoadsMove, store, runtime
  <2>2. \A m \in Loads, k \in Inputs : Fresh(m, k) => Fresh(m, k)'
    BY <1>0, <1>1, <2>1, LoadingsKept DEF Life
  <2>3. Table' /\ FactsTrue'
    BY <1>1, <2>1, TableUntouched, FactsKept DEF Told, FactsTrue
  <2> QED
    BY <1>0, <1>1, <2>1, <2>2, <2>3, ToldOfStore
<1>3. CASE ReadStore(l)
  <2>1. /\ row' \in {row, Discarded(row)}
        /\ \A m \in Loads \ {l} : load'[m] = load[m]
        /\ load'[l].facts = [k \in Commands |-> FactOf(k, row')]
        /\ \A m \in Loads, k \in Inputs : Fresh(m, k) => Fresh(m, k)'
    BY <1>0, <1>3, Reading
  <2>2. \A k \in Inputs : /\ row'[k] = "promoted" <=> row[k] = "promoted"
                          /\ row[k] # "none" => row'[k] # "none"
    BY <2>1 DEF Discarded
  <2>3. FactsTrue'
    <3>1. \A k \in Inputs : load'[l].facts[k] = "accepted" => row'[k] = "promoted" \/ k \in saved
      BY <2>1 DEF FactOf, Inputs, Commands
    <3>2. live \subseteq Inputs
      BY <1>0 DEF Types, TypeOK
    <3> QED
      BY <1>1, <2>1, <2>2, <3>1, <3>2 DEF Told, FactsTrue
  <2>4. \A j \in Inputs, s \in Statuses : Settled(j, s) => Settled(j, s)'
    BY <1>1, <2>2 DEF Settled
  <2>5. {} \in SUBSET Inputs /\ \A m \in DOMAIN settled' : settled'[m][1] \notin {}
    OBVIOUS
  <2>6. Table'
    BY <1>0, <1>1, <2>4, <2>5, TableKept DEF Told
  <2>7. {} \in SUBSET live
    OBVIOUS
  <2> QED
    BY <1>0, <1>1, <2>1, <2>2, <2>3, <2>6, <2>7, ToldOfStore
<1> QED
  BY <1>2, <1>3 DEF Loading

LEMMA ToldOfEvents ==
    ASSUME Inv, Inv', Told, NEW k \in Inputs,
           \/ Promote(k) \/ EndUnpromoted(k) \/ SaveFact(k) \/ Withdraw(k)
           \/ Aftermath(k)
    PROVE  Told'
<1>0. /\ Types /\ Types' /\ Life /\ Loadings /\ load \in [Loads -> Record] /\ live \subseteq Inputs
      /\ row \in [Inputs -> RowStates] /\ settled \in Entries /\ IsMap(settled)
  BY TypesByParts DEF Inv, CacheTyped, RestTyped, TableTyped, Life, Told, Table
<1>1. UNCHANGED <<pc, key, ref, keyGate, inFlight, resident>>
  BY DEF Promote, EndUnpromoted, SaveFact, Withdraw, Aftermath, Ingest, RecordFact, FactRecorded, inbox, gates, calls
<1>2. k \in live /\ row[k] # "none"
  BY <1>0 DEF Promote, EndUnpromoted, SaveFact, Withdraw, Aftermath, Ingest, RecordFact, FactRecorded, Life,
              Progress, Told, FactsTrue
<1>3. /\ \A j \in Inputs \ {k} : /\ row'[j] = row[j]
                                 /\ j \in saved' <=> j \in saved
                                 /\ j \in live' <=> j \in live
      /\ row'[k] # "none" /\ saved \subseteq saved' /\ live' \subseteq live
      /\ row[k] = "promoted" => row'[k] = "promoted"
  BY <1>0, <1>2 DEF Promote, EndUnpromoted, SaveFact, Withdraw, Aftermath, Ingest, RecordFact, FactRecorded,
                    inbox, store
<1>4. ASSUME Table', FactsTrue', \A l \in Loads, j \in Inputs \ {k} : Fresh(l, j) => Fresh(l, j)'
      PROVE  Told'
  <2>1. {k} \in SUBSET live
    BY <1>2
  <2> QED
    BY <1>0, <1>1, <1>3, <1>4, <2>1, ToldOfStore
<1>5. ASSUME LoadsMove
      PROVE  FactsTrue'
  BY <1>0, <1>3, <1>5, FactsKept DEF Told, FactsTrue
<1>6. ASSUME UNCHANGED <<settled, live>>
      PROVE  Table'
  <2>1. \A j \in Inputs, s \in Statuses : Settled(j, s) => Settled(j, s)'
    BY <1>2, <1>3, <1>6 DEF Settled
  <2>2. {} \in SUBSET Inputs /\ \A m \in DOMAIN settled' : settled'[m][1] \notin {}
    OBVIOUS
  <2> QED
    BY <1>0, <1>6, <2>1, <2>2, TableKept DEF Told
<1>7. CASE Promote(k) \/ EndUnpromoted(k) \/ SaveFact(k) \/ Withdraw(k)
  <2>1. UNCHANGED <<settled, live, index, load>>
    BY <1>7 DEF Promote, EndUnpromoted, SaveFact, Withdraw, inbox, cache
  <2>2. LoadsMove
    BY <2>1 DEF LoadsMove
  <2>3. \A l \in Loads, j \in Inputs \ {k} : Fresh(l, j) => Fresh(l, j)'
    BY <1>3, <2>1 DEF Fresh
  <2> QED
    BY <1>4, <1>5, <1>6, <2>1, <2>2, <2>3
<1>8. CASE Ingest(k)
  <2>1. /\ UNCHANGED <<row, saved>> /\ live' = live \ {k} /\ index' = None
        /\ settled' = Remember(settled, k, "accepted") /\ load' = Collected(load)
    BY <1>2, <1>8 DEF Ingest, Invalidate, store
  <2>2. LoadsMove
    BY <1>0, <2>1, Collecting
  <2>3. \A l \in Loads, j \in Inputs : Fresh(l, j) => Fresh(l, j)'
    BY <1>0, <1>1, <2>1, <2>2, LoadingsKept
  <2>4. Table'
    <3>1. k \in Commands /\ "accepted" \in Statuses
      BY DEF Commands, Statuses
    <3>2. Renewed(settled', settled, k, "accepted")
      BY <1>0, <2>1, <3>1, RememberEntries
    <3>3. Settled(k, "accepted")'
      BY <1>3 DEF Settled
    <3>4. \A j \in Inputs \ {k}, s \in Statuses : Settled(j, s) => Settled(j, s)'
      BY <1>3 DEF Settled
    <3> QED
      BY <1>0, <3>1, <3>2, <3>3, <3>4, TableRenewed DEF Told
  <2> QED
    BY <1>4, <1>5, <2>2, <2>3, <2>4
<1>9. CASE RecordFact(k)
  <2>1. UNCHANGED <<row, saved, settled, live>>
    BY <1>9 DEF RecordFact, store, inbox
  <2>2. LoadsMove
    BY <1>0, <1>9, <2>1, Ensuring DEF RecordFact
  <2>3. \A l \in Loads, j \in Inputs : Fresh(l, j) => Fresh(l, j)'
    BY <1>0, <1>1, <2>1, <2>2, LoadingsKept
  <2> QED
    BY <1>4, <1>5, <1>6, <2>1, <2>2, <2>3
<1>10. CASE FactRecorded(k)
  <2>1. UNCHANGED <<row, saved, settled, live>>
    BY <1>10 DEF FactRecorded, store, inbox
  <2>2. /\ k \in saved
        /\ \A l \in Loads :
              \/ load'[l].state = "failed"
              \/ /\ load'[l].state = load[l].state
                 /\ \A j \in Inputs \ {k} : load'[l].facts[j] = load[l].facts[j]
        /\ \A l \in Loads, j \in Inputs \ {k} : Fresh(l, j) => Fresh(l, j)'
    BY <1>0, <1>10, Recording
  <2>3. FactsTrue'
    BY <2>1, <2>2 DEF Told, FactsTrue
  <2> QED
    BY <1>4, <1>6, <2>1, <2>2, <2>3
<1> QED
  BY <1>7, <1>8, <1>9, <1>10 DEF Aftermath

LEMMA ToldOfLives ==
    ASSUME Inv, Inv', Told, Deactivate \/ Resume \/ Restart
    PROVE  Told'
<1>0. Types /\ Types' /\ Life /\ row \in [Inputs -> RowStates] /\ live \subseteq Inputs
  BY TypesByParts DEF Inv, RestTyped
<1>1. CASE Restart
  BY <1>1 DEF Restart, Told, KeyHeld, Table, IsMap, FactsTrue, Handed, SeeksOf, HearsOf, Holding,
              Waiting, Statuses, NoLoad
<1>2. CASE Deactivate
  <2>1. /\ UNCHANGED <<pc, key, ref, keyGate, inFlight, row, saved, live, load>> /\ settled' = <<>>
    BY <1>2 DEF Deactivate, store, gates, cache, calls
  <2>2. Table' /\ FactsTrue'
    BY <2>1 DEF Told, Table, IsMap, FactsTrue
  <2>3. {} \in SUBSET live /\ \A l \in Loads, j \in Inputs : Fresh(l, j) => Fresh(l, j)'
    BY <2>1 DEF Fresh
  <2> QED
    BY <1>0, <2>1, <2>2, <2>3, ToldOfStore
<1>3. CASE Resume
  <2>1. /\ UNCHANGED <<pc, key, ref, keyGate, inFlight, saved, live, load, settled>>
        /\ row' = Discarded(row)
    BY <1>3 DEF Resume, inbox, gates, cache, calls
  <2>2. \A k \in Inputs : /\ row'[k] = "promoted" <=> row[k] = "promoted"
                          /\ row[k] # "none" => row'[k] # "none"
    BY <2>1 DEF Discarded
  <2>3. FactsTrue'
    BY <1>0, <2>1, <2>2 DEF Told, FactsTrue
  <2>4. \A j \in Inputs, s \in Statuses : Settled(j, s) => Settled(j, s)'
    BY <2>1, <2>2 DEF Settled
  <2>5. {} \in SUBSET Inputs /\ {} \in SUBSET live /\ \A m \in DOMAIN settled' : settled'[m][1] \notin {}
    OBVIOUS
  <2>6. Table'
    BY <1>0, <2>1, <2>4, <2>5, TableKept DEF Told
  <2>7. \A l \in Loads, j \in Inputs : Fresh(l, j) => Fresh(l, j)'
    BY <1>0, <1>3, Reopening
  <2> QED
    BY <1>0, <2>1, <2>2, <2>3, <2>5, <2>6, <2>7, ToldOfStore
<1> QED
  BY <1>1, <1>2, <1>3

LEMMA ToldKept == ASSUME Cancels PROVE Inv /\ Inv' /\ Told /\ [Next]_vars => Told'
<1> SUFFICES ASSUME Inv, Inv', Told, [Next]_vars PROVE Told'
  OBVIOUS
<1>1. CASE UNCHANGED vars
  <2>1. UNCHANGED <<row, saved, inFlight, live, settled, keyGate, load, pc, key, ref>>
    BY <1>1 DEF vars, store, inbox, gates, cache, calls
  <2> QED
    BY <2>1 DEF Told, KeyHeld, HoldsKey, Table, IsMap, FactsTrue, Handed, SeeksOf, HearsOf,
                Settled, Fresh
<1>2. ASSUME NEW c \in Calls,
             \/ Admit(c) \/ AdmitFails(c) \/ HandOver(c) \/ Succeed(c) \/ Fail(c) \/ Cancel(c)
      PROVE  Told'
  <2>1. key[c] \in Commands
    BY <1>2 DEF Inv, Types, Keys, Admit, AdmitFails, HandOver, Succeed, Fail, Cancel
  <2> QED
    BY <1>2, <2>1, ToldOfExecutions
<1> QED
  BY <1>1, <1>2, ToldOfRequests, ToldOfLoads, ToldOfEvents, ToldOfLives DEF Next, Step

-----------------------------------------------------------------------------
(* The answers.                                                            *)

\* What is told of an input is so.
True(k, a) ==
    /\ a = "duplicate" => Phase(k) \notin {"fresh", "running", "retrying"}
    /\ a = "unknown" => Phase(k) \in {"fresh", "failed"}
    /\ a = "failed" => Phase(k) \notin {"running", "accepted", "reaccepted", "entered"}

LEMMA DuplicateTrue ==
    ASSUME Types, NEW k \in Inputs, k \notin inFlight, row[k] # "none" \/ k \in saved
    PROVE  Phase(k) \notin {"fresh", "running", "retrying"}
<1>1. row[k] \in RowStates
  BY DEF Types, TypeOK
<1> QED
  BY <1>1 DEF Phase, RowStates

LEMMA FailedTrue ==
    ASSUME Types, NEW k \in Inputs, k \notin live, row[k] # "promoted", k \notin saved
    PROVE  Phase(k) \notin {"running", "accepted", "reaccepted", "entered"}
BY DEF Phase

LEMMA UnknownTrue ==
    ASSUME NEW k \in Inputs, k \notin live, row[k] \in {"none", "failed"}, k \notin saved
    PROVE  Phase(k) \in {"fresh", "failed"}
BY DEF Phase

\* A call that looks hears what is so, and changes nothing of it.
LEMMA LooksHearTrue ==
    ASSUME Inv, Told, NEW c \in Calls, NEW k \in Inputs, key[c] = k, pc[c] # "idle", pc'[c] = "idle",
           Look(c) \/ Deliver(c) \/ Unavailable(c) \/ LookTranscript(c) \/ LookDiscarded(c)
    PROVE  \A a \in Answers : answer' = a => True(k, a) /\ Phase(k)' = Phase(k)
<1>0. /\ Types /\ row[k] \in RowStates /\ live \subseteq Inputs
      /\ pc \in [Calls -> {"idle", "key", "joining", "transcript", "discarded", "session",
                           "admit", "execute", "handed", "cancel"} \cup Statuses]
      /\ query \in [Calls -> BOOLEAN]
  BY DEF Inv, Types, TypeOK
<1>1. UNCHANGED <<row, saved, live>>
  BY DEF Look, Deliver, Unavailable, LookTranscript, LookDiscarded, store, inbox
<1>2. ASSUME UNCHANGED inFlight, NEW a, answer' = a, True(k, a)
      PROVE  \A b \in Answers : answer' = b => True(k, b) /\ Phase(k)' = Phase(k)
  BY <1>1, <1>2, PhaseKept
<1>3. ASSUME UNCHANGED inFlight, k \notin inFlight, row[k] # "none" \/ k \in saved,
             answer' = Retry(c, "accepted")
      PROVE  \A b \in Answers : answer' = b => True(k, b) /\ Phase(k)' = Phase(k)
  <2>1. answer' \in {"accepted", "duplicate"}
    BY <1>3 DEF Retry
  <2>2. Phase(k) \notin {"fresh", "running", "retrying"}
    BY <1>0, <1>3, DuplicateTrue
  <2> QED
    BY <1>2, <1>3, <2>1, <2>2 DEF True
<1>4. ASSUME UNCHANGED inFlight, k \notin live, row[k] # "promoted", k \notin saved,
             answer' = "failed"
      PROVE  \A b \in Answers : answer' = b => True(k, b) /\ Phase(k)' = Phase(k)
  <2>1. Phase(k) \notin {"running", "accepted", "reaccepted", "entered"}
    BY <1>0, <1>4, FailedTrue
  <2> QED
    BY <1>2, <1>4, <2>1 DEF True
<1>5. ASSUME NEW status \in Statuses, Settled(k, status), k \notin inFlight, UNCHANGED inFlight,
             answer' = Retry(c, status)
      PROVE  \A b \in Answers : answer' = b => True(k, b) /\ Phase(k)' = Phase(k)
  <2>1. CASE status = "accepted"
    BY <1>3, <1>5, <2>1 DEF Settled
  <2>2. CASE status = "failed"
    BY <1>4, <1>5, <2>2 DEF Settled, Retry
  <2> QED
    BY <2>1, <2>2 DEF Statuses
<1>6. CASE Look(c)
  <2>0. UNCHANGED inFlight
    BY <1>6 DEF Look
  <2>1. CASE k \notin inFlight /\ k \in live /\ Answered(c, Retry(c, "accepted"))
    <3>1. row[k] # "none"
      BY <2>1 DEF Told, FactsTrue
    <3> QED
      BY <1>3, <2>0, <2>1, <3>1 DEF Answered
  <2>2. ASSUME k \notin inFlight, NEW status \in Remembered(k), Answered(c, Retry(c, status))
        PROVE  \A b \in Answers : answer' = b => True(k, b) /\ Phase(k)' = Phase(k)
    <3>1. PICK i \in DOMAIN settled : settled[i][1] = k /\ settled[i][2] = status
      BY <2>2 DEF Remembered
    <3>2. status \in Statuses
      BY <1>0, <3>1, EntriesTyped, TypesByParts DEF TableTyped
    <3>3. Settled(k, status)
      BY <3>1 DEF Told, Table
    <3> QED
      BY <1>5, <2>0, <2>2, <3>2, <3>3 DEF Answered
  <2>3. CASE pc' = [pc EXCEPT ![c] = "joining"] \/ Seek(c, "transcript")
    BY <1>0, <2>3 DEF Seek
  <2> QED
    BY <1>6, <2>1, <2>2, <2>3 DEF Look
<1>7. CASE Deliver(c)
  <2>1. /\ pc[c] \in Statuses /\ answer' = Retry(c, pc[c]) /\ UNCHANGED inFlight
        /\ k \notin inFlight /\ Settled(k, pc[c])
    BY <1>7 DEF Deliver, Answered, inbox, Told, HearsOf
  <2> QED
    BY <1>5, <2>1
<1>8. CASE Unavailable(c)
  BY <1>2, <1>8 DEF Unavailable, Answered, inbox, True
<1>9. CASE LookTranscript(c)
  <2>1. /\ pc[c] = "transcript" /\ load[ref[c]].state = "read" /\ ref[c] \in Loads
        /\ UNCHANGED inFlight
    BY <1>9 DEF LookTranscript, inbox, Inv, Types, Keys, Waiting
  <2>2. CASE Fact(c) = "accepted" /\ Answered(c, Retry(c, "accepted"))
    <3>1. row[k] = "promoted" \/ k \in saved
      BY <2>1, <2>2 DEF Told, FactsTrue, Fact
    <3>2. k \notin inFlight
      BY <2>1 DEF Told, SeeksOf, Waiting
    <3> QED
      BY <1>3, <2>1, <2>2, <3>1, <3>2 DEF Answered
  <2>3. CASE Seek(c, "discarded")
    BY <1>0, <2>3 DEF Seek
  <2> QED
    BY <1>9, <2>2, <2>3 DEF LookTranscript
<1>10. CASE LookDiscarded(c)
  <2>1. /\ pc[c] = "discarded" /\ load[ref[c]].state = "read" /\ ref[c] \in Loads
        /\ k \notin live /\ row[k] # "promoted" /\ k \notin saved /\ Fresh(ref[c], k)
    BY <1>10 DEF LookDiscarded, Inv, Types, Keys, Waiting, Told, SeeksOf
  <2>2. CASE Answered(c, "failed") /\ UNCHANGED inFlight
    BY <1>4, <2>1, <2>2 DEF Answered
  <2>3. CASE Fact(c) # "failed" /\ Answered(c, "unknown") /\ UNCHANGED inFlight
    <3>1. row[k] \notin {"removed", "discarded"}
      BY <2>1, <2>3 DEF Fresh, Fact
    <3>2. row[k] # "admitted"
      BY <2>1 DEF Inv, Life, Loadings, OpenIsPinned
    <3>3. Phase(k) \in {"fresh", "failed"}
      BY <1>0, <2>1, <3>1, <3>2, UnknownTrue DEF RowStates
    <3> QED
      BY <1>2, <2>3, <3>3 DEF True, Answered
  <2>4. CASE Answered(c, "refused") /\ UNCHANGED inFlight
    BY <1>2, <2>4 DEF Answered, True
  <2>5. CASE pc' = [pc EXCEPT ![c] = "session"]
    BY <1>0, <2>5
  <2>6. CASE pc' = [pc EXCEPT ![c] = IF key[c] \in Inputs THEN "admit" ELSE "execute"]
    BY <1>0, <2>6
  <2> QED
    BY <1>10, <2>2, <2>3, <2>4, <2>5, <2>6 DEF LookDiscarded, NotFound, Decide
<1> QED
  BY <1>6, <1>7, <1>8, <1>9, <1>10

\* Whoever has executed an input hears that it failed only if it has.
LEMMA ExecutionsHearTrue ==
    ASSUME Cancels, Inv, NEW c \in Calls, NEW k \in Inputs, key[c] = k, pc'[c] = "idle",
           \/ Admit(c) \/ AdmitFails(c) \/ HandOver(c) \/ Succeed(c) \/ Fail(c) \/ Cancel(c)
    PROVE  True(k, answer)'
<1>0. /\ row \in [Inputs -> RowStates] /\ live \subseteq Inputs
      /\ pc \in [Calls -> {"idle", "key", "joining", "transcript", "discarded", "session",
                           "admit", "execute", "handed", "cancel"} \cup Statuses]
  BY DEF Inv, Types, TypeOK
<1>1. CASE Admit(c) \/ HandOver(c)
  BY <1>0, <1>1 DEF Admit, HandOver
<1>2. CASE Succeed(c)
  BY <1>2 DEF Succeed, Settle, True
<1>3. CASE Fail(c)
  BY <1>0, <1>3 DEF Fail
<1>4. ASSUME answer' = "failed", k \notin live', row'[k] \in {"none", "failed"}, k \notin saved'
      PROVE  True(k, answer)'
  BY <1>4 DEF True, Phase
<1>5. CASE AdmitFails(c)
  <2>1. k \notin live /\ k \notin saved /\ row[k] \in {"none", "failed"}
    BY <1>5 DEF Inv, Life, Executions, AdmitFails
  <2> QED
    BY <1>4, <1>5, <2>1 DEF AdmitFails, Settle, store
<1>6. CASE Cancel(c)
  <2>1. k \notin saved /\ row[k] \in {"admitted", "failed"}
    BY <1>6 DEF Inv, Life, Executions, Cancel
  <2> QED
    BY <1>0, <1>4, <1>6, <2>1 DEF Cancel, CancelRow, Settle, Cancels
<1> QED
  BY <1>1, <1>2, <1>3, <1>5, <1>6

LEMMA StepsTellTrue ==
    ASSUME Cancels, Inv, Told, Next, NEW c \in Calls, NEW k \in Inputs,
           pc[c] # "idle", pc'[c] = "idle", key[c] = k
    PROVE  True(k, answer)'
<1>0. pc \in [Calls -> {"idle", "key", "joining", "transcript", "discarded", "session",
                        "admit", "execute", "handed", "cancel"} \cup Statuses]
      /\ answer' \in Answers
  <2>1. Types'
    BY TypesKept DEF Inv
  <2> QED
    BY <2>1 DEF Inv, Types, TypeOK
<1>1. ASSUME NEW d \in Calls, NEW j \in Commands, NEW q \in BOOLEAN, Arrive(d, j, q)
      PROVE  FALSE
  BY <1>0, <1>1 DEF Arrive
<1>2. ASSUME NEW d \in Calls, Step(d)
      PROVE  d = c
  BY <1>0, <1>2 DEF Step, Look, Deliver, Unavailable, LookTranscript, LookDiscarded, NotFound, Decide,
                    Seek, Answered, Admit, AdmitFails, HandOver, Succeed, Fail, Cancel, Settle,
                    Statuses, calls
<1>3. CASE Step(c)
  <2>1. CASE Look(c) \/ Deliver(c) \/ Unavailable(c) \/ LookTranscript(c) \/ LookDiscarded(c)
    <3>1. \A a \in Answers : answer' = a => True(k, a) /\ Phase(k)' = Phase(k)
      BY <2>1, LooksHearTrue
    <3> QED
      BY <1>0, <3>1 DEF True
  <2>2. CASE \/ Admit(c) \/ AdmitFails(c) \/ HandOver(c) \/ Succeed(c) \/ Fail(c) \/ Cancel(c)
    BY <2>2, ExecutionsHearTrue
  <2> QED
    BY <1>3, <2>1, <2>2 DEF Step
<1>4. ASSUME UNCHANGED pc
      PROVE  FALSE
  BY <1>4
<1>5. ASSUME NEW l \in Loads, Loading(l)
      PROVE  FALSE
  BY <1>4, <1>5 DEF Loading, ReadStore, LoadFails, calls
<1>6. ASSUME NEW j \in Inputs, \/ Promote(j) \/ EndUnpromoted(j) \/ SaveFact(j) \/ Withdraw(j) \/ Aftermath(j)
      PROVE  FALSE
  BY <1>4, <1>6 DEF Promote, EndUnpromoted, SaveFact, Withdraw, Aftermath, Ingest, RecordFact, FactRecorded, calls
<1>7. CASE Deactivate \/ Resume
  BY <1>4, <1>7 DEF Deactivate, Resume, calls
<1>8. CASE Restart
  BY <1>8 DEF Restart, Silent, True
<1> QED
  BY <1>1, <1>2, <1>3, <1>5, <1>6, <1>7, <1>8 DEF Next

(* Every answer is true at the moment it is given (command-inbox.ts:284 and :446): nothing *)
(* is a duplicate that was not accepted, unknown that was carried out, or failed that is   *)
(* queued or in the transcript; for any number of inputs and requests and any table size,  *)
(* provided that the store takes rows back.                                                *)
THEOREM AnswersAreTrue == ASSUME Cancels PROVE Spec => AnswersTrue
<1> DEFINE Goal ==
        \A c \in Calls, k \in Inputs :
          (pc[c] # "idle" /\ pc'[c] = "idle" /\ key[c] = k) =>
             LET phase == Phase(k)' IN
             /\ answer' = "duplicate" => phase \notin {"fresh", "running", "retrying"}
             /\ answer' = "unknown" => phase \in {"fresh", "failed"}
             /\ answer' = "failed" =>
                   phase \notin {"running", "accepted", "reaccepted", "entered"}
<1>1. Inv /\ Told /\ [Next]_vars => [Goal]_vars
  <2> SUFFICES ASSUME Inv, Told, Next PROVE Goal
    OBVIOUS
  <2> QED
    BY StepsTellTrue DEF True
<1>2. Spec => [](Inv /\ Told)
  BY InvInit, InvKept, ToldInit, ToldKept, PTL DEF Spec
<1> QED
  BY <1>1, <1>2, PTL DEF Spec, AnswersTrue
=============================================================================
