---------------------------- MODULE SeatGateProofs ----------------------------
(***************************************************************************)
(* The seat gate counts right for every set of subagents, every set of     *)
(* limits and every bound on the queues.                                   *)
(*                                                                         *)
(* The inductive invariant is the three invariants of SeatGate themselves, *)
(* together with the agreement of the two caps, which run control keeps in *)
(* one step; of a settled run it says that nobody moves any more, as the   *)
(* gate of a failed run keeps a count that nothing stands for.  The work is in what the operators on the gate's queue do to  *)
(* the numbers (Granting, Dropping) and in how many asks a scan starts     *)
(* (Pumping).                                                              *)
(***************************************************************************)
EXTENDS SeatGate, FiniteSetTheorems, SequenceTheorems, TLAPS

CapsAgree == caps = limit

Ended ==
    /\ parked = <<>>
    /\ \A x \in Subagents : stage[x] = "none" /\ request[x] = "none" /\ ~tools[x]

IInv ==
    /\ TypeOK /\ CapsAgree /\ SeatsExact /\ NoIdleSeat
    /\ settled => Ended

Members(p) == {p[i] : i \in DOMAIN p}

Distinct(p) == \A i, j \in DOMAIN p : p[i] = p[j] => i = j

Live(st) == {x \in Subagents : st[x] = "live"}

-----------------------------------------------------------------------------
(* Queues.                                                                 *)

(* A queue has as many members as places exactly if nobody is in it twice. *)
LEMMA DistinctIsCounted ==
    ASSUME NEW p \in Seq(Subagents)
    PROVE  /\ Members(p) \subseteq Subagents
           /\ IsFiniteSet(Members(p))
           /\ Cardinality(Members(p)) = Len(p) <=> Distinct(p)
<1>1. /\ Len(p) \in Nat
      /\ DOMAIN p = 1 .. Len(p)
      /\ p \in [1 .. Len(p) -> Subagents]
  BY LenProperties
<1>2. Members(p) \subseteq Subagents
  BY <1>1 DEF Members
<1>3. IsFiniteSet(1 .. Len(p)) /\ Cardinality(1 .. Len(p)) = Len(p)
  BY <1>1, FS_Interval
<1>4. p \in Surjection(1 .. Len(p), Members(p))
  BY <1>1 DEF Members, Surjection
<1>5. /\ IsFiniteSet(Members(p))
      /\ Cardinality(Members(p)) = Len(p) <=> p \in Injection(1 .. Len(p), Members(p))
  BY <1>3, <1>4, FS_Surjection
<1>6. p \in Injection(1 .. Len(p), Members(p)) <=> Distinct(p)
  BY <1>1 DEF Injection, IsInjective, Distinct, Members
<1> QED
  BY <1>2, <1>5, <1>6

(* Taking a member out of the queue. *)
LEMMA Dropping ==
    ASSUME NEW p \in Seq(Subagents), Distinct(p), NEW x \in Members(p)
    PROVE  /\ Dropped(p, x) \in Seq(Subagents)
           /\ Len(Dropped(p, x)) = Len(p) - 1
           /\ Distinct(Dropped(p, x))
           /\ Members(Dropped(p, x)) = Members(p) \ {x}
<1> DEFINE k == Place(p, x)
           front == SubSeq(p, 1, k - 1)
           back == SubSeq(p, k + 1, Len(p))
           d == Dropped(p, x)
<1>1. /\ Len(p) \in Nat
      /\ DOMAIN p = 1 .. Len(p)
      /\ \A i \in 1 .. Len(p) : p[i] \in Subagents
  BY LenProperties
<1>2. k \in 1 .. Len(p) /\ p[k] = x
  BY <1>1 DEF Members, Place
<1> HIDE DEF k
<1>3. /\ front \in Seq(Subagents) /\ Len(front) = k - 1
      /\ \A i \in 1 .. k - 1 : front[i] = p[i]
  <2>1. \A i \in 1 .. k - 1 : p[i] \in Subagents
    BY <1>1, <1>2
  <2> QED
    BY <2>1, <1>2, SubSeqProperties
<1>4. /\ back \in Seq(Subagents) /\ Len(back) = Len(p) - k
      /\ \A i \in 1 .. Len(p) - k : back[i] = p[k + i]
  <2>1. \A i \in k + 1 .. Len(p) : p[i] \in Subagents
    BY <1>1, <1>2
  <2>2. /\ back \in Seq(Subagents)
        /\ Len(back) = IF k + 1 <= Len(p) THEN Len(p) - (k + 1) + 1 ELSE 0
        /\ \A i \in 1 .. Len(p) - (k + 1) + 1 : back[i] = p[(k + 1) + i - 1]
    <3>1. k + 1 \in Int /\ Len(p) \in Int
      BY <1>1, <1>2
    <3> QED
      BY <2>1, <3>1, SubSeqProperties
  <2> HIDE DEF back
  <2>3. \A i \in 1 .. Len(p) - k : i \in 1 .. Len(p) - (k + 1) + 1 /\ (k + 1) + i - 1 = k + i
    BY <1>1, <1>2
  <2>4. Len(back) = Len(p) - k
    <3>1. Len(p) \in Nat /\ k \in 1 .. Len(p)
      BY <1>1, <1>2
    <3>2. Len(back) = IF k + 1 <= Len(p) THEN Len(p) - (k + 1) + 1 ELSE 0
      BY <2>2
    <3> QED
      BY ONLY <3>1, <3>2
  <2> QED
    BY <2>2, <2>3, <2>4
<1>5. d = front \o back
  BY DEF Dropped, k
<1> HIDE DEF front, back, d
<1>6. /\ d \in Seq(Subagents)
      /\ Len(d) = Len(p) - 1
      /\ DOMAIN d = 1 .. Len(p) - 1
      /\ \A i \in 1 .. Len(p) - 1 : d[i] = IF i < k THEN p[i] ELSE p[i + 1]
  <2>1. /\ d \in Seq(Subagents)
        /\ Len(d) = Len(front) + Len(back)
        /\ \A i \in 1 .. Len(front) + Len(back) :
              d[i] = IF i <= Len(front) THEN front[i] ELSE back[i - Len(front)]
    BY <1>3, <1>4, <1>5, ConcatProperties
  <2>2. Len(front) + Len(back) = Len(p) - 1
    BY <1>1, <1>2, <1>3, <1>4
  <2>3. DOMAIN d = 1 .. Len(p) - 1
    BY <2>1, <2>2, LenProperties
  <2>4. ASSUME NEW i \in 1 .. Len(p) - 1
        PROVE  d[i] = IF i < k THEN p[i] ELSE p[i + 1]
    <3> /\ Len(p) \in Nat /\ k \in 1 .. Len(p)
        /\ Len(front) = k - 1
        /\ d[i] = IF i <= k - 1 THEN front[i] ELSE back[i - (k - 1)]
      <4>1. i \in 1 .. Len(front) + Len(back)
        BY <2>2
      <4> QED
        BY <4>1, <1>1, <1>2, <1>3, <2>1
    <3>1. CASE i < k
      <4>1. i \in 1 .. k - 1
        BY <3>1
      <4>2. d[i] = front[i]
        BY <4>1
      <4> QED
        BY <3>1, <4>1, <4>2, <1>3
    <3>2. CASE ~(i < k)
      <4>1. i - (k - 1) \in 1 .. Len(p) - k /\ k + (i - (k - 1)) = i + 1
        BY <3>2
      <4>2. d[i] = back[i - (k - 1)]
        BY <3>2
      <4>3. back[i - (k - 1)] = p[i + 1]
        BY <1>4, <4>1
      <4> QED
        BY <3>2, <4>2, <4>3
    <3> QED
      BY <3>1, <3>2
  <2> QED
    BY <2>1, <2>2, <2>3, <2>4
<1> DEFINE from(i) == IF i < k THEN i ELSE i + 1
<1>7. /\ \A i \in 1 .. Len(p) - 1 : /\ from(i) \in 1 .. Len(p) /\ from(i) # k
                                     /\ d[i] = p[from(i)]
      /\ \A i, j \in 1 .. Len(p) - 1 : from(i) = from(j) => i = j
  BY <1>1, <1>2, <1>6
<1> HIDE DEF from
<1>8. Distinct(d)
  <2> SUFFICES ASSUME NEW i \in 1 .. Len(p) - 1, NEW j \in 1 .. Len(p) - 1, d[i] = d[j]
               PROVE  i = j
    BY <1>6 DEF Distinct
  <2>1. from(i) = from(j)
    BY <1>1, <1>7 DEF Distinct
  <2> QED
    BY <2>1, <1>7
<1>9. Members(d) = Members(p) \ {x}
  <2>1. ASSUME NEW i \in 1 .. Len(p) - 1
        PROVE  d[i] \in Members(p) \ {x}
    <3>1. d[i] = p[from(i)] /\ from(i) \in 1 .. Len(p) /\ from(i) # k
      BY <1>7
    <3>2. d[i] # x
      BY <3>1, <1>1, <1>2 DEF Distinct
    <3>3. d[i] \in Members(p)
      BY <3>1, <1>1 DEF Members
    <3> QED
      BY <3>2, <3>3
  <2>2. ASSUME NEW y \in Members(p) \ {x}
        PROVE  y \in Members(d)
    <3>1. PICK j \in 1 .. Len(p) : p[j] = y
      BY <1>1 DEF Members
    <3>2. j # k
      BY <1>2, <3>1
    <3>3. CASE j < k
      <4>1. j \in 1 .. Len(p) - 1 /\ d[j] = y
        BY <3>1, <3>3, <1>1, <1>2, <1>6
      <4> QED
        BY <4>1, <1>6 DEF Members
    <3>4. CASE j > k
      <4>1. j - 1 \in 1 .. Len(p) - 1 /\ ~(j - 1 < k) /\ (j - 1) + 1 = j
        BY <3>1, <3>4, <1>1, <1>2
      <4>2. d[j - 1] = y
        BY <3>1, <4>1, <1>6
      <4> QED
        BY <4>1, <4>2, <1>6 DEF Members
    <3> QED
      BY <3>2, <3>3, <3>4, <1>2, <3>1
  <2>3. Members(d) \subseteq Members(p) \ {x}
    BY <2>1, <1>6 DEF Members
  <2> QED
    BY <2>2, <2>3
<1> QED
  BY <1>6, <1>8, <1>9 DEF d

(* One more at the end of the queue. *)
LEMMA Parking ==
    ASSUME NEW p \in Seq(Subagents), Distinct(p), NEW x \in Subagents, x \notin Members(p)
    PROVE  /\ Append(p, x) \in Seq(Subagents)
           /\ Distinct(Append(p, x))
           /\ Members(Append(p, x)) = Members(p) \cup {x}
           /\ Append(p, x) # <<>>
<1> DEFINE a == Append(p, x)
<1>1. /\ Len(p) \in Nat /\ DOMAIN p = 1 .. Len(p)
      /\ a \in Seq(Subagents) /\ DOMAIN a = 1 .. Len(p) + 1
      /\ a[Len(p) + 1] = x
      /\ \A i \in 1 .. Len(p) : a[i] = p[i]
  OBVIOUS
<1> HIDE DEF a
<1>2. a # <<>>
  <2>1. Len(p) + 1 \in DOMAIN a
    BY <1>1
  <2> QED
    BY <2>1
<1>3. Distinct(a)
  BY <1>1 DEF Distinct, Members
<1>4. Members(a) = Members(p) \cup {x}
  <2>1. ASSUME NEW i \in DOMAIN a
        PROVE  a[i] \in Members(p) \cup {x}
    <3>1. i \in 1 .. Len(p) \/ i = Len(p) + 1
      BY <1>1
    <3> QED
      BY <3>1, <1>1 DEF Members
  <2>2. ASSUME NEW y \in Members(p)
        PROVE  y \in Members(a)
    <3>1. PICK i \in 1 .. Len(p) : p[i] = y
      BY <1>1 DEF Members
    <3>2. i \in DOMAIN a /\ a[i] = y
      BY <1>1, <3>1
    <3> QED
      BY <3>2 DEF Members
  <2>3. x \in Members(a)
    <3>1. Len(p) + 1 \in DOMAIN a
      BY <1>1
    <3> QED
      BY <1>1, <3>1 DEF Members
  <2> QED
    BY <2>1, <2>2, <2>3 DEF Members
<1> QED
  BY <1>1, <1>2, <1>3, <1>4 DEF a

(* The front of the queue is let in: the seats are filled, or nobody waits *)
(* any more.                                                               *)
Granted(w, p, lim, req) ==
    /\ working' \subseteq Subagents
    /\ parked' \in Seq(Subagents)
    /\ Distinct(parked')
    /\ w \subseteq working' /\ Members(parked') \subseteq Members(p)
    /\ working' \cup Members(parked') = w \cup Members(p)
    /\ working' \cap Members(parked') = {}
    /\ parked' # <<>> => Cardinality(working') >= lim
    /\ Cardinality(w) + Len(p) <= lim => parked' = <<>>
    /\ Len(parked') <= Len(p)
    /\ request' = [x \in Subagents |->
                      IF x \in Members(p) \ Members(parked') THEN "inside" ELSE req[x]]

LEMMA Granting ==
    ASSUME NEW w \in SUBSET Subagents, NEW p \in Seq(Subagents), Distinct(p),
           w \cap Members(p) = {}, NEW lim \in Nat, NEW req, Unpark(w, p, req, lim)
    PROVE  Granted(w, p, lim, req)
<1> DEFINE n == AtMost(AtLeast(lim - Cardinality(w), 0), Len(p))
           granted == {p[i] : i \in 1 .. n}
<1>1. /\ Len(p) \in Nat
      /\ DOMAIN p = 1 .. Len(p)
      /\ \A i \in 1 .. Len(p) : p[i] \in Subagents
  BY LenProperties
<1>2. IsFiniteSet(w) /\ Cardinality(w) \in Nat
  BY SubagentsAssumption, FS_Subset, FS_CardinalityType
<1>3. /\ n \in 0 .. Len(p)
      /\ n < Len(p) => Cardinality(w) + n >= lim
      /\ Cardinality(w) + Len(p) <= lim => n = Len(p)
  BY <1>1, <1>2 DEF AtMost, AtLeast
<1>4. /\ working' = w \cup granted
      /\ parked' = SubSeq(p, n + 1, Len(p))
      /\ request' = [x \in Subagents |-> IF x \in granted THEN "inside" ELSE req[x]]
  BY DEF Unpark
<1> HIDE DEF n
<1>m. Len(p) \in Nat /\ n \in 0 .. Len(p)
  BY <1>1, <1>3
<1>5. /\ parked' \in Seq(Subagents)
      /\ Len(parked') = Len(p) - n
      /\ DOMAIN parked' = 1 .. Len(p) - n
      /\ \A i \in 1 .. Len(p) - n : parked'[i] = p[n + i]
  <2>1. n + 1 \in Int /\ Len(p) \in Int /\ \A i \in n + 1 .. Len(p) : p[i] \in Subagents
    BY <1>1, <1>m
  <2>2. /\ parked' \in Seq(Subagents)
        /\ Len(parked') = IF n + 1 <= Len(p) THEN Len(p) - (n + 1) + 1 ELSE 0
        /\ \A i \in 1 .. Len(p) - (n + 1) + 1 : parked'[i] = p[(n + 1) + i - 1]
    BY <2>1, <1>4, SubSeqProperties
  <2>3. Len(parked') = Len(p) - n
    <3>1. Len(p) \in Nat /\ n \in 0 .. Len(p)
      BY <1>1, <1>m
    <3>2. Len(parked') = IF n + 1 <= Len(p) THEN Len(p) - (n + 1) + 1 ELSE 0
      BY <2>2
    <3> QED
      BY ONLY <3>1, <3>2
  <2>4. \A i \in 1 .. Len(p) - n : i \in 1 .. Len(p) - (n + 1) + 1 /\ (n + 1) + i - 1 = n + i
    BY <1>1, <1>m
  <2>5. DOMAIN parked' = 1 .. Len(parked')
    BY <2>2, LenProperties
  <2> QED
    BY <2>2, <2>3, <2>4, <2>5
<1>n. /\ Len(p) \in Nat /\ n \in 0 .. Len(p) /\ Len(parked') = Len(p) - n
      /\ n < Len(p) => Cardinality(w) + n >= lim
      /\ Cardinality(w) + Len(p) <= lim => n = Len(p)
  BY <1>m, <1>3, <1>5
<1>6. Distinct(parked')
  <2> SUFFICES ASSUME NEW i \in 1 .. Len(p) - n, NEW j \in 1 .. Len(p) - n,
                      parked'[i] = parked'[j]
               PROVE  i = j
    BY <1>5 DEF Distinct
  <2>1. n + i \in 1 .. Len(p) /\ n + j \in 1 .. Len(p) /\ (n + i = n + j => i = j)
    BY ONLY <1>n
  <2>2. p[n + i] = p[n + j]
    BY <1>5
  <2> QED
    BY <2>1, <2>2, <1>1 DEF Distinct
<1>7. granted \subseteq Members(p)
  BY <1>1, <1>m DEF Members
<1>8. Members(parked') = Members(p) \ granted
  <2>1. ASSUME NEW i \in 1 .. Len(p) - n
        PROVE  parked'[i] \in Members(p) \ granted
    <3>1. n + i \in 1 .. Len(p) /\ n + i \notin 1 .. n
      BY <1>m
    <3>2. parked'[i] = p[n + i]
      BY <1>5
    <3>3. ASSUME NEW j \in 1 .. n, p[j] = p[n + i]
          PROVE  FALSE
      <4>1. j \in 1 .. Len(p)
        BY <1>m
      <4> QED
        BY <3>1, <3>3, <4>1, <1>1 DEF Distinct
    <3> QED
      BY <3>1, <3>2, <3>3, <1>1 DEF Members
  <2>2. ASSUME NEW y \in Members(p) \ granted
        PROVE  y \in Members(parked')
    <3>1. PICK i \in 1 .. Len(p) : p[i] = y
      BY <1>1 DEF Members
    <3>2. i \notin 1 .. n
      BY <3>1
    <3>3. i - n \in 1 .. Len(p) - n /\ n + (i - n) = i
      BY <3>2, <1>m
    <3>4. parked'[i - n] = y
      BY <3>1, <3>3, <1>5
    <3> QED
      BY <3>3, <3>4, <1>5 DEF Members
  <2> QED
    BY <2>1, <2>2, <1>5 DEF Members
<1>9. granted = Members(p) \ Members(parked')
  BY <1>7, <1>8
<1>10. parked' # <<>> => Cardinality(working') >= lim
  <2> SUFFICES ASSUME parked' # <<>>
               PROVE  Cardinality(working') >= lim
    OBVIOUS
  <2>1. n < Len(p)
    <3>1. Len(parked') # 0
      BY <1>5, EmptySeq
    <3> QED
      BY ONLY <3>1, <1>n
  <2>2. /\ IsFiniteSet(Members(p)) /\ Cardinality(Members(p)) = Len(p)
        /\ IsFiniteSet(Members(parked')) /\ Cardinality(Members(parked')) = Len(p) - n
    BY <1>5, <1>6, DistinctIsCounted
  <2>3. Members(p) \cap Members(parked') = Members(parked')
    BY <1>8
  <2>4. IsFiniteSet(granted) /\ Cardinality(granted) = Len(p) - (Len(p) - n)
    <3>1. /\ IsFiniteSet(Members(p) \ Members(parked'))
          /\ Cardinality(Members(p) \ Members(parked')) =
                Cardinality(Members(p)) - Cardinality(Members(p) \cap Members(parked'))
      BY <2>2, FS_Difference
    <3> HIDE DEF granted
    <3> QED
      BY <3>1, <1>9, <2>2, <2>3
  <2>5. w \cap granted = {}
    BY <1>7
  <2>6. Cardinality(w \cup granted) = Cardinality(w) + Cardinality(granted) - 0
    BY <1>2, <2>4, <2>5, FS_Union, FS_EmptySet
  <2>7. Cardinality(granted) = n
    BY ONLY <2>4, <1>n
  <2> HIDE DEF granted
  <2> QED
    BY <2>1, <2>6, <2>7, <1>2, <1>n, <1>4
<1>11. Cardinality(w) + Len(p) <= lim => parked' = <<>>
  <2>1. Len(parked') = 0 => parked' = <<>>
    BY <1>5, EmptySeq
  <2>2. Cardinality(w) + Len(p) <= lim => Len(parked') = 0
    BY ONLY <1>n
  <2> QED
    BY <2>1, <2>2
<1>12. Len(parked') <= Len(p)
  BY ONLY <1>n
<1>13. /\ working' \subseteq Subagents
       /\ w \subseteq working' /\ Members(parked') \subseteq Members(p)
       /\ working' \cup Members(parked') = w \cup Members(p)
       /\ working' \cap Members(parked') = {}
  <2>1. Members(p) \subseteq Subagents
    BY <1>1 DEF Members
  <2> HIDE DEF granted
  <2> QED
    BY <2>1, <1>4, <1>7, <1>8
<1>14. request' = [x \in Subagents |->
                      IF x \in Members(p) \ Members(parked') THEN "inside" ELSE req[x]]
  <2> HIDE DEF granted
  <2> QED
    BY <1>4, <1>9
<1> QED
  BY <1>5, <1>6, <1>10, <1>11, <1>12, <1>13, <1>14 DEF Granted

-----------------------------------------------------------------------------
(* A scan starts asks in free slots only and ends none.                    *)
LEMMA Pumping ==
    ASSUME NEW st \in [Subagents -> {"none", "starting", "live"}],
           NEW q \in [Subagents -> Nat], \A x \in Subagents : q[x] <= MaxQueue,
           NEW cap \in Nat, PumpAll(st, q, cap)
    PROVE  /\ stage' \in [Subagents -> {"none", "starting", "live"}]
           /\ queue' \in [Subagents -> 0 .. MaxQueue]
           /\ Live(stage') = Live(st)
           /\ \/ Cardinality(InUse(stage')) <= Cardinality(InUse(st))
              \/ Cardinality(InUse(stage')) <= cap
<1>1. PICK S \in SUBSET Waiting(st, q) :
          /\ Cardinality(S) = AtMost(Cardinality(Waiting(st, q)),
                                     AtLeast(cap - Cardinality(InUse(st)), 0))
          /\ stage' = [x \in Subagents |-> IF x \in S THEN "starting" ELSE st[x]]
          /\ queue' = [x \in Subagents |-> IF x \in S THEN q[x] - 1 ELSE q[x]]
  BY DEF PumpAll
<1>2. \A x \in S : x \in Subagents /\ st[x] = "none" /\ q[x] > 0
  BY <1>1 DEF Waiting
<1>3. stage' \in [Subagents -> {"none", "starting", "live"}]
  BY <1>1
<1>4. queue' \in [Subagents -> 0 .. MaxQueue]
  BY <1>1, <1>2, MaxQueueAssumption
<1>5. Live(stage') = Live(st)
  BY <1>1, <1>2 DEF Live
<1>6. InUse(stage') = InUse(st) \cup S /\ InUse(st) \cap S = {}
  BY <1>1, <1>2 DEF InUse
<1>7. /\ IsFiniteSet(InUse(st)) /\ IsFiniteSet(S) /\ IsFiniteSet(Waiting(st, q))
      /\ Cardinality(InUse(st)) \in Nat /\ Cardinality(S) \in Nat
      /\ Cardinality(Waiting(st, q)) \in Nat
  <2>1. InUse(st) \subseteq Subagents /\ Waiting(st, q) \subseteq Subagents /\ S \subseteq Subagents
    BY <1>1 DEF InUse, Waiting
  <2> QED
    BY <2>1, SubagentsAssumption, FS_Subset, FS_CardinalityType
<1>8. Cardinality(InUse(stage')) = Cardinality(InUse(st)) + Cardinality(S) - 0
  BY <1>6, <1>7, FS_Union, FS_EmptySet
<1>9. Cardinality(S) <= AtLeast(cap - Cardinality(InUse(st)), 0)
  BY <1>1, <1>7 DEF AtMost, AtLeast
<1> QED
  BY <1>3, <1>4, <1>5, <1>7, <1>8, <1>9 DEF AtLeast

-----------------------------------------------------------------------------
(* The invariant.                                                          *)

(* SeatsExact, with the counting of the queue said in terms of its places. *)
Seats(w, p, st, req) ==
    /\ w \cup Members(p) = Live(st)
    /\ w \cap Members(p) = {}
    /\ Distinct(p)
    /\ \A x \in Subagents : req[x] = "parked" <=> x \in Members(p)

LEMMA AllFinite == \A S \in SUBSET Subagents : IsFiniteSet(S) /\ Cardinality(S) \in Nat
BY SubagentsAssumption, FS_Subset, FS_CardinalityType

LEMMA OneMoreOrLess ==
    ASSUME NEW S, IsFiniteSet(S), NEW x
    PROVE  /\ Cardinality(S \cup {x}) \in Nat
           /\ Cardinality(S \cup {x}) >= Cardinality(S)
           /\ Cardinality(S \ {x}) \in Nat
           /\ Cardinality(S \ {x}) >= Cardinality(S) - 1
<1>1. /\ IsFiniteSet(S \cup {x}) /\ IsFiniteSet(S \ {x})
      /\ Cardinality(S \cup {x}) = IF x \in S THEN Cardinality(S) ELSE Cardinality(S) + 1
      /\ Cardinality(S \ {x}) = IF x \in S THEN Cardinality(S) - 1 ELSE Cardinality(S)
  BY FS_AddElement, FS_RemoveElement
<1>2. /\ Cardinality(S) \in Nat /\ Cardinality(S \cup {x}) \in Nat
      /\ Cardinality(S \ {x}) \in Nat
  BY <1>1, FS_CardinalityType
<1> QED
  BY <1>1, <1>2

LEMMA Limited == ASSUME TypeOK PROVE caps \in Nat /\ limit \in Nat
BY LimitsAssumption DEF TypeOK

LEMMA InitialState == Init => IInv
<1> SUFFICES ASSUME Init PROVE IInv
  OBVIOUS
<1>1. parked = <<>> /\ parked \in Seq(Subagents) /\ Len(parked) = 0
  BY EmptySeq DEF Init
<1>2. Parked = {}
  BY <1>1 DEF Parked
<1>3. TypeOK
  <2>1. 0 \in 0 .. MaxQueue
    BY MaxQueueAssumption
  <2>2. queue \in [Subagents -> 0 .. MaxQueue]
    BY <2>1 DEF Init
  <2> QED
    BY <1>1, <2>2 DEF Init, TypeOK
<1>4. SeatsExact
  BY <1>1, <1>2, FS_EmptySet DEF Init, SeatsExact
<1> QED
  BY <1>1, <1>3, <1>4 DEF IInv, CapsAgree, NoIdleSeat, Init

(* The asks the gate knows of are among those the scheduler has slots for. *)
LEMMA SeatsHaveSlots ==
    ASSUME TypeOK, Seats(working, parked, stage, request)
    PROVE  Cardinality(working) + Len(parked) <= Cardinality(InUse(stage))
<1>1. parked \in Seq(Subagents) /\ working \in SUBSET Subagents
  BY DEF TypeOK
<1>2. Members(parked) \in SUBSET Subagents /\ Cardinality(Members(parked)) = Len(parked)
  BY <1>1, DistinctIsCounted DEF Seats
<1>3. InUse(stage) \in SUBSET Subagents /\ Live(stage) \in SUBSET InUse(stage)
  BY DEF InUse, Live
<1>4. working \cup Members(parked) = Live(stage) /\ working \cap Members(parked) = {}
  BY DEF Seats
<1>5. Cardinality(Live(stage)) = Cardinality(working) + Cardinality(Members(parked)) - 0
  <2>1. IsFiniteSet(working) /\ IsFiniteSet(Members(parked))
    BY <1>1, <1>2, AllFinite
  <2>2. Cardinality(working \cup Members(parked)) =
           Cardinality(working) + Cardinality(Members(parked))
                - Cardinality(working \cap Members(parked))
    BY <2>1, FS_Union
  <2> QED
    BY <2>2, <1>4, FS_EmptySet
<1>6. Cardinality(Live(stage)) <= Cardinality(InUse(stage))
  BY <1>3, AllFinite, FS_Subset
<1> QED
  BY <1>1, <1>2, <1>5, <1>6, AllFinite

(* ... so nobody is parked while the scheduler has a free slot. *)
LEMMA FreeSlotNobodyParked ==
    ASSUME TypeOK, CapsAgree, Seats(working, parked, stage, request), NoIdleSeat,
           Cardinality(InUse(stage)) < caps
    PROVE  parked = <<>>
<1> SUFFICES ASSUME parked # <<>> PROVE FALSE
  OBVIOUS
<1>1. parked \in Seq(Subagents) /\ working \in SUBSET Subagents /\ InUse(stage) \in SUBSET Subagents
  BY DEF TypeOK, InUse
<1>2. Len(parked) \in Nat /\ Len(parked) # 0
  BY <1>1, EmptySeq, LenProperties
<1>3. Cardinality(working) >= caps
  BY DEF NoIdleSeat, CapsAgree
<1>4. Cardinality(working) + Len(parked) <= Cardinality(InUse(stage))
  BY SeatsHaveSlots
<1> QED
  BY <1>1, <1>2, <1>3, <1>4, AllFinite, Limited

(* The parts of the invariant that the step of a subagent can disturb. *)
Kept ==
    /\ TypeOK'
    /\ CapsAgree'
    /\ Seats(working', parked', stage', request')
    /\ NoIdleSeat'

LEMMA SubagentSteps ==
    ASSUME TypeOK, CapsAgree, Seats(working, parked, stage, request), NoIdleSeat,
           NEW x \in Subagents
    PROVE  /\ Asked(x) => Kept
           /\ AskStarted(x) => Kept
           /\ Request(x) => Kept
           /\ RequestEnds(x) => Kept
           /\ ToolsEnd(x) => Kept
           /\ RequestAborted(x) => Kept
<1> USE DEF gate, turns, slots, Kept
<1>0. /\ parked \in Seq(Subagents) /\ Distinct(parked)
      /\ IsFiniteSet(working) /\ Cardinality(working) \in Nat /\ limit \in Nat
  BY AllFinite, Limited DEF TypeOK, Seats
<1>w. /\ Cardinality(working \cup {x}) \in Nat
      /\ Cardinality(working \cup {x}) >= Cardinality(working)
      /\ Cardinality(working \ {x}) \in Nat
      /\ Cardinality(working \ {x}) >= Cardinality(working) - 1
  BY OneMoreOrLess, <1>0
<1>1. Asked(x) => Kept
  <2> SUFFICES ASSUME Asked(x) PROVE Kept
    OBVIOUS
  <2> DEFINE q == [queue EXCEPT ![x] = @ + 1]
  <2>1. PumpAll(stage, q, caps)
    BY DEF Asked
  <2>2. q \in [Subagents -> Nat] /\ \A y \in Subagents : q[y] <= MaxQueue
    BY MaxQueueAssumption DEF Asked, TypeOK
  <2> HIDE DEF q
  <2>3. /\ stage' \in [Subagents -> {"none", "starting", "live"}]
        /\ queue' \in [Subagents -> 0 .. MaxQueue]
        /\ Live(stage') = Live(stage)
    BY <2>1, <2>2, Limited, Pumping DEF TypeOK
  <2> QED
    BY <2>3 DEF Asked, TypeOK, CapsAgree, Seats, NoIdleSeat
<1>2. AskStarted(x) => Kept
  <2> SUFFICES ASSUME AskStarted(x) PROVE Kept
    OBVIOUS
  <2>1. x \notin Members(parked) /\ x \notin Parked
    BY DEF AskStarted, Seats, Live, Members, Parked
  <2>2. working' = working \cup {x} /\ UNCHANGED <<parked, limit, caps, request>>
    BY <2>1 DEF AskStarted
  <2>3. stage' \in [Subagents -> {"none", "starting", "live"}] /\ Live(stage') = Live(stage) \cup {x}
    BY DEF AskStarted, Live, TypeOK
  <2>4. Cardinality(working') >= Cardinality(working)
    BY <1>w, <2>2
  <2>5. NoIdleSeat'
    <3>1. Cardinality(working') \in Nat
      BY <1>w, <2>2
    <3> QED
      BY <3>1, <1>0, <2>2, <2>4 DEF NoIdleSeat
  <2>6. TypeOK' /\ CapsAgree'
    BY <2>2, <2>3 DEF AskStarted, TypeOK, CapsAgree
  <2>7. Seats(working', parked', stage', request')
    BY <2>1, <2>2, <2>3 DEF Seats
  <2> QED
    BY <2>5, <2>6, <2>7
<1>3. Request(x) => Kept
  <2> SUFFICES ASSUME Request(x) PROVE Kept
    OBVIOUS
  <2>1. CASE NeedsSeat(x) /\ OverLimit
    <3>1. /\ x \in working /\ Cardinality(working) > limit
          /\ working' = working \ {x} /\ parked' = Append(parked, x)
          /\ request' = [request EXCEPT ![x] = "parked"]
          /\ UNCHANGED <<slots, limit, tools>>
      BY <2>1 DEF Request, NeedsSeat, OverLimit, LeaveWorking
    <3>2. x \notin Members(parked)
      BY <3>1 DEF Seats
    <3>3. /\ parked' \in Seq(Subagents) /\ Distinct(parked')
          /\ Members(parked') = Members(parked) \cup {x}
      BY <1>0, <3>1, <3>2, Parking
    <3>4. Cardinality(working') >= limit
      BY <1>0, <1>w, <3>1
    <3>5. Seats(working', parked', stage', request')
      BY <3>1, <3>2, <3>3 DEF Seats, TypeOK
    <3>6. TypeOK' /\ CapsAgree' /\ NoIdleSeat'
      BY <3>1, <3>3, <3>4 DEF TypeOK, CapsAgree, NoIdleSeat
    <3> QED
      BY <3>5, <3>6
  <2>2. CASE ~(NeedsSeat(x) /\ OverLimit)
    <3>1. /\ request[x] = "none" /\ request' = [request EXCEPT ![x] = "inside"]
          /\ UNCHANGED <<slots, gate, tools>>
      BY <2>2 DEF Request
    <3> QED
      BY <3>1 DEF TypeOK, CapsAgree, Seats, NoIdleSeat
  <2> QED
    BY <2>1, <2>2
<1>4. RequestEnds(x) => Kept
  BY DEF RequestEnds, TypeOK, CapsAgree, Seats, NoIdleSeat
<1>5. ToolsEnd(x) => Kept
  BY DEF ToolsEnd, TypeOK, CapsAgree, Seats, NoIdleSeat
<1>6. RequestAborted(x) => Kept
  <2> SUFFICES ASSUME RequestAborted(x) PROVE Kept
    OBVIOUS
  <2>1. /\ x \in Members(parked)
        /\ parked' = Dropped(parked, x) /\ working' = working \cup {x}
        /\ request' = [request EXCEPT ![x] = "none"]
        /\ UNCHANGED <<slots, limit, tools>>
    BY DEF RequestAborted, BackToWork, Seats
  <2>2. /\ parked' \in Seq(Subagents) /\ Distinct(parked')
        /\ Members(parked') = Members(parked) \ {x}
    BY <1>0, <2>1, Dropping
  <2>3. Cardinality(working') \in Nat /\ Cardinality(working') >= Cardinality(working)
    BY <1>w, <2>1
  <2>4. parked # <<>>
    BY <2>1 DEF Members
  <2>5. Seats(working', parked', stage', request')
    BY <2>1, <2>2 DEF Seats, TypeOK
  <2>6. NoIdleSeat'
    BY <1>0, <2>1, <2>3, <2>4 DEF NoIdleSeat
  <2>7. TypeOK' /\ CapsAgree'
    BY <2>1, <2>2 DEF TypeOK, CapsAgree
  <2> QED
    BY <2>5, <2>6, <2>7
<1> QED
  BY <1>1, <1>2, <1>3, <1>4, <1>5, <1>6

LEMMA SettlementStep ==
    ASSUME TypeOK, CapsAgree, Seats(working, parked, stage, request), NoIdleSeat,
           NEW x \in Subagents, AskSettled(x)
    PROVE  /\ Kept
           /\ parked = <<>> => parked' = <<>>
<1> DEFINE st == [stage EXCEPT ![x] = "none"]
<1>0. /\ parked \in Seq(Subagents) /\ Distinct(parked)
      /\ working \in SUBSET Subagents
      /\ IsFiniteSet(working) /\ Cardinality(working) \in Nat /\ limit \in Nat
  BY AllFinite, Limited DEF TypeOK, Seats
<1>1. /\ stage' \in [Subagents -> {"none", "starting", "live"}]
      /\ queue' \in [Subagents -> 0 .. MaxQueue]
      /\ Live(stage') = Live(st)
  <2>1. PumpAll(st, queue, caps)
    BY DEF AskSettled
  <2>2. /\ st \in [Subagents -> {"none", "starting", "live"}]
        /\ queue \in [Subagents -> Nat] /\ \A y \in Subagents : queue[y] <= MaxQueue
    BY MaxQueueAssumption DEF TypeOK
  <2> HIDE DEF st
  <2> QED
    BY <2>1, <2>2, Limited, Pumping
<1>2. Live(st) = Live(stage) \ {x}
  BY DEF Live, TypeOK
<1>3. /\ SeatOfSettled(x)
      /\ tools' = [tools EXCEPT ![x] = FALSE]
      /\ UNCHANGED <<caps, settled, limit>>
  BY DEF AskSettled, SeatOfSettled
<1>4. Parked = Members(parked)
  BY DEF Parked, Members
<1> HIDE DEF st
<1>5. CASE x \in Members(parked)
  <2>1. /\ parked' = Dropped(parked, x) /\ working' = working
        /\ request' = [request EXCEPT ![x] = "none"]
    BY <1>3, <1>4, <1>5 DEF SeatOfSettled
  <2>2. /\ parked' \in Seq(Subagents) /\ Distinct(parked')
        /\ Members(parked') = Members(parked) \ {x}
    BY <1>0, <1>5, <2>1, Dropping
  <2>3. parked # <<>>
    BY <1>5 DEF Members
  <2>4. Seats(working', parked', stage', request')
    BY <1>1, <1>2, <1>5, <2>1, <2>2 DEF Seats, TypeOK
  <2>5. TypeOK' /\ CapsAgree' /\ NoIdleSeat'
    BY <1>1, <1>3, <2>1, <2>2, <2>3 DEF TypeOK, CapsAgree, NoIdleSeat
  <2> QED
    BY <2>3, <2>4, <2>5 DEF Kept
<1>6. CASE x \notin Members(parked) /\ stage[x] = "live"
  <2> DEFINE w == working \ {x}
             req == [request EXCEPT ![x] = "none"]
  <2>1. x \in working
    BY <1>6 DEF Seats, Live
  <2>2. Unpark(w, parked, req, limit)
    BY <1>3, <1>4, <1>6, <2>1 DEF SeatOfSettled
  <2>3. w \in SUBSET Subagents /\ w \cap Members(parked) = {}
    BY <1>0 DEF Seats
  <2>4. w \cup Members(parked) = Live(stage) \ {x}
    BY <1>6 DEF Seats
  <2>5. /\ req \in [Subagents -> {"none", "inside", "parked"}]
        /\ \A y \in Subagents : req[y] = "parked" <=> y \in Members(parked)
    BY <1>6 DEF Seats, TypeOK
  <2> HIDE DEF w, req
  <2>6. /\ working' \subseteq Subagents
        /\ parked' \in Seq(Subagents)
        /\ Distinct(parked')
        /\ Members(parked') \subseteq Members(parked)
        /\ working' \cup Members(parked') = w \cup Members(parked)
        /\ working' \cap Members(parked') = {}
        /\ parked' # <<>> => Cardinality(working') >= limit
        /\ Len(parked') <= Len(parked)
        /\ request' = [y \in Subagents |->
                          IF y \in Members(parked) \ Members(parked') THEN "inside" ELSE req[y]]
    <3>1. Granted(w, parked, limit, req)
      BY <1>0, <2>2, <2>3, Granting
    <3> QED
      BY <3>1 DEF Granted
  <2>7. parked = <<>> => parked' = <<>>
    <3>1. /\ Len(parked') \in Nat /\ (parked = <<>> => Len(parked) = 0)
          /\ parked' # <<>> => Len(parked') # 0
      BY <2>6, EmptySeq, LenProperties
    <3> QED
      BY <2>6, <3>1
  <2>8. Seats(working', parked', stage', request')
    BY <1>1, <1>2, <2>4, <2>5, <2>6 DEF Seats
  <2>9. request' \in [Subagents -> {"none", "inside", "parked"}]
    BY <2>5, <2>6
  <2>10. TypeOK' /\ CapsAgree' /\ NoIdleSeat'
    BY <1>1, <1>3, <2>6, <2>9 DEF TypeOK, CapsAgree, NoIdleSeat
  <2> QED
    BY <2>7, <2>8, <2>10 DEF Kept
<1>7. CASE x \notin Members(parked) /\ stage[x] # "live"
  <2>1. UNCHANGED <<working, parked, request>>
    BY <1>3, <1>4, <1>7 DEF SeatOfSettled
  <2>2. x \notin Live(stage)
    BY <1>7 DEF Live
  <2>3. Seats(working', parked', stage', request')
    BY <1>1, <1>2, <2>1, <2>2 DEF Seats
  <2>4. TypeOK' /\ CapsAgree' /\ NoIdleSeat'
    BY <1>1, <1>3, <2>1 DEF TypeOK, CapsAgree, NoIdleSeat
  <2> QED
    BY <2>1, <2>3, <2>4 DEF Kept
<1> QED
  BY <1>5, <1>6, <1>7

LEMMA CapStep ==
    ASSUME TypeOK, CapsAgree, Seats(working, parked, stage, request), NoIdleSeat,
           NEW n \in Limits, SetMaxConcurrency(n)
    PROVE  /\ Kept
           /\ Cardinality(working) + Len(parked) <= n => parked' = <<>>
<1>0. /\ parked \in Seq(Subagents) /\ Distinct(parked) /\ n \in Nat
      /\ working \in SUBSET Subagents /\ working \cap Members(parked) = {}
  BY LimitsAssumption DEF TypeOK, Seats
<1>1. /\ stage' \in [Subagents -> {"none", "starting", "live"}]
      /\ queue' \in [Subagents -> 0 .. MaxQueue]
      /\ Live(stage') = Live(stage)
  <2>1. CASE n > caps
    <3>1. PumpAll(stage, queue, n)
      BY <2>1 DEF SetMaxConcurrency
    <3>2. queue \in [Subagents -> Nat] /\ \A y \in Subagents : queue[y] <= MaxQueue
      BY MaxQueueAssumption DEF TypeOK
    <3> QED
      BY <1>0, <3>1, <3>2, Pumping DEF TypeOK
  <2>2. CASE ~(n > caps)
    BY <2>2 DEF SetMaxConcurrency, TypeOK
  <2> QED
    BY <2>1, <2>2
<1>2. /\ caps' = n /\ limit' = n /\ UNCHANGED <<settled, tools>>
      /\ Unpark(working, parked, request, n)
  BY DEF SetMaxConcurrency, SetLimit
<1>3. /\ working' \subseteq Subagents
      /\ parked' \in Seq(Subagents)
      /\ Distinct(parked')
      /\ Members(parked') \subseteq Members(parked)
      /\ working' \cup Members(parked') = working \cup Members(parked)
      /\ working' \cap Members(parked') = {}
      /\ parked' # <<>> => Cardinality(working') >= n
      /\ Cardinality(working) + Len(parked) <= n => parked' = <<>>
      /\ request' = [y \in Subagents |->
                        IF y \in Members(parked) \ Members(parked') THEN "inside" ELSE request[y]]
  <2>1. Granted(working, parked, n, request)
    BY <1>0, <1>2, Granting
  <2> QED
    BY <2>1 DEF Granted
<1>4. Seats(working', parked', stage', request')
  BY <1>1, <1>3 DEF Seats
<1>5. request' \in [Subagents -> {"none", "inside", "parked"}]
  BY <1>3 DEF TypeOK
<1>6. TypeOK' /\ CapsAgree' /\ NoIdleSeat'
  BY <1>1, <1>2, <1>3, <1>5 DEF TypeOK, CapsAgree, NoIdleSeat
<1> QED
  BY <1>3, <1>4, <1>6 DEF Kept

LEMMA EndStep ==
    ASSUME TypeOK, CapsAgree, RunSettled
    PROVE  IInv' /\ parked' = <<>>
<1>1. parked' = <<>> /\ parked' \in Seq(Subagents) /\ Len(parked') = 0
  BY EmptySeq DEF RunSettled
<1>2. queue' \in [Subagents -> 0 .. MaxQueue]
  <2>1. 0 \in 0 .. MaxQueue
    BY MaxQueueAssumption
  <2> QED
    BY <2>1 DEF RunSettled
<1>3. working' \subseteq Subagents
  BY DEF RunSettled, TypeOK, Parked
<1>4. Ended' /\ settled'
  BY DEF RunSettled, Ended
<1>5. Parked' = {}
  BY <1>1 DEF Parked
<1>6. SeatsExact'
  BY <1>1, <1>4, <1>5, FS_EmptySet DEF SeatsExact, Ended
<1>7. TypeOK' /\ CapsAgree' /\ NoIdleSeat'
  BY <1>1, <1>2, <1>3 DEF RunSettled, TypeOK, CapsAgree, NoIdleSeat
<1> QED
  BY <1>1, <1>4, <1>6, <1>7 DEF IInv

(* Nothing happens in a settled run. *)
LEMMA AfterTheEnd == ASSUME IInv, settled PROVE ~Next
<1>1. Ended
  BY DEF IInv
<1>2. \A x \in Subagents : ~Asked(x) /\ ~AskStarted(x) /\ ~AskSettled(x)
  BY DEF Asked, AskStarted, AskSettled
<1>3. \A x \in Subagents : ~Request(x) /\ ~RequestEnds(x) /\ ~ToolsEnd(x) /\ ~RequestAborted(x)
  BY <1>1 DEF Ended, Request, RequestEnds, ToolsEnd, RequestAborted
<1>4. ~RunSettled /\ \A n \in Limits : ~SetMaxConcurrency(n)
  BY DEF RunSettled, SetMaxConcurrency
<1> QED
  BY <1>2, <1>3, <1>4 DEF Next

-----------------------------------------------------------------------------
(* The theorems.                                                           *)

(* SeatsExact and Seats say the same of a well-typed state. *)
LEMMA SeatsOfExact ==
    ASSUME NEW p \in Seq(Subagents)
    PROVE  Cardinality({p[i] : i \in DOMAIN p}) = Len(p) <=> Distinct(p)
BY DistinctIsCounted DEF Members

LEMMA Expanded == ASSUME IInv, ~settled
                  PROVE  /\ TypeOK /\ CapsAgree /\ NoIdleSeat
                         /\ Seats(working, parked, stage, request)
<1>1. parked \in Seq(Subagents)
  BY DEF IInv, TypeOK
<1> QED
  BY <1>1, SeatsOfExact DEF IInv, SeatsExact, Seats, Parked, Members, Live

LEMMA Collected == ASSUME Kept, ~settled' PROVE IInv'
<1>1. parked' \in Seq(Subagents)
  BY DEF Kept, TypeOK
<1>2. Cardinality({parked'[i] : i \in DOMAIN parked'}) = Len(parked') <=> Distinct(parked')
  BY <1>1, SeatsOfExact
<1> QED
  BY <1>1, <1>2 DEF Kept, IInv, SeatsExact, Seats, Parked, Members, Live

LEMMA Inductive == IInv /\ [Next]_vars => IInv'
<1> SUFFICES ASSUME IInv, [Next]_vars PROVE IInv'
  OBVIOUS
<1>1. CASE UNCHANGED vars
  BY <1>1 DEF vars, slots, gate, turns, IInv, Ended, TypeOK, CapsAgree, SeatsExact, Parked,
              NoIdleSeat
<1>2. CASE settled
  BY <1>1, <1>2, AfterTheEnd
<1>3. CASE RunSettled
  BY <1>3, EndStep DEF IInv
<1>4. ASSUME ~settled, Next, ~RunSettled PROVE IInv'
  <2>1. TypeOK /\ CapsAgree /\ NoIdleSeat /\ Seats(working, parked, stage, request)
    BY <1>4, Expanded
  <2>2. ASSUME NEW x \in Subagents,
               \/ Asked(x) \/ AskStarted(x)
               \/ Request(x) \/ RequestEnds(x) \/ ToolsEnd(x) \/ RequestAborted(x)
        PROVE  Kept /\ UNCHANGED settled
    <3>1. UNCHANGED settled
      BY <2>2 DEF Asked, AskStarted, Request, RequestEnds, ToolsEnd, RequestAborted, slots
    <3> QED
      BY <3>1, <2>1, <2>2, SubagentSteps
  <2>3. ASSUME NEW x \in Subagents, AskSettled(x)
        PROVE  Kept /\ UNCHANGED settled
    <3>1. UNCHANGED settled
      BY <2>3 DEF AskSettled
    <3> QED
      BY <3>1, <2>1, <2>3, SettlementStep
  <2>4. ASSUME NEW n \in Limits, SetMaxConcurrency(n)
        PROVE  Kept /\ UNCHANGED settled
    <3>1. UNCHANGED settled
      BY <2>4 DEF SetMaxConcurrency
    <3> QED
      BY <3>1, <2>1, <2>4, CapStep
  <2>5. Kept /\ UNCHANGED settled
    BY <1>4, <2>2, <2>3, <2>4 DEF Next
  <2> QED
    BY <1>4, <2>5, Collected
<1> QED
  BY <1>1, <1>2, <1>3, <1>4

THEOREM Invariance == Spec => []IInv
<1>1. Init => IInv
  BY InitialState
<1>2. IInv /\ [Next]_vars => IInv'
  BY Inductive
<1> QED
  BY <1>1, <1>2, PTL DEF Spec

(* The state has its type: no queue of asks grows past its bound and every *)
(* key in the gate is a subagent.                                          *)
THEOREM TypeCorrect == Spec => []TypeOK
<1>1. IInv => TypeOK
  BY DEF IInv
<1> QED
  BY <1>1, Invariance, PTL

(* The gate counts every ask in flight exactly once, whatever the order of *)
(* parking, aborted requests, settlements and changes of the cap, until    *)
(* the run is settled.                                                     *)
THEOREM EveryAskCounted == Spec => []SeatsExact
<1>1. IInv => SeatsExact
  BY DEF IInv
<1> QED
  BY <1>1, Invariance, PTL

(* The gate never parks the last worker and never leaves a seat empty that *)
(* somebody waits for.                                                     *)
THEOREM NoSeatWasted == Spec => []NoIdleSeat
<1>1. IInv => NoIdleSeat
  BY DEF IInv
<1> QED
  BY <1>1, Invariance, PTL

(* The scheduler, which knows nothing of the gate, dispatches no ask while *)
(* a subagent stays parked.                                                *)
THEOREM NobodyOvertaken == Spec => ParkedNotOvertaken
<1> DEFINE Overtaking == Cardinality(InUse(stage')) > Cardinality(InUse(stage))
<1>1. IInv /\ [Next]_vars => [Overtaking => parked' = <<>>]_vars
  <2> SUFFICES ASSUME IInv, Next, Overtaking PROVE parked' = <<>>
    BY DEF vars
  <2>0. TypeOK /\ CapsAgree /\ NoIdleSeat /\ Seats(working, parked, stage, request)
    BY Expanded, AfterTheEnd
  <2>a. /\ InUse(stage) \in SUBSET Subagents
        /\ Cardinality(InUse(stage)) \in Nat /\ Cardinality(InUse(stage')) \in Nat
        /\ IsFiniteSet(InUse(stage))
        /\ stage \in [Subagents -> {"none", "starting", "live"}]
        /\ queue \in [Subagents -> Nat] /\ \A y \in Subagents : queue[y] <= MaxQueue
        /\ caps \in Nat
    BY <2>0, AllFinite, Limited, MaxQueueAssumption DEF InUse, TypeOK
  <2>1. ASSUME NEW x \in Subagents, Asked(x)
        PROVE  parked' = <<>>
    <3> DEFINE q == [queue EXCEPT ![x] = @ + 1]
    <3>1. PumpAll(stage, q, caps) /\ parked' = parked
      BY <2>1 DEF Asked, gate
    <3>2. q \in [Subagents -> Nat] /\ \A y \in Subagents : q[y] <= MaxQueue
      BY <2>1, <2>0, MaxQueueAssumption DEF Asked, TypeOK
    <3> HIDE DEF q
    <3>3. Cardinality(InUse(stage')) <= caps
      BY <3>1, <3>2, <2>a, Pumping
    <3> QED
      BY <3>1, <3>3, <2>a, <2>0, FreeSlotNobodyParked
  <2>2. ASSUME NEW x \in Subagents, AskSettled(x)
        PROVE  parked' = <<>>
    <3> DEFINE st == [stage EXCEPT ![x] = "none"]
    <3>1. PumpAll(st, queue, caps)
      BY <2>2 DEF AskSettled
    <3>2. /\ st \in [Subagents -> {"none", "starting", "live"}]
          /\ InUse(st) \in SUBSET InUse(stage)
      BY <2>a DEF InUse
    <3>3. Cardinality(InUse(st)) <= Cardinality(InUse(stage)) /\ Cardinality(InUse(st)) \in Nat
      BY <3>2, <2>a, FS_Subset, AllFinite
    <3> HIDE DEF st
    <3>4. \/ Cardinality(InUse(stage')) <= Cardinality(InUse(st))
          \/ Cardinality(InUse(stage')) <= caps
      BY <3>1, <3>2, <2>a, Pumping
    <3>5. Cardinality(InUse(stage)) < caps
      BY <3>3, <3>4, <2>a
    <3> QED
      BY <3>5, <2>0, <2>2, FreeSlotNobodyParked, SettlementStep
  <2>3. ASSUME NEW n \in Limits, SetMaxConcurrency(n)
        PROVE  parked' = <<>>
    <3>1. n \in Nat
      BY LimitsAssumption
    <3>2. PumpAll(stage, queue, n)
      <4>1. CASE UNCHANGED <<stage, queue>>
        <5>1. InUse(stage') = InUse(stage)
          BY <4>1
        <5> QED
          BY <5>1, <2>a
      <4> QED
        BY <2>3, <4>1 DEF SetMaxConcurrency
    <3>3. Cardinality(InUse(stage')) <= n
      BY <3>1, <3>2, <2>a, Pumping
    <3>4. Cardinality(working) + Len(parked) <= Cardinality(InUse(stage))
      BY <2>0, SeatsHaveSlots
    <3>5. Cardinality(working) \in Nat /\ Len(parked) \in Nat
      BY <2>0, AllFinite, LenProperties DEF TypeOK
    <3>6. Cardinality(working) + Len(parked) <= n
      BY <3>1, <3>3, <3>4, <3>5, <2>a
    <3> QED
      BY <3>6, <2>0, <2>3, CapStep
  <2>4. CASE RunSettled
    BY <2>4, <2>0, EndStep
  <2>5. ASSUME NEW x \in Subagents,
               \/ AskStarted(x) \/ Request(x) \/ RequestEnds(x)
               \/ ToolsEnd(x) \/ RequestAborted(x)
        PROVE  FALSE
    <3>1. InUse(stage') = InUse(stage)
      <4>1. CASE AskStarted(x)
        BY <4>1, <2>a DEF AskStarted, InUse
      <4>2. CASE ~AskStarted(x)
        BY <4>2, <2>5 DEF Request, RequestEnds, ToolsEnd, RequestAborted, slots
      <4> QED
        BY <4>1, <4>2
    <3> QED
      BY <3>1, <2>a
  <2> QED
    BY <2>1, <2>2, <2>3, <2>4, <2>5 DEF Next
<1> QED
  BY <1>1, Invariance, PTL DEF Spec, ParkedNotOvertaken
=============================================================================
