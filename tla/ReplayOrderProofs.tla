--------------------------- MODULE ReplayOrderProofs ---------------------------
(***************************************************************************)
(* Theorems about ReplayOrder, for every script, every number of awaits in *)
(* its branches, every number of lives and every stop and crash:           *)
(* ReplayAgrees and TableIsSchedule.  A replay goes astray only after one  *)
(* of the disturbances that the module names.                              *)
(*                                                                         *)
(* The script is deterministic: undisturbed, once it has been told the answers of u, in *)
(* this order, it has made the calls of the stream of u, in their order,   *)
(* whatever the chunks were (StreamOfChunks).  Let Course be the stream of *)
(* all the asks told so far, in any life, and Place(p) the identity the    *)
(* engine gives to its p-th call.  The invariant:                          *)
(*   Types      the variables have their types, Sequences included;        *)
(*   Schedule   told holds the recorded asks, each once;                   *)
(*   Journal    the rows are those of a first part of Course, each under   *)
(*              its place;                                                 *)
(*   Events     the table that a further life would be given is told;      *)
(*   Table      the order of this life is a first part of told, the gate   *)
(*              stands at the first entry that was not claimed, and        *)
(*              nothing that was told live is waited for;                  *)
(*   Pipes      what is on the way to the script is the next part of told, *)
(*              and what is on the way to the engine the next part of      *)
(*              Course;                                                    *)
(*   InWork     live asks have a running row.                              *)
(*                                                                         *)
(* So a call finds its own row, or none (ReplayAgrees).  A life that says  *)
(* something new first has claimed and delivered all of the table, which   *)
(* is why the stream of told is one stream over all the lives.             *)
(***************************************************************************)
EXTENDS ReplayOrder, SequenceTheorems, FiniteSetTheorems, WellFoundedInduction, TLAPS

Rows == {NoRow} \cup [call : Calls, status : {"running", "completed"}]
Asks == {i \in Instances : Kind[i[1]] = "ask"}

Types ==
    /\ row \in [Instances -> Rows]
    /\ log \in Seq(Instances) /\ live \in Seq(Instances) /\ order \in Seq(Instances)
    /\ queue \in Seq(Instances) /\ told \in Seq(Instances)
    /\ status \in {"running", "completed", "stopped", "errored"} /\ alive \in BOOLEAN
    /\ count \in [Sites -> Nat]
    /\ cursor \in 0 .. Len(order) /\ parked \subseteq Instances
    /\ toParent \in Seq(Calls) /\ toChild \in Seq(Calls)
    /\ lives \in Nat

(* What the script has said after each of w: an answer, or the start of a branch, <<b, 0>>. *)
Stream(w) ==
    LET upTo[n \in 0 .. Len(w)] ==
            IF n = 0 THEN <<>> ELSE upTo[n - 1] \o Continuation(w[n][1], w[n][2])
    IN  upTo

Starts == [b \in 1 .. Len(Script) |-> <<b, 0>>]
Heard == [k \in 1 .. Len(told) |-> row[told[k]].call]
Prompts == Starts \o Heard
Course == Stream(Prompts)[Len(Prompts)]

(* How often the site of the p-th call of s was called in its first n calls. *)
Calling(s, t, n) == {q \in 1 .. n : Site(s[q]) = t}
PlaceIn(s, p) == <<Site(s[p]), Cardinality(Calling(s, Site(s[p]), p))>>
Place(p) == PlaceIn(Course, p)

(* The answers sent in this life, those the script has read, and the calls the engine has read. *)
Sent == Len(told) - (Len(order) - cursor) - Len(queue)
Delivered == Sent - Len(toChild)
Arrived == Len(Stream(Prompts)[Len(Script) + Delivered]) - Len(toParent)

Called(i) == i[2] <= count[i[1]]

Schedule ==
    /\ \A k \in 1 .. Len(told) : told[k] \in Asks /\ row[told[k]].status = "completed"
    /\ \A k, l \in 1 .. Len(told) : Heard[k] = Heard[l] => k = l
    /\ \A i \in Asks : row[i].status = "completed" => \E k \in 1 .. Len(told) : told[k] = i

Journal ==
    /\ \A i \in Instances : row[i] # NoRow => \E p \in 1 .. Len(Course) : Place(p) = i
    /\ \A p \in 1 .. Len(Course) : row[Place(p)] # NoRow =>
          /\ row[Place(p)].call = Course[p]
          /\ \A q \in 1 .. p : row[Place(q)] # NoRow

Events ==
    /\ status # "errored"
    /\ SettleOrder = told

Table ==
    /\ Len(order) <= Len(told) /\ \A k \in 1 .. Len(order) : order[k] = told[k]
    /\ Len(queue) <= cursor
    /\ \A k \in 1 .. Len(queue) : queue[k] = order[cursor - Len(queue) + k]
    /\ Len(order) < Len(told) => cursor = Len(order) /\ queue = <<>>
    /\ \A k \in 1 .. Len(told) : k <= cursor \/ k > Len(order) => Called(told[k])
    /\ \A k \in cursor + 1 .. Len(order) : order[k] \in parked <=> Called(order[k])
    /\ parked \subseteq {order[k] : k \in cursor + 1 .. Len(order)}
    /\ cursor < Len(order) => order[cursor + 1] \notin parked

Pipes ==
    /\ Len(toChild) <= Sent
    /\ \A k \in 1 .. Len(toChild) : toChild[k] = Heard[Delivered + k]
    /\ Arrived \in Nat
    /\ \A k \in 1 .. Len(toParent) : toParent[k] = Course[Arrived + k]
    /\ \A s \in Sites : count[s] = Cardinality(Calling(Course, s, Arrived))
    /\ \A p \in 1 .. Arrived : row[Place(p)] # NoRow

InWork ==
    \A n \in 1 .. Len(live) :
        live[n] \in Asks /\ row[live[n]].status = "running" /\ Called(live[n])

IInv == Types /\ Schedule /\ Journal /\ Events /\ Table /\ Pipes /\ InWork
-----------------------------------------------------------------------------
(* Induction over the length of a sequence.                                *)

LEMMA Least ==
    ASSUME NEW T \in SUBSET Nat, T # {}
    PROVE  \E n \in T : \A m \in T : n <= m
<1>1. PICK n \in T : \A m \in T : ~(<<m, n>> \in OpToRel(<, Nat))
  BY WFMin, NatLessThanWellFounded
<1>2. \A m, k \in Nat : <<m, k>> \in OpToRel(<, Nat) <=> m < k
  BY DEF OpToRel
<1>3. \A m \in T : n <= m
  <2>1. \A m \in T : ~(m < n)
    BY <1>1, <1>2
  <2> QED BY <2>1
<1> QED BY <1>3

LEMMA UpwardInduction ==
    ASSUME NEW T, NEW N \in Nat, 0 \in T,
           \A n \in 0 .. N - 1 : n \in T => n + 1 \in T
    PROVE  0 .. N \subseteq T
<1>1. SUFFICES ASSUME (0 .. N) \ T # {} PROVE FALSE
  OBVIOUS
<1>2. PICK n \in (0 .. N) \ T : \A m \in (0 .. N) \ T : n <= m
  <2>1. (0 .. N) \ T \in SUBSET Nat
    OBVIOUS
  <2> QED BY <1>1, <2>1, Least
<1>3. n # 0 /\ n - 1 \in 0 .. N - 1
  BY <1>2
<1>4. n - 1 \in T
  BY <1>2, <1>3
<1> QED BY <1>2, <1>3, <1>4

(* A function that runs through a sequence exists.                         *)
FoldOf(f, N, base, step) == f[0] = base /\ \A n \in 1 .. N : f[n] = step[n][f[n - 1]]

LEMMA FoldExists ==
    ASSUME NEW N \in Nat, NEW T, NEW base \in T, NEW step \in [1 .. N -> [T -> T]]
    PROVE  \E f \in [0 .. N -> T] : FoldOf(f, N, base, step)
<1> DEFINE Runs(f, M) == f[0] = base /\ \A n \in 1 .. M : f[n] = step[n][f[n - 1]]
           R == {M \in Nat : M <= N => \E f \in [0 .. M -> T] : Runs(f, M)}
<1>1. 0 \in R
  <2>1. Runs([n \in 0 .. 0 |-> base], 0)
    OBVIOUS
  <2> QED BY <2>1
<1>2. ASSUME NEW M \in 0 .. N - 1, M \in R PROVE M + 1 \in R
  <2>1. PICK f \in [0 .. M -> T] : Runs(f, M)
    BY <1>2
  <2> DEFINE h == [n \in 0 .. M + 1 |-> IF n = M + 1 THEN step[M + 1][f[M]] ELSE f[n]]
  <2>2. step[M + 1][f[M]] \in T
    <3>1. f[M] \in T /\ M + 1 \in 1 .. N
      OBVIOUS
    <3> QED BY <3>1
  <2>3. h \in [0 .. M + 1 -> T]
    BY <2>2
  <2>4. h[0] = base
    BY <2>1
  <2>5. ASSUME NEW n \in 1 .. M + 1 PROVE h[n] = step[n][h[n - 1]]
    <3>1. CASE n = M + 1
      BY <3>1
    <3>2. CASE n # M + 1
      BY <3>2, <2>1
    <3> QED BY <3>1, <3>2
  <2> HIDE DEF h
  <2>6. Runs(h, M + 1) /\ M + 1 \in Nat
    BY <2>4, <2>5
  <2> QED BY <2>3, <2>6
<1> HIDE DEF R
<1>3. 0 .. N \subseteq R
  BY <1>1, <1>2, UpwardInduction
<1>4. N \in R
  BY <1>3
<1> QED BY <1>4 DEF R, FoldOf

-----------------------------------------------------------------------------
(* Selected.                                                               *)

SelectedBy(f, s, S) ==
    /\ f[0] = <<>> /\ Selected(s, S) = f[Len(s)]
    /\ \A n \in 1 .. Len(s) :
          f[n] = IF s[n] \in S THEN Append(f[n - 1], s[n]) ELSE f[n - 1]

LEMMA SelectedSteps ==
    ASSUME NEW A, NEW s \in Seq(A), NEW S
    PROVE  \E f \in [0 .. Len(s) -> Seq(A)] : SelectedBy(f, s, S)
<1> DEFINE N == Len(s)
           step == [n \in 1 .. N |-> [v \in Seq(A) |-> IF s[n] \in S THEN Append(v, s[n]) ELSE v]]
           Def(g) == g = [n \in 0 .. N |->
                            IF n = 0 THEN <<>>
                            ELSE IF s[n] \in S THEN Append(g[n - 1], s[n]) ELSE g[n - 1]]
<1>1. N \in Nat /\ \A n \in 1 .. N : s[n] \in A
  BY ElementOfSeq, LenProperties
<1>2. step \in [1 .. N -> [Seq(A) -> Seq(A)]]
  BY <1>1, AppendProperties
<1>3. <<>> \in Seq(A)
  OBVIOUS
<1>4. PICK f \in [0 .. N -> Seq(A)] : f[0] = <<>> /\ \A n \in 1 .. N : f[n] = step[n][f[n - 1]]
  <2> DEFINE T == Seq(A)
  <2>1. N \in Nat /\ <<>> \in T /\ step \in [1 .. N -> [T -> T]]
    BY <1>1, <1>2, <1>3
  <2>2. PICK base : base = <<>>
    OBVIOUS
  <2> HIDE DEF N, step, T
  <2>3. \E f \in [0 .. N -> T] : FoldOf(f, N, base, step)
    <3>1. base \in T
      BY <2>1, <2>2
    <3> QED BY <2>1, <3>1, FoldExists
  <2> QED BY <2>2, <2>3 DEF T, FoldOf
<1>5. ASSUME NEW n \in 1 .. N
      PROVE  f[n] = IF s[n] \in S THEN Append(f[n - 1], s[n]) ELSE f[n - 1]
  <2>1. n - 1 \in 0 .. N /\ f[n - 1] \in Seq(A)
    BY <1>1, <1>4
  <2>2. step[n][f[n - 1]] = IF s[n] \in S THEN Append(f[n - 1], s[n]) ELSE f[n - 1]
    BY <2>1
  <2> QED BY <1>4, <2>2
<1>6. Def(f)
  <2>1. f = [n \in 0 .. N |-> f[n]]
    BY <1>4
  <2>2. ASSUME NEW n \in 0 .. N
        PROVE  f[n] = IF n = 0 THEN <<>>
                      ELSE IF s[n] \in S THEN Append(f[n - 1], s[n]) ELSE f[n - 1]
    <3>1. n = 0 \/ n \in 1 .. N
      BY <1>1
    <3> HIDE DEF N, step
    <3> QED BY <1>4, <1>5, <3>1
  <2> HIDE DEF N, step
  <2> QED BY <2>1, <2>2
<1> DEFINE up == CHOOSE g : Def(g)
<1>7. Def(up)
  BY <1>6
<1>8. Selected(s, S) = up[N]
  BY DEF Selected
<1> HIDE DEF up
<1>9. up[0] = <<>>
  BY <1>1, <1>7
<1>10. ASSUME NEW n \in 1 .. N
       PROVE  up[n] = IF s[n] \in S THEN Append(up[n - 1], s[n]) ELSE up[n - 1]
  <2>1. n \in 0 .. N /\ n # 0
    BY <1>1
  <2> HIDE DEF N, step
  <2> QED BY <1>7, <2>1
<1>11. up \in [0 .. N -> Seq(A)]
  <2> DEFINE R == {n \in 0 .. N : up[n] \in Seq(A)}
  <2>1. 0 \in R
    BY <1>1, <1>9
  <2>2. ASSUME NEW n \in 0 .. N - 1, n \in R PROVE n + 1 \in R
    <3>1. n + 1 \in 1 .. N /\ n + 1 - 1 = n /\ n + 1 \in 0 .. N
      BY <1>1
    <3>2. up[n] \in Seq(A) /\ s[n + 1] \in A
      BY <1>1, <2>2, <3>1
    <3>3. up[n + 1] = IF s[n + 1] \in S THEN Append(up[n], s[n + 1]) ELSE up[n]
      BY <1>10, <3>1
    <3>4. up[n + 1] \in Seq(A)
      BY <3>2, <3>3, AppendProperties
    <3> QED BY <3>1, <3>4
  <2>3. 0 .. N \subseteq R
    <3> HIDE DEF R
    <3> QED BY <1>1, <2>1, <2>2, UpwardInduction
  <2>4. DOMAIN up = 0 .. N /\ up = [n \in 0 .. N |-> up[n]]
    BY <1>7
  <2> QED BY <2>3, <2>4
<1> QED BY <1>8, <1>9, <1>10, <1>11 DEF SelectedBy

LEMMA SelectedType ==
    ASSUME NEW A, NEW s \in Seq(A), NEW S
    PROVE  /\ Selected(s, S) \in Seq(A)
           /\ \A k \in 1 .. Len(Selected(s, S)) :
                 Selected(s, S)[k] \in S /\ \E n \in 1 .. Len(s) : Selected(s, S)[k] = s[n]
<1>1. PICK f \in [0 .. Len(s) -> Seq(A)] : SelectedBy(f, s, S)
  BY SelectedSteps
<1>2. PICK N \in Nat : N = Len(s)
  BY LenProperties
<1> DEFINE Fine(v) == \A k \in 1 .. Len(v) : v[k] \in S /\ \E n \in 1 .. N : v[k] = s[n]
           R == {n \in 0 .. N : Fine(f[n])}
<1>3. 0 \in R
  BY <1>1, <1>2 DEF SelectedBy
<1>4. ASSUME NEW n \in 0 .. N - 1, n \in R PROVE n + 1 \in R
  <2>1. n + 1 \in 1 .. N /\ n + 1 - 1 = n /\ n + 1 \in 0 .. N /\ n \in 0 .. N
    OBVIOUS
  <2>2. f[n + 1] = IF s[n + 1] \in S THEN Append(f[n], s[n + 1]) ELSE f[n]
    BY <1>1, <1>2, <2>1 DEF SelectedBy
  <2>3. f[n] \in Seq(A) /\ s[n + 1] \in A /\ Fine(f[n])
    BY <1>1, <1>2, <1>4, <2>1, ElementOfSeq
  <2>4. PICK v \in Seq(A) : v = f[n]
    BY <2>3
  <2>5. CASE s[n + 1] \in S
    <3>1. PICK x \in A : x = s[n + 1]
      BY <2>3
    <3>2. /\ f[n + 1] = Append(v, x) /\ Len(v) \in Nat /\ Len(Append(v, x)) = Len(v) + 1
          /\ \A k \in 1 .. Len(v) : Append(v, x)[k] = v[k]
          /\ Append(v, x)[Len(v) + 1] = x
      BY <2>2, <2>4, <2>5, <3>1, AppendProperties, LenProperties
    <3>3. ASSUME NEW k \in 1 .. Len(v) + 1
          PROVE  Append(v, x)[k] \in S /\ \E m \in 1 .. N : Append(v, x)[k] = s[m]
      <4>1. k \in 1 .. Len(v) \/ k = Len(v) + 1
        BY <3>2
      <4>2. Fine(v)
        BY <2>3, <2>4
      <4> QED BY <2>1, <2>5, <3>1, <3>2, <4>1, <4>2
    <3> QED BY <2>1, <3>2, <3>3
  <2>6. CASE s[n + 1] \notin S
    BY <2>1, <2>2, <2>3, <2>6
  <2> QED BY <2>5, <2>6
<1>5. 0 .. N \subseteq R
  <2> HIDE DEF R
  <2> QED BY <1>3, <1>4, UpwardInduction
<1>6. N \in 0 .. N
  OBVIOUS
<1>7. Fine(f[N])
  BY <1>5, <1>6
<1> QED BY <1>1, <1>2, <1>6, <1>7 DEF SelectedBy

SelectedAlike(s, S, t, T) ==
    Len(s) <= Len(t) /\ \A n \in 1 .. Len(s) : s[n] = t[n] /\ (s[n] \in S <=> t[n] \in T)

LEMMA SelectedPrefix ==
    ASSUME NEW A, NEW s \in Seq(A), NEW t \in Seq(A), NEW S, NEW T, SelectedAlike(s, S, t, T)
    PROVE  \E g \in [0 .. Len(t) -> Seq(A)] :
              SelectedBy(g, t, T) /\ Selected(s, S) = g[Len(s)]
<1>1. PICK f \in [0 .. Len(s) -> Seq(A)] : SelectedBy(f, s, S)
  BY SelectedSteps
<1>2. PICK g \in [0 .. Len(t) -> Seq(A)] : SelectedBy(g, t, T)
  BY SelectedSteps
<1>3. PICK N \in Nat : N = Len(s) /\ \A n \in 1 .. N : n \in 1 .. Len(t)
  BY LenProperties DEF SelectedAlike
<1> DEFINE R == {n \in 0 .. N : f[n] = g[n]}
<1>4. 0 \in R
  BY <1>1, <1>2 DEF SelectedBy
<1>5. ASSUME NEW n \in 0 .. N - 1, n \in R PROVE n + 1 \in R
  <2>1. n + 1 \in 1 .. N /\ n + 1 - 1 = n /\ n + 1 \in 0 .. N
    OBVIOUS
  <2>2. f[n + 1] = IF s[n + 1] \in S THEN Append(f[n], s[n + 1]) ELSE f[n]
    BY <1>1, <1>3, <2>1 DEF SelectedBy
  <2>3. g[n + 1] = IF t[n + 1] \in T THEN Append(g[n], t[n + 1]) ELSE g[n]
    BY <1>2, <1>3, <2>1 DEF SelectedBy
  <2>4. s[n + 1] = t[n + 1] /\ (s[n + 1] \in S <=> t[n + 1] \in T)
    BY <1>3, <2>1 DEF SelectedAlike
  <2>5. f[n] = g[n]
    BY <1>5
  <2> QED BY <2>1, <2>2, <2>3, <2>4, <2>5
<1>6. 0 .. N \subseteq R
  <2> HIDE DEF R
  <2> QED BY <1>4, <1>5, UpwardInduction
<1>7. f[N] = g[N]
  BY <1>6
<1> QED BY <1>1, <1>2, <1>3, <1>7 DEF SelectedBy

LEMMA SelectedAgree ==
    ASSUME NEW A, NEW s \in Seq(A), NEW S, NEW T, \A n \in 1 .. Len(s) : s[n] \in S <=> s[n] \in T
    PROVE  Selected(s, S) = Selected(s, T)
<1>1. SelectedAlike(s, S, s, T)
  BY LenProperties DEF SelectedAlike
<1>2. PICK g \in [0 .. Len(s) -> Seq(A)] : SelectedBy(g, s, T) /\ Selected(s, S) = g[Len(s)]
  BY <1>1, SelectedPrefix
<1> QED BY <1>2 DEF SelectedBy

LEMMA SelectedAppend ==
    ASSUME NEW A, NEW s \in Seq(A), NEW x \in A, NEW S
    PROVE  Selected(Append(s, x), S) = IF x \in S THEN Append(Selected(s, S), x) ELSE Selected(s, S)
<1>1. PICK t \in Seq(A) : t = Append(s, x)
  BY AppendProperties
<1>2. PICK N \in Nat : N = Len(s)
  BY LenProperties
<1>3. Len(t) = N + 1 /\ t[N + 1] = x /\ \A n \in 1 .. N : t[n] = s[n]
  BY <1>1, <1>2, AppendProperties
<1>4. PICK g \in [0 .. Len(t) -> Seq(A)] : SelectedBy(g, t, S) /\ Selected(s, S) = g[Len(s)]
  <2>1. SelectedAlike(s, S, t, S)
    BY <1>2, <1>3 DEF SelectedAlike
  <2> QED BY <2>1, SelectedPrefix
<1>5. N + 1 \in 1 .. Len(t) /\ N + 1 - 1 = N
  BY <1>3
<1>6. g[N + 1] = IF t[N + 1] \in S THEN Append(g[N], t[N + 1]) ELSE g[N]
  BY <1>4, <1>5 DEF SelectedBy
<1> QED BY <1>1, <1>2, <1>3, <1>4, <1>6 DEF SelectedBy

LEMMA SelectedNone ==
    ASSUME NEW A, NEW s \in Seq(A), NEW S, \A n \in 1 .. Len(s) : s[n] \notin S
    PROVE  Selected(s, S) = <<>>
<1>1. PICK v \in Seq(A) : v = Selected(s, S)
  BY SelectedType
<1>2. \A k \in 1 .. Len(v) : FALSE
  BY <1>1, SelectedType
<1>3. Len(v) \in Nat
  BY LenProperties
<1>4. Len(v) = 0
  BY <1>2, <1>3
<1> QED BY <1>1, <1>4, EmptySeq

-----------------------------------------------------------------------------
(* The log.                                                                *)

LogBy(f, is) ==
    /\ f[0] = log /\ LogAll(is) = f[Len(is)]
    /\ \A n \in 1 .. Len(is) : f[n] = LogFirst(f[n - 1], is[n])

LEMMA LogFirstType ==
    ASSUME NEW l \in Seq(Instances), NEW i \in Instances
    PROVE  LogFirst(l, i) \in Seq(Instances)
BY AppendProperties DEF LogFirst

LEMMA LogSteps ==
    ASSUME log \in Seq(Instances), NEW is \in Seq(Instances)
    PROVE  \E f \in [0 .. Len(is) -> Seq(Instances)] : LogBy(f, is)
<1> DEFINE N == Len(is)
           step == [n \in 1 .. N |-> [v \in Seq(Instances) |-> LogFirst(v, is[n])]]
           Def(g) == g = [n \in 0 .. N |-> IF n = 0 THEN log ELSE LogFirst(g[n - 1], is[n])]
<1>1. N \in Nat /\ \A n \in 1 .. N : is[n] \in Instances
  BY ElementOfSeq, LenProperties
<1>2. step \in [1 .. N -> [Seq(Instances) -> Seq(Instances)]]
  BY <1>1, LogFirstType
<1>4. PICK f \in [0 .. N -> Seq(Instances)] : FoldOf(f, N, log, step)
  <2> DEFINE T == Seq(Instances)
  <2>1. N \in Nat /\ log \in T /\ step \in [1 .. N -> [T -> T]]
    BY <1>1, <1>2
  <2>2. PICK base : base = log
    OBVIOUS
  <2> HIDE DEF N, step, T
  <2>3. \E f \in [0 .. N -> T] : FoldOf(f, N, base, step)
    <3>1. base \in T
      BY <2>1, <2>2
    <3> QED BY <2>1, <3>1, FoldExists
  <2> QED BY <2>2, <2>3 DEF T
<1>5. ASSUME NEW n \in 1 .. N PROVE f[n] = LogFirst(f[n - 1], is[n])
  <2>0. n - 1 \in 0 .. N
    BY <1>1
  <2>1. f[n - 1] \in Seq(Instances)
    <3> HIDE DEF N, step
    <3> QED BY <1>4, <2>0
  <2>2. step[n][f[n - 1]] = LogFirst(f[n - 1], is[n])
    BY <2>1
  <2> QED BY <1>4, <2>2 DEF FoldOf
<1>6. Def(f)
  <2>1. f = [n \in 0 .. N |-> f[n]]
    BY <1>4
  <2>2. ASSUME NEW n \in 0 .. N
        PROVE  f[n] = IF n = 0 THEN log ELSE LogFirst(f[n - 1], is[n])
    <3>1. n = 0 \/ n \in 1 .. N
      BY <1>1
    <3> HIDE DEF N, step
    <3> QED BY <1>4, <1>5, <3>1 DEF FoldOf
  <2> HIDE DEF N, step
  <2> QED BY <2>1, <2>2
<1> DEFINE up == CHOOSE g : Def(g)
<1>7. Def(up)
  BY <1>6
<1>8. LogAll(is) = up[N]
  BY DEF LogAll
<1> HIDE DEF up
<1>9. up[0] = log
  BY <1>1, <1>7
<1>10. ASSUME NEW n \in 1 .. N PROVE up[n] = LogFirst(up[n - 1], is[n])
  <2>1. n \in 0 .. N /\ n # 0
    BY <1>1
  <2> HIDE DEF N, step
  <2> QED BY <1>7, <2>1
<1>11. up \in [0 .. N -> Seq(Instances)]
  <2> DEFINE R == {n \in 0 .. N : up[n] \in Seq(Instances)}
  <2>1. 0 \in R
    BY <1>1, <1>9
  <2>2. ASSUME NEW n \in 0 .. N - 1, n \in R PROVE n + 1 \in R
    <3>1. n + 1 \in 1 .. N /\ n + 1 - 1 = n /\ n + 1 \in 0 .. N
      BY <1>1
    <3>2. up[n] \in Seq(Instances) /\ is[n + 1] \in Instances
      BY <1>1, <2>2, <3>1
    <3>3. up[n + 1] = LogFirst(up[n], is[n + 1])
      BY <1>10, <3>1
    <3>4. up[n + 1] \in Seq(Instances)
      BY <3>2, <3>3, LogFirstType
    <3> QED BY <3>1, <3>4
  <2>3. 0 .. N \subseteq R
    <3> HIDE DEF R
    <3> QED BY <1>1, <2>1, <2>2, UpwardInduction
  <2>4. DOMAIN up = 0 .. N /\ up = [n \in 0 .. N |-> up[n]]
    BY <1>7
  <2> QED BY <2>3, <2>4
<1> QED BY <1>8, <1>9, <1>10, <1>11 DEF LogBy

\* What was logged before is not logged again, and what is not in S is not selected.
LogKeeps(is, S) ==
    \A n \in 1 .. Len(is) : is[n] \notin S \/ \E m \in 1 .. Len(log) : log[m] = is[n]

LEMMA LoggedIsKept ==
    ASSUME log \in Seq(Instances), NEW is \in Seq(Instances), NEW S, LogKeeps(is, S)
    PROVE  Selected(LogAll(is), S) = Selected(log, S)
<1>1. PICK f \in [0 .. Len(is) -> Seq(Instances)] : LogBy(f, is)
  BY LogSteps
<1>2. PICK N \in Nat : N = Len(is)
  BY LenProperties
<1> DEFINE R == {n \in 0 .. N :
                    /\ Selected(f[n], S) = Selected(log, S)
                    /\ \A m \in 1 .. Len(log) : \E k \in 1 .. Len(f[n]) : f[n][k] = log[m]}
<1>3. 0 \in R
  BY <1>1, <1>2 DEF LogBy
<1>4. ASSUME NEW n \in 0 .. N - 1, n \in R PROVE n + 1 \in R
  <2>1. n + 1 \in 1 .. N /\ n + 1 - 1 = n /\ n + 1 \in 0 .. N /\ n \in 0 .. N
    OBVIOUS
  <2>2. PICK l \in Seq(Instances) : l = f[n]
    BY <1>1, <1>2, <2>1
  <2>3. PICK i \in Instances : i = is[n + 1]
    BY <1>2, <2>1, ElementOfSeq
  <2>4. f[n + 1] = LogFirst(l, i)
    BY <1>1, <1>2, <2>1, <2>2, <2>3 DEF LogBy
  <2>5. /\ Selected(l, S) = Selected(log, S)
        /\ \A m \in 1 .. Len(log) : \E k \in 1 .. Len(l) : l[k] = log[m]
    BY <1>4, <2>2
  <2>6. CASE Contains(l, i)
    BY <2>1, <2>2, <2>4, <2>5, <2>6 DEF LogFirst
  <2>7. CASE ~Contains(l, i)
    <3>1. f[n + 1] = Append(l, i)
      BY <2>4, <2>7 DEF LogFirst
    <3>2. i \notin S
      <4>1. i \notin S \/ \E m \in 1 .. Len(log) : log[m] = i
        BY <1>2, <2>1, <2>3 DEF LogKeeps
      <4>2. ~\E k \in 1 .. Len(l) : l[k] = i
        BY <2>7 DEF Contains
      <4> QED BY <2>5, <4>1, <4>2
    <3>3. Selected(Append(l, i), S) = Selected(l, S)
      BY <3>2, SelectedAppend
    <3>4. Len(l) \in Nat /\ Len(Append(l, i)) = Len(l) + 1
          /\ \A k \in 1 .. Len(l) : Append(l, i)[k] = l[k]
      BY AppendProperties, LenProperties
    <3>5. \A m \in 1 .. Len(log) : \E k \in 1 .. Len(Append(l, i)) : Append(l, i)[k] = log[m]
      <4>1. \A k \in 1 .. Len(l) : k \in 1 .. Len(Append(l, i))
        BY <3>4
      <4> QED BY <2>5, <3>4, <4>1
    <3> QED BY <2>1, <2>5, <3>1, <3>3, <3>5
  <2> QED BY <2>6, <2>7
<1>5. 0 .. N \subseteq R
  <2> HIDE DEF R
  <2> QED BY <1>3, <1>4, UpwardInduction
<1>6. Selected(f[N], S) = Selected(log, S)
  BY <1>5
<1> QED BY <1>1, <1>2, <1>6 DEF LogBy

LEMMA LoggedType ==
    ASSUME log \in Seq(Instances), NEW is \in Seq(Instances)
    PROVE  LogAll(is) \in Seq(Instances)
<1>1. PICK f \in [0 .. Len(is) -> Seq(Instances)] : LogBy(f, is)
  BY LogSteps
<1>2. Len(is) \in 0 .. Len(is)
  BY LenProperties
<1> QED BY <1>1, <1>2 DEF LogBy

LEMMA LoggedNone ==
    ASSUME log \in Seq(Instances)
    PROVE  LogAll(<<>>) = log
<1>1. <<>> \in Seq(Instances) /\ Len(<<>>) = 0
  OBVIOUS
<1>2. PICK e \in Seq(Instances) : e = <<>>
  BY <1>1
<1>3. PICK f \in [0 .. Len(e) -> Seq(Instances)] : LogBy(f, e)
  BY LogSteps
<1> QED BY <1>1, <1>2, <1>3 DEF LogBy

LEMMA LoggedOne ==
    ASSUME log \in Seq(Instances), NEW i \in Instances
    PROVE  LogAll(<<i>>) = LogFirst(log, i)
<1>0. <<i>> \in Seq(Instances) /\ Len(<<i>>) = 1 /\ <<i>>[1] = i
  OBVIOUS
<1>1. PICK e \in Seq(Instances) : e = <<i>> /\ Len(e) = 1 /\ e[1] = i
  BY <1>0
<1>2. PICK f \in [0 .. Len(e) -> Seq(Instances)] : LogBy(f, e)
  BY LogSteps
<1>3. f[1] = LogFirst(f[1 - 1], e[1])
  BY <1>1, <1>2 DEF LogBy
<1> QED BY <1>1, <1>2, <1>3 DEF LogBy

\* An answered ask stays logged once more, if it was: nothing but i is new.
LEMMA LoggedAlready ==
    ASSUME log \in Seq(Instances), NEW is \in Seq(Instances),
           \A n \in 1 .. Len(is) : \E m \in 1 .. Len(log) : log[m] = is[n]
    PROVE  LogAll(is) = log
<1>1. PICK f \in [0 .. Len(is) -> Seq(Instances)] : LogBy(f, is)
  BY LogSteps
<1>2. PICK N \in Nat : N = Len(is)
  BY LenProperties
<1> DEFINE R == {n \in 0 .. N : f[n] = log}
<1>3. 0 \in R
  BY <1>1, <1>2 DEF LogBy
<1>4. ASSUME NEW n \in 0 .. N - 1, n \in R PROVE n + 1 \in R
  <2>1. n + 1 \in 1 .. N /\ n + 1 - 1 = n /\ n + 1 \in 0 .. N
    OBVIOUS
  <2>2. f[n + 1] = LogFirst(f[n], is[n + 1])
    BY <1>1, <1>2, <2>1 DEF LogBy
  <2>3. f[n] = log
    BY <1>4
  <2>4. Contains(log, is[n + 1])
    BY <1>2, <2>1 DEF Contains
  <2> QED BY <2>1, <2>2, <2>3, <2>4 DEF LogFirst
<1>5. 0 .. N \subseteq R
  <2> HIDE DEF R
  <2> QED BY <1>3, <1>4, UpwardInduction
<1>6. f[N] = log
  BY <1>5
<1> QED BY <1>1, <1>2, <1>6 DEF LogBy

-----------------------------------------------------------------------------
(* The stream.                                                             *)

Cues == UNION {{<<b, k>> : k \in 0 .. Len(Script[b])} : b \in Branches}

LEMMA CuesShape ==
    /\ Branches = 1 .. Len(Script) /\ Len(Script) \in Nat
    /\ \A b \in Branches : Len(Script[b]) \in Nat /\ Script[b] \in Seq(DOMAIN Kind)
    /\ Calls \subseteq Cues
    /\ \A c \in Cues : c = <<c[1], c[2]>> /\ c[1] \in Branches /\ c[2] \in 0 .. Len(Script[c[1]])
    /\ \A b \in Branches : \A k \in 0 .. Len(Script[b]) : <<b, k>> \in Cues
    /\ \A b \in Branches : \A k \in 1 .. Len(Script[b]) : <<b, k>> \in Calls
    /\ \A c \in Calls : c = <<c[1], c[2]>> /\ c[1] \in Branches /\ c[2] \in 1 .. Len(Script[c[1]])
<1> DEFINE X == Seq(DOMAIN Kind)
<1>1. Script \in Seq(X)
  BY ScriptAssumption
<1> HIDE DEF X
<1>2. Branches = 1 .. Len(Script) /\ Len(Script) \in Nat
  BY <1>1, LenProperties DEF Branches
<1>3. ASSUME NEW b \in Branches PROVE Script[b] \in X
  BY <1>1, <1>2, ElementOfSeq
<1>4. \A b \in Branches : Len(Script[b]) \in Nat /\ Script[b] \in Seq(DOMAIN Kind)
  BY <1>3, LenProperties DEF X
<1> QED BY <1>2, <1>4 DEF Cues, Calls

ContinuationFits(b, k) ==
    LET s == Continuation(b, k)
    IN  /\ s \in Seq(Calls)
        /\ Len(s) \in 0 .. Len(Script[b]) - k
        /\ \A j \in 1 .. Len(s) : s[j] = <<b, k + j>>
        /\ \A l \in k + 1 .. k + Len(s) - 1 : ~Answered(<<b, l>>)

LEMMA ContinuationShape ==
    ASSUME NEW c \in Cues
    PROVE  ContinuationFits(c[1], c[2])
<1>1. PICK b \in Branches : b = c[1]
  BY CuesShape
<1>2. PICK k \in Nat : k = c[2] /\ k <= Len(Script[b])
  BY <1>1, CuesShape
<1>3. PICK L \in Nat : L = Len(Script[b])
  BY CuesShape
<1> DEFINE Ends(m) == m = L \/ (m > k /\ Answered(<<b, m>>))
           E == {m \in k .. L : Ends(m)}
           Stops(m) == /\ m = L \/ (m > k /\ Answered(<<b, m>>))
                      /\ \A l \in (k + 1) .. (m - 1) : ~Answered(<<b, l>>)
<1>4. E \in SUBSET Nat /\ L \in E
  BY <1>2, <1>3
<1>5. PICK m \in E : \A n \in E : m <= n
  <2> HIDE DEF E
  <2> QED BY <1>4, Least
<1>6. m \in k .. L /\ Stops(m)
  <2>1. \A l \in (k + 1) .. (m - 1) : ~Answered(<<b, l>>)
    <3> SUFFICES ASSUME NEW l \in (k + 1) .. (m - 1), Answered(<<b, l>>) PROVE FALSE
      OBVIOUS
    <3>1. l \in E
      BY <1>5
    <3> QED BY <1>5, <3>1
  <2> QED BY <1>5, <2>1
<1> DEFINE stop == CHOOSE n \in k .. L : Stops(n)
<1>7. stop \in k .. L /\ Stops(stop)
  <2>1. \E n \in k .. L : Stops(n)
    BY <1>6
  <2> HIDE DEF Stop
  <2> QED BY <2>1
<1>8. Continuation(b, k) = [j \in 1 .. (stop - k) |-> <<b, k + j>>]
  BY <1>3 DEF Continuation
<1> HIDE DEF stop
<1>9. stop - k \in Nat /\ k \in Nat
  BY <1>7
<1>10. \A j \in 1 .. (stop - k) : <<b, k + j>> \in Calls
  <2>1. \A j \in 1 .. (stop - k) : k + j \in 1 .. L
    BY <1>7, <1>9
  <2> QED BY <1>3, <2>1, CuesShape
<1>11. [j \in 1 .. (stop - k) |-> <<b, k + j>>] \in Seq(Calls)
  BY <1>9, <1>10
<1>12. PICK s \in Seq(Calls) : s = Continuation(b, k)
  BY <1>8, <1>11
<1>13. Len(s) = stop - k /\ \A j \in 1 .. Len(s) : s[j] = <<b, k + j>>
  BY <1>8, <1>9, <1>12
<1>14. \A l \in k + 1 .. k + Len(s) - 1 : ~Answered(<<b, l>>)
  BY <1>7, <1>13
<1>15. Len(s) \in 0 .. L - k
  BY <1>7, <1>9, <1>13
<1> QED BY <1>1, <1>2, <1>3, <1>12, <1>13, <1>14, <1>15 DEF ContinuationFits

LEMMA ContinuationType ==
    ASSUME NEW c \in Cues
    PROVE  Continuation(c[1], c[2]) \in Seq(Calls)
BY ContinuationShape DEF ContinuationFits

StreamBy(f, w) ==
    /\ f[0] = <<>>
    /\ \A n \in 1 .. Len(w) : f[n] = f[n - 1] \o Continuation(w[n][1], w[n][2])

LEMMA StreamSteps ==
    ASSUME NEW w \in Seq(Cues)
    PROVE  Stream(w) \in [0 .. Len(w) -> Seq(Calls)] /\ StreamBy(Stream(w), w)
<1> DEFINE N == Len(w)
           step == [n \in 1 .. N |-> [v \in Seq(Calls) |-> v \o Continuation(w[n][1], w[n][2])]]
           Def(g) == g = [n \in 0 .. N |->
                            IF n = 0 THEN <<>> ELSE g[n - 1] \o Continuation(w[n][1], w[n][2])]
<1>1. N \in Nat /\ \A n \in 1 .. N : Continuation(w[n][1], w[n][2]) \in Seq(Calls)
  BY ElementOfSeq, LenProperties, ContinuationType
<1>2. step \in [1 .. N -> [Seq(Calls) -> Seq(Calls)]]
  BY <1>1, ConcatProperties
<1>3. <<>> \in Seq(Calls)
  OBVIOUS
<1>4. PICK f \in [0 .. N -> Seq(Calls)] : FoldOf(f, N, <<>>, step)
  <2> DEFINE T == Seq(Calls)
  <2>1. N \in Nat /\ <<>> \in T /\ step \in [1 .. N -> [T -> T]]
    BY <1>1, <1>2, <1>3
  <2>2. PICK base : base = <<>>
    OBVIOUS
  <2> HIDE DEF N, step, T
  <2>3. \E f \in [0 .. N -> T] : FoldOf(f, N, base, step)
    <3>1. base \in T
      BY <2>1, <2>2
    <3> QED BY <2>1, <3>1, FoldExists
  <2> QED BY <2>2, <2>3 DEF T
<1>5. ASSUME NEW n \in 1 .. N PROVE f[n] = f[n - 1] \o Continuation(w[n][1], w[n][2])
  <2>0. n - 1 \in 0 .. N
    BY <1>1
  <2>1. f[n - 1] \in Seq(Calls)
    <3> HIDE DEF N, step
    <3> QED BY <1>4, <2>0
  <2>2. step[n][f[n - 1]] = f[n - 1] \o Continuation(w[n][1], w[n][2])
    BY <2>1
  <2> QED BY <1>4, <2>2 DEF FoldOf
<1>6. Def(f)
  <2>1. f = [n \in 0 .. N |-> f[n]]
    BY <1>4
  <2>2. ASSUME NEW n \in 0 .. N
        PROVE  f[n] = IF n = 0 THEN <<>> ELSE f[n - 1] \o Continuation(w[n][1], w[n][2])
    <3>1. n = 0 \/ n \in 1 .. N
      BY <1>1
    <3> HIDE DEF N, step
    <3> QED BY <1>4, <1>5, <3>1 DEF FoldOf
  <2> HIDE DEF N, step
  <2> QED BY <2>1, <2>2
<1> DEFINE up == CHOOSE g : Def(g)
<1>7. Def(up)
  BY <1>6
<1>8. Stream(w) = up
  BY DEF Stream
<1> HIDE DEF up
<1>9. up[0] = <<>>
  BY <1>1, <1>7
<1>10. ASSUME NEW n \in 1 .. N PROVE up[n] = up[n - 1] \o Continuation(w[n][1], w[n][2])
  <2>1. n \in 0 .. N /\ n # 0
    BY <1>1
  <2> HIDE DEF N, step
  <2> QED BY <1>7, <2>1
<1>11. up \in [0 .. N -> Seq(Calls)]
  <2> DEFINE R == {n \in 0 .. N : up[n] \in Seq(Calls)}
  <2>1. 0 \in R
    <3> HIDE DEF N, step
    <3>1. 0 \in 0 .. N
      BY <1>1
    <3> QED BY <1>3, <1>9, <3>1
  <2>2. ASSUME NEW n \in 0 .. N - 1, n \in R PROVE n + 1 \in R
    <3>1. n + 1 \in 1 .. N /\ n + 1 - 1 = n /\ n + 1 \in 0 .. N
      BY <1>1
    <3>2. up[n] \in Seq(Calls) /\ Continuation(w[n + 1][1], w[n + 1][2]) \in Seq(Calls)
      BY <1>1, <2>2, <3>1
    <3>3. up[n + 1] = up[n] \o Continuation(w[n + 1][1], w[n + 1][2])
      <4>1. PICK m \in 1 .. N : m = n + 1
        BY <3>1
      <4>2. up[m] = up[m - 1] \o Continuation(w[m][1], w[m][2])
        BY <1>10
      <4> HIDE DEF N, step
      <4>3. m - 1 = n
        BY <1>1, <4>1
      <4> QED BY <4>1, <4>2, <4>3, Zenon
    <3>4. up[n + 1] \in Seq(Calls)
      BY <3>2, <3>3, ConcatProperties
    <3> QED BY <3>1, <3>4
  <2>3. 0 .. N \subseteq R
    <3> HIDE DEF R
    <3> QED BY <1>1, <2>1, <2>2, UpwardInduction
  <2>4. DOMAIN up = 0 .. N /\ up = [n \in 0 .. N |-> up[n]]
    BY <1>7
  <2> QED BY <2>3, <2>4
<1> QED BY <1>8, <1>9, <1>10, <1>11 DEF StreamBy

LEMMA StreamType ==
    ASSUME NEW w \in Seq(Cues), NEW n \in 0 .. Len(w)
    PROVE  /\ Stream(w)[n] \in Seq(Calls) /\ Len(Stream(w)[n]) \in Nat
           /\ n > 0 => /\ Stream(w)[n - 1] \in Seq(Calls) /\ w[n] \in Cues
                       /\ Continuation(w[n][1], w[n][2]) \in Seq(Calls)
                       /\ Stream(w)[n] = Stream(w)[n - 1] \o Continuation(w[n][1], w[n][2])
<1>1. Stream(w)[n] \in Seq(Calls)
  BY StreamSteps
<1>2. ASSUME n > 0
      PROVE  /\ Stream(w)[n - 1] \in Seq(Calls) /\ w[n] \in Cues
             /\ Continuation(w[n][1], w[n][2]) \in Seq(Calls)
             /\ Stream(w)[n] = Stream(w)[n - 1] \o Continuation(w[n][1], w[n][2])
  <2>1. n \in 1 .. Len(w) /\ n - 1 \in 0 .. Len(w)
    BY <1>2, LenProperties
  <2>2. w[n] \in Cues
    BY <2>1, ElementOfSeq
  <2>3. Continuation(w[n][1], w[n][2]) \in Seq(Calls)
    BY <2>2, ContinuationType
  <2>4. Stream(w)[n - 1] \in Seq(Calls)
    BY <2>1, StreamSteps
  <2>5. StreamBy(Stream(w), w)
    BY StreamSteps
  <2> QED BY <2>1, <2>2, <2>3, <2>4, <2>5 DEF StreamBy
<1>3. Len(Stream(w)[n]) \in Nat
  BY <1>1, LenProperties
<1> QED BY <1>1, <1>2, <1>3

\* What was said is not taken back.
LEMMA StreamGrows ==
    ASSUME NEW w \in Seq(Cues), NEW m \in 0 .. Len(w), NEW n \in m .. Len(w)
    PROVE  /\ Len(Stream(w)[m]) <= Len(Stream(w)[n])
           /\ \A k \in 1 .. Len(Stream(w)[m]) : Stream(w)[n][k] = Stream(w)[m][k]
<1>1. PICK N \in Nat : N = Len(w)
  BY LenProperties
<1>2. PICK L \in Nat : L = Len(Stream(w)[m])
  BY StreamType
<1> DEFINE Grown(j) == /\ L <= Len(Stream(w)[j])
                       /\ \A k \in 1 .. L : Stream(w)[j][k] = Stream(w)[m][k]
           R == {d \in Nat : m + d <= N => Grown(m + d)}
<1>3. 0 \in R
  BY <1>2
<1>4. ASSUME NEW d \in 0 .. N - 1, d \in R PROVE d + 1 \in R
  <2>1. SUFFICES ASSUME m + d + 1 <= N PROVE Grown(m + d + 1)
    BY <1>1
  <2>2. PICK j \in 0 .. N : j = m + d + 1 /\ j > 0 /\ j - 1 = m + d
    BY <2>1, <1>1
  <2>3. PICK u \in Seq(Calls) : u = Stream(w)[j - 1]
    BY <1>1, <2>2, StreamType
  <2>4. PICK v \in Seq(Calls) : v = Continuation(w[j][1], w[j][2])
    BY <1>1, <2>2, StreamType
  <2>5. Stream(w)[j] = u \o v
    BY <1>1, <2>2, <2>3, <2>4, StreamType
  <2>6. /\ Len(u) \in Nat /\ Len(v) \in Nat /\ Len(u \o v) = Len(u) + Len(v)
        /\ \A k \in 1 .. Len(u) : (u \o v)[k] = u[k]
    BY ConcatProperties, LenProperties
  <2>7. L <= Len(u) /\ \A k \in 1 .. L : u[k] = Stream(w)[m][k]
    BY <1>4, <2>1, <2>2, <2>3
  <2>8. L <= Len(u \o v) /\ \A k \in 1 .. L : (u \o v)[k] = Stream(w)[m][k]
    BY <2>6, <2>7
  <2> QED BY <2>2, <2>5, <2>8
<1>5. 0 .. N \subseteq R
  <2> HIDE DEF R
  <2> QED BY <1>3, <1>4, UpwardInduction
<1>6. n - m \in 0 .. N /\ m + (n - m) = n /\ n <= N
  BY <1>1
<1>7. Grown(m + (n - m))
  BY <1>5, <1>6
<1> QED BY <1>2, <1>6, <1>7

\* The script is deterministic.
LEMMA StreamAgrees ==
    ASSUME NEW w \in Seq(Cues), NEW x \in Seq(Cues), NEW m \in 0 .. Len(w), m <= Len(x),
           \A k \in 1 .. m : w[k] = x[k]
    PROVE  Stream(w)[m] = Stream(x)[m]
<1>1. m \in Nat /\ Len(w) \in Nat /\ Len(x) \in Nat
  BY LenProperties
<1> DEFINE R == {n \in 0 .. m : Stream(w)[n] = Stream(x)[n]}
<1>2. 0 \in R
  <2>1. StreamBy(Stream(w), w) /\ StreamBy(Stream(x), x)
    BY StreamSteps
  <2>2. Stream(w)[0] = Stream(x)[0] /\ 0 \in 0 .. m
    BY <1>1, <2>1 DEF StreamBy
  <2> QED BY <2>2
<1>3. ASSUME NEW n \in 0 .. m - 1, n \in R PROVE n + 1 \in R
  <2>1. PICK j \in 0 .. m : j = n + 1 /\ j - 1 = n /\ j > 0 /\ j \in 1 .. m
    BY <1>1
  <2>2. j \in 0 .. Len(w) /\ j \in 0 .. Len(x)
    BY <1>1
  <2>3. Stream(w)[j] = Stream(w)[j - 1] \o Continuation(w[j][1], w[j][2])
    BY <2>1, <2>2, StreamType
  <2>4. Stream(x)[j] = Stream(x)[j - 1] \o Continuation(x[j][1], x[j][2])
    BY <2>1, <2>2, StreamType
  <2>5. Stream(w)[j - 1] = Stream(x)[j - 1] /\ w[j] = x[j]
    BY <1>3, <2>1
  <2>6. Stream(w)[j] = Stream(x)[j]
    BY <2>3, <2>4, <2>5
  <2> QED BY <2>1, <2>6
<1>4. 0 .. m \subseteq R
  <2> HIDE DEF R
  <2> QED BY <1>1, <1>2, <1>3, UpwardInduction
<1> QED BY <1>1, <1>4

-----------------------------------------------------------------------------
(* Flattened sequences.                                                    *)

FlattenBy(g, q) ==
    /\ g[0] = <<>> /\ FlattenSeq(q) = g[Len(q)]
    /\ \A n \in 1 .. Len(q) : g[n] = g[n - 1] \o q[n]

LEMMA FlattenSteps ==
    ASSUME NEW A, NEW q \in Seq(Seq(A))
    PROVE  \E g \in [0 .. Len(q) -> Seq(A)] : FlattenBy(g, q)
<1> DEFINE N == Len(q)
           step == [n \in 1 .. N |-> [v \in Seq(A) |-> v \o q[n]]]
           Def(h) == h = [i \in 1 .. N |-> IF i = 1 THEN q[i] ELSE h[i - 1] \o q[i]]
<1>1. N \in Nat /\ \A n \in 1 .. N : q[n] \in Seq(A)
  <2> DEFINE X == Seq(A)
  <2> HIDE DEF X
  <2>1. q \in Seq(X)
    BY DEF X
  <2>2. Len(q) \in Nat /\ \A n \in 1 .. Len(q) : q[n] \in X
    BY <2>1, ElementOfSeq, LenProperties
  <2> QED BY <2>2 DEF X
<1>2. step \in [1 .. N -> [Seq(A) -> Seq(A)]]
  BY <1>1, ConcatProperties
<1>3. <<>> \in Seq(A)
  OBVIOUS
<1>4. PICK g \in [0 .. N -> Seq(A)] : FoldOf(g, N, <<>>, step)
  <2> DEFINE T == Seq(A)
  <2>1. N \in Nat /\ <<>> \in T /\ step \in [1 .. N -> [T -> T]]
    BY <1>1, <1>2, <1>3
  <2>2. PICK base : base = <<>>
    OBVIOUS
  <2> HIDE DEF N, step, T
  <2>3. \E f \in [0 .. N -> T] : FoldOf(f, N, base, step)
    <3>1. base \in T
      BY <2>1, <2>2
    <3> QED BY <2>1, <3>1, FoldExists
  <2> QED BY <2>2, <2>3 DEF T
<1>5. ASSUME NEW n \in 1 .. N PROVE g[n] = g[n - 1] \o q[n]
  <2>0. n - 1 \in 0 .. N
    BY <1>1
  <2>1. g[n - 1] \in Seq(A)
    <3> HIDE DEF N, step
    <3> QED BY <1>4, <2>0
  <2>2. step[n][g[n - 1]] = g[n - 1] \o q[n]
    BY <2>1
  <2> QED BY <1>4, <2>2 DEF FoldOf
<1>6. g[0] = <<>>
  BY <1>4 DEF FoldOf
<1>7. FlattenSeq(q) = g[N]
  <2>1. CASE N = 0
    <3>1. q = <<>>
      <4> DEFINE X == Seq(A)
      <4> HIDE DEF X
      <4>1. q \in Seq(X)
        BY DEF X
      <4> QED BY <2>1, <4>1, EmptySeq
    <3>2. FlattenSeq(q) = q
      BY <2>1 DEF FlattenSeq
    <3> QED BY <1>6, <2>1, <3>1, <3>2
  <2>2. CASE N # 0
    <3> DEFINE h == [i \in 1 .. N |-> g[i]]
    <3>1. ASSUME NEW i \in 1 .. N
          PROVE  h[i] = IF i = 1 THEN q[i] ELSE h[i - 1] \o q[i]
      <4>1. g[i] = g[i - 1] \o q[i]
        BY <1>5
      <4>2. CASE i = 1
        <5>1. g[i] = <<>> \o q[i] /\ q[i] \in Seq(A)
          BY <1>1, <1>6, <4>1, <4>2
        <5>2. <<>> \o q[i] = q[i]
          BY <5>1, ConcatEmptySeq
        <5> QED BY <4>2, <5>1, <5>2
      <4>3. CASE i # 1
        <5>1. i - 1 \in 1 .. N
          BY <1>1, <4>3
        <5>2. h[i - 1] = g[i - 1]
          BY <5>1
        <5> QED BY <4>1, <4>3, <5>2
      <4> QED BY <4>2, <4>3
    <3>2. Def(h)
      <4>1. h = [i \in 1 .. N |-> h[i]]
        OBVIOUS
      <4> HIDE DEF h, N
      <4> QED BY <3>1, <4>1
    <3> DEFINE up == CHOOSE f : Def(f)
    <3>3. Def(up)
      <4> HIDE DEF h
      <4> QED BY <3>2
    <3>4. FlattenSeq(q) = up[N]
      BY <2>2 DEF FlattenSeq
    <3> HIDE DEF up
    <3> DEFINE R == {n \in 0 .. N : n = 0 \/ up[n] = g[n]}
    <3>5. 0 \in R
      BY <1>1
    <3>6. ASSUME NEW n \in 0 .. N - 1, n \in R PROVE n + 1 \in R
      <4>1. PICK j \in 1 .. N : j = n + 1 /\ j - 1 = n
        BY <1>1
      <4>2. up[j] = IF j = 1 THEN q[j] ELSE up[j - 1] \o q[j]
        <5> HIDE DEF N
        <5> QED BY <3>3
      <4>3. CASE n = 0
        <5>1. g[j] = <<>> \o q[j] /\ q[j] \in Seq(A)
          BY <1>1, <1>5, <1>6, <4>1, <4>3
        <5>2. <<>> \o q[j] = q[j]
          BY <5>1, ConcatEmptySeq
        <5>3. up[j] = g[j]
          BY <4>1, <4>2, <4>3, <5>1, <5>2
        <5> QED BY <1>1, <4>1, <5>3
      <4>4. CASE n # 0
        <5>1. up[n] = g[n]
          BY <3>6, <4>4
        <5>2. g[j] = g[j - 1] \o q[j]
          BY <1>5
        <5>3. up[j] = g[j]
          <6>1. j # 1 /\ j - 1 = n
            BY <1>1, <4>1, <4>4
          <6> QED BY <4>2, <5>1, <5>2, <6>1, Zenon
        <5> QED BY <1>1, <4>1, <5>3
      <4> QED BY <4>3, <4>4
    <3>7. 0 .. N \subseteq R
      <4> HIDE DEF R
      <4> QED BY <1>1, <3>5, <3>6, UpwardInduction
    <3>8. N \in R
      BY <1>1, <3>7
    <3> QED BY <2>2, <3>4, <3>8
  <2> QED BY <2>1, <2>2
<1>8. \A n \in 1 .. Len(q) : g[n] = g[n - 1] \o q[n]
  BY <1>5
<1> QED BY <1>4, <1>6, <1>7, <1>8 DEF FlattenBy

Turns(q) == [j \in DOMAIN q |-> Continuation(q[j][1], q[j][2])]

LEMMA TurnsType ==
    ASSUME NEW q \in Seq(Cues)
    PROVE  /\ Turns(q) \in Seq(Seq(Calls)) /\ Len(Turns(q)) = Len(q)
           /\ \A j \in 1 .. Len(q) : Turns(q)[j] = Continuation(q[j][1], q[j][2])
<1>1. DOMAIN q = 1 .. Len(q) /\ Len(q) \in Nat
  BY LenProperties
<1>2. \A j \in 1 .. Len(q) : Continuation(q[j][1], q[j][2]) \in Seq(Calls)
  BY ElementOfSeq, ContinuationType
<1>3. PICK N \in Nat : N = Len(q)
  BY <1>1
<1> DEFINE X == Seq(Calls)
<1>4. Turns(q) \in [1 .. N -> X]
  BY <1>1, <1>2, <1>3 DEF Turns
<1> HIDE DEF X
<1>5. Turns(q) \in Seq(X) /\ Len(Turns(q)) = N
  <2>1. PICK f \in [1 .. N -> X] : f = Turns(q)
    BY <1>4
  <2> QED BY <2>1
<1>6. \A j \in 1 .. Len(q) : Turns(q)[j] = Continuation(q[j][1], q[j][2])
  BY <1>1 DEF Turns
<1> QED BY <1>3, <1>5, <1>6 DEF X

LEMMA ThreeParts ==
    \A p, q, r \in Seq(Calls) : (p \o q) \o r = p \o (q \o r)
BY ConcatAssociative

LEMMA StreamOfChunks ==
    ASSUME NEW w \in Seq(Cues), NEW q \in Seq(Cues), NEW m \in 0 .. Len(w),
           m + Len(q) <= Len(w), \A j \in 1 .. Len(q) : q[j] = w[m + j]
    PROVE  /\ FlattenSeq(Turns(q)) \in Seq(Calls)
           /\ Stream(w)[m + Len(q)] = Stream(w)[m] \o FlattenSeq(Turns(q))
<1>1. PICK N \in Nat : N = Len(q) /\ m \in Nat /\ Len(w) \in Nat
  BY LenProperties
<1>2. PICK t \in Seq(Seq(Calls)) :
         t = Turns(q) /\ Len(t) = N
           /\ \A j \in 1 .. N : t[j] = Continuation(q[j][1], q[j][2])
  BY <1>1, TurnsType
<1>3. PICK g \in [0 .. Len(t) -> Seq(Calls)] : FlattenBy(g, t)
  BY FlattenSteps
<1>4. PICK u \in Seq(Calls) : u = Stream(w)[m]
  BY StreamType
<1> DEFINE R == {n \in 0 .. N : Stream(w)[m + n] = u \o g[n]}
<1>5. 0 \in R
  <2>1. g[0] = <<>>
    BY <1>3 DEF FlattenBy
  <2>2. u \o <<>> = u
    BY ConcatEmptySeq
  <2>3. m + 0 = m /\ 0 \in 0 .. N
    BY <1>1
  <2>4. Stream(w)[m + 0] = u \o g[0]
    BY <1>4, <2>1, <2>2, <2>3
  <2> QED BY <2>3, <2>4
<1>6. ASSUME NEW n \in 0 .. N - 1, n \in R PROVE n + 1 \in R
  <2>1. PICK j \in 1 .. N : j = n + 1 /\ j - 1 = n
    BY <1>1
  <2>2. PICK k \in 0 .. Len(w) : k = m + j /\ k - 1 = m + n /\ k > 0
    BY <1>1, <2>1
  <2>3. PICK c \in Seq(Calls) : c = Continuation(w[k][1], w[k][2])
    BY <2>2, StreamType
  <2>4. Stream(w)[k] = Stream(w)[k - 1] \o c
    BY <2>2, <2>3, StreamType
  <2>5. Stream(w)[k - 1] = u \o g[n]
    BY <1>6, <2>2
  <2>6. t[j] = c
    <3>1. q[j] = w[k]
      BY <1>1, <2>1, <2>2
    <3> QED BY <1>2, <2>3, <3>1
  <2>7. g[j] = g[n] \o c
    <3>1. g[j] = g[j - 1] \o t[j]
      BY <1>2, <1>3 DEF FlattenBy
    <3> QED BY <2>1, <2>6, <3>1
  <2>8. PICK v \in Seq(Calls) : v = g[n]
    BY <1>2, <1>3
  <2>9. (u \o v) \o c = u \o (v \o c)
    <3>1. u \in Seq(Calls) /\ v \in Seq(Calls) /\ c \in Seq(Calls)
      BY <1>4, <2>3, <2>8
    <3> QED BY <3>1, ThreeParts
  <2>10. Stream(w)[k] = u \o g[j]
    BY <2>4, <2>5, <2>7, <2>8, <2>9
  <2> QED BY <1>1, <2>1, <2>2, <2>10
<1>7. 0 .. N \subseteq R
  <2> HIDE DEF R
  <2> QED BY <1>5, <1>6, UpwardInduction
<1>8. Stream(w)[m + N] = u \o g[N]
  BY <1>7
<1>9. g[N] = FlattenSeq(t) /\ g[N] \in Seq(Calls)
  BY <1>2, <1>3 DEF FlattenBy
<1> QED BY <1>1, <1>2, <1>4, <1>8, <1>9

LEMMA StartsShape ==
    Starts \in Seq(Cues) /\ Len(Starts) = Len(Script) /\ \A b \in 1 .. Len(Script) : Starts[b] = <<b, 0>>
<1>1. \A b \in 1 .. Len(Script) : <<b, 0>> \in Cues
  <2>1. \A b \in Branches : 0 \in 0 .. Len(Script[b])
    BY CuesShape
  <2> QED BY <2>1, CuesShape
<1>2. PICK N \in Nat : N = Len(Script)
  BY CuesShape
<1> QED BY <1>1, <1>2 DEF Starts

\* The first calls, whatever is told after them.
LEMMA FirstCallsStream ==
    ASSUME NEW u \in Seq(Cues)
    PROVE  /\ Starts \o u \in Seq(Cues) /\ Len(Starts \o u) = Len(Script) + Len(u)
           /\ \A k \in 1 .. Len(u) : (Starts \o u)[Len(Script) + k] = u[k]
           /\ \A k \in 1 .. Len(Script) : (Starts \o u)[k] = <<k, 0>>
           /\ FirstCalls \in Seq(Calls) /\ Stream(Starts \o u)[Len(Script)] = FirstCalls
<1>1. PICK N \in Nat : N = Len(Script)
  BY CuesShape
<1>2. PICK w \in Seq(Cues) : w = Starts \o u
  BY StartsShape, ConcatProperties
<1>3. PICK L \in Nat : L = Len(u)
  BY LenProperties
<1>4. /\ Len(w) = N + L
      /\ \A j \in 1 .. N : w[j] = Starts[j]
      /\ \A j \in N + 1 .. N + L : w[j] = u[j - N]
  <2>1. PICK s \in Seq(Cues) : s = Starts /\ Len(s) = N
    BY <1>1, StartsShape
  <2>2. /\ Len(s \o u) = Len(s) + Len(u)
        /\ \A j \in 1 .. Len(s) + Len(u) :
              (s \o u)[j] = IF j <= Len(s) THEN s[j] ELSE u[j - Len(s)]
    BY ConcatProperties
  <2>3. \A j \in 1 .. N + L : w[j] = IF j <= N THEN s[j] ELSE u[j - N]
    BY <1>2, <1>3, <2>1, <2>2
  <2>4. \A j \in 1 .. N : w[j] = s[j]
    BY <2>3
  <2>5. \A j \in N + 1 .. N + L : w[j] = u[j - N]
    BY <2>3
  <2> QED BY <1>2, <1>3, <2>1, <2>2, <2>4, <2>5
<1>5. \A k \in 1 .. L : w[N + k] = u[k]
  <2> SUFFICES ASSUME NEW k \in 1 .. L PROVE w[N + k] = u[k]
    OBVIOUS
  <2>1. N + k \in N + 1 .. N + L /\ (N + k) - N = k
    OBVIOUS
  <2> QED BY <1>4, <2>1
<1>6. /\ FlattenSeq(Turns(Starts)) \in Seq(Calls)
      /\ Stream(w)[0 + Len(Starts)] = Stream(w)[0] \o FlattenSeq(Turns(Starts))
  <2>1. 0 + Len(Starts) <= Len(w) /\ \A j \in 1 .. Len(Starts) : Starts[j] = w[0 + j]
    BY <1>1, <1>4, StartsShape
  <2>2. 0 \in 0 .. Len(w)
    BY <1>4
  <2> QED BY <2>1, <2>2, StartsShape, StreamOfChunks
<1>7. Stream(w)[0] = <<>>
  BY StreamSteps DEF StreamBy
<1>8. Stream(w)[N] = FlattenSeq(Turns(Starts))
  <2>1. <<>> \o FlattenSeq(Turns(Starts)) = FlattenSeq(Turns(Starts))
    BY <1>6, ConcatEmptySeq
  <2>2. 0 + Len(Starts) = N
    BY <1>1, StartsShape
  <2> QED BY <1>6, <1>7, <2>1, <2>2
<1>9. FirstCalls = FlattenSeq(Turns(Starts))
  <2>1. Turns(Starts) = [b \in Branches |-> Continuation(b, 0)]
    BY CuesShape DEF Turns, Starts
  <2> QED BY <2>1 DEF FirstCalls
<1>10. \A k \in 1 .. N : w[k] = <<k, 0>>
  BY <1>1, <1>4, StartsShape
<1> QED BY <1>1, <1>2, <1>3, <1>4, <1>5, <1>6, <1>8, <1>9, <1>10

-----------------------------------------------------------------------------
(* No call is made twice.                                                  *)

\* What made the script make the call c: the latest of the cues before it in its branch.
Sourced(c, w, n) ==
    \E j \in 1 .. n :
        /\ w[j][1] = c[1] /\ w[j][2] < c[2]
        /\ \A l \in w[j][2] + 1 .. c[2] - 1 : ~Answered(<<c[1], l>>)

Cueing(w) ==
    /\ \A j, k \in 1 .. Len(w) : w[j] = w[k] => j = k
    /\ \A j \in 1 .. Len(w) : w[j][2] = 0 \/ Answered(w[j])

Once(s) == \A p, q \in 1 .. Len(s) : s[p] = s[q] => p = q

\* A branch that is at c was given one cue only that lets it make the next calls.
LEMMA OneSource ==
    ASSUME NEW b, NEW k \in Nat, NEW i \in Nat, NEW m \in Nat, k < m, i < m,
           k = 0 \/ Answered(<<b, k>>), i = 0 \/ Answered(<<b, i>>),
           \A l \in k + 1 .. m - 1 : ~Answered(<<b, l>>),
           \A l \in i + 1 .. m - 1 : ~Answered(<<b, l>>)
    PROVE  i = k
<1>1. CASE i < k
  <2>1. k \in i + 1 .. m - 1 /\ k # 0
    BY <1>1
  <2> QED BY <2>1
<1>2. CASE k < i
  <2>1. i \in k + 1 .. m - 1 /\ i # 0
    BY <1>2
  <2> QED BY <2>1
<1> QED BY <1>1, <1>2

LEMMA StreamOnce ==
    ASSUME NEW w \in Seq(Cues), Cueing(w), NEW n \in 0 .. Len(w)
    PROVE  /\ Once(Stream(w)[n])
           /\ \A p \in 1 .. Len(Stream(w)[n]) : Sourced(Stream(w)[n][p], w, n)
<1>1. PICK N \in Nat : N = Len(w)
  BY LenProperties
<1> DEFINE Fine(m) == /\ Once(Stream(w)[m])
                      /\ \A p \in 1 .. Len(Stream(w)[m]) : Sourced(Stream(w)[m][p], w, m)
           R == {m \in 0 .. N : Fine(m)}
<1>2. 0 \in R
  <2>1. Stream(w)[0] = <<>>
    BY StreamSteps DEF StreamBy
  <2> QED BY <1>1, <2>1 DEF Once
<1>3. ASSUME NEW m \in 0 .. N - 1, m \in R PROVE m + 1 \in R
  <2>1. PICK h \in 1 .. N : h = m + 1 /\ h - 1 = m /\ h \in 0 .. Len(w) /\ h \in 1 .. Len(w) /\ h > 0
    BY <1>1
  <2>2. PICK s \in Seq(Calls) : s = Stream(w)[m]
    BY <2>1, StreamType
  <2>3. PICK c \in Cues : c = w[h]
    BY <2>1, StreamType
  <2>4. PICK v \in Seq(Calls) : v = Continuation(c[1], c[2])
    BY ContinuationType
  <2>5. PICK s1 \in Seq(Calls) : s1 = Stream(w)[h] /\ s1 = s \o v
    <3>1. Stream(w)[h] \in Seq(Calls)
      BY <2>1, StreamType
    <3>2. Stream(w)[h] = Stream(w)[h - 1] \o Continuation(w[h][1], w[h][2])
      BY <2>1, StreamType
    <3>3. Stream(w)[h - 1] = s /\ Continuation(w[h][1], w[h][2]) = v
      BY <2>1, <2>2, <2>3, <2>4
    <3>4. Stream(w)[h] = s \o v
      BY <3>2, <3>3
    <3> QED BY <3>1, <3>4
  <2>6. PICK b \in Branches : b = c[1]
    BY CuesShape
  <2>7. PICK k \in Nat : k = c[2] /\ c = <<b, k>>
    BY <2>6, CuesShape
  <2>8. PICK M \in Nat : M = Len(s)
    BY LenProperties
  <2>9. PICK J \in Nat : J = Len(v)
    BY LenProperties
  <2>10. /\ Len(s1) = M + J
         /\ \A p \in 1 .. M + J : s1[p] = IF p <= M THEN s[p] ELSE v[p - M]
    BY <2>5, <2>8, <2>9, ConcatProperties
  <2>11. /\ \A j \in 1 .. J : v[j] = <<b, k + j>>
         /\ \A l \in k + 1 .. k + J - 1 : ~Answered(<<b, l>>)
    BY <2>4, <2>6, <2>7, <2>9, ContinuationShape DEF ContinuationFits
  <2>12. k = 0 \/ Answered(<<b, k>>)
    BY <2>1, <2>3, <2>7 DEF Cueing
  <2>13. Once(s) /\ \A p \in 1 .. M : Sourced(s[p], w, m)
    BY <1>3, <2>2, <2>8
  <2>14. \A p \in 1 .. M + J : p \in 1 .. M \/ (p > M /\ p - M \in 1 .. J)
    OBVIOUS
  <2>15. \A p \in M + 1 .. M + J : p - M \in 1 .. J /\ s1[p] = <<b, k + (p - M)>>
    <3> SUFFICES ASSUME NEW p \in M + 1 .. M + J
                 PROVE  p - M \in 1 .. J /\ s1[p] = <<b, k + (p - M)>>
      OBVIOUS
    <3>1. PICK j \in 1 .. J : j = p - M
      <4>1. p - M \in 1 .. J
        OBVIOUS
      <4> QED BY <4>1
    <3>2. p \in 1 .. M + J /\ ~(p <= M)
      OBVIOUS
    <3>3. s1[p] = v[p - M]
      BY <2>10, <3>2
    <3>4. v[j] = <<b, k + j>>
      BY <2>11
    <3> QED BY <3>1, <3>3, <3>4
  <2>16. \A p \in 1 .. M : s1[p] = s[p]
    <3> SUFFICES ASSUME NEW p \in 1 .. M PROVE s1[p] = s[p]
      OBVIOUS
    <3>1. p \in 1 .. M + J /\ p <= M
      OBVIOUS
    <3> QED BY <2>10, <3>1
  <2>17. ASSUME NEW p \in 1 .. M + J PROVE Sourced(s1[p], w, h)
    <3>1. CASE p \in 1 .. M
      <4>1. Sourced(s[p], w, m)
        BY <2>13, <3>1
      <4>2. \A j \in 1 .. m : j \in 1 .. h
        BY <2>1
      <4>3. Sourced(s[p], w, h)
        BY <4>1, <4>2 DEF Sourced
      <4> QED BY <2>16, <3>1, <4>3
    <3>2. CASE p > M
      <4>1. PICK j \in 1 .. J : j = p - M /\ s1[p] = <<b, k + j>>
        BY <2>14, <2>15, <3>2
      <4>2. \A l \in k + 1 .. (k + j) - 1 : ~Answered(<<b, l>>)
        <5>1. \A l \in k + 1 .. (k + j) - 1 : l \in k + 1 .. k + J - 1
          OBVIOUS
        <5> QED BY <2>11, <5>1
      <4>3. h \in 1 .. h /\ w[h][1] = b /\ w[h][2] = k /\ k < k + j
        BY <2>1, <2>3, <2>6, <2>7
      <4>4. Sourced(<<b, k + j>>, w, h)
        BY <4>2, <4>3 DEF Sourced
      <4> QED BY <4>1, <4>4
    <3> QED BY <2>14, <3>1, <3>2
  <2>18. ASSUME NEW p \in 1 .. M, NEW q \in M + 1 .. M + J, s1[p] = s1[q] PROVE FALSE
    <3>1. PICK j \in 1 .. J : j = q - M /\ s1[q] = <<b, k + j>>
      BY <2>15
    <3>2. s[p] = <<b, k + j>>
      BY <2>16, <2>18, <3>1
    <3>3. Sourced(<<b, k + j>>, w, m)
      BY <2>13, <3>2
    <3>4. PICK g \in 1 .. m :
             /\ w[g][1] = b /\ w[g][2] < k + j
             /\ \A l \in w[g][2] + 1 .. (k + j) - 1 : ~Answered(<<b, l>>)
      BY <3>3 DEF Sourced
    <3>5. g \in 1 .. Len(w) /\ g # h
      BY <1>1, <2>1
    <3>6. w[g] \in Cues /\ (w[g][2] = 0 \/ Answered(w[g]))
      BY <3>5, ElementOfSeq DEF Cueing
    <3>7. PICK i \in Nat : i = w[g][2] /\ w[g] = <<b, i>>
      <4>1. PICK x \in Cues : x = w[g]
        BY <3>6
      <4>2. PICK a \in Branches : a = x[1] /\ x = <<x[1], x[2]>> /\ x[2] \in 0 .. Len(Script[a])
        BY CuesShape
      <4>3. x[2] \in Nat
        BY <4>2, CuesShape
      <4> QED BY <3>4, <4>1, <4>2, <4>3
    <3>8. \A l \in k + 1 .. (k + j) - 1 : ~Answered(<<b, l>>)
      <4>1. \A l \in k + 1 .. (k + j) - 1 : l \in k + 1 .. k + J - 1
        OBVIOUS
      <4> QED BY <2>11, <4>1
    <3>9. /\ i < k + j /\ (i = 0 \/ Answered(<<b, i>>))
          /\ \A l \in i + 1 .. (k + j) - 1 : ~Answered(<<b, l>>)
      BY <3>4, <3>6, <3>7
    <3>10. k < k + j /\ k + j \in Nat
      OBVIOUS
    <3>11. i = k
      BY <2>12, <3>8, <3>9, <3>10, OneSource
    <3>12. w[g] = w[h]
      BY <2>3, <2>7, <3>7, <3>11
    <3> QED BY <2>1, <3>5, <3>12 DEF Cueing
  <2>19. Once(s1)
    <3>1. SUFFICES ASSUME NEW p \in 1 .. M + J, NEW q \in 1 .. M + J, s1[p] = s1[q], p < q
                   PROVE FALSE
      <4>1. \A p, q \in 1 .. M + J : p = q \/ p < q \/ q < p
        OBVIOUS
      <4> QED BY <2>10, <4>1 DEF Once
    <3>2. CASE q <= M
      <4>1. p \in 1 .. M /\ q \in 1 .. M
        BY <3>1, <3>2
      <4>2. s[p] = s[q]
        BY <2>16, <3>1, <4>1
      <4> QED BY <2>8, <2>13, <3>1, <4>1, <4>2 DEF Once
    <3>3. CASE p <= M /\ q > M
      <4>1. p \in 1 .. M /\ q \in M + 1 .. M + J
        BY <3>3
      <4> QED BY <2>18, <3>1, <4>1
    <3>4. CASE p > M
      <4>1. p \in M + 1 .. M + J /\ q \in M + 1 .. M + J
        BY <3>1, <3>4
      <4>2. k + (p - M) = k + (q - M)
        BY <2>15, <3>1, <4>1
      <4> QED BY <3>1, <4>2
    <3> QED BY <3>2, <3>3, <3>4
  <2>20. Fine(h)
    BY <2>5, <2>10, <2>17, <2>19
  <2> QED BY <2>1, <2>20
<1>4. 0 .. N \subseteq R
  <2> HIDE DEF R
  <2> QED BY <1>2, <1>3, UpwardInduction
<1> QED BY <1>1, <1>4

-----------------------------------------------------------------------------
(* The places of the calls.                                                *)

LEMMA CallingNext ==
    ASSUME NEW s, NEW t, NEW n \in Nat
    PROVE  /\ IsFiniteSet(Calling(s, t, n)) /\ Cardinality(Calling(s, t, n)) \in Nat
           /\ Cardinality(Calling(s, t, n + 1)) =
                 Cardinality(Calling(s, t, n)) + (IF Site(s[n + 1]) = t THEN 1 ELSE 0)
<1>1. IsFiniteSet(1 .. n)
  BY FS_Interval
<1>2. IsFiniteSet(Calling(s, t, n))
  BY <1>1, FS_Subset DEF Calling
<1>3. Cardinality(Calling(s, t, n)) \in Nat
  BY <1>2, FS_CardinalityType
<1>4. CASE Site(s[n + 1]) = t
  <2>1. Calling(s, t, n + 1) = Calling(s, t, n) \cup {n + 1} /\ n + 1 \notin Calling(s, t, n)
    BY <1>4 DEF Calling
  <2>2. Cardinality(Calling(s, t, n) \cup {n + 1}) = Cardinality(Calling(s, t, n)) + 1
    BY <1>2, <2>1, FS_AddElement
  <2> QED BY <1>2, <1>3, <1>4, <2>1, <2>2
<1>5. CASE Site(s[n + 1]) # t
  <2>1. Calling(s, t, n + 1) = Calling(s, t, n)
    BY <1>5 DEF Calling
  <2> QED BY <1>2, <1>3, <1>5, <2>1
<1> QED BY <1>4, <1>5

LEMMA CallingMore ==
    ASSUME NEW s, NEW t, NEW m \in Nat, NEW n \in Nat, m <= n
    PROVE  Cardinality(Calling(s, t, m)) <= Cardinality(Calling(s, t, n))
<1>1. Calling(s, t, m) \subseteq Calling(s, t, n)
  BY DEF Calling
<1> QED BY <1>1, CallingNext, FS_Subset

LEMMA CallingNone == \A s, t : Cardinality(Calling(s, t, 0)) = 0
<1>1. \A s, t : Calling(s, t, 0) = {}
  BY DEF Calling
<1> QED BY <1>1, FS_EmptySet

LEMMA CallingAgrees ==
    ASSUME NEW s, NEW x, NEW t, NEW n \in Nat, \A k \in 1 .. n : s[k] = x[k]
    PROVE  Calling(s, t, n) = Calling(x, t, n)
BY DEF Calling

\* The identity of a call that comes after n others.
LEMMA PlaceNext ==
    ASSUME NEW s, NEW n \in Nat
    PROVE  PlaceIn(s, n + 1) =
              <<Site(s[n + 1]), Cardinality(Calling(s, Site(s[n + 1]), n)) + 1>>
BY CallingNext DEF PlaceIn

LEMMA PlacesDiffer ==
    ASSUME NEW s, NEW p \in Nat \ {0}, NEW q \in Nat \ {0}, PlaceIn(s, p) = PlaceIn(s, q)
    PROVE  p = q
<1>1. ASSUME NEW a \in Nat, NEW b \in Nat, b > 0, a < b, PlaceIn(s, a) = PlaceIn(s, b) PROVE FALSE
  <2>1. PICK t : t = Site(s[b]) /\ t = Site(s[a])
    BY <1>1 DEF PlaceIn
  <2>2. PICK n \in Nat : b = n + 1
    <3>1. b - 1 \in Nat /\ b = (b - 1) + 1
      BY <1>1
    <3> QED BY <3>1
  <2>3. Cardinality(Calling(s, t, a)) = Cardinality(Calling(s, t, b))
    BY <1>1, <2>1 DEF PlaceIn
  <2>4. Cardinality(Calling(s, t, b)) = Cardinality(Calling(s, t, n)) + 1
    BY <2>1, <2>2, CallingNext
  <2>5. Cardinality(Calling(s, t, a)) <= Cardinality(Calling(s, t, n))
    BY <1>1, <2>2, CallingMore
  <2>6. Cardinality(Calling(s, t, n)) \in Nat /\ Cardinality(Calling(s, t, a)) \in Nat
    BY CallingNext
  <2> QED BY <2>3, <2>4, <2>5, <2>6
<1>2. p < q \/ q < p \/ p = q
  OBVIOUS
<1> QED BY <1>1, <1>2

LEMMA PlacesAgree ==
    ASSUME NEW s, NEW x, NEW p \in Nat \ {0}, \A k \in 1 .. p : s[k] = x[k]
    PROVE  PlaceIn(s, p) = PlaceIn(x, p)
<1>1. s[p] = x[p]
  OBVIOUS
<1> QED BY <1>1, CallingAgrees DEF PlaceIn

LEMMA CallsFinite == IsFiniteSet(Calls) /\ Cardinality(Calls) \in Nat
<1>1. PICK N \in Nat : N = Len(Script) /\ Branches = 1 .. N
  BY CuesShape
<1> DEFINE Of(n) == {c \in Calls : c[1] <= n}
           R == {n \in 0 .. N : IsFiniteSet(Of(n))}
<1>2. 0 \in R
  <2>1. Of(0) = {}
    BY <1>1, CuesShape
  <2> QED BY <2>1, FS_EmptySet
<1>3. ASSUME NEW n \in 0 .. N - 1, n \in R PROVE n + 1 \in R
  <2>1. PICK b \in Branches : b = n + 1
    BY <1>1
  <2>2. PICK L \in Nat : L = Len(Script[b])
    BY CuesShape
  <2> DEFINE T == {<<b, k>> : k \in 1 .. L}
             f == [k \in 1 .. L |-> <<b, k>>]
  <2>3. IsFiniteSet(T)
    <3>1. f \in Surjection(1 .. L, T)
      BY DEF Surjection
    <3>2. IsFiniteSet(1 .. L)
      BY FS_Interval
    <3> HIDE DEF f, T
    <3> QED BY <3>1, <3>2, FS_Surjection
  <2>4. Of(n + 1) \subseteq Of(n) \cup T
    <3> SUFFICES ASSUME NEW c \in Calls, c[1] <= n + 1, ~(c[1] <= n) PROVE c \in T
      OBVIOUS
    <3>1. c = <<c[1], c[2]>> /\ c[1] \in 1 .. N /\ c[2] \in 1 .. Len(Script[c[1]])
      BY <1>1, CuesShape
    <3>2. c[1] = b
      BY <2>1, <3>1
    <3> QED BY <2>2, <3>1, <3>2
  <2>5. IsFiniteSet(Of(n))
    BY <1>3
  <2>6. IsFiniteSet(Of(n) \cup T)
    <3> HIDE DEF T, Of
    <3> QED BY <2>3, <2>5, FS_Union
  <2>7. IsFiniteSet(Of(n + 1))
    <3> HIDE DEF T, Of
    <3> QED BY <2>4, <2>6, FS_Subset
  <2> QED BY <2>7
<1>4. 0 .. N \subseteq R
  <2> HIDE DEF R
  <2> QED BY <1>2, <1>3, UpwardInduction
<1>5. Of(N) = Calls
  BY <1>1, CuesShape
<1>6. IsFiniteSet(Of(N))
  BY <1>4
<1> QED BY <1>5, <1>6, FS_CardinalityType

LEMMA CallingBounded ==
    ASSUME NEW s \in Seq(Calls), Once(s), NEW t, NEW n \in 0 .. Len(s)
    PROVE  Cardinality(Calling(s, t, n)) <= Cardinality(Calls)
<1>1. Len(s) \in Nat
  BY LenProperties
<1> DEFINE K == Calling(s, t, n)
           f == [q \in K |-> s[q]]
<1>2. \A q \in K : q \in 1 .. Len(s) /\ s[q] \in Calls
  BY <1>1, ElementOfSeq DEF Calling
<1>3. f \in Injection(K, Calls)
  <2>1. f \in [K -> Calls]
    BY <1>2
  <2>2. IsInjective(f)
    BY <1>2 DEF IsInjective, Once
  <2> QED BY <2>1, <2>2 DEF Injection
<1> HIDE DEF f
<1> QED BY <1>3, CallsFinite, FS_Injection

LEMMA PlaceType ==
    ASSUME NEW s \in Seq(Calls), Once(s), NEW p \in 1 .. Len(s)
    PROVE  PlaceIn(s, p) \in Instances /\ PlaceIn(s, p)[1] = Site(s[p])
<1>1. PICK n \in Nat : p = n + 1 /\ p \in 0 .. Len(s) /\ p \in Nat
  <2>1. p - 1 \in Nat /\ p = (p - 1) + 1 /\ p \in 0 .. Len(s) /\ p \in Nat
    BY LenProperties
  <2> QED BY <2>1
<1>2. PICK t : t = Site(s[p])
  OBVIOUS
<1>3. PICK a \in Nat : a = Cardinality(Calling(s, t, p))
  BY <1>1, CallingNext
<1>4. a >= 1
  <2>1. a = Cardinality(Calling(s, t, n)) + 1
    BY <1>1, <1>2, <1>3, CallingNext
  <2> QED BY <2>1, CallingNext
<1>5. a <= Cardinality(Calls)
  BY <1>1, <1>3, CallingBounded
<1>6. t \in Sites
  BY <1>2, ElementOfSeq DEF Sites
<1>7. PlaceIn(s, p) = <<t, a>>
  BY <1>2, <1>3 DEF PlaceIn
<1>8. a \in 1 .. Cardinality(Calls)
  BY <1>4, <1>5, CallsFinite
<1> QED BY <1>2, <1>6, <1>7, <1>8 DEF Instances

-----------------------------------------------------------------------------
(* What the invariant says of a state.                                     *)

LEMMA RowShape ==
    ASSUME Types, NEW i \in Instances
    PROVE  /\ row[i] # NoRow => row[i].call \in Calls /\ row[i].status \in {"running", "completed"}
           /\ row[i].status \in {"running", "completed"} => row[i] # NoRow
           /\ row[i] = NoRow => row[i].status # "running" /\ row[i].status # "completed"
<1>1. row[i] \in Rows
  BY DEF Types
<1>2. CASE row[i] = NoRow
  <2>1. row[i].status = "none"
    BY <1>2 DEF NoRow
  <2> QED BY <1>2, <2>1
<1>3. CASE row[i] \in [call : Calls, status : {"running", "completed"}]
  <2>1. row[i].call \in Calls /\ row[i].status \in {"running", "completed"}
    BY <1>3
  <2>2. row[i] # NoRow
    BY <2>1 DEF NoRow
  <2> QED BY <2>1, <2>2
<1> QED BY <1>1, <1>2, <1>3 DEF Rows

LEMMA HeardShape ==
    ASSUME Types, Schedule
    PROVE  /\ Len(told) \in Nat /\ \A k \in 1 .. Len(told) : told[k] \in Instances
           /\ Heard \in Seq(Calls) /\ Len(Heard) = Len(told)
           /\ \A k \in 1 .. Len(told) : Heard[k] = row[told[k]].call /\ Heard[k] \in Calls
<1>1. Len(told) \in Nat /\ \A k \in 1 .. Len(told) : told[k] \in Instances
  BY ElementOfSeq, LenProperties DEF Types
<1>2. \A k \in 1 .. Len(told) : row[told[k]].call \in Calls
  BY <1>1, RowShape DEF Schedule
<1>3. PICK N \in Nat : N = Len(told)
  BY <1>1
<1> QED BY <1>1, <1>2, <1>3 DEF Heard

LEMMA PromptsShape ==
    ASSUME Types, Schedule
    PROVE  /\ Prompts \in Seq(Cues) /\ Len(Prompts) = Len(Script) + Len(told)
           /\ \A k \in 1 .. Len(told) : Prompts[Len(Script) + k] = Heard[k]
           /\ \A k \in 1 .. Len(Script) : Prompts[k] = <<k, 0>>
           /\ FirstCalls \in Seq(Calls) /\ Stream(Prompts)[Len(Script)] = FirstCalls
           /\ Course \in Seq(Calls) /\ Len(Course) \in Nat
<1>1. Heard \in Seq(Cues) /\ Len(Heard) = Len(told) /\ Len(told) \in Nat
  <2>1. Heard \in Seq(Calls) /\ Len(Heard) = Len(told) /\ Len(told) \in Nat
    BY HeardShape
  <2>2. \A k \in 1 .. Len(Heard) : Heard[k] \in Cues
    BY <2>1, ElementOfSeq, CuesShape
  <2>3. DOMAIN Heard = 1 .. Len(Heard) /\ Heard = [k \in 1 .. Len(Heard) |-> Heard[k]]
    BY <2>1, LenProperties
  <2> QED BY <2>1, <2>2, <2>3
<1>2. /\ Prompts \in Seq(Cues) /\ Len(Prompts) = Len(Script) + Len(told)
      /\ \A k \in 1 .. Len(told) : Prompts[Len(Script) + k] = Heard[k]
      /\ \A k \in 1 .. Len(Script) : Prompts[k] = <<k, 0>>
      /\ FirstCalls \in Seq(Calls) /\ Stream(Prompts)[Len(Script)] = FirstCalls
  BY <1>1, FirstCallsStream DEF Prompts
<1>4. Len(Prompts) \in 0 .. Len(Prompts)
  BY <1>2, LenProperties
<1>5. Course \in Seq(Calls)
  BY <1>2, <1>4, StreamType DEF Course
<1>6. Len(Course) \in Nat
  BY <1>5, LenProperties
<1> QED BY <1>2, <1>5, <1>6

LEMMA RowKnows ==
    ASSUME Types, Journal, NEW i \in Instances, row[i] # NoRow
    PROVE  /\ row[i].call \in Calls /\ Site(row[i].call) = i[1]
           /\ Answered(row[i].call) <=> i \in Asks
           /\ \E p \in 1 .. Len(Course) : Place(p) = i /\ row[i].call = Course[p]
<1>1. PICK p \in 1 .. Len(Course) : Place(p) = i
  BY DEF Journal
<1>2. row[i].call = Course[p]
  BY <1>1 DEF Journal
<1>3. i[1] = Site(Course[p])
  BY <1>1 DEF Place, PlaceIn
<1>4. Answered(row[i].call) <=> i \in Asks
  BY <1>2, <1>3 DEF Answered, Asks
<1> QED BY <1>1, <1>2, <1>3, <1>4, RowShape

LEMMA CourseOnce ==
    ASSUME Types, Schedule, Journal
    PROVE  /\ Cueing(Prompts) /\ Once(Course)
           /\ \A p \in 1 .. Len(Course) : Place(p) \in Instances /\ Place(p)[1] = Site(Course[p])
           /\ \A p, q \in 1 .. Len(Course) : Place(p) = Place(q) => p = q
<1>1. PICK N \in Nat : N = Len(Script)
  BY CuesShape
<1>2. PICK L \in Nat : L = Len(told)
  BY HeardShape
<1>3. /\ Len(Prompts) = N + L
      /\ \A k \in 1 .. N : Prompts[k] = <<k, 0>>
      /\ \A k \in 1 .. L : Prompts[N + k] = Heard[k]
  BY <1>1, <1>2, PromptsShape
<1>4. \A k \in 1 .. L : Heard[k] \in Calls /\ Heard[k][2] # 0 /\ Answered(Heard[k])
  <2> SUFFICES ASSUME NEW k \in 1 .. L
               PROVE  Heard[k] \in Calls /\ Heard[k][2] # 0 /\ Answered(Heard[k])
    OBVIOUS
  <2>1. /\ told[k] \in Instances /\ told[k] \in Asks /\ row[told[k]].status = "completed"
        /\ Heard[k] = row[told[k]].call
    BY <1>2, HeardShape DEF Schedule
  <2>2. row[told[k]] # NoRow
    BY <2>1, RowShape
  <2>3. Answered(Heard[k]) /\ Heard[k] \in Calls
    BY <2>1, <2>2, RowKnows
  <2>4. Heard[k][2] # 0
    BY <2>3, CuesShape
  <2> QED BY <2>3, <2>4
<1>5. \A j \in 1 .. N + L : j \in 1 .. N \/ \E k \in 1 .. L : j = N + k
  <2> SUFFICES ASSUME NEW j \in 1 .. N + L, j > N PROVE \E k \in 1 .. L : j = N + k
    OBVIOUS
  <2>1. j - N \in 1 .. L /\ j = N + (j - N)
    OBVIOUS
  <2> QED BY <2>1
<1>6. ASSUME NEW j \in 1 .. N + L, NEW i \in 1 .. N + L, Prompts[j] = Prompts[i] PROVE j = i
  <2>1. CASE j \in 1 .. N /\ i \in 1 .. N
    BY <1>3, <1>6, <2>1
  <2>2. CASE j \in 1 .. N /\ i \notin 1 .. N
    <3>1. PICK k \in 1 .. L : i = N + k
      BY <1>5, <2>2
    <3>2. Prompts[j][2] = 0
      BY <1>3, <2>2
    <3>3. Prompts[i] = Heard[k] /\ Heard[k][2] # 0
      BY <1>3, <1>4, <3>1
    <3> QED BY <1>6, <3>2, <3>3
  <2>3. CASE j \notin 1 .. N /\ i \in 1 .. N
    <3>1. PICK k \in 1 .. L : j = N + k
      BY <1>5, <2>3
    <3>2. Prompts[i][2] = 0
      BY <1>3, <2>3
    <3>3. Prompts[j] = Heard[k] /\ Heard[k][2] # 0
      BY <1>3, <1>4, <3>1
    <3> QED BY <1>6, <3>2, <3>3
  <2>4. CASE j \notin 1 .. N /\ i \notin 1 .. N
    <3>1. PICK k \in 1 .. L : j = N + k
      BY <1>5, <2>4
    <3>2. PICK l \in 1 .. L : i = N + l
      BY <1>5, <2>4
    <3>3. Heard[k] = Heard[l]
      BY <1>3, <1>6, <3>1, <3>2
    <3>4. k = l
      BY <1>2, <3>3 DEF Schedule
    <3> QED BY <3>1, <3>2, <3>4
  <2> QED BY <2>1, <2>2, <2>3, <2>4
<1>7. ASSUME NEW j \in 1 .. N + L PROVE Prompts[j][2] = 0 \/ Answered(Prompts[j])
  <2>1. CASE j \in 1 .. N
    BY <1>3, <2>1
  <2>2. CASE j \notin 1 .. N
    BY <1>3, <1>4, <1>5, <2>2
  <2> QED BY <2>1, <2>2
<1>8. Cueing(Prompts)
  BY <1>3, <1>6, <1>7 DEF Cueing
<1>9. Once(Course)
  <2>1. Len(Prompts) \in 0 .. Len(Prompts) /\ Prompts \in Seq(Cues)
    BY <1>3, PromptsShape
  <2> QED BY <1>8, <2>1, StreamOnce DEF Course
<1>10. \A p \in 1 .. Len(Course) : Place(p) \in Instances /\ Place(p)[1] = Site(Course[p])
  BY <1>9, PromptsShape, PlaceType DEF Place
<1>11. \A p, q \in 1 .. Len(Course) : Place(p) = Place(q) => p = q
  <2>1. \A p \in 1 .. Len(Course) : p \in Nat \ {0}
    BY PromptsShape
  <2> QED BY <2>1, PlacesDiffer DEF Place
<1> QED BY <1>8, <1>9, <1>10, <1>11

\* The numbers behind the pipes.
LEMMA Numbers ==
    ASSUME Types, Schedule, Table, Pipes
    PROVE  /\ Len(told) \in Nat /\ Len(order) \in Nat /\ Len(queue) \in Nat /\ Len(toChild) \in Nat
           /\ Len(toParent) \in Nat /\ Len(Script) \in Nat
           /\ cursor \in Nat /\ cursor <= Len(order) /\ Len(order) <= Len(told)
           /\ Sent \in 0 .. Len(told) /\ Delivered \in 0 .. Sent
           /\ Sent = Delivered + Len(toChild)
           /\ queue # <<>> => Len(order) = Len(told)
           /\ Len(queue) = 0 <=> queue = <<>>
           /\ Len(Script) + Delivered \in 0 .. Len(Prompts)
           /\ Arrived \in Nat /\ Arrived + Len(toParent) = Len(Stream(Prompts)[Len(Script) + Delivered])
           /\ Arrived + Len(toParent) <= Len(Course)
<1>1. /\ Len(told) \in Nat /\ Len(order) \in Nat /\ Len(queue) \in Nat /\ Len(toChild) \in Nat
      /\ Len(toParent) \in Nat /\ cursor \in Nat /\ cursor <= Len(order)
  BY LenProperties DEF Types
<1>2. Len(order) <= Len(told) /\ Len(queue) <= cursor
  BY DEF Table
<1>3. Len(queue) = 0 <=> queue = <<>>
  <2>1. queue \in Seq(Instances)
    BY DEF Types
  <2> QED BY <2>1, EmptySeq
<1>4. queue # <<>> => Len(order) = Len(told)
  BY <1>1, <1>2 DEF Table
<1>5. Sent \in 0 .. Len(told)
  BY <1>1, <1>2 DEF Sent
<1>6. Delivered \in 0 .. Sent /\ Sent = Delivered + Len(toChild)
  <2>1. Len(toChild) <= Sent
    BY DEF Pipes
  <2>2. PICK s \in Nat : s = Sent
    BY <1>1, <1>5
  <2> QED BY <1>1, <2>1, <2>2 DEF Delivered
<1>7. Len(Script) \in Nat /\ Len(Prompts) = Len(Script) + Len(told)
  BY CuesShape, PromptsShape
<1>8. Len(Script) + Delivered \in 0 .. Len(Prompts)
  BY <1>1, <1>5, <1>6, <1>7
<1>9. Len(Stream(Prompts)[Len(Script) + Delivered]) \in Nat
  BY <1>8, PromptsShape, StreamType
<1>10. Arrived \in Nat
  BY DEF Pipes
<1>11. Arrived + Len(toParent) = Len(Stream(Prompts)[Len(Script) + Delivered])
  <2>1. PICK x \in Nat : x = Len(Stream(Prompts)[Len(Script) + Delivered])
    BY <1>9
  <2> QED BY <1>1, <2>1 DEF Arrived
<1>12. Len(Stream(Prompts)[Len(Script) + Delivered]) <= Len(Course)
  <2>1. Len(Prompts) \in (Len(Script) + Delivered) .. Len(Prompts)
    BY <1>1, <1>7, <1>8
  <2> QED BY <1>8, <2>1, PromptsShape, StreamGrows DEF Course
<1> QED BY <1>1, <1>2, <1>3, <1>4, <1>5, <1>6, <1>7, <1>8, <1>10, <1>11, <1>12

-----------------------------------------------------------------------------
(* Steps that leave the journal's rows alone.                              *)

LEMMA SameCourse ==
    ASSUME told' = told, \A k \in 1 .. Len(told) : row'[told[k]].call = row[told[k]].call
    PROVE  Heard' = Heard /\ Prompts' = Prompts /\ Course' = Course /\ \A p : Place(p)' = Place(p)
<1>1. Heard' = Heard
  BY DEF Heard
<1>2. Prompts' = Prompts
  BY <1>1 DEF Prompts
<1>3. Course' = Course
  BY <1>2 DEF Course
<1>4. \A p : Place(p)' = Place(p)
  BY <1>3 DEF Place
<1> QED BY <1>1, <1>2, <1>3, <1>4

LEMMA JournalStays ==
    ASSUME Schedule, Journal, row' = row, told' = told
    PROVE  /\ Heard' = Heard /\ Prompts' = Prompts /\ Course' = Course /\ \A p : Place(p)' = Place(p)
           /\ Schedule' /\ Journal'
<1>1. Heard' = Heard /\ Prompts' = Prompts /\ Course' = Course /\ \A p : Place(p)' = Place(p)
  BY SameCourse
<1>2. Schedule'
  BY <1>1 DEF Schedule
<1>3. Journal'
  BY <1>1 DEF Journal
<1> QED BY <1>1, <1>2, <1>3

LEMMA EventsStay ==
    ASSUME Events, row' = row, told' = told, log' = log, lives' = lives, status' = status
    PROVE  Events'
BY DEF Events, SettleOrder, Claimable

LEMMA TableStays ==
    ASSUME Table, UNCHANGED <<held, told, count>>
    PROVE  Table'
BY DEF Table, held, Called

LEMMA InWorkStays ==
    ASSUME InWork, UNCHANGED <<live, row, count>>
    PROVE  InWork'
BY DEF InWork, Called

LEMMA PipesStay ==
    ASSUME Pipes, UNCHANGED <<held, told, row, count, toParent, toChild>>
    PROVE  Pipes'
<1>1. Heard' = Heard /\ Prompts' = Prompts /\ Course' = Course /\ \A p : Place(p)' = Place(p)
  BY SameCourse
<1>2. Sent' = Sent /\ Delivered' = Delivered
  BY DEF Sent, Delivered, held
<1>3. Arrived' = Arrived
  BY <1>1, <1>2 DEF Arrived
<1> QED BY <1>1, <1>2, <1>3 DEF Pipes

LEMMA StutterKeeps == ASSUME IInv, UNCHANGED vars PROVE IInv'
<1>1. UNCHANGED <<row, log, status, alive, count, live, held, toParent, toChild, told, lives>>
  BY DEF vars, journal
<1>2. Schedule' /\ Journal'
  BY <1>1, JournalStays DEF IInv
<1>3. Types'
  BY <1>1 DEF IInv, Types, held
<1>4. Events' /\ Table' /\ Pipes' /\ InWork'
  BY <1>1, EventsStay, TableStays, PipesStay, InWorkStays DEF IInv
<1> QED BY <1>2, <1>3, <1>4 DEF IInv

LEMMA CompleteKeeps == ASSUME IInv, Complete PROVE IInv'
<1>1. /\ UNCHANGED <<row, log, alive, count, live, held, toParent, toChild, told, lives>>
      /\ status' = "completed"
  BY DEF Complete
<1>2. Schedule' /\ Journal'
  BY <1>1, JournalStays DEF IInv
<1>3. Types'
  BY <1>1 DEF IInv, Types, held
<1>4. Table' /\ Pipes' /\ InWork'
  BY <1>1, TableStays, PipesStay, InWorkStays DEF IInv
<1>5. Events'
  BY <1>1 DEF Complete, IInv, Events, SettleOrder, Claimable
<1> QED BY <1>2, <1>3, <1>4, <1>5 DEF IInv

LEMMA CrashKeeps == ASSUME IInv, Crash PROVE IInv'
<1>1. /\ UNCHANGED <<row, log, status, count, live, held, toParent, toChild, told, lives>>
      /\ alive' = FALSE
  BY DEF Crash, journal
<1>2. Schedule' /\ Journal'
  BY <1>1, JournalStays DEF IInv
<1>3. Types'
  BY <1>1 DEF IInv, Types, held
<1>4. Events' /\ Table' /\ Pipes' /\ InWork'
  BY <1>1, EventsStay, TableStays, PipesStay, InWorkStays DEF IInv
<1> QED BY <1>2, <1>3, <1>4 DEF IInv

\* What abortInFlight logs has no completed row: the table does not speak of it.
LEMMA StopKeeps == ASSUME IInv, Stop PROVE IInv'
<1>1. /\ UNCHANGED <<row, alive, count, live, held, toParent, toChild, told, lives>>
      /\ status' = "stopped" /\ log' = LogAll(live)
  BY DEF Stop, Logged
<1>2. Schedule' /\ Journal'
  BY <1>1, JournalStays DEF IInv
<1>3. log \in Seq(Instances) /\ live \in Seq(Instances)
  BY DEF IInv, Types
<1>4. Types'
  BY <1>1, <1>3, LoggedType DEF IInv, Types, held
<1>5. Table' /\ Pipes' /\ InWork'
  BY <1>1, TableStays, PipesStay, InWorkStays DEF IInv
<1>6. LogKeeps(live, Claimable)
  BY DEF IInv, InWork, Claimable, LogKeeps
<1>7. SettleOrder' = SettleOrder
  <2>1. Claimable' = Claimable
    BY <1>1 DEF Claimable
  <2> QED BY <1>1, <1>3, <1>6, <2>1, LoggedIsKept DEF SettleOrder
<1>9. Events'
  BY <1>1, <1>7 DEF IInv, Events
<1> QED BY <1>2, <1>4, <1>5, <1>9 DEF IInv

LEMMA Joined ==
    ASSUME NEW x \in Seq(Calls), NEW y \in Seq(Calls), NEW M \in Nat, NEW N \in Nat,
           M = Len(x), N = Len(y)
    PROVE  /\ x \o y \in Seq(Calls) /\ Len(x \o y) = M + N
           /\ \A k \in 1 .. M : (x \o y)[k] = x[k]
           /\ \A k \in M + 1 .. M + N : (x \o y)[k] = y[k - M]
<1>1. /\ x \o y \in Seq(Calls) /\ Len(x \o y) = Len(x) + Len(y)
      /\ \A k \in 1 .. Len(x) + Len(y) :
            (x \o y)[k] = IF k <= Len(x) THEN x[k] ELSE y[k - Len(x)]
  BY ConcatProperties
<1>2. \A k \in 1 .. M + N : (x \o y)[k] = IF k <= M THEN x[k] ELSE y[k - M]
  BY <1>1
<1> QED BY <1>1, <1>2

LEMMA Cut ==
    ASSUME NEW x \in Seq(Calls), NEW C \in Nat, C = Len(x), NEW n \in 0 .. C
    PROVE  /\ SubSeq(x, 1, n) \in Seq(Calls) /\ Len(SubSeq(x, 1, n)) = n
           /\ \A j \in 1 .. n : SubSeq(x, 1, n)[j] = x[j]
           /\ SubSeq(x, n + 1, C) \in Seq(Calls) /\ Len(SubSeq(x, n + 1, C)) = C - n
           /\ \A j \in 1 .. C - n : SubSeq(x, n + 1, C)[j] = x[n + j]
<1>1. 1 \in 1 .. C + 1 /\ n \in 1 - 1 .. C /\ n + 1 \in 1 .. C + 1 /\ C \in (n + 1) - 1 .. C
  OBVIOUS
<1>2. /\ SubSeq(x, 1, n) \in Seq(Calls) /\ Len(SubSeq(x, 1, n)) = n
      /\ \A j \in 1 .. n : SubSeq(x, 1, n)[j] = x[j]
  <2>1. /\ SubSeq(x, 1, n) \in Seq(Calls)
        /\ Len(SubSeq(x, 1, n)) = IF 1 <= n THEN n - 1 + 1 ELSE 0
        /\ \A j \in 1 .. n - 1 + 1 : SubSeq(x, 1, n)[j] = x[1 + j - 1]
    BY <1>1, SubSeqProperties
  <2> QED BY <2>1
<1>3. /\ SubSeq(x, n + 1, C) \in Seq(Calls) /\ Len(SubSeq(x, n + 1, C)) = C - n
      /\ \A j \in 1 .. C - n : SubSeq(x, n + 1, C)[j] = x[n + j]
  <2>1. /\ SubSeq(x, n + 1, C) \in Seq(Calls)
        /\ Len(SubSeq(x, n + 1, C)) = IF n + 1 <= C THEN C - (n + 1) + 1 ELSE 0
        /\ \A j \in 1 .. C - (n + 1) + 1 : SubSeq(x, n + 1, C)[j] = x[(n + 1) + j - 1]
    BY <1>1, SubSeqProperties
  <2> QED BY <2>1
<1> QED BY <1>2, <1>3

LEMMA FlushKeeps == ASSUME IInv, Flush PROVE IInv'
<1>1. /\ UNCHANGED <<row, status, alive, count, live, order, cursor, parked, toParent, told, lives>>
      /\ queue # <<>> /\ queue' = <<>> /\ log' = LogAll(queue) /\ status = "running"
      /\ toChild' = toChild \o [j \in DOMAIN queue |-> row[queue[j]].call]
  BY DEF Flush, Respond, Logged
<1>2. /\ Types /\ Schedule /\ Journal /\ Events /\ Table /\ Pipes /\ InWork
      /\ log \in Seq(Instances) /\ queue \in Seq(Instances) /\ toChild \in Seq(Calls)
  BY DEF IInv, Types
<1>3. /\ Heard' = Heard /\ Prompts' = Prompts /\ Course' = Course /\ \A p : Place(p)' = Place(p)
      /\ Schedule' /\ Journal'
  BY <1>1, <1>2, JournalStays
<1>4. PICK Q \in Nat : Q = Len(queue)
  BY <1>2, Numbers
<1>5. PICK D \in Nat : D = Delivered
  BY <1>2, Numbers
<1>6. PICK C \in Nat : C = Len(toChild)
  BY <1>2, Numbers
<1>7. Len(told) = Len(order) /\ Len(told) \in Nat /\ cursor \in Nat /\ cursor <= Len(told)
      /\ Sent = cursor - Q /\ Sent = D + C
  <2>1. Len(told) = Len(order) /\ Len(told) \in Nat /\ cursor \in Nat /\ cursor <= Len(order)
        /\ Sent = Delivered + Len(toChild)
    BY <1>1, <1>2, Numbers
  <2>2. Sent = cursor - Q
    BY <1>4, <2>1 DEF Sent
  <2> QED BY <1>5, <1>6, <2>1, <2>2
<1>8. ASSUME NEW j \in 1 .. Q
      PROVE  (D + C) + j \in 1 .. Len(told) /\ queue[j] = told[(D + C) + j]
  <2>1. (D + C) + j \in 1 .. Len(order) /\ (D + C) + j = cursor - Len(queue) + j
    BY <1>4, <1>7
  <2>2. queue[j] = order[cursor - Len(queue) + j]
    BY <1>2, <1>4 DEF Table
  <2>3. order[(D + C) + j] = told[(D + C) + j]
    BY <1>2, <2>1 DEF Table
  <2> QED BY <1>7, <2>1, <2>2, <2>3
<1> DEFINE answers == [j \in DOMAIN queue |-> row[queue[j]].call]
<1>9. /\ answers \in Seq(Calls) /\ Len(answers) = Q
      /\ \A j \in 1 .. Q : answers[j] = Heard[(D + C) + j]
  <2>1. DOMAIN queue = 1 .. Q
    BY <1>2, <1>4, LenProperties
  <2>2. \A j \in 1 .. Q : /\ row[queue[j]].call = Heard[(D + C) + j]
                          /\ Heard[(D + C) + j] \in Calls
    BY <1>2, <1>8, HeardShape
  <2> QED BY <2>1, <2>2
<1> HIDE DEF answers
<1>10. PICK c1 \in Seq(Calls) : c1 = toChild'
  BY <1>1, <1>2, <1>9, ConcatProperties DEF answers
<1>11. /\ Len(c1) = C + Q
       /\ \A k \in 1 .. C + Q : c1[k] = IF k <= C THEN toChild[k] ELSE answers[k - C]
  BY <1>1, <1>2, <1>6, <1>9, <1>10, ConcatProperties DEF answers
<1>12. Sent' = D + C + Q
  <2>1. Len(queue') = 0
    BY <1>1
  <2>2. Sent' = Len(told) - (Len(order) - cursor) - Len(queue')
    BY <1>1 DEF Sent
  <2>3. cursor = D + C + Q
    BY <1>7
  <2> QED BY <1>7, <2>1, <2>2, <2>3
<1>13. Delivered' = D
  BY <1>10, <1>11, <1>12 DEF Delivered
<1>14. Arrived' = Arrived
  BY <1>1, <1>3, <1>5, <1>13 DEF Arrived
<1>15. \A k \in 1 .. C + Q : c1[k] = Heard[D + k]
  <2> SUFFICES ASSUME NEW k \in 1 .. C + Q PROVE c1[k] = Heard[D + k]
    OBVIOUS
  <2>1. CASE k <= C
    <3>1. k \in 1 .. C
      BY <2>1
    <3> QED BY <1>2, <1>5, <1>6, <1>11, <2>1, <3>1 DEF Pipes
  <2>2. CASE ~(k <= C)
    <3>1. PICK j \in 1 .. Q : j = k - C /\ (D + C) + j = D + k
      <4>1. k - C \in 1 .. Q /\ (D + C) + (k - C) = D + k
        BY <2>2
      <4> QED BY <4>1
    <3> QED BY <1>9, <1>11, <2>2, <3>1
  <2> QED BY <2>1, <2>2
<1>16. Pipes'
  <2>1. Len(c1) <= Sent'
    BY <1>11, <1>12
  <2>2. \A k \in 1 .. Len(c1) : c1[k] = Heard'[Delivered' + k]
    BY <1>3, <1>11, <1>13, <1>15
  <2> QED BY <1>1, <1>2, <1>3, <1>10, <1>14, <2>1, <2>2 DEF Pipes
<1>17. Table'
  <2>1. Len(<<>>) = 0
    OBVIOUS
  <2>2. Len(told) = Len(order)
    BY <1>7
  <2> QED BY <1>1, <1>2, <1>7, <2>1, <2>2 DEF Table, Called
<1>18. log' = log
  <2>2. Selected(log, Claimable) = told
    BY <1>2 DEF Events, SettleOrder
  <2>3. \A k \in 1 .. Len(told) : \E m \in 1 .. Len(log) : told[k] = log[m]
    BY <1>2, <2>2, SelectedType
  <2>4. \A j \in 1 .. Len(queue) : \E m \in 1 .. Len(log) : log[m] = queue[j]
    <3> SUFFICES ASSUME NEW j \in 1 .. Q PROVE \E m \in 1 .. Len(log) : log[m] = queue[j]
      BY <1>4
    <3>1. PICK k \in 1 .. Len(told) : queue[j] = told[k]
      BY <1>8
    <3> QED BY <2>3, <3>1
  <2> QED BY <1>1, <1>2, <2>4, LoggedAlready
<1>19. Events'
  <2>1. SettleOrder' = SettleOrder
    <3>1. Claimable' = Claimable
      BY <1>1 DEF Claimable
    <3> QED BY <1>18, <3>1 DEF SettleOrder
  <2> QED BY <1>1, <1>2, <2>1 DEF Events
<1>20. Types'
  <2>1. log' \in Seq(Instances)
    BY <1>1, <1>2, LoggedType
  <2>2. <<>> \in Seq(Instances)
    OBVIOUS
  <2> QED BY <1>1, <1>2, <1>10, <2>1, <2>2 DEF Types
<1>21. InWork'
  BY <1>1, <1>2, InWorkStays
<1> QED BY <1>3, <1>16, <1>17, <1>19, <1>20, <1>21 DEF IInv

\* Whatever the chunk: what is said next is the next part of the course.
LEMMA ScriptStepKeeps == ASSUME IInv, ScriptStep, ~disturbed' PROVE IInv'
<1>1. PICK n \in 1 .. Len(toChild) :
         /\ toParent' = toParent \o Woken(SubSeq(toChild, 1, n))
         /\ toChild' = SubSeq(toChild, n + 1, Len(toChild))
         /\ toChild # <<>>
         /\ Woken(SubSeq(toChild, 1, n)) = InTurn(SubSeq(toChild, 1, n))
  BY DEF ScriptStep
<1>2. UNCHANGED <<row, log, status, alive, count, live, held, told, lives>>
  BY DEF ScriptStep, journal
<1>3. /\ Types /\ Schedule /\ Journal /\ Events /\ Table /\ Pipes /\ InWork
      /\ toChild \in Seq(Calls) /\ toParent \in Seq(Calls)
  BY DEF IInv, Types
<1>4. /\ Heard' = Heard /\ Prompts' = Prompts /\ Course' = Course /\ \A p : Place(p)' = Place(p)
      /\ Schedule' /\ Journal'
  BY <1>2, <1>3, JournalStays
<1>5. Events' /\ Table' /\ InWork'
  BY <1>2, <1>3, EventsStay, TableStays, InWorkStays
<1>6. PICK C \in Nat : C = Len(toChild)
  BY <1>3, Numbers
<1>7. PICK D \in Nat : D = Delivered
  BY <1>3, Numbers
<1>8. PICK T \in Nat : T = Len(told) /\ Sent = D + C /\ D + C <= T
  BY <1>3, <1>6, <1>7, Numbers
<1>9. PICK S \in Nat : S = Len(Script) /\ Len(Prompts) = S + T
  BY <1>3, <1>8, CuesShape, PromptsShape
<1>10. n \in Nat /\ n >= 1 /\ n <= C
  BY <1>6
<1>11. PICK q \in Seq(Calls) :
          /\ q = SubSeq(toChild, 1, n) /\ Len(q) = n
          /\ \A j \in 1 .. n : q[j] = toChild[j]
  <2>1. n \in 0 .. C
    BY <1>10
  <2> QED BY <1>3, <1>6, <2>1, Cut
<1>12. PICK r \in Seq(Calls) :
          /\ r = SubSeq(toChild, n + 1, Len(toChild)) /\ Len(r) = C - n
          /\ \A j \in 1 .. C - n : r[j] = toChild[n + j]
  <2>1. n \in 0 .. C
    BY <1>10
  <2> QED BY <1>3, <1>6, <2>1, Cut
<1>13. \A j \in 1 .. n : q[j] = Prompts[(S + D) + j]
  <2> SUFFICES ASSUME NEW j \in 1 .. n PROVE q[j] = Prompts[(S + D) + j]
    OBVIOUS
  <2>1. j \in 1 .. C /\ D + j \in 1 .. T /\ S + (D + j) = (S + D) + j
    BY <1>8, <1>10
  <2>2. toChild[j] = Heard[D + j]
    BY <1>3, <1>6, <1>7, <2>1 DEF Pipes
  <2>3. Prompts[S + (D + j)] = Heard[D + j]
    BY <1>3, <1>8, <1>9, <2>1, PromptsShape
  <2> QED BY <1>11, <2>1, <2>2, <2>3
<1>14. q \in Seq(Cues)
  <2>1. \A j \in 1 .. Len(q) : q[j] \in Cues
    BY ElementOfSeq, CuesShape
  <2>2. DOMAIN q = 1 .. Len(q) /\ q = [j \in 1 .. Len(q) |-> q[j]] /\ Len(q) \in Nat
    BY LenProperties
  <2> QED BY <2>1, <2>2
<1>15. PICK y \in Seq(Calls) :
          y = Woken(q) /\ Stream(Prompts)[(S + D) + n] = Stream(Prompts)[S + D] \o y
  <2>1. q # <<>>
    BY <1>10, <1>11
  <2>2. Woken(q) = FlattenSeq(Turns(q))
    BY <1>1, <1>11 DEF InTurn, Turns
  <2>3. S + D \in 0 .. Len(Prompts) /\ (S + D) + Len(q) <= Len(Prompts)
        /\ Prompts \in Seq(Cues)
    BY <1>3, <1>8, <1>9, <1>10, <1>11, PromptsShape
  <2>4. \A j \in 1 .. Len(q) : q[j] = Prompts[(S + D) + j]
    BY <1>11, <1>13
  <2>5. FlattenSeq(Turns(q)) \in Seq(Calls)
        /\ Stream(Prompts)[(S + D) + Len(q)] = Stream(Prompts)[S + D] \o FlattenSeq(Turns(q))
    BY <1>14, <2>3, <2>4, StreamOfChunks
  <2> QED BY <1>11, <2>2, <2>5
<1>16. PICK x \in Seq(Calls) : x = Stream(Prompts)[S + D]
  <2>1. S + D \in 0 .. Len(Prompts) /\ Prompts \in Seq(Cues)
    BY <1>3, <1>8, <1>9, PromptsShape
  <2> QED BY <2>1, StreamType
<1>17. PICK P \in Nat : P = Len(toParent)
  BY <1>3, Numbers
<1>18. PICK A \in Nat : A = Arrived /\ A + P = Len(x)
  BY <1>3, <1>7, <1>9, <1>16, <1>17, Numbers
<1>19. PICK Y \in Nat : Y = Len(y)
  BY LenProperties
<1>20. /\ Len(x \o y) = A + P + Y
       /\ \A k \in (A + P) + 1 .. (A + P) + Y : (x \o y)[k] = y[k - (A + P)]
  <2>1. PICK M \in Nat : M = A + P
    OBVIOUS
  <2>2. Len(x \o y) = M + Y /\ \A k \in M + 1 .. M + Y : (x \o y)[k] = y[k - M]
    <3>1. M = Len(x) /\ Y = Len(y)
      BY <1>18, <1>19, <2>1
    <3> QED BY ONLY x \in Seq(Calls), y \in Seq(Calls), M \in Nat, Y \in Nat, <3>1, Joined
  <2> QED BY <2>1, <2>2
<1>21. PICK p1 \in Seq(Calls) :
          /\ p1 = toParent' /\ Len(p1) = P + Y
          /\ \A k \in 1 .. P : p1[k] = toParent[k]
          /\ \A k \in P + 1 .. P + Y : p1[k] = y[k - P]
  <2>1. toParent' = toParent \o y
    BY <1>1, <1>11, <1>15
  <2>2. P = Len(toParent) /\ Y = Len(y)
    BY <1>17, <1>19
  <2>3. toParent \in Seq(Calls) /\ y \in Seq(Calls) /\ P \in Nat /\ Y \in Nat
    BY <1>3
  <2>4. /\ toParent \o y \in Seq(Calls) /\ Len(toParent \o y) = P + Y
        /\ \A k \in 1 .. P : (toParent \o y)[k] = toParent[k]
        /\ \A k \in P + 1 .. P + Y : (toParent \o y)[k] = y[k - P]
    BY ONLY <2>2, <2>3, Joined
  <2>5. PICK z \in Seq(Calls) : z = toParent \o y
    BY <2>4
  <2> QED BY <2>1, <2>4, <2>5
<1>22. Sent' = D + C /\ Delivered' = D + n
  <2>1. Sent' = Sent
    BY <1>2 DEF Sent, held
  <2>2. Len(toChild') = C - n
    BY <1>1, <1>12
  <2> QED BY <1>8, <2>1, <2>2 DEF Delivered
<1>23. Arrived' = A
  <2>1. Len(Script) + Delivered' = (S + D) + n
    BY <1>9, <1>22
  <2>2. Stream(Prompts)[Len(Script) + Delivered'] = x \o y
    BY <1>15, <1>16, <2>1
  <2>3. Arrived' = Len(Stream(Prompts')[Len(Script) + Delivered']) - Len(toParent')
    BY DEF Arrived
  <2>4. Arrived' = Len(x \o y) - (P + Y)
    BY <1>4, <1>21, <2>2, <2>3
  <2> QED BY <1>20, <2>4
<1>24. \A k \in 1 .. P + Y : p1[k] = Course[A + k]
  <2> SUFFICES ASSUME NEW k \in 1 .. P + Y PROVE p1[k] = Course[A + k]
    OBVIOUS
  <2>1. CASE k <= P
    <3>1. k \in 1 .. P
      BY <2>1
    <3>2. toParent[k] = Course[A + k]
      BY <1>3, <1>17, <1>18, <3>1 DEF Pipes
    <3> QED BY <1>21, <3>1, <3>2
  <2>2. CASE ~(k <= P)
    <3>1. /\ A + k \in 1 .. A + P + Y /\ A + k \in (A + P) + 1 .. (A + P) + Y
          /\ (A + k) - (A + P) = k - P /\ k \in P + 1 .. P + Y
      BY <2>2
    <3>2. p1[k] = y[k - P]
      BY <1>21, <3>1
    <3>3. (x \o y)[A + k] = y[k - P]
      BY <1>20, <3>1
    <3>4. (S + D) + n \in 0 .. Len(Prompts) /\ Len(Prompts) \in (S + D) + n .. Len(Prompts)
          /\ Prompts \in Seq(Cues)
      BY <1>3, <1>8, <1>9, <1>10, PromptsShape
    <3>5. \A i \in 1 .. Len(Stream(Prompts)[(S + D) + n]) :
             Stream(Prompts)[Len(Prompts)][i] = Stream(Prompts)[(S + D) + n][i]
      BY <3>4, StreamGrows
    <3>6. \A i \in 1 .. Len(x \o y) : Course[i] = (x \o y)[i]
      BY <1>15, <1>16, <3>5 DEF Course
    <3>7. Course[A + k] = (x \o y)[A + k]
      BY <1>20, <3>1, <3>6
    <3> QED BY <3>2, <3>3, <3>7
  <2> QED BY <2>1, <2>2
<1>25. \A k \in 1 .. C - n : r[k] = Heard[(D + n) + k]
  <2> SUFFICES ASSUME NEW k \in 1 .. C - n PROVE r[k] = Heard[(D + n) + k]
    OBVIOUS
  <2>1. n + k \in 1 .. C /\ D + (n + k) = (D + n) + k
    BY <1>10
  <2>2. toChild[n + k] = Heard[D + (n + k)]
    BY <1>3, <1>6, <1>7, <2>1 DEF Pipes
  <2> QED BY <1>12, <2>1, <2>2
<1>26. Pipes'
  <2>1. r = toChild' /\ Len(r) <= Sent'
    BY <1>1, <1>10, <1>12, <1>22
  <2>2. \A k \in 1 .. Len(r) : r[k] = Heard'[Delivered' + k]
    BY <1>4, <1>12, <1>22, <1>25
  <2>3. \A k \in 1 .. Len(p1) : p1[k] = Course'[Arrived' + k]
    BY <1>4, <1>21, <1>23, <1>24
  <2>4. Arrived' = Arrived
    BY <1>18, <1>23
  <2> QED BY <1>2, <1>3, <1>4, <1>21, <2>1, <2>2, <2>3, <2>4 DEF Pipes
<1>27. Types'
  <2>1. toParent' \in Seq(Calls) /\ toChild' \in Seq(Calls)
    BY <1>1, <1>12, <1>21
  <2> QED BY <1>2, <1>3, <2>1 DEF Types, held
<1> QED BY <1>4, <1>5, <1>26, <1>27 DEF IInv

-----------------------------------------------------------------------------
(* A life starts.                                                          *)

Fresh ==
    /\ cursor = 0 /\ Len(order) = Len(told) /\ queue = <<>> /\ parked = {}
    /\ toParent = FirstCalls /\ toChild = <<>> /\ count = [s \in Sites |-> 0]

LEMMA StartOfLife == Types /\ Schedule /\ Fresh => Pipes
<1> SUFFICES ASSUME Types, Schedule, Fresh PROVE Pipes
  OBVIOUS
<1>1. PICK T \in Nat : T = Len(told) /\ T = Len(order)
  BY HeardShape DEF Fresh
<1>2. PICK S \in Nat : S = Len(Script) /\ Len(Prompts) = S + T
  BY <1>1, CuesShape, PromptsShape
<1>3. Len(queue) = 0 /\ Len(toChild) = 0
  BY DEF Fresh
<1>4. Sent = 0
  <2>1. Sent = T - (T - 0) - 0
    BY <1>1, <1>3 DEF Sent, Fresh
  <2> QED BY <2>1
<1>5. Delivered = 0
  BY <1>3, <1>4 DEF Delivered
<1>6. Len(Script) + Delivered = S
  BY <1>2, <1>5
<1>7. PICK f \in Seq(Calls) : f = FirstCalls /\ f = Stream(Prompts)[S]
  BY <1>2, PromptsShape
<1>8. PICK F \in Nat : F = Len(f)
  BY LenProperties
<1>9. Arrived = 0
  <2>1. Arrived = Len(Stream(Prompts)[S]) - Len(toParent)
    BY <1>6 DEF Arrived
  <2>2. Arrived = F - F
    BY <1>7, <1>8, <2>1 DEF Fresh
  <2> QED BY <2>2
<1>10. \A k \in 1 .. F : toParent[k] = Course[0 + k]
  <2>1. S \in 0 .. Len(Prompts) /\ Len(Prompts) \in S .. Len(Prompts) /\ Prompts \in Seq(Cues)
    BY <1>2, PromptsShape
  <2>2. \A k \in 1 .. F : Stream(Prompts)[Len(Prompts)][k] = Stream(Prompts)[S][k]
    BY <1>7, <1>8, <2>1, StreamGrows
  <2>3. \A k \in 1 .. F : 0 + k = k
    OBVIOUS
  <2> QED BY <1>7, <2>2, <2>3 DEF Course, Fresh
<1>11. \A s \in Sites : count[s] = Cardinality(Calling(Course, s, Arrived))
  BY <1>9, CallingNone DEF Fresh
<1>12. Len(toParent) = F
  BY <1>7, <1>8 DEF Fresh
<1> QED BY <1>3, <1>4, <1>9, <1>10, <1>11, <1>12 DEF Pipes

LEMMA InitHolds == ASSUME Init PROVE IInv
<1>1. /\ row = [i \in Instances |-> NoRow] /\ log = <<>> /\ status = "running" /\ alive = TRUE
      /\ count = [s \in Sites |-> 0] /\ live = <<>> /\ order = <<>> /\ cursor = 0 /\ parked = {}
      /\ queue = <<>> /\ toParent = FirstCalls /\ toChild = <<>> /\ told = <<>> /\ lives = 1
  BY DEF Init
<1>2. Len(<<>>) = 0
  OBVIOUS
<1>3. Types
  <2>1. FirstCalls \in Seq(Calls)
    <3>1. <<>> \in Seq(Cues)
      OBVIOUS
    <3> QED BY <3>1, FirstCallsStream
  <2>2. row \in [Instances -> Rows]
    BY <1>1 DEF Rows
  <2>3. 1 \in Nat
    OBVIOUS
  <2>4. <<>> \in Seq(Instances) /\ <<>> \in Seq(Calls) /\ 0 \in 0 .. Len(<<>>)
    BY <1>2
  <2>5. count \in [Sites -> Nat]
    BY <1>1
  <2> QED BY <1>1, <2>1, <2>2, <2>3, <2>4, <2>5 DEF Types
<1>4. \A i \in Instances : row[i] = NoRow /\ row[i].status = "none"
  BY <1>1 DEF NoRow
<1>5. Schedule
  BY <1>1, <1>2, <1>4 DEF Schedule, Asks
<1>6. Journal
  <2>1. Course \in Seq(Calls) /\ Len(Course) \in Nat
    BY <1>3, <1>5, PromptsShape
  <2>2. Heard = <<>>
    BY <1>1, <1>2 DEF Heard
  <2>3. \A p \in 1 .. Len(Course) : row[Place(p)] = NoRow
    <3>1. Cueing(Prompts)
      <4>1. /\ Len(Prompts) = Len(Script) + 0
            /\ \A k \in 1 .. Len(Script) : Prompts[k] = <<k, 0>>
        BY <1>1, <1>2, <1>3, <1>5, PromptsShape
      <4>2. Len(Prompts) = Len(Script)
        BY <4>1, CuesShape
      <4>3. \A k \in 1 .. Len(Prompts) : Prompts[k][1] = k /\ Prompts[k][2] = 0
        BY <4>1, <4>2
      <4> QED BY <4>3 DEF Cueing
    <3>2. Len(Prompts) \in 0 .. Len(Prompts) /\ Prompts \in Seq(Cues)
      BY <1>3, <1>5, PromptsShape, LenProperties
    <3>3. Once(Course)
      BY <3>1, <3>2, StreamOnce DEF Course
    <3> QED BY <1>4, <2>1, <3>3, PlaceType DEF Place
  <2> QED BY <1>4, <2>3 DEF Journal
<1>7. Events
  <2>1. SettleOrder = told
    <3>1. <<>> \in Seq(Instances) /\ \A n \in 1 .. Len(<<>>) : <<>>[n] \notin Claimable
      BY <1>2
    <3> QED BY <1>1, <3>1, SelectedNone DEF SettleOrder
  <2>2. status = "running" /\ Len(log) = 0
    BY <1>1, <1>2
  <2> QED BY <2>1, <2>2 DEF Events
<1>8. Table
  <2>1. Len(order) = 0 /\ Len(told) = 0 /\ Len(queue) = 0
    BY <1>1, <1>2
  <2> QED BY <1>1, <2>1 DEF Table
<1>9. Pipes
  BY <1>1, <1>3, <1>5, StartOfLife DEF Fresh
<1>10. InWork
  BY <1>1, <1>2 DEF InWork
<1> QED BY <1>3, <1>5, <1>6, <1>7, <1>8, <1>9, <1>10 DEF IInv

\* The table of the next life: all that was told so far.
LEMMA ResumeKeeps == ASSUME IInv, Resume PROVE IInv' /\ order' = told
<1>1. /\ UNCHANGED <<row, log, told>> /\ lives < MaxLives /\ lives' = lives + 1
      /\ alive' = TRUE /\ status' = "running" /\ count' = [s \in Sites |-> 0] /\ live' = <<>>
      /\ order' = SettleOrder /\ cursor' = 0 /\ parked' = {} /\ queue' = <<>>
      /\ toParent' = FirstCalls /\ toChild' = <<>>
  BY DEF Resume
<1>2. Types /\ Schedule /\ Journal /\ Events /\ Table /\ Pipes /\ InWork
  BY DEF IInv
<1>3. order' = told
  BY <1>1, <1>2 DEF Events
<1>4. /\ Heard' = Heard /\ Prompts' = Prompts /\ Course' = Course /\ \A p : Place(p)' = Place(p)
      /\ Schedule' /\ Journal'
  BY <1>1, <1>2, JournalStays
<1>5. Len(<<>>) = 0
  OBVIOUS
<1>6. Types'
  <2>1. FirstCalls \in Seq(Calls)
    BY <1>2, PromptsShape
  <2>2. <<>> \in Seq(Instances) /\ <<>> \in Seq(Calls)
    OBVIOUS
  <2>3. lives + 1 \in Nat
    BY <1>2 DEF Types
  <2>4. cursor' \in 0 .. Len(order')
    BY <1>1, <1>2, <1>3, HeardShape
  <2>5. count' \in [Sites -> Nat]
    BY <1>1
  <2>6. told \in Seq(Instances)
    BY <1>2 DEF Types
  <2>7. parked' \subseteq Instances /\ alive' \in BOOLEAN
        /\ status' \in {"running", "completed", "stopped", "errored"}
    BY <1>1
  <2>8. row' \in [Instances -> Rows] /\ log' \in Seq(Instances)
    BY <1>1, <1>2 DEF Types
  <2> QED BY <1>1, <1>3, <2>1, <2>2, <2>3, <2>4, <2>5, <2>6, <2>7, <2>8 DEF Types
<1>7. Fresh'
  BY <1>1, <1>3 DEF Fresh
<1>8. Pipes'
  <2>1. Types' /\ Schedule' /\ Fresh' => Pipes'
    BY StartOfLife, PTL
  <2> QED BY <1>4, <1>6, <1>7, <2>1
<1>9. PICK T \in Nat : T = Len(told)
  BY <1>2, HeardShape
<1>10. \A k \in 1 .. T : ~(told[k][2] <= 0)
  <2>1. \A i \in Instances : i[2] \in 1 .. Cardinality(Calls)
    BY DEF Instances
  <2>2. \A k \in 1 .. T : told[k][2] \in 1 .. Cardinality(Calls)
    BY <1>2, <1>9, <2>1, HeardShape
  <2> QED BY <2>2, CallsFinite
<1>11. \A k \in 1 .. T : ~Called(told[k])'
  <2> SUFFICES ASSUME NEW k \in 1 .. T PROVE ~Called(told[k])'
    OBVIOUS
  <2>1. told[k] \in Instances
    BY <1>2, <1>9, HeardShape
  <2>2. told[k][1] \in Sites
    BY <2>1 DEF Instances
  <2>3. count'[told[k][1]] = 0
    BY <1>1, <2>2
  <2>4. Called(told[k])' <=> told'[k][2] <= count'[told'[k][1]]
    BY DEF Called
  <2> QED BY <1>1, <1>10, <2>3, <2>4
<1>12. Table'
  <2>1. /\ cursor' = 0 /\ queue' = <<>> /\ Len(queue') = 0 /\ Len(order') = T /\ Len(told') = T
        /\ parked' = {}
    BY <1>1, <1>3, <1>5, <1>9
  <2>2. \A k \in 1 .. T : order'[k] = told'[k]
    BY <1>1, <1>3
  <2>3. \A k \in 1 .. T : ~(k <= 0 \/ k > T)
    OBVIOUS
  <2>4. \A k \in 1 .. T : ~(order'[k][2] <= count'[order'[k][1]])
    BY <1>1, <1>3, <1>11 DEF Called
  <2> QED BY <2>1, <2>2, <2>3, <2>4 DEF Table, Called
<1>13. InWork'
  BY <1>1, <1>5 DEF InWork
<1>14. Events'
  <2>1. SettleOrder' = SettleOrder
    BY <1>1 DEF SettleOrder, Claimable
  <2> QED BY <1>1, <1>2, <2>1 DEF Events
<1> QED BY <1>3, <1>4, <1>6, <1>8, <1>12, <1>13, <1>14 DEF IInv

-----------------------------------------------------------------------------
(* A call arrives: the next of the course, under its place.                *)

LEMMA CallArrives ==
    ASSUME Types, Schedule, Journal, Table, Pipes, NEW c \in Calls, Arrives(c)
    PROVE  /\ Arrived + 1 \in 1 .. Len(Course) /\ Arrived \in Nat /\ c = Course[Arrived + 1]
           /\ Instance(c) = Place(Arrived + 1) /\ Instance(c) \in Instances
           /\ Instance(c)[1] = Site(c) /\ Site(c) \in Sites
           /\ Instance(c) \in Asks <=> Answered(c)
           /\ ~Called(Instance(c))
           /\ \A i \in Instances : Called(i)' <=> Called(i) \/ i = Instance(c)
           /\ count' \in [Sites -> Nat]
<1>1. /\ toParent # <<>> /\ c = Head(toParent) /\ toParent' = Tail(toParent)
      /\ count' = [count EXCEPT ![Site(c)] = @ + 1]
  BY DEF Arrives
<1>2. PICK P \in Nat : P = Len(toParent)
  BY Numbers
<1>3. PICK A \in Nat : A = Arrived /\ A + P <= Len(Course)
  BY <1>2, Numbers
<1>4. PICK L \in Nat : L = Len(Course)
  BY PromptsShape
<1>5. P >= 1 /\ c = toParent[1]
  <2>1. toParent \in Seq(Calls)
    BY DEF Types
  <2>2. Len(toParent) # 0
    BY <1>1, <2>1, EmptySeq
  <2> QED BY <1>1, <1>2, <2>1, <2>2
<1>6. A + 1 \in 1 .. L
  BY <1>3, <1>4, <1>5
<1>7. c = Course[A + 1]
  <2>1. 1 \in 1 .. P
    BY <1>5
  <2>2. toParent[1] = Course[Arrived + 1]
    BY <1>2, <2>1 DEF Pipes
  <2> QED BY <1>3, <1>5, <2>2
<1>8. Site(c) \in Sites
  BY DEF Sites
<1>9. PICK n \in Nat : n = count[Site(c)] /\ n = Cardinality(Calling(Course, Site(c), A))
  <2>1. count[Site(c)] \in Nat
    BY <1>8 DEF Types
  <2>2. count[Site(c)] = Cardinality(Calling(Course, Site(c), A))
    BY <1>3, <1>8 DEF Pipes
  <2> QED BY <2>1, <2>2
<1>10. Instance(c) = <<Site(c), n + 1>>
  BY <1>9 DEF Instance, NextOrdinal
<1>11. Instance(c) = Place(A + 1)
  BY <1>7, <1>9, <1>10, PlaceNext DEF Place
<1>12. Instance(c) \in Instances
  BY <1>4, <1>6, <1>11, CourseOnce
<1>13. Instance(c) \in Asks <=> Answered(c)
  BY <1>10, <1>12 DEF Asks, Answered
<1>14. ~Called(Instance(c))
  <2>1. ~(n + 1 <= n)
    OBVIOUS
  <2>2. Instance(c)[1] = Site(c) /\ Instance(c)[2] = n + 1
    BY ONLY <1>10
  <2>3. count[Instance(c)[1]] = n
    BY <1>9, <2>2
  <2> QED BY <2>1, <2>2, <2>3 DEF Called
<1>15. count \in [Sites -> Nat]
  BY DEF Types
<1>16. count' \in [Sites -> Nat]
  <2>1. count'= [count EXCEPT ![Site(c)] = n + 1]
    BY <1>1, <1>8, <1>9, <1>15
  <2>2. n + 1 \in Nat
    OBVIOUS
  <2> QED BY <1>8, <1>15, <2>1, <2>2
<1>17. ASSUME NEW i \in Instances PROVE Called(i)' <=> Called(i) \/ i = Instance(c)
  <2>1. PICK s \in Sites, m \in 1 .. Cardinality(Calls) : i = <<s, m>>
    BY DEF Instances
  <2>2. m \in Nat
    BY <2>1, CallsFinite
  <2>3. /\ Called(i) <=> m <= count[s]
        /\ Called(i)' <=> m <= count'[s]
    BY <2>1 DEF Called
  <2>4. i = Instance(c) <=> s = Site(c) /\ m = n + 1
    BY <1>10, <2>1
  <2>5. CASE s = Site(c)
    <3>1. count'[s] = n + 1 /\ count[s] = n
      BY <1>1, <1>8, <1>9, <1>15, <2>5
    <3>2. m <= n + 1 <=> m <= n \/ m = n + 1
      BY <2>2
    <3> QED BY <2>3, <2>4, <2>5, <3>1, <3>2
  <2>6. CASE s # Site(c)
    <3>1. count'[s] = count[s]
      BY <1>1, <1>15, <2>6
    <3> QED BY <2>3, <2>4, <2>6, <3>1
  <2> QED BY <2>5, <2>6
<1> QED BY <1>3, <1>4, <1>6, <1>7, <1>8, <1>10, <1>11, <1>12, <1>13, <1>14, <1>16, <1>17

\* The engine has read one call more, and this call has its row.
LEMMA PipesOnArrival ==
    ASSUME Types, Schedule, Journal, Table, Pipes, NEW c \in Calls, Arrives(c),
           Heard' = Heard, Prompts' = Prompts, Course' = Course, \A p : Place(p)' = Place(p),
           Sent' = Sent, toChild' = toChild,
           \A i \in Instances : row[i] # NoRow \/ i = Instance(c) => row'[i] # NoRow
    PROVE  Pipes' /\ toParent' \in Seq(Calls)
<1>1. /\ toParent # <<>> /\ toParent' = Tail(toParent)
      /\ count' = [count EXCEPT ![Site(c)] = @ + 1]
  BY DEF Arrives
<1>2. PICK P \in Nat : P = Len(toParent)
  BY Numbers
<1>3. PICK A \in Nat : A = Arrived /\ A + P <= Len(Course)
                       /\ A + P = Len(Stream(Prompts)[Len(Script) + Delivered])
  BY <1>2, Numbers
<1>4. PICK L \in Nat : L = Len(Course)
  BY PromptsShape
<1>5. P >= 1
  <2>1. toParent \in Seq(Calls)
    BY DEF Types
  <2>2. Len(toParent) # 0
    BY <1>1, <2>1, EmptySeq
  <2> QED BY <1>2, <2>2
<1>6. PICK r \in Seq(Calls) : /\ r = toParent' /\ Len(r) = P - 1
                              /\ \A k \in 1 .. P - 1 : r[k] = toParent[k + 1]
  <2>1. toParent \in Seq(Calls)
    BY DEF Types
  <2>2. /\ Tail(toParent) \in Seq(Calls) /\ Len(Tail(toParent)) = Len(toParent) - 1
        /\ \A k \in 1 .. Len(Tail(toParent)) : Tail(toParent)[k] = toParent[k + 1]
    BY <1>1, <2>1, HeadTailProperties
  <2>3. Len(Tail(toParent)) = P - 1 /\ \A k \in 1 .. P - 1 : Tail(toParent)[k] = toParent[k + 1]
    BY <1>2, <2>2
  <2> QED BY <1>1, <2>2, <2>3
<1>7. Delivered' = Delivered
  BY DEF Delivered
<1>8. Arrived' = A + 1
  <2>1. Arrived' = Len(Stream(Prompts)[Len(Script) + Delivered]) - Len(toParent')
    BY <1>7 DEF Arrived
  <2>2. Arrived' = (A + P) - (P - 1)
    BY <1>3, <1>6, <2>1
  <2> QED BY <2>2
<1>9. \A k \in 1 .. P - 1 : r[k] = Course[(A + 1) + k]
  <2> SUFFICES ASSUME NEW k \in 1 .. P - 1 PROVE r[k] = Course[(A + 1) + k]
    OBVIOUS
  <2>1. k + 1 \in 1 .. P /\ A + (k + 1) = (A + 1) + k
    OBVIOUS
  <2>2. toParent[k + 1] = Course[Arrived + (k + 1)]
    BY <1>2, <2>1 DEF Pipes
  <2> QED BY <1>3, <1>6, <2>1, <2>2
<1>10. ASSUME NEW s \in Sites PROVE count'[s] = Cardinality(Calling(Course, s, A + 1))
  <2>1. count \in [Sites -> Nat] /\ count[s] = Cardinality(Calling(Course, s, A))
    BY <1>3 DEF Types, Pipes
  <2>2. Cardinality(Calling(Course, s, A + 1)) =
           Cardinality(Calling(Course, s, A)) + (IF Site(Course[A + 1]) = s THEN 1 ELSE 0)
    BY CallingNext
  <2>3. c = Course[A + 1]
    BY <1>3, CallArrives
  <2>4. Cardinality(Calling(Course, s, A)) \in Nat
    BY CallingNext
  <2>5. CASE s = Site(c)
    <3>1. count'[s] = count[s] + 1
      BY <1>1, <2>1, <2>5
    <3> QED BY <2>1, <2>2, <2>3, <2>5, <3>1
  <2>6. CASE s # Site(c)
    <3>1. count'[s] = count[s]
      BY <1>1, <2>1, <2>6
    <3> QED BY <2>1, <2>2, <2>3, <2>4, <2>6, <3>1
  <2> QED BY <2>5, <2>6
<1>11. ASSUME NEW p \in 1 .. A + 1 PROVE row'[Place(p)] # NoRow
  <2>1. CASE p = A + 1
    <3>1. Place(p) = Instance(c) /\ Instance(c) \in Instances
      BY <1>3, <2>1, CallArrives
    <3> QED BY <3>1
  <2>2. CASE p # A + 1
    <3>1. p \in 1 .. A /\ p \in 1 .. L
      BY <1>2, <1>3, <1>4, <2>2
    <3>2. row[Place(p)] # NoRow
      BY <1>3, <3>1 DEF Pipes
    <3>3. Place(p) \in Instances
      BY <1>4, <3>1, CourseOnce
    <3> QED BY <3>2, <3>3
  <2> QED BY <2>1, <2>2
<1>12. \A k \in 1 .. Len(toChild') : toChild'[k] = Heard'[Delivered' + k]
  BY <1>7 DEF Pipes
<1>13. Len(toChild') <= Sent'
  BY DEF Pipes
<1>14. \A k \in 1 .. Len(toParent') : toParent'[k] = Course'[Arrived' + k]
  BY <1>6, <1>8, <1>9
<1>15. Arrived' \in Nat
  BY <1>8
<1>16. \A s \in Sites : count'[s] = Cardinality(Calling(Course', s, Arrived'))
  BY <1>8, <1>10
<1>17. \A p \in 1 .. Arrived' : row'[Place(p)'] # NoRow
  BY <1>8, <1>11
<1> QED BY <1>6, <1>12, <1>13, <1>14, <1>15, <1>16, <1>17 DEF Pipes

\* A call that no recorded ask made does not concern the gate.
LEMMA TableOnArrival ==
    ASSUME Types, Schedule, Journal, Table, Pipes, NEW c \in Calls, Arrives(c),
           UNCHANGED <<held, told>>, \A k \in 1 .. Len(told) : told[k] # Instance(c)
    PROVE  Table'
<1> DEFINE Then(i) == i[2] <= count'[i[1]]
<1>1. \A k \in 1 .. Len(told) : Then(told[k]) <=> Called(told[k])
  <2>1. \A k \in 1 .. Len(told) : told[k] \in Instances
    BY HeardShape
  <2>2. \A i \in Instances : Called(i)' <=> Called(i) \/ i = Instance(c)
    BY CallArrives
  <2>3. \A i \in Instances : Called(i)' <=> Then(i)
    BY DEF Called
  <2> QED BY <2>1, <2>2, <2>3
<1> HIDE DEF Then
<1>2. \A k \in 1 .. Len(order) : k \in 1 .. Len(told) /\ order[k] = told[k]
  <2>1. PICK O \in Nat : O = Len(order) /\ O <= Len(told)
    BY Numbers
  <2>2. PICK T \in Nat : T = Len(told)
    BY Numbers
  <2>3. 1 .. O \subseteq 1 .. T
    BY <2>1, <2>2
  <2>4. \A k \in 1 .. Len(order) : order[k] = told[k]
    BY DEF Table
  <2> QED BY <2>1, <2>2, <2>3, <2>4
<1>3. cursor + 1 .. Len(order) \subseteq 1 .. Len(order)
  BY Numbers
<1>4. /\ order' = order /\ cursor' = cursor /\ parked' = parked /\ queue' = queue /\ told' = told
  BY DEF held
<1>5. \A k \in 1 .. Len(told) : k <= cursor \/ k > Len(order) => Then(told[k])
  BY <1>1 DEF Table
<1>6. \A k \in 1 .. Len(order) : Then(order[k]) <=> Called(order[k])
  BY <1>1, <1>2
<1>7. \A k \in cursor + 1 .. Len(order) : order[k] \in parked <=> Then(order[k])
  BY <1>3, <1>6 DEF Table
<1>8. \A k \in 1 .. Len(told') : k <= cursor' \/ k > Len(order') => Then(told'[k])
  BY <1>4, <1>5
<1>9. \A k \in cursor' + 1 .. Len(order') : order'[k] \in parked' <=> Then(order'[k])
  BY <1>4, <1>7
<1> QED BY <1>4, <1>8, <1>9 DEF Table, Called, Then

LiveOnArrival(c) ==
    \/ live' = live
    \/ /\ live' = Append(live, Instance(c))
       /\ Answered(c) /\ row'[Instance(c)].status = "running"

LEMMA InWorkOnArrival ==
    ASSUME Types, Schedule, Journal, Table, Pipes, InWork, NEW c \in Calls, Arrives(c),
           LiveOnArrival(c),
           \A i \in Instances : row[i].status = "running" => row'[i].status = "running"
    PROVE  InWork' /\ live' \in Seq(Instances)
<1>1. live \in Seq(Instances)
  BY DEF Types
<1>2. PICK N \in Nat : N = Len(live)
  BY <1>1, LenProperties
<1>3. /\ \A i \in Instances : Called(i)' <=> Called(i) \/ i = Instance(c)
      /\ Instance(c) \in Instances /\ (Instance(c) \in Asks <=> Answered(c))
  BY CallArrives
<1> DEFINE Fine(i) == i \in Asks /\ row'[i].status = "running" /\ i[2] <= count'[i[1]]
<1>4. ASSUME NEW n \in 1 .. N PROVE Fine(live[n])
  <2>1. live[n] \in Instances
    BY <1>1, <1>2, ElementOfSeq
  <2>2. live[n] \in Asks /\ row[live[n]].status = "running" /\ Called(live[n])
    BY <1>2 DEF InWork
  <2>3. PICK i \in Instances : i = live[n]
    BY <2>1
  <2>4. i \in Asks /\ row'[i].status = "running" /\ Called(i)'
    BY <1>3, <2>2, <2>3
  <2>5. Fine(i)
    BY <2>4 DEF Called
  <2> QED BY <2>3, <2>5
<1>5. CASE live' = live
  <2>1. \A n \in 1 .. Len(live') : Fine(live'[n])
    BY <1>2, <1>4, <1>5
  <2>2. \A n \in 1 .. Len(live') :
           live'[n] \in Asks /\ row'[live'[n]].status = "running"
           /\ live'[n][2] <= count'[live'[n][1]]
    BY <2>1
  <2> QED BY <1>1, <1>5, <2>2 DEF InWork, Called
<1>6. CASE live' = Append(live, Instance(c)) /\ Answered(c)
           /\ row'[Instance(c)].status = "running"
  <2>1. PICK l \in Seq(Instances) : /\ l = live' /\ Len(l) = N + 1 /\ l[N + 1] = Instance(c)
                                    /\ \A n \in 1 .. N : l[n] = live[n]
    BY <1>1, <1>2, <1>3, <1>6, AppendProperties
  <2>2. Fine(Instance(c))
    <3>1. PICK i \in Instances : i = Instance(c)
      BY <1>3
    <3>2. Called(i)' /\ i \in Asks /\ row'[i].status = "running"
      BY <1>3, <1>6, <3>1
    <3>3. Fine(i)
      BY <3>2 DEF Called
    <3> QED BY <3>1, <3>3
  <2>3. \A n \in 1 .. N + 1 : (l[n] = live[n] /\ n \in 1 .. N) \/ l[n] = Instance(c)
    BY <2>1
  <2>4. \A n \in 1 .. N + 1 : Fine(l[n])
    BY <1>4, <2>2, <2>3
  <2>5. \A n \in 1 .. Len(live') :
           live'[n] \in Asks /\ row'[live'[n]].status = "running"
           /\ live'[n][2] <= count'[live'[n][1]]
    BY <2>1, <2>4
  <2> QED BY <2>1, <2>5 DEF InWork, Called
<1> QED BY <1>5, <1>6 DEF LiveOnArrival

\* A new row: of the call that arrives, under its place.
LEMMA JournalOnFresh ==
    ASSUME Types, Schedule, Journal, Table, Pipes, NEW c \in Calls, Arrives(c),
           row[Instance(c)] = NoRow, NEW t \in {"running", "completed"},
           row' = [row EXCEPT ![Instance(c)] = [call |-> c, status |-> t]],
           t = "completed" => ~Answered(c)
    PROVE  /\ Heard' = Heard /\ Prompts' = Prompts /\ Course' = Course /\ \A p : Place(p)' = Place(p)
           /\ Schedule' /\ Journal' /\ row' \in [Instances -> Rows]
           /\ \A i \in Instances : row[i] # NoRow \/ i = Instance(c) => row'[i] # NoRow
           /\ \A i \in Instances : i # Instance(c) => row'[i] = row[i]
           /\ row'[Instance(c)] = [call |-> c, status |-> t]
           /\ \A k \in 1 .. Len(told) : told[k] # Instance(c)
           /\ told' = told
<1>1. /\ Arrived + 1 \in 1 .. Len(Course) /\ Arrived \in Nat /\ c = Course[Arrived + 1]
      /\ Instance(c) = Place(Arrived + 1) /\ Instance(c) \in Instances
      /\ Instance(c) \in Asks <=> Answered(c)
  BY CallArrives
<1>2. PICK i \in Instances : i = Instance(c)
  BY <1>1
<1>3. told' = told
  BY DEF Arrives
<1>4. row \in [Instances -> Rows]
  BY DEF Types
<1>5. /\ row'[i] = [call |-> c, status |-> t]
      /\ \A j \in Instances : j # i => row'[j] = row[j]
  BY <1>2, <1>4
<1>6. [call |-> c, status |-> t] \in Rows
  BY DEF Rows
<1>7. row' \in [Instances -> Rows]
  BY <1>2, <1>4, <1>6
<1>8. [call |-> c, status |-> t] # NoRow
  BY DEF NoRow
<1>9. \A j \in Instances : row[j] # NoRow \/ j = i => row'[j] # NoRow
  BY <1>5, <1>8
<1>10. row[i] = NoRow /\ NoRow.status # "completed"
  BY <1>2 DEF NoRow
<1>11. ASSUME NEW k \in 1 .. Len(told) PROVE told[k] \in Instances /\ told[k] # i
  <2>1. told[k] \in Instances
    BY HeardShape
  <2>2. row[told[k]].status = "completed"
    BY DEF Schedule
  <2> QED BY <1>10, <2>1, <2>2
<1>12. \A k \in 1 .. Len(told) : row'[told[k]] = row[told[k]]
  BY <1>5, <1>11
<1>13. Heard' = Heard /\ Prompts' = Prompts /\ Course' = Course /\ \A p : Place(p)' = Place(p)
  BY <1>3, <1>12, SameCourse
<1>14. Schedule'
  <2>1. \A k \in 1 .. Len(told) : told[k] \in Asks /\ row'[told[k]].status = "completed"
    BY <1>12 DEF Schedule
  <2>2. ASSUME NEW j \in Asks, row'[j].status = "completed"
        PROVE  \E k \in 1 .. Len(told) : told[k] = j
    <3>1. j \in Instances
      BY DEF Asks
    <3>2. j # i
      BY <1>1, <1>2, <1>5, <2>2
    <3>3. row[j].status = "completed"
      BY <1>5, <2>2, <3>1, <3>2
    <3> QED BY <3>3 DEF Schedule
  <2>3. \A k, l \in 1 .. Len(told) : Heard[k] = Heard[l] => k = l
    BY DEF Schedule
  <2> QED BY <1>3, <1>13, <2>1, <2>2, <2>3 DEF Schedule
<1>15. PICK A \in Nat : A = Arrived /\ A + 1 \in 1 .. Len(Course)
  BY <1>1
<1>16. PICK L \in Nat : L = Len(Course)
  BY PromptsShape
<1>17. /\ \A p \in 1 .. L : Place(p) \in Instances
       /\ \A p, q \in 1 .. L : Place(p) = Place(q) => p = q
  BY <1>16, CourseOnce
<1>18. Journal'
  <2>1. ASSUME NEW j \in Instances, row'[j] # NoRow PROVE \E p \in 1 .. L : Place(p) = j
    <3>1. CASE j = i
      BY <1>1, <1>2, <1>16, <3>1
    <3>2. CASE j # i
      <4>1. row[j] # NoRow
        BY <1>5, <2>1, <3>2
      <4> QED BY <1>16, <4>1 DEF Journal
    <3> QED BY <3>1, <3>2
  <2>2. ASSUME NEW p \in 1 .. L, row'[Place(p)] # NoRow
        PROVE  row'[Place(p)].call = Course[p] /\ \A q \in 1 .. p : row'[Place(q)] # NoRow
    <3>1. CASE p = A + 1
      <4>1. Place(p) = i /\ Course[p] = c
        BY <1>1, <1>2, <1>15, <3>1
      <4>2. row'[Place(p)].call = Course[p]
        BY <1>5, <4>1
      <4>3. ASSUME NEW q \in 1 .. p PROVE row'[Place(q)] # NoRow
        <5>1. CASE q = p
          BY <1>5, <1>8, <4>1, <5>1
        <5>2. CASE q # p
          <6>1. q \in 1 .. A /\ q \in 1 .. L
            BY <3>1, <5>2
          <6>2. row[Place(q)] # NoRow
            BY <1>15, <6>1 DEF Pipes
          <6> QED BY <1>9, <1>17, <6>1, <6>2
        <5> QED BY <5>1, <5>2
      <4> QED BY <4>2, <4>3
    <3>2. CASE p # A + 1
      <4>1. Place(p) # i /\ Place(p) \in Instances
        BY <1>1, <1>2, <1>15, <1>16, <1>17, <3>2
      <4>2. row'[Place(p)] = row[Place(p)]
        BY <1>5, <4>1
      <4>3. row[Place(p)].call = Course[p] /\ \A q \in 1 .. p : row[Place(q)] # NoRow
        BY <1>16, <2>2, <4>2 DEF Journal
      <4>4. \A q \in 1 .. p : q \in 1 .. L
        OBVIOUS
      <4> QED BY <1>9, <1>17, <4>2, <4>3, <4>4
    <3> QED BY <3>1, <3>2
  <2> QED BY <1>13, <1>16, <2>1, <2>2 DEF Journal
<1> QED BY <1>2, <1>3, <1>5, <1>7, <1>9, <1>11, <1>13, <1>14, <1>18

LEMMA AskFreshKeeps == ASSUME IInv, NEW c \in Calls, AskFresh(c) PROVE IInv'
<1>1. /\ Arrives(c) /\ row[Instance(c)] = NoRow /\ Answered(c)
      /\ row' = [row EXCEPT ![Instance(c)] = [call |-> c, status |-> "running"]]
      /\ live' = Append(live, Instance(c))
      /\ UNCHANGED <<log, status, held, toChild, alive, told, lives>>
  BY DEF AskFresh, Arrives
<1>2. Types /\ Schedule /\ Journal /\ Events /\ Table /\ Pipes /\ InWork
  BY DEF IInv
<1>3. PICK i \in Instances : i = Instance(c)
  BY <1>1, <1>2, CallArrives
<1>4. /\ Heard' = Heard /\ Prompts' = Prompts /\ Course' = Course /\ \A p : Place(p)' = Place(p)
      /\ Schedule' /\ Journal' /\ row' \in [Instances -> Rows]
      /\ \A j \in Instances : row[j] # NoRow \/ j = i => row'[j] # NoRow
      /\ \A j \in Instances : j # i => row'[j] = row[j]
      /\ row'[i] = [call |-> c, status |-> "running"]
      /\ \A k \in 1 .. Len(told) : told[k] # i
  BY <1>1, <1>2, <1>3, JournalOnFresh
<1>5. Sent' = Sent
  BY <1>1 DEF Sent, held
<1>6. Pipes' /\ toParent' \in Seq(Calls)
  BY <1>1, <1>2, <1>3, <1>4, <1>5, PipesOnArrival
<1>7. Table'
  BY <1>1, <1>2, <1>3, <1>4, TableOnArrival
<1>8. row[i].status # "running" /\ row[i].status # "completed"
  BY <1>1, <1>3 DEF NoRow
<1>9. InWork' /\ live' \in Seq(Instances)
  <2>1. \A j \in Instances : row[j].status = "running" => row'[j].status = "running"
    BY <1>4, <1>8
  <2>2. LiveOnArrival(c)
    BY <1>1, <1>3, <1>4 DEF LiveOnArrival
  <2> QED BY <1>1, <1>2, <2>1, <2>2, InWorkOnArrival
<1>10. Events'
  <2>1. Claimable' = Claimable
    <3>1. \A j \in Instances : row'[j].status = "completed" <=> row[j].status = "completed"
      BY <1>4, <1>8
    <3> QED BY <3>1 DEF Claimable
  <2>2. SettleOrder' = SettleOrder
    BY <1>1, <2>1 DEF SettleOrder
  <2> QED BY <1>1, <1>2, <2>2 DEF Events
<1>11. Types'
  <2>1. count' \in [Sites -> Nat]
    BY <1>1, <1>2, CallArrives
  <2> QED BY <1>1, <1>2, <1>4, <1>6, <1>9, <2>1 DEF Types, held
<1> QED BY <1>4, <1>6, <1>7, <1>9, <1>10, <1>11 DEF IInv

LEMMA PublishKeeps == ASSUME IInv, NEW c \in Calls, Publish(c) PROVE IInv'
<1> DEFINE is == IF Kind[Instance(c)[1]] = "declare" THEN <<Instance(c)>> ELSE <<>>
<1>1. /\ Arrives(c) /\ row[Instance(c)] = NoRow /\ ~Answered(c)
      /\ row' = [row EXCEPT ![Instance(c)] = [call |-> c, status |-> "completed"]]
      /\ log' = LogAll(is)
      /\ UNCHANGED <<live, status, held, toChild, alive, told, lives>>
  BY DEF Publish, Arrives, Logged
<1>2. Types /\ Schedule /\ Journal /\ Events /\ Table /\ Pipes /\ InWork
  BY DEF IInv
<1>3. PICK i \in Instances : i = Instance(c) /\ i \notin Asks
  BY <1>1, <1>2, CallArrives
<1>4. /\ Heard' = Heard /\ Prompts' = Prompts /\ Course' = Course /\ \A p : Place(p)' = Place(p)
      /\ Schedule' /\ Journal' /\ row' \in [Instances -> Rows]
      /\ \A j \in Instances : row[j] # NoRow \/ j = i => row'[j] # NoRow
      /\ \A j \in Instances : j # i => row'[j] = row[j]
      /\ row'[i] = [call |-> c, status |-> "completed"]
      /\ \A k \in 1 .. Len(told) : told[k] # i
  BY <1>1, <1>2, <1>3, JournalOnFresh
<1>5. Sent' = Sent
  BY <1>1 DEF Sent, held
<1>6. Pipes' /\ toParent' \in Seq(Calls)
  BY <1>1, <1>2, <1>3, <1>4, <1>5, PipesOnArrival
<1>7. Table'
  BY <1>1, <1>2, <1>3, <1>4, TableOnArrival
<1>8. row[i].status # "running" /\ row[i].status # "completed"
  BY <1>1, <1>3 DEF NoRow
<1>9. InWork' /\ live' \in Seq(Instances)
  <2>1. \A j \in Instances : row[j].status = "running" => row'[j].status = "running"
    BY <1>4, <1>8
  <2>2. LiveOnArrival(c) /\ Arrives(c)
    BY <1>1 DEF LiveOnArrival
  <2> QED BY ONLY <1>2, <2>1, <2>2, c \in Calls, InWorkOnArrival
<1>10. is \in Seq(Instances) /\ log \in Seq(Instances)
  BY <1>2, <1>3 DEF Types
<1>11. \A n \in 1 .. Len(is) : is[n] = i
  <2>1. Len(<<>>) = 0 /\ Len(<<i>>) = 1 /\ <<i>>[1] = i
    OBVIOUS
  <2> QED BY <1>3, <2>1
<1>12. log' \in Seq(Instances)
  BY <1>1, <1>10, LoggedType
<1>13. log' = log \/ log' = LogFirst(log, i)
  BY <1>1, <1>3, <1>10, LoggedNone, LoggedOne
<1> HIDE DEF is
<1>14. Events'
  <2>1. Claimable' = Claimable
    <3>1. \A j \in Instances : ClaimsOnReplay(j) <=> j \in Asks
      BY DEF ClaimsOnReplay, Asks
    <3>2. \A j \in Asks : j \in Instances /\ j # i
      BY <1>3 DEF Asks
    <3>3. \A j \in Asks : row'[j] = row[j]
      BY <1>4, <3>2
    <3> QED BY <3>1, <3>3 DEF Claimable
  <2>2. i \notin Claimable
    BY <1>3 DEF Claimable, ClaimsOnReplay, Asks
  <2>3. LogKeeps(is, Claimable)
    BY <1>11, <2>2 DEF LogKeeps
  <2>4. SettleOrder' = SettleOrder
    BY <1>1, <1>10, <2>1, <2>3, LoggedIsKept DEF SettleOrder
  <2> QED BY <1>1, <1>2, <2>4 DEF Events
<1>15. Types'
  <2>1. count' \in [Sites -> Nat]
    BY <1>1, <1>2, CallArrives
  <2> QED BY <1>1, <1>2, <1>4, <1>6, <1>9, <1>12, <2>1 DEF Types, held
<1> QED BY <1>4, <1>6, <1>7, <1>9, <1>14, <1>15 DEF IInv

\* The answers that are released: those up to the first one that is not waiting.
LEMMA Between ==
    ASSUME NEW x \in Seq(Instances), NEW C \in Nat, NEW R \in Nat, C <= R, R <= Len(x)
    PROVE  /\ SubSeq(x, C + 1, R) \in Seq(Instances) /\ Len(SubSeq(x, C + 1, R)) = R - C
           /\ \A j \in 1 .. R - C : SubSeq(x, C + 1, R)[j] = x[C + j]
<1>1. PICK L \in Nat : L = Len(x)
  BY LenProperties
<1>2. C + 1 \in 1 .. L + 1 /\ R \in (C + 1) - 1 .. L
  BY <1>1
<1>3. /\ SubSeq(x, C + 1, R) \in Seq(Instances)
      /\ Len(SubSeq(x, C + 1, R)) = IF C + 1 <= R THEN R - (C + 1) + 1 ELSE 0
      /\ \A j \in 1 .. R - (C + 1) + 1 : SubSeq(x, C + 1, R)[j] = x[(C + 1) + j - 1]
  BY <1>1, <1>2, SubSeqProperties
<1> QED BY <1>3

Reached(n, waiting) ==
    /\ \A p \in (cursor + 1) .. n : order[p] \in waiting
    /\ n = Len(order) \/ order[n + 1] \notin waiting

LEMMA ReachExists ==
    ASSUME cursor \in Nat, NEW O \in Nat, O = Len(order), cursor <= O, NEW waiting
    PROVE  \E n \in cursor .. O : Reached(n, waiting)
<1> DEFINE E == {n \in cursor .. O : n = O \/ order[n + 1] \notin waiting}
<1>1. E \in SUBSET Nat /\ O \in E
  OBVIOUS
<1>2. PICK n \in E : \A m \in E : n <= m
  BY <1>1, Least
<1>3. n \in cursor .. O /\ (n = O \/ order[n + 1] \notin waiting)
  OBVIOUS
<1>4. ASSUME NEW p \in (cursor + 1) .. n PROVE order[p] \in waiting
  <2>1. PICK q \in cursor .. O : q = p - 1 /\ q < n
    <3>1. p - 1 \in cursor .. O /\ p - 1 < n
      BY <1>3
    <3> QED BY <3>1
  <2>2. q \notin E
    <3>1. q \in Nat /\ n \in Nat /\ ~(n <= q)
      BY <2>1
    <3> QED BY <1>2, <3>1
  <2>3. order[q + 1] \in waiting /\ q + 1 = p
    BY <2>1, <2>2
  <2> QED BY <2>3
<1> QED BY <1>3, <1>4 DEF Reached

\* A recorded answer that is asked for waits for its turn; if it is its turn, it is released
\* with those that have waited for it.
LEMMA TableOnPump ==
    ASSUME Types, Schedule, Journal, Table, Pipes, NEW c \in Calls, Arrives(c),
           NEW K \in 1 .. Len(told), told[K] = Instance(c), Pump(parked \cup {Instance(c)})
    PROVE  /\ Table' /\ Sent' = Sent
           /\ order' = order /\ cursor' \in 0 .. Len(order) /\ parked' \subseteq Instances
           /\ queue' \in Seq(Instances)
<1>1. PICK i \in Instances : i = Instance(c) /\ i = told[K]
  BY CallArrives
<1>2. PICK T \in Nat : T = Len(told)
  BY Numbers
<1>3. PICK O \in Nat : O = Len(order) /\ O <= T
  BY <1>2, Numbers
<1>4. PICK C \in Nat : C = cursor /\ C <= O
  BY <1>3, Numbers
<1>5. PICK Q \in Nat : Q = Len(queue) /\ Q <= C
  BY <1>4, Numbers DEF Table
<1> DEFINE waiting == parked \cup {i}
           Then(j) == j[2] <= count'[j[1]]
<1>6. \A j \in Instances : Then(j) <=> Called(j) \/ j = i
  <2>1. \A j \in Instances : Called(j)' <=> Called(j) \/ j = i
    BY <1>1, CallArrives
  <2> QED BY <2>1 DEF Called
<1>7. K \in C + 1 .. O
  <2>1. ~Called(told[K])
    BY <1>1, CallArrives
  <2>2. ~(K <= C \/ K > O)
    BY <1>3, <1>4, <2>1 DEF Table
  <2>3. K \in 1 .. T
    BY <1>2
  <2> QED BY <2>2, <2>3
<1>8. O = T
  <2>1. ~(O < T)
    BY <1>2, <1>3, <1>4, <1>7 DEF Table
  <2> QED BY <1>3, <2>1
<1>9. \A k \in 1 .. O : order[k] = told[k] /\ told[k] \in Instances /\ order[k] \in Instances
  BY <1>2, <1>3, <1>8, HeardShape DEF Table
<1>10. \A k, l \in 1 .. O : order[k] = order[l] => k = l
  <2>1. \A k \in 1 .. T : Heard[k] = row[told[k]].call
    BY <1>2, HeardShape
  <2>2. \A k, l \in 1 .. T : Heard[k] = Heard[l] => k = l
    BY <1>2 DEF Schedule
  <2>3. \A k, l \in 1 .. T : told[k] = told[l] => k = l
    BY <2>1, <2>2
  <2> QED BY <1>8, <1>9, <2>3
<1>11. order[K] = i
  BY <1>1, <1>7, <1>9
<1>12. C + 1 .. O \subseteq 1 .. O
  OBVIOUS
<1>13. \A k \in C + 1 .. O : order[k] \in waiting <=> Then(order[k])
  <2>1. \A k \in C + 1 .. O : order[k] \in parked <=> Called(order[k])
    BY <1>3, <1>4 DEF Table
  <2> QED BY <1>6, <1>9, <1>12, <2>1
<1>14. PICK R \in C .. O : /\ cursor' = R /\ Reached(R, waiting)
                           /\ parked' = waiting \ {order[p] : p \in (cursor + 1) .. R}
                           /\ queue' = queue \o SubSeq(order, cursor + 1, R)
                           /\ order' = order
  <2> DEFINE reach == CHOOSE n \in cursor .. Len(order) : Reached(n, waiting)
  <2>1. /\ cursor' = reach
        /\ parked' = waiting \ {order[p] : p \in (cursor + 1) .. reach}
        /\ queue' = queue \o SubSeq(order, cursor + 1, reach)
        /\ order' = order
    BY <1>1 DEF Pump, Reached
  <2>2. \E n \in C .. O : Reached(n, waiting)
    BY <1>3, <1>4, ReachExists
  <2>3. reach \in C .. O /\ Reached(reach, waiting)
    BY <1>3, <1>4, <2>2
  <2> HIDE DEF reach
  <2> QED BY <2>1, <2>3
<1> HIDE DEF waiting, Then
<1>15. R \in Nat /\ C <= R /\ R <= O
  OBVIOUS
<1>16. PICK d \in Nat : d = R - C
  BY <1>15
<1>17. PICK z \in Seq(Instances) : /\ z = SubSeq(order, C + 1, R) /\ Len(z) = d
                                   /\ \A j \in 1 .. d : z[j] = order[C + j]
  <2>1. order \in Seq(Instances) /\ R <= Len(order)
    BY <1>3, <1>15 DEF Types
  <2>2. /\ SubSeq(order, C + 1, R) \in Seq(Instances) /\ Len(SubSeq(order, C + 1, R)) = R - C
        /\ \A j \in 1 .. R - C : SubSeq(order, C + 1, R)[j] = order[C + j]
    BY ONLY C \in Nat, <1>15, <2>1, Between
  <2>3. PICK z \in Seq(Instances) : z = SubSeq(order, C + 1, R)
    BY <2>2
  <2> QED BY <1>16, <2>2, <2>3
<1>18. PICK u \in Seq(Instances) :
          /\ u = queue' /\ Len(u) = Q + d
          /\ \A k \in 1 .. Q + d : u[k] = IF k <= Q THEN queue[k] ELSE z[k - Q]
  <2>1. queue \in Seq(Instances) /\ queue' = queue \o z
    BY <1>4, <1>14, <1>17 DEF Types
  <2>2. /\ queue \o z \in Seq(Instances) /\ Len(queue \o z) = Len(queue) + Len(z)
        /\ \A k \in 1 .. Len(queue) + Len(z) :
              (queue \o z)[k] = IF k <= Len(queue) THEN queue[k] ELSE z[k - Len(queue)]
    BY <2>1, ConcatProperties
  <2>3. Len(queue) = Q /\ Len(z) = d
    BY <1>5, <1>17
  <2> QED BY <2>1, <2>2, <2>3
<1>19. \A k \in 1 .. Q + d : u[k] = order[R - (Q + d) + k]
  <2> SUFFICES ASSUME NEW k \in 1 .. Q + d PROVE u[k] = order[R - (Q + d) + k]
    OBVIOUS
  <2>1. R - (Q + d) + k = C - Q + k
    BY <1>16
  <2>2. CASE k <= Q
    <3>1. k \in 1 .. Q
      BY <2>2
    <3>2. queue[k] = order[C - Q + k]
      BY <1>4, <1>5, <3>1 DEF Table
    <3> QED BY <1>18, <2>1, <2>2, <3>2
  <2>3. CASE ~(k <= Q)
    <3>1. k - Q \in 1 .. d /\ C + (k - Q) = C - Q + k
      BY <2>3
    <3>2. z[k - Q] = order[C + (k - Q)]
      BY <1>17, <3>1
    <3> QED BY <1>18, <2>1, <2>3, <3>1, <3>2
  <2> QED BY <2>2, <2>3
<1>20. \A k \in 1 .. T : k <= R \/ k > O => Then(told[k])
  <2> SUFFICES ASSUME NEW k \in 1 .. T, k <= R PROVE Then(told[k])
    BY <1>8
  <2>1. CASE k <= C
    <3>1. Called(told[k])
      BY <1>2, <1>4, <2>1 DEF Table
    <3> QED BY <1>6, <1>8, <1>9, <3>1
  <2>2. CASE ~(k <= C)
    <3>1. k \in C + 1 .. R /\ k \in C + 1 .. O /\ k \in 1 .. O
      BY <1>8, <1>15, <2>2
    <3>2. order[k] \in waiting
      BY <1>4, <1>14, <3>1 DEF Reached
    <3> QED BY <1>9, <1>13, <3>1, <3>2
  <2> QED BY <2>1, <2>2
<1>21. PICK passed : passed = {order[p] : p \in C + 1 .. R} /\ parked' = waiting \ passed
  BY <1>4, <1>14
<1>22. \A k \in R + 1 .. O : order[k] \notin passed
  <2> SUFFICES ASSUME NEW k \in R + 1 .. O, NEW p \in C + 1 .. R, order[k] = order[p] PROVE FALSE
    BY <1>21
  <2>1. k \in 1 .. O /\ p \in 1 .. O /\ k # p
    BY <1>15
  <2> QED BY <1>10, <2>1
<1>23. \A k \in R + 1 .. O : order[k] \in parked' <=> Then(order[k])
  <2>1. R + 1 .. O \subseteq C + 1 .. O
    BY <1>15
  <2> QED BY <1>13, <1>21, <1>22, <2>1
<1>24. parked' \subseteq {order[k] : k \in R + 1 .. O}
  <2> SUFFICES ASSUME NEW x \in waiting, x \notin passed PROVE \E k \in R + 1 .. O : x = order[k]
    BY <1>21
  <2>1. PICK k \in C + 1 .. O : x = order[k]
    <3>1. x \in parked \/ x = i
      BY DEF waiting
    <3>2. x \in parked => x \in {order[l] : l \in C + 1 .. O}
      BY <1>3, <1>4 DEF Table
    <3> QED BY <1>7, <1>11, <3>1, <3>2
  <2>2. k \notin C + 1 .. R
    BY <1>21, <2>1
  <2>3. k \in R + 1 .. O
    BY <1>15, <2>2
  <2> QED BY <2>1, <2>3
<1>25. R < O => order[R + 1] \notin parked'
  <2>1. R < O => order[R + 1] \notin waiting
    BY <1>3, <1>14, <1>15 DEF Reached
  <2> QED BY <1>21, <2>1
<1>26. parked' \subseteq Instances
  <2>1. R + 1 .. O \subseteq 1 .. O
    BY <1>15
  <2> QED BY <1>9, <1>24, <2>1
<1>27. told' = told
  BY DEF Arrives
<1>28. Sent' = Sent
  <2>1. Sent' = T - (O - R) - (Q + d)
    BY <1>2, <1>3, <1>14, <1>18, <1>27 DEF Sent
  <2>2. Sent = T - (O - C) - Q
    BY <1>2, <1>3, <1>4, <1>5 DEF Sent
  <2>3. T - (O - R) - (Q + d) = T - (O - C) - Q
    BY <1>15, <1>16
  <2> QED BY <2>1, <2>2, <2>3
<1>29. Table'
  <2>1. Q + d <= R
    BY <1>5, <1>15, <1>16
  <2>2. /\ Len(order') = O /\ Len(told') = T /\ Len(queue') = Q + d /\ cursor' = R
    BY <1>2, <1>3, <1>14, <1>18, <1>27
  <2>3. \A k \in 1 .. O : order'[k] = told'[k]
    BY <1>9, <1>14, <1>27
  <2>4. \A k \in 1 .. Q + d : queue'[k] = order'[R - (Q + d) + k]
    BY <1>14, <1>18, <1>19
  <2>5. \A k \in 1 .. T : k <= R \/ k > O => Then(told'[k])
    BY <1>20, <1>27
  <2>6. \A k \in R + 1 .. O : order'[k] \in parked' <=> Then(order'[k])
    BY <1>14, <1>23
  <2>7. parked' \subseteq {order'[k] : k \in R + 1 .. O}
    BY <1>14, <1>24
  <2>8. R < O => order'[R + 1] \notin parked'
    BY <1>14, <1>25
  <2>9. O <= T /\ ~(O < T)
    BY <1>8
  <2> QED BY <2>1, <2>2, <2>3, <2>4, <2>5, <2>6, <2>7, <2>8, <2>9 DEF Table, Called, Then
<1>30. R \in 0 .. O
  BY <1>15
<1> QED BY <1>3, <1>14, <1>18, <1>26, <1>28, <1>29, <1>30

\* A row found under a call's identity is the row of this call.
LEMMA CallRecordedKeeps == ASSUME IInv, NEW c \in Calls, CallRecorded(c) PROVE IInv'
<1>1. Arrives(c) /\ row[Instance(c)] # NoRow /\ UNCHANGED <<row, alive, told, lives>>
  BY DEF CallRecorded, Arrives
<1>2. Types /\ Schedule /\ Journal /\ Events /\ Table /\ Pipes /\ InWork
  BY DEF IInv
<1>3. PICK i \in Instances : i = Instance(c) /\ (i \in Asks <=> Answered(c))
  BY <1>1, <1>2, CallArrives
<1>4. row[i].call = c
  <2>1. /\ Arrived + 1 \in 1 .. Len(Course) /\ c = Course[Arrived + 1]
        /\ i = Place(Arrived + 1)
    BY <1>1, <1>2, <1>3, CallArrives
  <2>2. row[Place(Arrived + 1)] # NoRow
    BY <1>1, <1>3, <2>1
  <2>3. row[Place(Arrived + 1)].call = Course[Arrived + 1]
    BY <1>2, <2>1, <2>2 DEF Journal
  <2> QED BY <2>1, <2>3
<1>5. row[i].status \in {"running", "completed"}
  BY <1>1, <1>2, <1>3, RowShape
<1>6. /\ Heard' = Heard /\ Prompts' = Prompts /\ Course' = Course /\ \A p : Place(p)' = Place(p)
      /\ Schedule' /\ Journal'
  BY <1>1, <1>2, JournalStays
<1>7. row' \in [Instances -> Rows] /\ count' \in [Sites -> Nat]
  BY <1>1, <1>2, CallArrives DEF Types
<1>8. \A j \in Instances : row[j] # NoRow \/ j = Instance(c) => row'[j] # NoRow
  BY <1>1
<1>9. \A j \in Instances : row[j].status = "running" => row'[j].status = "running"
  BY <1>1
<1>10. status' = status
  BY <1>3, <1>4 DEF CallRecorded
\* Nobody waits for the answer, or it is still to come.
<1>11. CASE \A k \in 1 .. Len(told) : told[k] # i
  <2>1. ~Answered(c) \/ row[i].status = "running"
    <3>1. row[i].status = "completed" => i \notin Asks
      BY <1>2, <1>11 DEF Schedule
    <3> QED BY <1>3, <1>5, <3>1
  <2>2. /\ UNCHANGED <<log, held, toChild>>
        /\ live' = live \/ (live' = Append(live, i) /\ Answered(c) /\ row[i].status = "running")
    BY <1>3, <1>4, <2>1 DEF CallRecorded
  <2>3. Sent' = Sent
    BY <1>1, <2>2 DEF Sent, held
  <2>4. Pipes' /\ toParent' \in Seq(Calls)
    BY <1>1, <1>2, <1>6, <1>8, <2>2, <2>3, PipesOnArrival
  <2>5. Table'
    BY <1>1, <1>2, <1>3, <1>11, <2>2, TableOnArrival
  <2>6. InWork' /\ live' \in Seq(Instances)
    <3>1. LiveOnArrival(c)
      BY <1>1, <1>3, <2>2 DEF LiveOnArrival
    <3> QED BY ONLY <1>1, <1>2, <1>9, <3>1, c \in Calls, InWorkOnArrival
  <2>7. Events'
    BY <1>1, <1>2, <1>10, <2>2, EventsStay
  <2>8. Types'
    BY <1>1, <1>2, <1>7, <1>10, <2>2, <2>4, <2>6 DEF Types, held
  <2> QED BY <1>6, <2>4, <2>5, <2>6, <2>7, <2>8 DEF IInv
\* The answer of the recorded ask stands in the table.
<1>12. CASE ~(\A k \in 1 .. Len(told) : told[k] # i)
  <2>1. PICK K \in 1 .. Len(told) : told[K] = i
    BY <1>12
  <2>2. i \in Asks /\ row[i].status = "completed"
    BY <1>2, <2>1 DEF Schedule
  <2>3. ~LetThrough(i)
    <3>1. PICK O \in Nat : O = Len(order) /\ O <= Len(told)
      BY <1>2, Numbers
    <3>2. PICK C \in Nat : C = cursor
      BY <1>2, Numbers
    <3>3. PICK k \in Nat : k = K /\ k >= 1
      BY <1>2, HeardShape
    <3>4. ~Called(told[K])
      BY <1>1, <1>2, <1>3, <2>1, CallArrives
    <3>5. ~(k <= C \/ k > O)
      BY <1>2, <3>1, <3>2, <3>3, <3>4 DEF Table
    <3>6. k \in 1 .. O /\ ~(k <= C)
      BY <3>3, <3>5
    <3>7. order[k] = i
      BY <1>2, <2>1, <3>1, <3>3, <3>6 DEF Table
    <3>8. DOMAIN order = 1 .. O
      BY <1>2, <3>1, LenProperties DEF Types
    <3> QED BY <3>2, <3>6, <3>7, <3>8 DEF LetThrough
  <2>4. Pump(parked \cup {Instance(c)}) /\ UNCHANGED <<log, live, toChild>>
    BY <1>3, <1>4, <2>2, <2>3 DEF CallRecorded
  <2>5. /\ Table' /\ Sent' = Sent
        /\ order' = order /\ cursor' \in 0 .. Len(order) /\ parked' \subseteq Instances
        /\ queue' \in Seq(Instances)
    BY <1>1, <1>2, <1>3, <2>1, <2>4, TableOnPump
  <2>6. Pipes' /\ toParent' \in Seq(Calls)
    BY <1>1, <1>2, <1>6, <1>8, <2>4, <2>5, PipesOnArrival
  <2>7. InWork' /\ live' \in Seq(Instances)
    <3>1. LiveOnArrival(c)
      BY <2>4 DEF LiveOnArrival
    <3> QED BY ONLY <1>1, <1>2, <1>9, <3>1, c \in Calls, InWorkOnArrival
  <2>8. Events'
    BY <1>1, <1>2, <1>10, <2>4, EventsStay
  <2>9. Types'
    BY <1>1, <1>2, <1>7, <1>10, <2>4, <2>5, <2>6, <2>7 DEF Types
  <2> QED BY <1>6, <2>5, <2>6, <2>7, <2>8, <2>9 DEF IInv
<1> QED BY <1>11, <1>12

-----------------------------------------------------------------------------
(* A live ask is answered.  All recorded calls were made again before, so  *)
(* the table is exhausted: the script is told something new.               *)

Answering(i) ==
    /\ queue = <<>> /\ Owed = {} /\ ~Contains(log, i) /\ i \in Asks /\ row[i].status = "running" /\ Called(i)
    /\ row' = [row EXCEPT ![i].status = "completed"]
    /\ told' = Append(told, i)
    /\ UNCHANGED <<status, alive, count, held, toParent, lives>>
    /\ log' = LogFirst(log, i)
    /\ live' = Selected(live, Instances \ {i})
    /\ toChild' = Append(toChild, row[i].call)

LEMMA SettleAnswers ==
    ASSUME IInv, NEW i \in Instances, Settle(i), ~disturbed'
    PROVE  Answering(i)
<1>1. /\ queue = <<>> /\ Contains(live, i)
      /\ row' = [row EXCEPT ![i].status = "completed"]
      /\ UNCHANGED <<status, count, held, toParent, lives>>
  BY DEF Settle
<1>2. /\ Logged(<<i>>) /\ told' = Append(told, i) /\ live' = Selected(live, Instances \ {i})
      /\ Respond(<<i>>) /\ UNCHANGED alive
      /\ Owed = {} /\ ~Contains(log, i)
  BY DEF Settle, OutOfPlace
<1>3. log \in Seq(Instances) /\ live \in Seq(Instances) /\ toChild \in Seq(Calls)
      /\ Types /\ Schedule /\ Journal /\ InWork
  BY DEF IInv, Types
<1>4. log' = LogFirst(log, i)
  BY <1>2, <1>3, LoggedOne DEF Logged
<1>5. PICK n \in 1 .. Len(live) : live[n] = i
  BY <1>1, <1>3 DEF Contains
<1>6. i \in Asks /\ row[i].status = "running" /\ Called(i)
  BY <1>3, <1>5 DEF InWork
<1>7. toChild' = Append(toChild, row[i].call)
  <2>1. row[i].call \in Calls
    BY <1>3, <1>6, RowShape
  <2>2. [j \in DOMAIN <<i>> |-> row[<<i>>[j]].call] = <<row[i].call>>
    OBVIOUS
  <2>3. toChild' = toChild \o <<row[i].call>>
    BY <1>2, <2>2 DEF Respond
  <2>4. toChild \o <<row[i].call>> = Append(toChild, row[i].call)
    BY <1>3, <2>1, AppendIsConcat
  <2> QED BY <2>3, <2>4
<1> QED BY <1>1, <1>2, <1>4, <1>6, <1>7 DEF Answering

\* Nothing that was told live is waited for, and all of the table was claimed.
LEMMA AllClaimed ==
    ASSUME Types, Schedule, Journal, Table, Pipes, NEW i, Answering(i)
    PROVE  /\ cursor = Len(order) /\ Sent = Len(told)
           /\ \A k \in 1 .. Len(told) : Called(told[k])
<1>1. PICK O \in Nat : O = Len(order) /\ O <= Len(told)
  BY Numbers
<1>2. PICK C \in Nat : C = cursor /\ C <= O
  BY <1>1, Numbers
<1>3. PICK T \in Nat : T = Len(told)
  BY Numbers
<1>4. \A j \in Instances : j[2] \in Nat /\ j[1] \in Sites
  BY CallsFinite DEF Instances
<1>5. \A j \in Instances : row[j] # NoRow => Called(j)
  <2>1. \A j \in Instances : row[j] # NoRow => ~(j[2] > count[j[1]])
    BY DEF Answering, Owed
  <2>2. \A j \in Instances : count[j[1]] \in Nat
    BY <1>4 DEF Types
  <2> QED BY <1>4, <2>1, <2>2 DEF Called
<1>6. ASSUME NEW k \in 1 .. T PROVE Called(told[k])
  <2>1. told[k] \in Instances /\ row[told[k]].status = "completed"
    BY <1>3, HeardShape DEF Schedule
  <2>2. row[told[k]] # NoRow
    BY <2>1 DEF NoRow
  <2> QED BY <1>5, <2>1, <2>2
<1>7. C = O
  <2>1. SUFFICES ASSUME C < O PROVE FALSE
    BY <1>2
  <2>2. C + 1 \in C + 1 .. O /\ C + 1 \in 1 .. O /\ C + 1 \in 1 .. T
    BY <1>1, <1>3, <2>1
  <2>3. order[C + 1] = told[C + 1]
    BY <1>1, <2>2 DEF Table
  <2>4. Called(order[C + 1])
    BY <1>6, <2>2, <2>3
  <2>5. order[C + 1] \in parked
    BY <1>1, <1>2, <2>2, <2>4 DEF Table
  <2> QED BY <1>1, <1>2, <2>1, <2>5 DEF Table
<1>8. Sent = T
  <2>1. Len(queue) = 0
    BY DEF Answering
  <2>2. Sent = T - (O - O) - 0
    BY <1>1, <1>2, <1>3, <1>7, <2>1 DEF Sent
  <2> QED BY <2>2
<1> QED BY <1>1, <1>2, <1>3, <1>6, <1>7, <1>8

LEMMA RowsOnAnswer ==
    ASSUME Types, Schedule, Journal, NEW i \in Instances, Answering(i)
    PROVE  /\ row' \in [Instances -> Rows] /\ row[i] # NoRow
           /\ \A j \in Instances : row'[j].call = row[j].call /\ (row'[j] # NoRow <=> row[j] # NoRow)
           /\ \A j \in Instances : j # i => row'[j] = row[j]
           /\ row'[i].status = "completed"
           /\ row[i].call \in Calls /\ Answered(row[i].call)
           /\ \A k \in 1 .. Len(told) : told[k] # i /\ Heard[k] # row[i].call
<1>1. /\ i \in Asks /\ row[i].status = "running"
      /\ row' = [row EXCEPT ![i].status = "completed"]
  BY DEF Answering
<1>2. row \in [Instances -> Rows]
  BY DEF Types
<1>3. row[i] # NoRow /\ row[i].call \in Calls
  BY <1>1, RowShape
<1>4. PICK v \in [call : Calls, status : {"running", "completed"}] : v = row[i]
  BY <1>2, <1>3 DEF Rows
<1>5. PICK z \in [call : Calls, status : {"running", "completed"}] :
         z = [v EXCEPT !.status = "completed"] /\ z.call = v.call /\ z.status = "completed"
  <2>1. v = [call |-> v.call, status |-> v.status] /\ v.call \in Calls
    BY <1>4
  <2> DEFINE z == [call |-> v.call, status |-> "completed"]
  <2>2. z \in [call : Calls, status : {"running", "completed"}]
    BY <2>1
  <2>3. [v EXCEPT !.status = "completed"] = z
    BY <2>1
  <2>4. z.call = v.call /\ z.status = "completed"
    OBVIOUS
  <2> QED BY <2>2, <2>3, <2>4
<1>6. row' = [row EXCEPT ![i] = z]
  BY <1>1, <1>4, <1>5
<1>7. z \in Rows /\ z # NoRow
  BY <1>5 DEF Rows, NoRow
<1>8. row' \in [Instances -> Rows] /\ row'[i] = z /\ \A j \in Instances : j # i => row'[j] = row[j]
  BY <1>2, <1>6, <1>7
<1>9. \A j \in Instances : row'[j].call = row[j].call /\ (row'[j] # NoRow <=> row[j] # NoRow)
  BY <1>3, <1>4, <1>5, <1>7, <1>8
<1>10. Answered(row[i].call)
  BY <1>1, <1>3, RowKnows
<1>11. ASSUME NEW k \in 1 .. Len(told) PROVE told[k] # i /\ Heard[k] # row[i].call
  <2>1. told[k] \in Instances /\ Heard[k] = row[told[k]].call /\ row[told[k]].status = "completed"
    BY HeardShape DEF Schedule
  <2>2. told[k] # i
    BY <1>1, <2>1
  <2>3. row[told[k]] # NoRow
    BY <2>1 DEF NoRow
  <2>4. PICK p \in 1 .. Len(Course) : Place(p) = i /\ row[i].call = Course[p]
    BY <1>3, RowKnows
  <2>5. PICK q \in 1 .. Len(Course) : Place(q) = told[k] /\ row[told[k]].call = Course[q]
    BY <2>1, <2>3, RowKnows
  <2>6. Course[p] = Course[q] => p = q
    BY CourseOnce DEF Once
  <2> QED BY <2>1, <2>2, <2>4, <2>5, <2>6
<1> QED BY <1>3, <1>5, <1>8, <1>9, <1>10, <1>11

\* The course goes on.
LEMMA CourseOnAnswer ==
    ASSUME Types, Schedule, Journal, NEW i \in Instances, Answering(i)
    PROVE  /\ Heard' \in Seq(Calls) /\ Len(Heard') = Len(told) + 1
           /\ \A k \in 1 .. Len(told) : Heard'[k] = Heard[k]
           /\ Heard'[Len(told) + 1] = row[i].call
           /\ Len(told') = Len(told) + 1 /\ told' \in Seq(Instances)
           /\ \A k \in 1 .. Len(told) : told'[k] = told[k]
           /\ told'[Len(told) + 1] = i
           /\ Prompts' \in Seq(Cues) /\ Len(Prompts') = Len(Prompts) + 1
           /\ \A m \in 0 .. Len(Prompts) : Stream(Prompts')[m] = Stream(Prompts)[m]
           /\ Course' \in Seq(Calls) /\ Len(Course') \in Nat /\ Len(Course) <= Len(Course')
           /\ \A p \in 1 .. Len(Course) : Course'[p] = Course[p] /\ Place(p)' = Place(p)
           /\ \A p \in 1 .. Len(Course') : Place(p)' \in Instances
           /\ \A p, q \in 1 .. Len(Course') : Place(p)' = Place(q)' => p = q
<1>1. PICK T \in Nat : T = Len(told)
  BY HeardShape
<1>2. PICK S \in Nat : S = Len(Script) /\ Len(Prompts) = S + T
  BY <1>1, CuesShape, PromptsShape
<1>3. PICK d \in Calls : d = row[i].call
  BY RowsOnAnswer
<1>4. PICK u \in Seq(Instances) : /\ u = told' /\ Len(u) = T + 1 /\ u[T + 1] = i
                                  /\ \A k \in 1 .. T : u[k] = told[k]
  <2>1. told \in Seq(Instances) /\ told' = Append(told, i)
    BY DEF Types, Answering
  <2>2. /\ Append(told, i) \in Seq(Instances) /\ Len(Append(told, i)) = Len(told) + 1
        /\ \A k \in 1 .. Len(told) : Append(told, i)[k] = told[k]
        /\ Append(told, i)[Len(told) + 1] = i
    BY <2>1, AppendProperties
  <2> QED BY <1>1, <2>1, <2>2
<1>5. \A k \in 1 .. T : told[k] \in Instances /\ Heard[k] = row[told[k]].call /\ Heard[k] \in Calls
  BY <1>1, HeardShape
<1>6. \A j \in Instances : row'[j].call = row[j].call
  BY RowsOnAnswer
<1>7. \A k \in 1 .. T : row'[u[k]].call = Heard[k]
  BY <1>4, <1>5, <1>6
<1>8. row'[u[T + 1]].call = d
  BY <1>3, <1>4, <1>6
<1>9. Heard' = [k \in 1 .. T + 1 |-> row'[u[k]].call]
  BY <1>4 DEF Heard
<1>10. \A k \in 1 .. T + 1 : row'[u[k]].call \in Calls
  <2>1. \A k \in 1 .. T + 1 : k \in 1 .. T \/ k = T + 1
    OBVIOUS
  <2> QED BY <1>5, <1>7, <1>8, <2>1
<1>11. PICK h \in Seq(Calls) : /\ h = Heard' /\ Len(h) = T + 1 /\ h[T + 1] = d
                               /\ \A k \in 1 .. T : h[k] = Heard[k]
  <2>1. [k \in 1 .. T + 1 |-> row'[u[k]].call] \in Seq(Calls)
    BY <1>10
  <2>2. Len([k \in 1 .. T + 1 |-> row'[u[k]].call]) = T + 1
    OBVIOUS
  <2>3. T + 1 \in 1 .. T + 1 /\ \A k \in 1 .. T : k \in 1 .. T + 1
    OBVIOUS
  <2> QED BY <1>7, <1>8, <1>9, <2>1, <2>2, <2>3
<1>12. h \in Seq(Cues)
  <2>1. \A j \in 1 .. Len(h) : h[j] \in Cues
    BY ElementOfSeq, CuesShape
  <2>2. h = [j \in 1 .. Len(h) |-> h[j]] /\ Len(h) \in Nat
    BY LenProperties
  <2> QED BY <2>1, <2>2
<1>13. PICK x \in Seq(Cues) : /\ x = Prompts' /\ Len(x) = S + (T + 1)
                              /\ \A k \in 1 .. T + 1 : x[S + k] = h[k]
                              /\ \A k \in 1 .. S : x[k] = <<k, 0>>
  <2>1. Prompts' = Starts \o h
    BY <1>11 DEF Prompts, Starts
  <2>2. /\ Starts \o h \in Seq(Cues) /\ Len(Starts \o h) = Len(Script) + Len(h)
        /\ \A k \in 1 .. Len(h) : (Starts \o h)[Len(Script) + k] = h[k]
        /\ \A k \in 1 .. Len(Script) : (Starts \o h)[k] = <<k, 0>>
    BY <1>12, FirstCallsStream
  <2>3. PICK x \in Seq(Cues) : x = Starts \o h
    BY <2>2
  <2> QED BY <1>2, <1>11, <2>1, <2>2, <2>3
<1>14. PICK w \in Seq(Cues) : w = Prompts /\ Len(w) = S + T
  BY <1>2, PromptsShape
<1>15. \A k \in 1 .. S + T : x[k] = w[k]
  <2> SUFFICES ASSUME NEW k \in 1 .. S + T PROVE x[k] = w[k]
    OBVIOUS
  <2>1. CASE k <= S
    <3>1. k \in 1 .. S
      BY <2>1
    <3> QED BY <1>2, <1>13, <1>14, <3>1, PromptsShape
  <2>2. CASE ~(k <= S)
    <3>1. PICK l \in 1 .. T : k = S + l
      <4>1. k - S \in 1 .. T /\ k = S + (k - S)
        BY <2>2
      <4> QED BY <4>1
    <3>2. w[S + l] = Heard[l]
      BY <1>1, <1>2, <1>14, <3>1, PromptsShape
    <3>3. l \in 1 .. T + 1
      BY <3>1
    <3> QED BY <1>11, <1>13, <3>1, <3>2, <3>3
  <2> QED BY <2>1, <2>2
<1>16. ASSUME NEW m \in 0 .. S + T PROVE Stream(x)[m] = Stream(w)[m]
  <2>1. m \in 0 .. Len(w) /\ m <= Len(x) /\ \A k \in 1 .. m : w[k] = x[k]
    BY <1>13, <1>14, <1>15
  <2> QED BY <2>1, StreamAgrees
<1>17. PICK s \in Seq(Calls) : s = Course /\ s = Stream(x)[S + T]
  <2>1. S + T \in 0 .. S + T
    OBVIOUS
  <2> QED BY <1>14, <1>16, <2>1, PromptsShape DEF Course
<1>18. PICK y \in Seq(Calls) : /\ y = Course' /\ y = Stream(x)[S + (T + 1)]
                               /\ Len(s) <= Len(y) /\ \A p \in 1 .. Len(s) : y[p] = s[p]
  <2>1. /\ S + T \in 0 .. Len(x) /\ S + (T + 1) \in S + T .. Len(x)
        /\ S + (T + 1) \in 0 .. Len(x)
    BY <1>13
  <2>2. Course' = Stream(x)[S + (T + 1)]
    BY <1>13 DEF Course
  <2>3. Stream(x)[S + (T + 1)] \in Seq(Calls)
    BY <2>1, StreamType
  <2>4. /\ Len(Stream(x)[S + T]) <= Len(Stream(x)[S + (T + 1)])
        /\ \A k \in 1 .. Len(Stream(x)[S + T]) : Stream(x)[S + (T + 1)][k] = Stream(x)[S + T][k]
    BY <2>1, StreamGrows
  <2> QED BY <1>17, <2>2, <2>3, <2>4
<1>19. Cueing(x)
  <2>1. Cueing(w)
    BY <1>14, CourseOnce
  <2>2. Answered(d) /\ \A k \in 1 .. T : Heard[k] # d
    BY <1>1, <1>3, RowsOnAnswer
  <2>3. x[S + (T + 1)] = d
    <3>1. T + 1 \in 1 .. T + 1
      OBVIOUS
    <3> QED BY <1>11, <1>13, <3>1
  <2>4. \A k \in 1 .. S + T : x[k] # d
    <3> SUFFICES ASSUME NEW k \in 1 .. S + T PROVE x[k] # d
      OBVIOUS
    <3>1. CASE k <= S
      <4>1. x[k] = <<k, 0>>
        BY <1>13, <3>1
      <4>2. d = <<d[1], d[2]>> /\ d[2] \in 1 .. Len(Script[d[1]])
        BY CuesShape
      <4>3. d[2] # 0
        BY <4>2
      <4> QED BY <4>1, <4>2, <4>3
    <3>2. CASE ~(k <= S)
      <4>1. PICK l \in 1 .. T : k = S + l
        <5>1. k - S \in 1 .. T /\ k = S + (k - S)
          BY <3>2
        <5> QED BY <5>1
      <4>2. l \in 1 .. T + 1
        BY <4>1
      <4> QED BY <1>11, <1>13, <2>2, <4>1, <4>2
    <3> QED BY <3>1, <3>2
  <2>5. \A k \in 1 .. S + (T + 1) : k \in 1 .. S + T \/ k = S + (T + 1)
    OBVIOUS
  <2>6. \A j, k \in 1 .. S + T : x[j] = x[k] => j = k
    BY <1>14, <1>15, <2>1 DEF Cueing
  <2>7. \A j \in 1 .. S + T : x[j][2] = 0 \/ Answered(x[j])
    BY <1>14, <1>15, <2>1 DEF Cueing
  <2>8. \A j, k \in 1 .. S + (T + 1) : x[j] = x[k] => j = k
    BY <2>3, <2>4, <2>5, <2>6
  <2>9. \A j \in 1 .. S + (T + 1) : x[j][2] = 0 \/ Answered(x[j])
    BY <2>2, <2>3, <2>5, <2>7
  <2> QED BY <1>13, <2>8, <2>9 DEF Cueing
<1>20. Once(y)
  <2>1. S + (T + 1) \in 0 .. Len(x)
    BY <1>13
  <2> QED BY <1>18, <1>19, <2>1, StreamOnce
<1>21. \A p \in 1 .. Len(y) : PlaceIn(y, p) \in Instances
  BY <1>20, PlaceType
<1>22. PICK M \in Nat : M = Len(y)
  BY LenProperties
<1>23. PICK L \in Nat : L = Len(s) /\ L <= M
  BY <1>18, <1>22, LenProperties
<1>24. \A p, q \in 1 .. M : PlaceIn(y, p) = PlaceIn(y, q) => p = q
  <2>1. \A p \in 1 .. M : p \in Nat \ {0}
    OBVIOUS
  <2> QED BY <2>1, PlacesDiffer
<1>25. ASSUME NEW p \in 1 .. L PROVE PlaceIn(y, p) = PlaceIn(s, p)
  <2>1. p \in Nat \ {0} /\ \A k \in 1 .. p : k \in 1 .. L
    OBVIOUS
  <2>2. \A k \in 1 .. p : y[k] = s[k]
    BY <1>18, <1>23, <2>1
  <2> QED BY <2>1, <2>2, PlacesAgree
<1>26. \A p : Place(p) = PlaceIn(s, p) /\ Place(p)' = PlaceIn(y, p)
  BY <1>17, <1>18 DEF Place
<1>27. S + (T + 1) = (S + T) + 1
  OBVIOUS
<1>28. /\ Heard' \in Seq(Calls) /\ Len(Heard') = T + 1 /\ \A k \in 1 .. T : Heard'[k] = Heard[k]
       /\ Heard'[T + 1] = row[i].call
  BY <1>3, <1>11
<1>29. /\ Prompts' \in Seq(Cues) /\ Len(Prompts') = (S + T) + 1
       /\ \A m \in 0 .. S + T : Stream(Prompts')[m] = Stream(Prompts)[m]
  BY <1>13, <1>14, <1>16, <1>27
<1>30. /\ Course' \in Seq(Calls) /\ Len(Course') \in Nat /\ Len(Course) <= Len(Course')
       /\ \A p \in 1 .. Len(Course) : Course'[p] = Course[p] /\ Place(p)' = Place(p)
  BY <1>17, <1>18, <1>22, <1>23, <1>25, <1>26
<1>31. /\ \A p \in 1 .. Len(Course') : Place(p)' \in Instances
       /\ \A p, q \in 1 .. Len(Course') : Place(p)' = Place(q)' => p = q
  BY <1>18, <1>21, <1>22, <1>24, <1>26
<1> QED BY <1>1, <1>2, <1>4, <1>28, <1>29, <1>30, <1>31

LEMMA JournalOnAnswer ==
    ASSUME Types, Schedule, Journal, NEW i \in Instances, Answering(i)
    PROVE  Schedule' /\ Journal'
<1>1. PICK T \in Nat : T = Len(told)
  BY HeardShape
<1>2. /\ row[i] # NoRow
      /\ \A j \in Instances : row'[j].call = row[j].call /\ (row'[j] # NoRow <=> row[j] # NoRow)
      /\ \A j \in Instances : j # i => row'[j] = row[j]
      /\ row'[i].status = "completed"
      /\ \A k \in 1 .. T : told[k] # i /\ Heard[k] # row[i].call
  BY <1>1, RowsOnAnswer
<1>3. /\ Len(told') = T + 1 /\ told'[T + 1] = i
      /\ \A k \in 1 .. T : told'[k] = told[k] /\ Heard'[k] = Heard[k]
      /\ Heard'[T + 1] = row[i].call
  BY <1>1, CourseOnAnswer
<1>4. \A k \in 1 .. T + 1 : k \in 1 .. T \/ k = T + 1
  OBVIOUS
<1>5. i \in Asks
  BY DEF Answering
<1>6. \A k \in 1 .. T : told[k] \in Instances
  BY <1>1, HeardShape
<1>7. Schedule'
  <2>1. \A k \in 1 .. T : told'[k] \in Asks /\ row'[told'[k]].status = "completed"
    BY <1>1, <1>2, <1>3, <1>6 DEF Schedule
  <2>2. \A k \in 1 .. T + 1 : told'[k] \in Asks /\ row'[told'[k]].status = "completed"
    BY <1>2, <1>3, <1>4, <1>5, <2>1
  <2>3. \A k, l \in 1 .. T : Heard'[k] = Heard'[l] => k = l
    BY <1>1, <1>3 DEF Schedule
  <2>4. \A k \in 1 .. T : Heard'[k] # Heard'[T + 1]
    BY <1>2, <1>3
  <2>5. \A k, l \in 1 .. T + 1 : Heard'[k] = Heard'[l] => k = l
    BY <1>4, <2>3, <2>4
  <2>6. ASSUME NEW j \in Asks, row'[j].status = "completed" PROVE \E k \in 1 .. T + 1 : told'[k] = j
    <3>1. CASE j = i
      <4>1. T + 1 \in 1 .. T + 1
        OBVIOUS
      <4> QED BY <1>3, <3>1, <4>1
    <3>2. CASE j # i
      <4>1. row[j].status = "completed"
        BY <1>2, <2>6, <3>2 DEF Asks
      <4>2. PICK k \in 1 .. T : told[k] = j
        BY <1>1, <4>1 DEF Schedule
      <4>3. k \in 1 .. T + 1
        OBVIOUS
      <4> QED BY <1>3, <4>2, <4>3
    <3> QED BY <3>1, <3>2
  <2> QED BY <1>3, <2>2, <2>5, <2>6 DEF Schedule
<1>8. PICK L \in Nat : L = Len(Course)
  BY PromptsShape
<1>9. PICK M \in Nat : M = Len(Course') /\ L <= M
  BY <1>8, CourseOnAnswer
<1>10. /\ \A p \in 1 .. L : Course'[p] = Course[p] /\ Place(p)' = Place(p)
       /\ \A p \in 1 .. M : Place(p)' \in Instances
       /\ \A p, q \in 1 .. M : Place(p)' = Place(q)' => p = q
  BY <1>8, <1>9, CourseOnAnswer
<1>11. \A p \in 1 .. L : p \in 1 .. M
  BY <1>9
<1>12. Journal'
  <2>1. ASSUME NEW j \in Instances, row'[j] # NoRow PROVE \E p \in 1 .. M : Place(p)' = j
    <3>1. PICK p \in 1 .. L : Place(p) = j
      BY <1>2, <1>8, <2>1 DEF Journal
    <3> QED BY <1>10, <1>11, <3>1
  <2>2. ASSUME NEW p \in 1 .. M, row'[Place(p)'] # NoRow
        PROVE  row'[Place(p)'].call = Course'[p] /\ \A q \in 1 .. p : row'[Place(q)'] # NoRow
    <3>1. row[Place(p)'] # NoRow /\ Place(p)' \in Instances
      BY <1>2, <1>10, <2>2
    <3>2. PICK r \in 1 .. L : Place(r) = Place(p)'
      BY <1>8, <3>1 DEF Journal
    <3>3. r = p
      BY <1>10, <1>11, <3>2
    <3>4. row[Place(p)].call = Course[p] /\ \A q \in 1 .. p : row[Place(q)] # NoRow
      BY <1>8, <3>1, <3>2, <3>3 DEF Journal
    <3>5. \A q \in 1 .. p : q \in 1 .. L /\ q \in 1 .. M
      BY <1>11, <3>3
    <3> QED BY <1>2, <1>10, <3>1, <3>2, <3>3, <3>4, <3>5
  <2> QED BY <1>9, <2>1, <2>2 DEF Journal
<1> QED BY <1>7, <1>12

\* The next table has one entry more: the ask just told.
LEMMA EventsOnAnswer ==
    ASSUME Types, Schedule, Journal, Events, status = "running", NEW i \in Instances, Answering(i)
    PROVE  Events'
<1>1. /\ UNCHANGED <<status, lives>> /\ told' = Append(told, i) /\ i \in Asks
      /\ row[i].status = "running" /\ log' = LogFirst(log, i) /\ ~Contains(log, i)
  BY DEF Answering
<1>2. log \in Seq(Instances)
  BY DEF Types
<1>3. /\ \A j \in Instances : j # i => row'[j] = row[j]
      /\ row'[i].status = "completed"
  BY RowsOnAnswer
<1>4. SettleOrder = told
  BY DEF Events
<1>5. \A n \in 1 .. Len(log) : log[n] \in Instances /\ log[n] # i
  <2>1. \A n \in 1 .. Len(log) : log[n] \in Instances
    BY <1>2, ElementOfSeq
  <2> QED BY <1>1, <1>2, <2>1, LenProperties DEF Contains
<1>6. log' = Append(log, i)
  BY <1>1 DEF LogFirst
<1>7. PICK P : P = Claimable'
  OBVIOUS
<1>8. \A j \in Instances : j \in P <=> row'[j].status = "completed" /\ ClaimsOnReplay(j)
  BY <1>7 DEF Claimable
<1>9. i \in P
  BY <1>1, <1>3, <1>8 DEF ClaimsOnReplay, Asks
<1>10. \A n \in 1 .. Len(log) : log[n] \in P <=> log[n] \in Claimable
  <2>1. \A j \in Instances : j \in Claimable <=> row[j].status = "completed" /\ ClaimsOnReplay(j)
    BY DEF Claimable
  <2> QED BY <1>3, <1>5, <1>8, <2>1
<1>11. Selected(log, P) = Selected(log, Claimable)
  BY <1>2, <1>10, SelectedAgree
<1>12. Selected(Append(log, i), P) = Append(Selected(log, P), i)
  BY <1>2, <1>9, SelectedAppend
<1>13. SettleOrder' = told'
  BY <1>1, <1>4, <1>6, <1>7, <1>11, <1>12 DEF SettleOrder
<1> QED BY <1>1, <1>13 DEF Events

LEMMA TableOnAnswer ==
    ASSUME Types, Schedule, Journal, Table, Pipes, NEW i \in Instances, Answering(i)
    PROVE  Table'
<1>1. PICK T \in Nat : T = Len(told)
  BY Numbers
<1>2. PICK O \in Nat : O = Len(order) /\ O <= T
  BY <1>1, Numbers
<1>3. cursor = O /\ \A k \in 1 .. T : Called(told[k])
  BY <1>1, <1>2, AllClaimed
<1>4. /\ Len(told') = T + 1 /\ told'[T + 1] = i /\ \A k \in 1 .. T : told'[k] = told[k]
  BY <1>1, CourseOnAnswer
<1>5. order' = order /\ cursor' = cursor /\ parked' = parked /\ queue' = <<>> /\ count' = count
      /\ Called(i)
  BY DEF Answering, held
<1>6. Len(<<>>) = 0
  OBVIOUS
<1>7. \A k \in 1 .. T + 1 : told'[k][2] <= count'[told'[k][1]]
  <2>1. \A k \in 1 .. T + 1 : k \in 1 .. T \/ k = T + 1
    OBVIOUS
  <2> QED BY <1>3, <1>4, <1>5, <2>1 DEF Called
<1>8. \A k \in 1 .. O : order'[k] = told'[k]
  BY <1>1, <1>2, <1>4, <1>5 DEF Table
<1>9. O + 1 .. O = {} /\ ~(O < O) /\ O <= T + 1
  BY <1>2
<1>10. parked' \subseteq {order'[k] : k \in cursor' + 1 .. Len(order')}
  BY <1>5 DEF Table
<1> QED BY <1>2, <1>3, <1>4, <1>5, <1>6, <1>7, <1>8, <1>9, <1>10 DEF Table, Called

LEMMA PipesOnAnswer ==
    ASSUME Types, Schedule, Journal, Table, Pipes, NEW i \in Instances, Answering(i)
    PROVE  Pipes' /\ toChild' \in Seq(Calls)
<1>1. PICK T \in Nat : T = Len(told)
  BY Numbers
<1>2. PICK C \in Nat : C = Len(toChild)
  BY Numbers
<1>3. PICK D \in Nat : D = Delivered /\ D + C = T
  BY <1>1, <1>2, AllClaimed, Numbers
<1>4. PICK S \in Nat : S = Len(Script) /\ Len(Prompts) = S + T
  BY <1>1, Numbers, PromptsShape
<1>5. PICK A \in Nat : A = Arrived
  BY Numbers
<1>6. PICK P \in Nat : P = Len(toParent)
  BY Numbers
<1>7. PICK L \in Nat : L = Len(Course) /\ A + P <= L
  BY <1>5, <1>6, Numbers, PromptsShape
<1>8. /\ toChild' = Append(toChild, row[i].call) /\ row[i].call \in Calls
      /\ UNCHANGED <<count, held, toParent>> /\ queue = <<>>
  BY RowsOnAnswer DEF Answering
<1>9. PICK c1 \in Seq(Calls) : /\ c1 = toChild' /\ Len(c1) = C + 1 /\ c1[C + 1] = row[i].call
                               /\ \A k \in 1 .. C : c1[k] = toChild[k]
  <2>1. toChild \in Seq(Calls)
    BY DEF Types
  <2> QED BY <1>2, <1>8, <2>1, AppendProperties
<1>10. Sent' = T + 1
  <2>1. Len(told') = T + 1
    BY <1>1, CourseOnAnswer
  <2>2. PICK O \in Nat : O = Len(order) /\ O = cursor
    BY AllClaimed, Numbers
  <2>3. Len(<<>>) = 0
    OBVIOUS
  <2>4. Sent' = (T + 1) - (O - O) - 0
    BY <1>8, <2>1, <2>2, <2>3 DEF Sent, held
  <2> QED BY <2>4
<1>11. Delivered' = D
  <2>1. Delivered' = (T + 1) - (C + 1)
    BY <1>9, <1>10 DEF Delivered
  <2> QED BY <1>3, <2>1
<1>12. Arrived' = A
  <2>1. S + D \in 0 .. S + T
    BY <1>3
  <2>2. Stream(Prompts')[S + D] = Stream(Prompts)[S + D]
    BY <1>4, <2>1, CourseOnAnswer
  <2> QED BY <1>3, <1>4, <1>5, <1>8, <1>11, <2>2 DEF Arrived
<1>13. \A k \in 1 .. C + 1 : c1[k] = Heard'[D + k]
  <2> SUFFICES ASSUME NEW k \in 1 .. C + 1 PROVE c1[k] = Heard'[D + k]
    OBVIOUS
  <2>1. CASE k <= C
    <3>1. k \in 1 .. C /\ D + k \in 1 .. T
      BY <1>3, <2>1
    <3>2. toChild[k] = Heard[D + k]
      BY <1>2, <1>3, <3>1 DEF Pipes
    <3>3. Heard'[D + k] = Heard[D + k]
      BY <1>1, <3>1, CourseOnAnswer
    <3> QED BY <1>9, <3>1, <3>2, <3>3
  <2>2. CASE ~(k <= C)
    <3>1. k = C + 1 /\ D + k = T + 1
      BY <1>3, <2>2
    <3>2. Heard'[T + 1] = row[i].call
      BY <1>1, CourseOnAnswer
    <3> QED BY <1>9, <3>1, <3>2
  <2> QED BY <2>1, <2>2
<1>14. \A p \in 1 .. L : Course'[p] = Course[p] /\ Place(p)' = Place(p)
  BY <1>7, CourseOnAnswer
<1>15. \A k \in 1 .. P : toParent[k] = Course'[A + k]
  <2> SUFFICES ASSUME NEW k \in 1 .. P PROVE toParent[k] = Course'[A + k]
    OBVIOUS
  <2>1. A + k \in 1 .. L
    BY <1>7
  <2>2. toParent[k] = Course[A + k]
    BY <1>5, <1>6 DEF Pipes
  <2> QED BY <1>14, <2>1, <2>2
<1>16. \A s \in Sites : count[s] = Cardinality(Calling(Course', s, A))
  <2> SUFFICES ASSUME NEW s \in Sites PROVE count[s] = Cardinality(Calling(Course', s, A))
    OBVIOUS
  <2>1. \A k \in 1 .. A : k \in 1 .. L
    BY <1>7
  <2>2. PICK y : y = Course'
    OBVIOUS
  <2>3. \A k \in 1 .. A : y[k] = Course[k]
    BY <1>14, <2>1, <2>2
  <2>4. Calling(y, s, A) = Calling(Course, s, A)
    BY <2>3, CallingAgrees
  <2>5. count[s] = Cardinality(Calling(Course, s, A))
    BY <1>5 DEF Pipes
  <2> QED BY <2>2, <2>4, <2>5
<1>17. \A p \in 1 .. A : row'[Place(p)'] # NoRow
  <2> SUFFICES ASSUME NEW p \in 1 .. A PROVE row'[Place(p)'] # NoRow
    OBVIOUS
  <2>1. p \in 1 .. L
    BY <1>7
  <2>2. row[Place(p)] # NoRow
    BY <1>5 DEF Pipes
  <2>3. Place(p) \in Instances
    BY <1>7, <2>1, CourseOnce
  <2>4. row'[Place(p)] # NoRow
    BY <2>2, <2>3, RowsOnAnswer
  <2> QED BY <1>14, <2>1, <2>4
<1>18. C + 1 <= T + 1
  BY <1>3
<1> QED BY <1>6, <1>8, <1>9, <1>10, <1>11, <1>12, <1>13, <1>15, <1>16, <1>17, <1>18 DEF Pipes

LEMMA SettleKeeps == ASSUME IInv, NEW i \in Instances, Settle(i), ~disturbed' PROVE IInv'
<1>1. Answering(i) /\ status = "running"
  BY SettleAnswers DEF Settle
<1>2. Types /\ Schedule /\ Journal /\ Events /\ Table /\ Pipes /\ InWork
  BY DEF IInv
<1>3. Schedule' /\ Journal' /\ Events' /\ Table' /\ Pipes' /\ toChild' \in Seq(Calls)
  BY <1>1, <1>2, JournalOnAnswer, EventsOnAnswer, TableOnAnswer, PipesOnAnswer
<1>4. PICK l \in Seq(Instances) :
         /\ l = live'
         /\ \A n \in 1 .. Len(l) : l[n] # i /\ l[n] \in Instances /\ \E m \in 1 .. Len(live) : l[n] = live[m]
  <2>1. live \in Seq(Instances) /\ live' = Selected(live, Instances \ {i})
    BY <1>1, <1>2 DEF Types, Answering
  <2> QED BY <2>1, SelectedType
<1>5. InWork'
  <2>1. \A n \in 1 .. Len(l) : l[n] \in Asks /\ row[l[n]].status = "running" /\ Called(l[n])
    BY <1>2, <1>4 DEF InWork
  <2>2. \A n \in 1 .. Len(l) : row'[l[n]] = row[l[n]]
    BY <1>1, <1>2, <1>4, RowsOnAnswer
  <2>3. count' = count
    BY <1>1 DEF Answering
  <2>4. \A n \in 1 .. Len(l) : l[n] \in Asks /\ row'[l[n]].status = "running"
                               /\ l[n][2] <= count'[l[n][1]]
    BY <2>1, <2>2, <2>3 DEF Called
  <2> QED BY <1>4, <2>4 DEF InWork, Called
<1>6. Types'
  <2>1. log' \in Seq(Instances)
    BY <1>1, <1>2, LogFirstType DEF Answering, Types
  <2>2. row' \in [Instances -> Rows] /\ told' \in Seq(Instances)
    BY <1>1, <1>2, RowsOnAnswer, CourseOnAnswer
  <2>3. UNCHANGED <<status, alive, count, held, toParent, lives>>
    BY <1>1 DEF Answering
  <2> QED BY <1>2, <1>3, <1>4, <2>1, <2>2, <2>3 DEF Types, held
<1> QED BY <1>3, <1>5, <1>6 DEF IInv

-----------------------------------------------------------------------------

LEMMA NextKeeps == ASSUME IInv, [Next]_vars, ~disturbed' PROVE IInv'
<1>1. CASE ScriptStep
  BY <1>1, ScriptStepKeeps
<1>2. CASE Flush
  BY <1>2, FlushKeeps
<1>3. CASE Arrival
  <2>1. PICK c \in Calls : CallRecorded(c) \/ AskFresh(c) \/ Publish(c)
    BY <1>3 DEF Arrival
  <2> QED BY <2>1, CallRecordedKeeps, AskFreshKeeps, PublishKeeps
<1>4. CASE \E i \in Instances : Settle(i)
  BY <1>4, SettleKeeps
<1>5. CASE Complete
  BY <1>5, CompleteKeeps
<1>6. CASE Stop
  BY <1>6, StopKeeps
<1>7. CASE Crash
  BY <1>7, CrashKeeps
<1>8. CASE Resume
  BY <1>8, ResumeKeeps
<1>9. CASE UNCHANGED vars
  BY <1>9, StutterKeeps
<1> QED BY <1>1, <1>2, <1>3, <1>4, <1>5, <1>6, <1>7, <1>8, <1>9 DEF Next

LEMMA DisturbedStays == ASSUME [Next]_vars, disturbed PROVE disturbed'
BY DEF Next, vars, ScriptStep, Flush, Arrival, CallRecorded, AskFresh, Publish, Arrives, Settle,
       Complete, Stop, Crash, Resume

Undisturbed == disturbed \/ IInv

(* The invariant holds in every life of a run, whatever the script, its branches, the stops and   *)
(* the crashes, until the first disturbance.                                                       *)
THEOREM Invariance == Spec => []Undisturbed
<1>1. Init => Undisturbed
  BY InitHolds DEF Undisturbed
<1>2. Undisturbed /\ [Next]_vars => Undisturbed'
  BY NextKeeps, DisturbedStays DEF Undisturbed
<1> QED BY <1>1, <1>2, PTL DEF Spec

(* No life finds a row of another call under the identity of one of its calls, however the script *)
(* fans out and wherever the process dies or is stopped, unless an answer came out of its place,   *)
(* a chunk out of turn, or a settlement was torn (scheduler.ts:129-160, replay-order.ts:47-125).   *)
THEOREM NeverDiverges == Spec => []ReplayAgrees
<1>1. Undisturbed => ReplayAgrees
  BY DEF Undisturbed, IInv, Events, ReplayAgrees
<1> QED BY <1>1, Invariance, PTL

(* Until then recoverSettleOrder gives each life the schedule of all lives before it, not only of  *)
(* the last (replay-order.ts:127-174).                                                             *)
THEOREM TableIsRight == Spec => TableIsSchedule
<1>1. Undisturbed /\ [Next]_vars => [lives' > lives /\ ~disturbed => order' = told]_vars
  <2> SUFFICES ASSUME IInv, Next, lives' > lives PROVE order' = told
    BY DEF Undisturbed
  <2>1. lives' # lives
    BY DEF IInv, Types
  <2>2. CASE Resume
    BY <2>2, ResumeKeeps
  <2>3. Resume
    BY <2>1 DEF Next, ScriptStep, Flush, Arrival, CallRecorded, AskFresh, Publish, Arrives, Settle,
                Complete, Stop, Crash
  <2> QED BY <2>2, <2>3
<1> QED BY <1>1, Invariance, PTL DEF Spec, TableIsSchedule
=============================================================================
