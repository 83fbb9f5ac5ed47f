------------------------- MODULE InferenceQueueProofs -------------------------
(***************************************************************************)
(* Proofs about the inference queue, for any set of requests and any       *)
(* capacity.                                                               *)
(***************************************************************************)
EXTENDS InferenceQueue, FiniteSetTheorems, SequenceTheorems, TLAPS

Distinct(s) == \A i, j \in 1..Len(s) : s[i] = s[j] => i = j

(* q stands before r in the sequence s *)
InOrder(s, q, r) == \E i, j \in 1..Len(s) : i < j /\ s[i] = q /\ s[j] = r

(* Without, of any sequence *)
Drop(s, r) ==
    LET k == CHOOSE i \in 1..Len(s) : s[i] = r
    IN  [i \in 1..Len(s) - 1 |-> IF i < k THEN s[i] ELSE s[i + 1]]

-----------------------------------------------------------------------------
(* What deque.remove does to the lock's list *)

LEMMA DropPlaces ==
    ASSUME NEW s \in Seq(Reqs), NEW r \in Members(s)
    PROVE  /\ Drop(s, r) \in Seq(Reqs) /\ Len(Drop(s, r)) = Len(s) - 1
           /\ \E k \in 1..Len(s) :
                 /\ s[k] = r
                 /\ \A i \in 1..Len(s) - 1 :
                       Drop(s, r)[i] = IF i < k THEN s[i] ELSE s[i + 1]
<1> DEFINE k == CHOOSE i \in 1..Len(s) : s[i] = r
           n == Len(s) - 1
           d == [i \in 1..n |-> IF i < k THEN s[i] ELSE s[i + 1]]
<1>1. k \in 1..Len(s) /\ s[k] = r
  BY DEF Members
<1>2. n \in Nat /\ Len(s) \in Nat /\ n = Len(s) - 1
  BY <1>1
<1>3. \A i \in 1..Len(s) : s[i] \in Reqs
  BY ElementOfSeq
<1> HIDE DEF k, n
<1>4. \A i \in 1..n : i \in 1..Len(s) /\ i + 1 \in 1..Len(s)
  BY <1>2
<1>5. d \in [1..n -> Reqs]
  BY <1>3, <1>4
<1>6. d \in Seq(Reqs) /\ Len(d) = n
  BY <1>2, <1>5, LenProperties, SeqDef
<1>7. Drop(s, r) = d
  BY DEF Drop, k, n
<1> QED BY <1>1, <1>2, <1>6, <1>7 DEF n

LEMMA DropFacts ==
    ASSUME NEW s \in Seq(Reqs), Distinct(s), NEW r \in Members(s)
    PROVE  /\ Drop(s, r) \in Seq(Reqs) /\ Distinct(Drop(s, r))
           /\ Members(Drop(s, r)) = Members(s) \ {r}
           /\ \A p, q : p # r /\ q # r => (InOrder(Drop(s, r), p, q) <=> InOrder(s, p, q))
           /\ s # <<>>
           /\ Head(s) # r => Drop(s, r) # <<>> /\ Head(Drop(s, r)) = Head(s)
<1> DEFINE w == Drop(s, r)
<1>1. w \in Seq(Reqs) /\ Len(w) = Len(s) - 1 /\ Len(s) \in Nat
  BY DropPlaces
<1>2. PICK k \in 1..Len(s) :
         /\ s[k] = r
         /\ \A i \in 1..Len(s) - 1 : w[i] = IF i < k THEN s[i] ELSE s[i + 1]
  BY DropPlaces
<1> HIDE DEF w
<1>3. \A i \in 1..Len(s) : s[i] = r <=> i = k
  BY <1>2 DEF Distinct
<1>4. \A i \in 1..Len(w) : i < k => w[i] = s[i] /\ i \in 1..Len(s)
  BY <1>1, <1>2
<1>5. \A i \in 1..Len(w) : ~(i < k) => w[i] = s[i + 1] /\ i + 1 \in 1..Len(s)
  BY <1>1, <1>2
<1>6. \A j \in 1..Len(s) : j < k => j \in 1..Len(w) /\ w[j] = s[j]
  BY <1>1, <1>2
<1>7. \A j \in 1..Len(s) : j > k => j - 1 \in 1..Len(w) /\ w[j - 1] = s[j]
                                      /\ ~(j - 1 < k)
  BY <1>1, <1>2
<1>8. Distinct(w)
  <2> SUFFICES ASSUME NEW i \in 1..Len(w), NEW j \in 1..Len(w), w[i] = w[j]
               PROVE  i = j
    BY DEF Distinct
  <2>1. CASE i < k /\ j < k
    BY <1>4, <2>1 DEF Distinct
  <2>2. CASE i < k /\ ~(j < k)
    <3>1. i = j + 1
      BY <1>4, <1>5, <2>2 DEF Distinct
    <3> QED BY <1>1, <2>2, <3>1
  <2>3. CASE ~(i < k) /\ j < k
    <3>1. i + 1 = j
      BY <1>4, <1>5, <2>3 DEF Distinct
    <3> QED BY <1>1, <2>3, <3>1
  <2>4. CASE ~(i < k) /\ ~(j < k)
    <3>1. i + 1 = j + 1
      BY <1>5, <2>4 DEF Distinct
    <3> QED BY <1>1, <3>1
  <2> QED BY <2>1, <2>2, <2>3, <2>4
<1>9. Members(w) = Members(s) \ {r}
  <2>1. ASSUME NEW x \in Members(w) PROVE x \in Members(s) /\ x # r
    <3>1. PICK i \in 1..Len(w) : x = w[i]
      BY DEF Members
    <3>2. CASE i < k
      BY <3>1, <3>2, <1>3, <1>4 DEF Members
    <3>3. CASE ~(i < k)
      BY <3>1, <3>3, <1>1, <1>2, <1>3, <1>5 DEF Members
    <3> QED BY <3>2, <3>3
  <2>2. ASSUME NEW x \in Members(s), x # r PROVE x \in Members(w)
    <3>1. PICK j \in 1..Len(s) : x = s[j]
      BY DEF Members
    <3>2. j < k \/ j > k
      BY <2>2, <3>1, <1>2, <1>1
    <3> QED BY <3>1, <3>2, <1>6, <1>7 DEF Members
  <2> QED BY <2>1, <2>2
<1>10. ASSUME NEW p, NEW q, p # r, q # r
       PROVE  InOrder(w, p, q) <=> InOrder(s, p, q)
  <2>1. ASSUME NEW i \in 1..Len(w), NEW j \in 1..Len(w), i < j, w[i] = p, w[j] = q
        PROVE  InOrder(s, p, q)
    <3>1. CASE j < k
      BY <1>1, <1>4, <2>1, <3>1 DEF InOrder
    <3>2. CASE i < k /\ ~(j < k)
      <4>1. w[i] = s[i] /\ i \in 1..Len(s) /\ w[j] = s[j + 1] /\ j + 1 \in 1..Len(s)
            /\ i < j + 1
        BY <1>1, <1>4, <1>5, <2>1, <3>2
      <4> QED BY <2>1, <4>1 DEF InOrder
    <3>3. CASE ~(i < k) /\ ~(j < k)
      <4>1. w[i] = s[i + 1] /\ i + 1 \in 1..Len(s) /\ w[j] = s[j + 1]
            /\ j + 1 \in 1..Len(s) /\ i + 1 < j + 1
        BY <1>1, <1>5, <2>1, <3>3
      <4> QED BY <2>1, <4>1 DEF InOrder
    <3> QED BY <1>1, <1>2, <2>1, <3>1, <3>2, <3>3
  <2>2. ASSUME NEW i \in 1..Len(s), NEW j \in 1..Len(s), i < j, s[i] = p, s[j] = q
        PROVE  InOrder(w, p, q)
    <3>1. i # k /\ j # k
      BY <1>10, <1>2, <2>2
    <3>2. CASE j < k
      BY <1>1, <1>2, <1>6, <2>2, <3>2 DEF InOrder
    <3>3. CASE i < k /\ j > k
      <4>1. w[i] = s[i] /\ i \in 1..Len(w) /\ w[j - 1] = s[j] /\ j - 1 \in 1..Len(w)
            /\ i < j - 1
        BY <1>1, <1>2, <1>6, <1>7, <2>2, <3>3
      <4> QED BY <2>2, <4>1 DEF InOrder
    <3>4. CASE i > k
      <4>1. w[i - 1] = s[i] /\ i - 1 \in 1..Len(w) /\ w[j - 1] = s[j]
            /\ j - 1 \in 1..Len(w) /\ i - 1 < j - 1
        BY <1>1, <1>2, <1>7, <2>2, <3>4
      <4> QED BY <2>2, <4>1 DEF InOrder
    <3> QED BY <1>1, <1>2, <2>2, <3>1, <3>2, <3>3, <3>4
  <2> QED BY <2>1, <2>2 DEF InOrder
<1>11. s # <<>>
  BY <1>1, <1>2
<1>12. ASSUME Head(s) # r PROVE w # <<>> /\ Head(w) = Head(s)
  <2>1. Head(s) = s[1] /\ k # 1 /\ Len(s) > 1
    BY <1>1, <1>2, <1>11, <1>12
  <2>2. 1 \in 1..Len(w) /\ w[1] = s[1]
    BY <1>1, <1>2, <1>6, <2>1
  <2> QED BY <1>1, <2>1, <2>2
<1> QED BY <1>1, <1>8, <1>9, <1>10, <1>11, <1>12 DEF w

\* Who is appended stands behind everyone.
LEMMA AppendFacts ==
    ASSUME NEW s \in Seq(Reqs), Distinct(s), NEW r \in Reqs, r \notin Members(s)
    PROVE  /\ Append(s, r) \in Seq(Reqs) /\ Distinct(Append(s, r))
           /\ Members(Append(s, r)) = Members(s) \cup {r}
           /\ \A p, q : InOrder(Append(s, r), p, q)
                          <=> InOrder(s, p, q) \/ (p \in Members(s) /\ q = r)
           /\ Append(s, r) # <<>>
           /\ s # <<>> => Head(Append(s, r)) = Head(s)
<1> DEFINE w == Append(s, r)
<1>1. /\ w \in Seq(Reqs) /\ Len(s) \in Nat /\ Len(w) = Len(s) + 1 /\ w[Len(w)] = r
      /\ \A i \in 1..Len(s) : w[i] = s[i] /\ i \in 1..Len(w) /\ s[i] # r
  BY AppendProperties DEF Members
<1>2. \A i \in 1..Len(w) : i \in 1..Len(s) \/ i = Len(w)
  BY <1>1
<1> HIDE DEF w
<1>3. Distinct(w)
  BY <1>1, <1>2 DEF Distinct
<1>4. Members(w) = Members(s) \cup {r}
  <2>1. r \in Members(w)
    BY <1>1 DEF Members
  <2> QED BY <1>1, <1>2, <2>1 DEF Members
<1>5. ASSUME NEW p, NEW q
      PROVE  InOrder(w, p, q) <=> InOrder(s, p, q) \/ (p \in Members(s) /\ q = r)
  <2>1. ASSUME NEW i \in 1..Len(w), NEW j \in 1..Len(w), i < j, w[i] = p, w[j] = q
        PROVE  InOrder(s, p, q) \/ (p \in Members(s) /\ q = r)
    <3>1. i \in 1..Len(s)
      BY <1>1, <2>1
    <3>2. CASE j = Len(w)
      BY <1>1, <2>1, <3>1, <3>2 DEF Members
    <3>3. CASE j \in 1..Len(s)
      BY <1>1, <2>1, <3>1, <3>3 DEF InOrder
    <3> QED BY <1>2, <3>2, <3>3
  <2>2. InOrder(s, p, q) => InOrder(w, p, q)
    BY <1>1 DEF InOrder
  <2>3. ASSUME p \in Members(s), q = r PROVE InOrder(w, p, q)
    <3>1. PICK i \in 1..Len(s) : p = s[i]
      BY <2>3 DEF Members
    <3>2. i \in 1..Len(w) /\ w[i] = p /\ i < Len(w) /\ Len(w) \in 1..Len(w)
      BY <1>1, <3>1
    <3> QED BY <1>1, <2>3, <3>2 DEF InOrder
  <2> QED BY <2>1, <2>2, <2>3 DEF InOrder
<1>6. w # <<>> /\ (s # <<>> => Head(w) = Head(s))
  BY <1>1
<1> QED BY <1>1, <1>3, <1>4, <1>5, <1>6 DEF w

LEMMA HeadFacts ==
    ASSUME NEW s \in Seq(Reqs), s # <<>>
    PROVE  Head(s) \in Members(s) /\ Head(s) \in Reqs /\ Head(s) = s[1]
BY DEF Members

\* _wake_up_first: afterwards the first in line is no longer pending.
LEMMA WakeUpFacts ==
    ASSUME NEW w \in Seq(Reqs), NEW f \in [Reqs -> {"pending", "set", "cancelled"}],
           NEW g, g = WakeUpFirst(w, f)
    PROVE  /\ g \in [Reqs -> {"pending", "set", "cancelled"}]
           /\ w # <<>> => g[Head(w)] # "pending"
           /\ \A q \in Reqs : \/ g[q] = f[q]
                              \/ /\ w # <<>> /\ q = Head(w)
                                 /\ f[q] = "pending" /\ g[q] = "set"
<1>1. CASE w # <<>> /\ f[Head(w)] = "pending"
  BY <1>1, HeadFacts DEF WakeUpFirst
<1>2. CASE ~(w # <<>> /\ f[Head(w)] = "pending")
  BY <1>2 DEF WakeUpFirst
<1> QED BY <1>1, <1>2

-----------------------------------------------------------------------------
(* The inductive invariant *)

Busy == {r \in Reqs : pc[r] # "idle"}

Typed ==
    /\ queue \in Seq(Reqs) /\ Len(queue) <= MaxQueueSize
    /\ locked \in BOOLEAN
    /\ waiters \in Seq(Reqs) /\ Distinct(waiters)
    /\ Members(waiters) = {r \in Reqs : pc[r] \in {"waiting", "cancelled"}}
    /\ future \in [Reqs -> {"pending", "set", "cancelled"}]
    /\ pc \in [Reqs -> {"idle", "waiting", "cancelled", "inside"}]

(* A future is marked only when the lock is free, and only the first one   *)
(* in line; whoever is not in line has none.                               *)
FuturesOK ==
    \A r \in Reqs :
      /\ pc[r] \in {"idle", "inside"} => future[r] = "pending"
      /\ pc[r] = "waiting" => future[r] # "cancelled"
      /\ pc[r] = "cancelled" => future[r] # "pending"
      /\ future[r] = "set" => ~locked /\ waiters # <<>> /\ r = Head(waiters)

(* The lock is held by the one request inside. *)
LockOK ==
    /\ locked <=> \E r \in Reqs : pc[r] = "inside"
    /\ \A r, q \in Reqs : pc[r] = "inside" /\ pc[q] = "inside" => r = q

(* One ticket for each request that is waiting or inside. *)
TicketsOK == IsFiniteSet(Busy) /\ Len(queue) = Cardinality(Busy)

IInv == Typed /\ FuturesOK /\ LockOK /\ TicketsOK /\ WakeUpPending

\* One more request and one more ticket; one less and one less.
LEMMA TicketIn ==
    ASSUME Typed, TicketsOK, NEW r \in Reqs, pc[r] = "idle", HasRoom,
           queue' = Append(queue, r), NEW to \in {"waiting", "inside"},
           pc' = [pc EXCEPT ![r] = to]
    PROVE  TicketsOK' /\ queue' \in Seq(Reqs) /\ Len(queue') <= MaxQueueSize
<1>1. Busy' = Busy \cup {r} /\ r \notin Busy
  BY DEF Busy, Typed
<1>2. queue' \in Seq(Reqs) /\ Len(queue') = Len(queue) + 1 /\ Len(queue) \in Nat
  BY AppendProperties DEF Typed
<1>3. IsFiniteSet(Busy') /\ Cardinality(Busy') = Cardinality(Busy) + 1
  BY <1>1, FS_AddElement DEF TicketsOK
<1> QED BY <1>2, <1>3, QueueAssumption DEF TicketsOK, HasRoom

LEMMA TicketOut ==
    ASSUME Typed, TicketsOK, NEW r \in Reqs, pc[r] # "idle",
           RemoveTicket(r), pc' = [pc EXCEPT ![r] = "idle"]
    PROVE  TicketsOK' /\ queue' \in Seq(Reqs) /\ Len(queue') <= MaxQueueSize
<1>1. Busy' = Busy \ {r} /\ r \in Busy
  BY DEF Busy, Typed
<1>2. IsFiniteSet(Busy') /\ Cardinality(Busy') = Cardinality(Busy) - 1
      /\ Cardinality(Busy) \in Nat /\ Cardinality(Busy') \in Nat
  BY <1>1, FS_RemoveElement, FS_CardinalityType DEF TicketsOK
<1>3. queue # <<>>
  BY <1>2 DEF Typed, TicketsOK
<1>4. queue' = Tail(queue) /\ queue' \in Seq(Reqs) /\ Len(queue') = Len(queue) - 1
  BY <1>3, HeadTailProperties DEF RemoveTicket, Typed
<1> QED BY <1>2, <1>4, QueueAssumption DEF TicketsOK, Typed

LEMMA TicketStays ==
    ASSUME Typed, TicketsOK, NEW r \in Reqs, pc[r] # "idle", UNCHANGED queue,
           NEW to, to # "idle", pc' = [pc EXCEPT ![r] = to]
    PROVE  TicketsOK'
<1>1. Busy' = Busy
  BY DEF Busy, Typed
<1> QED BY <1>1 DEF TicketsOK

\* Who stands in line is in the lock's list, and the other way round.
LEMMA InLine ==
    ASSUME Typed, NEW r \in Reqs
    PROVE  r \in Members(waiters) <=> pc[r] \in {"waiting", "cancelled"}
BY DEF Typed

\* Without is Drop of the list; the facts of it that the steps need.
LEMMA WithoutFacts ==
    ASSUME Typed, NEW r \in Reqs, pc[r] \in {"waiting", "cancelled"}
    PROVE  /\ Without(r) \in Seq(Reqs) /\ Distinct(Without(r))
           /\ Members(Without(r)) = Members(waiters) \ {r}
           /\ \A p, q : p # r /\ q # r
                 => (InOrder(Without(r), p, q) <=> InOrder(waiters, p, q))
           /\ waiters # <<>>
           /\ Head(waiters) # r => Without(r) # <<>> /\ Head(Without(r)) = Head(waiters)
<1>1. Without(r) = Drop(waiters, r)
  BY DEF Without, Drop
<1>2. r \in Members(waiters) /\ waiters \in Seq(Reqs) /\ Distinct(waiters)
  BY InLine DEF Typed
<1> QED BY <1>1, <1>2, DropFacts

-----------------------------------------------------------------------------
(* Each step keeps it *)

LEMMA EnterStep ==
    ASSUME IInv, NEW r \in Reqs, Enter(r)
    PROVE  IInv'
<1>1. pc[r] = "idle" /\ HasRoom /\ queue' = Append(queue, r)
  BY DEF Enter
<1>2. r \notin Members(waiters) /\ future[r] = "pending"
  BY <1>1, InLine DEF IInv, FuturesOK
<1>3. CASE MayBarge
  <2>1. /\ locked' = TRUE /\ pc' = [pc EXCEPT ![r] = "inside"]
        /\ UNCHANGED <<waiters, future>>
    BY <1>3 DEF Enter
  <2>2. TicketsOK' /\ queue' \in Seq(Reqs) /\ Len(queue') <= MaxQueueSize
    BY <1>1, <2>1, TicketIn DEF IInv
  <2>3. Typed'
    BY <1>1, <1>2, <2>1, <2>2 DEF IInv, Typed
  <2>4. FuturesOK'
    <3>1. ASSUME NEW q \in Reqs PROVE future[q] # "set"
      <4>1. SUFFICES ASSUME future[q] = "set" PROVE FALSE
        OBVIOUS
      <4>2. waiters # <<>> /\ q = Head(waiters) /\ waiters \in Seq(Reqs)
        BY <4>1 DEF IInv, FuturesOK, Typed
      <4>3. 1 \in 1..Len(waiters) /\ waiters[1] = q
        BY <4>2
      <4> QED BY <1>3, <4>1, <4>3 DEF MayBarge
    <3> QED BY <1>2, <2>1, <3>1 DEF IInv, FuturesOK, Typed
  <2>5. LockOK'
    BY <1>1, <1>3, <2>1 DEF IInv, LockOK, Typed, MayBarge
  <2>6. WakeUpPending'
    BY <2>1 DEF WakeUpPending
  <2> QED BY <2>2, <2>3, <2>4, <2>5, <2>6 DEF IInv
<1>4. CASE ~MayBarge
  <2>1. /\ waiters' = Append(waiters, r) /\ pc' = [pc EXCEPT ![r] = "waiting"]
        /\ UNCHANGED <<locked, future>>
    BY <1>4 DEF Enter
  <2>2. TicketsOK' /\ queue' \in Seq(Reqs) /\ Len(queue') <= MaxQueueSize
    BY <1>1, <2>1, TicketIn DEF IInv
  <2>3. /\ waiters' \in Seq(Reqs) /\ Distinct(waiters')
        /\ Members(waiters') = Members(waiters) \cup {r} /\ waiters' # <<>>
        /\ waiters # <<>> => Head(waiters') = Head(waiters)
    BY <1>2, <2>1, AppendFacts DEF IInv, Typed
  <2>4. Typed'
    BY <1>1, <2>1, <2>2, <2>3 DEF IInv, Typed
  <2>5. FuturesOK'
    BY <1>2, <2>1, <2>3 DEF IInv, FuturesOK, Typed
  <2>6. LockOK'
    BY <1>1, <2>1 DEF IInv, LockOK, Typed
  <2>7. WakeUpPending'
    <3>1. ASSUME ~locked PROVE waiters # <<>>
      <4>1. PICK i \in 1..Len(waiters) : future[waiters[i]] # "cancelled"
        BY <1>4, <3>1 DEF MayBarge
      <4> QED BY <4>1 DEF IInv, Typed
    <3> QED BY <2>1, <2>3, <3>1 DEF IInv, WakeUpPending
  <2> QED BY <2>2, <2>4, <2>5, <2>6, <2>7 DEF IInv
<1> QED BY <1>3, <1>4

LEMMA ClaimStep ==
    ASSUME IInv, NEW r \in Reqs, Claim(r)
    PROVE  IInv'
<1>1. /\ pc[r] = "waiting" /\ future[r] = "set"
      /\ waiters' = Without(r) /\ future' = [future EXCEPT ![r] = "pending"]
      /\ locked' = TRUE /\ pc' = [pc EXCEPT ![r] = "inside"] /\ UNCHANGED queue
  BY DEF Claim
<1>2. waiters' \in Seq(Reqs) /\ Distinct(waiters')
      /\ Members(waiters') = Members(waiters) \ {r}
  BY <1>1, WithoutFacts DEF IInv
<1>3. ~locked /\ r = Head(waiters)
  BY <1>1 DEF IInv, FuturesOK
<1>4. Typed'
  BY <1>1, <1>2 DEF IInv, Typed
<1>5. FuturesOK'
  BY <1>1, <1>3 DEF IInv, FuturesOK, Typed
<1>6. LockOK'
  BY <1>1, <1>3 DEF IInv, LockOK, Typed
<1>7. TicketsOK'
  BY <1>1, TicketStays DEF IInv
<1> QED BY <1>1, <1>4, <1>5, <1>6, <1>7 DEF IInv, WakeUpPending

LEMMA TimeoutStep ==
    ASSUME IInv, NEW r \in Reqs, Timeout(r)
    PROVE  IInv'
<1>1. /\ pc[r] = "waiting" /\ pc' = [pc EXCEPT ![r] = "cancelled"]
      /\ UNCHANGED <<queue, locked, waiters>>
  BY DEF Timeout
<1>2. \A q \in Reqs : future'[q] = IF q = r /\ future[r] # "set" THEN "cancelled"
                                   ELSE future[q]
  BY DEF Timeout, IInv, Typed
<1>3. future' \in [Reqs -> {"pending", "set", "cancelled"}]
  BY DEF Timeout, IInv, Typed
<1>4. Typed'
  BY <1>1, <1>3 DEF IInv, Typed
<1>5. FuturesOK'
  BY <1>1, <1>2 DEF IInv, FuturesOK, Typed
<1>6. LockOK'
  BY <1>1 DEF IInv, LockOK, Typed
<1>7. TicketsOK'
  BY <1>1, TicketStays DEF IInv
<1>8. WakeUpPending'
  <2>1. waiters # <<>> => Head(waiters) \in Reqs
    BY HeadFacts DEF IInv, Typed
  <2> QED BY <1>1, <1>2, <2>1 DEF IInv, WakeUpPending
<1> QED BY <1>4, <1>5, <1>6, <1>7, <1>8 DEF IInv

\* Leaving the line while the lock is free passes the turn on.
LEMMA PassedOn ==
    ASSUME IInv, NEW r \in Reqs, pc[r] \in {"waiting", "cancelled"},
           ~locked, locked' = FALSE, waiters' = Without(r),
           future' = WakeUpFirst(Without(r), [future EXCEPT ![r] = "pending"]),
           pc' = [pc EXCEPT ![r] = "idle"]
    PROVE  /\ future' \in [Reqs -> {"pending", "set", "cancelled"}]
           /\ FuturesOK' /\ WakeUpPending'
<1> DEFINE f == [future EXCEPT ![r] = "pending"]
<1>1. /\ waiters' \in Seq(Reqs)
      /\ Members(waiters') = Members(waiters) \ {r} /\ waiters # <<>>
      /\ Head(waiters) # r => waiters' # <<>> /\ Head(waiters') = Head(waiters)
  BY WithoutFacts DEF IInv
<1>2. /\ f \in [Reqs -> {"pending", "set", "cancelled"}] /\ f[r] = "pending"
      /\ \A q \in Reqs : q # r => f[q] = future[q]
  BY DEF IInv, Typed
<1>3. future' = WakeUpFirst(waiters', f)
  OBVIOUS
<1> HIDE DEF f
<1>4. /\ future' \in [Reqs -> {"pending", "set", "cancelled"}]
      /\ waiters' # <<>> => future'[Head(waiters')] # "pending"
      /\ \A q \in Reqs : \/ future'[q] = f[q]
                         \/ /\ waiters' # <<>> /\ q = Head(waiters')
                            /\ f[q] = "pending" /\ future'[q] = "set"
  <2> DEFINE w == waiters'
             g == future'
  <2>1. w \in Seq(Reqs) /\ f \in [Reqs -> {"pending", "set", "cancelled"}]
        /\ g = WakeUpFirst(w, f)
    BY <1>1, <1>2, <1>3
  <2> HIDE DEF w, g
  <2>2. /\ g \in [Reqs -> {"pending", "set", "cancelled"}]
        /\ w # <<>> => g[Head(w)] # "pending"
        /\ \A q \in Reqs : \/ g[q] = f[q]
                           \/ /\ w # <<>> /\ q = Head(w)
                              /\ f[q] = "pending" /\ g[q] = "set"
    BY <2>1, WakeUpFacts
  <2> QED BY <2>2 DEF w, g
<1>5. WakeUpPending'
  BY <1>4 DEF WakeUpPending
<1>6. ASSUME NEW q \in Reqs
      PROVE  /\ pc'[q] \in {"idle", "inside"} => future'[q] = "pending"
             /\ pc'[q] = "waiting" => future'[q] # "cancelled"
             /\ pc'[q] = "cancelled" => future'[q] # "pending"
             /\ future'[q] = "set" => ~locked' /\ waiters' # <<>> /\ q = Head(waiters')
  <2>1. CASE q = r
    <3>1. q \notin Members(waiters')
      BY <1>1, <2>1
    <3>2. ~(waiters' # <<>> /\ q = Head(waiters'))
      BY <1>1, <3>1, HeadFacts
    <3> QED BY <1>2, <1>4, <2>1, <3>2 DEF IInv, Typed
  <2>2. CASE q # r
    <3>1. pc'[q] = pc[q] /\ f[q] = future[q]
      BY <1>2, <2>2 DEF IInv, Typed
    <3>2. future[q] = "set" => q = Head(waiters)
      BY DEF IInv, FuturesOK
    <3>3. waiters' # <<>> /\ q = Head(waiters') => pc[q] \in {"waiting", "cancelled"}
      BY <1>1, HeadFacts, InLine DEF IInv
    <3> QED BY <1>1, <1>4, <2>2, <3>1, <3>2, <3>3 DEF IInv, FuturesOK
  <2> QED BY <2>1, <2>2
<1> QED BY <1>4, <1>5, <1>6 DEF FuturesOK

LEMMA ClaimLateStep ==
    ASSUME IInv, NEW r \in Reqs, ClaimLate(r)
    PROVE  IInv'
<1>1. /\ pc[r] = "waiting" /\ future[r] = "set"
      /\ waiters' = Without(r) /\ locked' = FALSE
      /\ future' = WakeUpFirst(Without(r), [future EXCEPT ![r] = "pending"])
      /\ pc' = [pc EXCEPT ![r] = "idle"] /\ RemoveTicket(r)
  BY DEF ClaimLate
<1>2. ~locked
  BY <1>1 DEF IInv, FuturesOK
<1>3. TicketsOK' /\ queue' \in Seq(Reqs) /\ Len(queue') <= MaxQueueSize
  BY <1>1, TicketOut DEF IInv
<1>4. future' \in [Reqs -> {"pending", "set", "cancelled"}] /\ FuturesOK' /\ WakeUpPending'
  BY <1>1, <1>2, PassedOn
<1>5. waiters' \in Seq(Reqs) /\ Distinct(waiters')
      /\ Members(waiters') = Members(waiters) \ {r}
  BY <1>1, WithoutFacts DEF IInv
<1>6. Typed'
  BY <1>1, <1>3, <1>4, <1>5 DEF IInv, Typed
<1>7. LockOK'
  BY <1>1, <1>2 DEF IInv, LockOK, Typed
<1> QED BY <1>3, <1>4, <1>6, <1>7 DEF IInv

LEMMA LeaveLineStep ==
    ASSUME IInv, NEW r \in Reqs, LeaveLine(r)
    PROVE  IInv'
<1>1. /\ pc[r] = "cancelled" /\ waiters' = Without(r) /\ PassOn(r)
      /\ pc' = [pc EXCEPT ![r] = "idle"] /\ RemoveTicket(r) /\ UNCHANGED locked
  BY DEF LeaveLine
<1>2. TicketsOK' /\ queue' \in Seq(Reqs) /\ Len(queue') <= MaxQueueSize
  BY <1>1, TicketOut DEF IInv
<1>3. waiters' \in Seq(Reqs) /\ Distinct(waiters')
      /\ Members(waiters') = Members(waiters) \ {r}
  BY <1>1, WithoutFacts DEF IInv
<1>4. future' \in [Reqs -> {"pending", "set", "cancelled"}] /\ FuturesOK' /\ WakeUpPending'
  <2>1. CASE locked
    <3>1. future' = [future EXCEPT ![r] = "pending"]
      BY <1>1, <2>1 DEF PassOn
    <3>2. FuturesOK'
      BY <1>1, <2>1, <3>1 DEF IInv, FuturesOK, Typed
    <3> QED BY <1>1, <2>1, <3>1, <3>2 DEF IInv, Typed, WakeUpPending
  <2>2. CASE ~locked
    <3>1. future' = WakeUpFirst(Without(r), [future EXCEPT ![r] = "pending"])
          /\ locked' = FALSE
      BY <1>1, <2>2 DEF PassOn, IInv, Typed
    <3> QED BY <1>1, <2>2, <3>1, PassedOn
  <2> QED BY <2>1, <2>2
<1>5. Typed'
  BY <1>1, <1>2, <1>3, <1>4 DEF IInv, Typed
<1>6. LockOK'
  BY <1>1 DEF IInv, LockOK, Typed
<1> QED BY <1>2, <1>4, <1>5, <1>6 DEF IInv

LEMMA ExitStep ==
    ASSUME IInv, NEW r \in Reqs, Exit(r)
    PROVE  IInv'
<1>1. /\ pc[r] = "inside" /\ locked' = FALSE
      /\ future' = WakeUpFirst(waiters, future)
      /\ pc' = [pc EXCEPT ![r] = "idle"] /\ RemoveTicket(r) /\ UNCHANGED waiters
  BY DEF Exit
<1>2. TicketsOK' /\ queue' \in Seq(Reqs) /\ Len(queue') <= MaxQueueSize
  BY <1>1, TicketOut DEF IInv
<1>3. /\ future' \in [Reqs -> {"pending", "set", "cancelled"}]
      /\ waiters # <<>> => future'[Head(waiters)] # "pending"
      /\ \A q \in Reqs : \/ future'[q] = future[q]
                         \/ /\ waiters # <<>> /\ q = Head(waiters)
                            /\ future[q] = "pending" /\ future'[q] = "set"
  BY <1>1, WakeUpFacts DEF IInv, Typed
<1>4. Typed'
  BY <1>1, <1>2, <1>3 DEF IInv, Typed
<1>5. \A q \in Reqs : waiters # <<>> /\ q = Head(waiters)
                      => pc[q] \in {"waiting", "cancelled"}
  BY HeadFacts, InLine DEF IInv, Typed
<1>6. FuturesOK'
  BY <1>1, <1>3, <1>5 DEF IInv, FuturesOK, Typed
<1>7. LockOK'
  BY <1>1 DEF IInv, LockOK, Typed
<1>8. WakeUpPending'
  BY <1>1, <1>3 DEF WakeUpPending
<1> QED BY <1>2, <1>4, <1>6, <1>7, <1>8 DEF IInv

-----------------------------------------------------------------------------
(* The invariant of the queue *)

LEMMA InitInvariant == Init => IInv
<1> SUFFICES ASSUME Init PROVE IInv
  OBVIOUS
<1>1. Typed
  <2>1. queue \in Seq(Reqs) /\ Len(queue) = 0 /\ waiters \in Seq(Reqs) /\ Len(waiters) = 0
    BY DEF Init
  <2>2. Distinct(waiters) /\ Members(waiters) = {}
    BY <2>1 DEF Distinct, Members
  <2>3. {r \in Reqs : pc[r] \in {"waiting", "cancelled"}} = {}
    BY DEF Init
  <2>4. locked \in BOOLEAN
    BY DEF Init
  <2>5. 0 <= MaxQueueSize
    BY QueueAssumption
  <2>6. /\ future \in [Reqs -> {"pending", "set", "cancelled"}]
        /\ pc \in [Reqs -> {"idle", "waiting", "cancelled", "inside"}]
    BY DEF Init
  <2> QED BY <2>1, <2>2, <2>3, <2>4, <2>5, <2>6 DEF Typed
<1>2. FuturesOK /\ LockOK /\ WakeUpPending
  BY DEF Init, FuturesOK, LockOK, WakeUpPending
<1>3. Busy = {}
  BY DEF Init, Busy
<1>4. TicketsOK
  BY <1>3, FS_EmptySet DEF Init, TicketsOK
<1> QED BY <1>1, <1>2, <1>4 DEF IInv

LEMMA NextInvariant == IInv /\ [Next]_vars => IInv'
<1> SUFFICES ASSUME IInv, [Next]_vars PROVE IInv'
  OBVIOUS
<1>1. CASE UNCHANGED vars
  BY <1>1 DEF IInv, vars, Typed, FuturesOK, LockOK, TicketsOK, Busy, WakeUpPending
<1>2. CASE Next
  BY <1>2, EnterStep, ClaimStep, ClaimLateStep, TimeoutStep, LeaveLineStep, ExitStep
  DEF Next, Step
<1> QED BY <1>1, <1>2

\* The lock, its list and the tickets fit together in every state.
THEOREM QueueInvariant == Spec => []IInv
<1> QED BY InitInvariant, NextInvariant, PTL DEF Spec

\* TypeOK: exactly the requests that wait for the lock are in its list.
THEOREM QueueTypeCorrect == Spec => []TypeOK
<1>1. IInv => TypeOK
  BY DEF IInv, Typed, TypeOK, Distinct
<1> QED BY <1>1, QueueInvariant, PTL

\* DepthCountsRequests: whoever leaves takes the oldest ticket, and there is
\* always one, so /health's depth and the admission limit count requests.
THEOREM DepthIsExact == Spec => []DepthCountsRequests
<1>1. IInv => DepthCountsRequests
  BY DEF IInv, TicketsOK, Busy, DepthCountsRequests
<1> QED BY <1>1, QueueInvariant, PTL

\* WakeUpPending: no order of timeouts and releases loses a wake-up.
THEOREM WakeUpsAreNeverLost == Spec => []WakeUpPending
<1>1. IInv => WakeUpPending
  BY DEF IInv
<1> QED BY <1>1, QueueInvariant, PTL

-----------------------------------------------------------------------------
(* The queue implements the turnstile *)

InsideNow == IF \E r \in Reqs : pc[r] = "inside"
             THEN CHOOSE r \in Reqs : pc[r] = "inside" ELSE Nobody

Ahead == {p \in Line \X Line : Before(p[1], p[2])}

\* The refinement mapping: who is inside is Nobody exactly while the lock is free.
LEMMA InsideFacts ==
    ASSUME LockOK
    PROVE  /\ locked <=> InsideNow # Nobody
           /\ \A r \in Reqs : pc[r] = "inside" <=> InsideNow = r
BY QueueAssumption DEF LockOK, InsideNow

LEMMA BeforeIsOrder == \A q, r : Before(q, r) <=> InOrder(waiters, q, r)
BY DEF Before, InOrder

\* A step that takes one request out of the waiting ones, whatever becomes of
\* its place in the lock's list.
LEMMA StepsOut ==
    ASSUME IInv, NEW r \in Reqs, pc[r] = "waiting",
           NEW to, to # "waiting", pc' = [pc EXCEPT ![r] = to],
           waiters' = waiters \/ waiters' = Without(r)
    PROVE  Line' = Line \ {r} /\ Ahead' = Ahead \cap (Line' \X Line') /\ r \in Line
<1>1. Line' = Line \ {r} /\ r \in Line
  BY DEF Line, IInv, Typed
<1>2. \A p, q : p # r /\ q # r => (Before(p, q)' <=> Before(p, q))
  <2>1. CASE waiters' = waiters
    BY <2>1 DEF Before
  <2>2. CASE waiters' = Without(r)
    <3>1. \A p, q : p # r /\ q # r
             => (InOrder(waiters', p, q) <=> InOrder(waiters, p, q))
      BY <2>2, WithoutFacts DEF IInv
    <3>2. \A p, q : Before(p, q)' <=> InOrder(waiters', p, q)
      BY DEF Before, InOrder
    <3> QED BY <3>1, <3>2, BeforeIsOrder
  <2> QED BY <2>1, <2>2
<1>3. Ahead' = {p \in Line' \X Line' : Before(p[1], p[2])'}
  BY DEF Ahead
<1>4. \A p \in Line' \X Line' : p \in Line \X Line /\ p[1] # r /\ p[2] # r
  BY <1>1
<1>5. \A p \in Line' \X Line' : Before(p[1], p[2])' <=> Before(p[1], p[2])
  BY <1>2, <1>4
<1>6. Ahead' = Ahead \cap (Line' \X Line')
  BY <1>3, <1>4, <1>5 DEF Ahead
<1> QED BY <1>1, <1>6

\* Nobody stands before the first in the lock's list.
LEMMA HeadIsFirst ==
    ASSUME IInv, NEW r \in Reqs, pc[r] = "waiting", r = Head(waiters)
    PROVE  \A q \in Line : <<q, r>> \notin Ahead
<1>1. waiters \in Seq(Reqs) /\ Distinct(waiters) /\ waiters # <<>>
  BY WithoutFacts DEF IInv, Typed
<1>2. r = waiters[1] /\ 1 \in 1..Len(waiters)
  BY <1>1
<1>3. ASSUME NEW q, Before(q, r) PROVE FALSE
  <2>1. PICK i \in 1..Len(waiters), j \in 1..Len(waiters) : i < j /\ waiters[j] = r
    BY <1>3 DEF Before
  <2>2. j = 1
    BY <1>1, <1>2, <2>1 DEF Distinct
  <2> QED BY <1>1, <2>1, <2>2
<1> QED BY <1>3 DEF Ahead

LEMMA InitRefines == Init => T!Init
<1> SUFFICES ASSUME Init PROVE T!Init
  OBVIOUS
<1>1. Line = {} /\ Ahead = {} /\ InsideNow = Nobody
  BY DEF Init, Line, Ahead, InsideNow
<1> QED BY <1>1 DEF T!Init, Line, Ahead, InsideNow

\* Each step is one of the turnstile, or changes nothing it knows of.
LEMMA StepRefines ==
    ASSUME IInv, NEW r \in Reqs, Step(r)
    PROVE  \/ \E q \in Reqs : \/ T!Arrive(q) \/ T!Advance(q) \/ T!GiveUp(q)
           \/ T!Leave
           \/ UNCHANGED T!vars
<1>1. LockOK /\ LockOK'
  <2>1. IInv'
    BY NextInvariant DEF Next
  <2> QED BY <2>1 DEF IInv
<1>2. /\ locked <=> InsideNow # Nobody
      /\ \A q \in Reqs : pc[q] = "inside" <=> InsideNow = q
      /\ locked' <=> InsideNow' # Nobody
      /\ \A q \in Reqs : pc'[q] = "inside" <=> InsideNow' = q
  <2>1. LockOK' => /\ locked' <=> InsideNow' # Nobody
                   /\ \A q \in Reqs : pc'[q] = "inside" <=> InsideNow' = q
    BY QueueAssumption DEF LockOK, InsideNow
  <2> QED BY <1>1, <2>1, InsideFacts
<1>3. CASE Enter(r)
  <2>1. pc[r] = "idle" /\ r \notin Line /\ InsideNow # r
    BY <1>2, <1>3 DEF Enter, Line
  <2>2. CASE MayBarge
    <3>1. ~locked /\ pc' = [pc EXCEPT ![r] = "inside"] /\ waiters' = waiters
      BY <1>3, <2>2 DEF Enter, MayBarge
    <3>2. Line = {}
      <4> SUFFICES ASSUME NEW q \in Line PROVE FALSE
        OBVIOUS
      <4>1. q \in Reqs /\ pc[q] = "waiting" /\ q \in Members(waiters)
        BY InLine DEF Line, IInv
      <4>2. PICK i \in 1..Len(waiters) : q = waiters[i]
        BY <4>1 DEF Members
      <4> QED BY <2>2, <4>1, <4>2 DEF MayBarge, IInv, FuturesOK
    <3>3. Line' = {} /\ Ahead' = {} /\ Ahead = {}
      <4>1. Line' = {}
        BY <3>1, <3>2 DEF Line, IInv, Typed
      <4> QED BY <3>2, <4>1 DEF Ahead
    <3>4. InsideNow' = r /\ InsideNow = Nobody
      BY <1>2, <3>1 DEF IInv, Typed
    <3>5. T!Arrive(r)
      BY <2>1, <3>2, <3>3, <3>4 DEF T!Arrive, Line, Ahead, InsideNow
    <3> QED BY <3>5
  <2>3. CASE ~MayBarge
    <3>1. /\ waiters' = Append(waiters, r) /\ pc' = [pc EXCEPT ![r] = "waiting"]
          /\ UNCHANGED locked
      BY <1>3, <2>3 DEF Enter
    <3>2. Line' = Line \cup {r}
      BY <3>1 DEF Line, IInv, Typed
    <3>3. \A p, q : InOrder(waiters', p, q)
                      <=> InOrder(waiters, p, q) \/ (p \in Members(waiters) /\ q = r)
      BY <2>1, <3>1, AppendFacts, InLine DEF IInv, Typed
    <3>4. \A p, q : Before(p, q)' <=> InOrder(waiters', p, q)
      BY DEF Before, InOrder
    <3>5. \A p \in Line : p \in Members(waiters)
      BY InLine DEF Line, IInv
    <3>6. \A p, q : InOrder(waiters, p, q) => p \in Members(waiters) /\ q \in Members(waiters)
      BY DEF InOrder, Members
    <3>7. r \notin Members(waiters)
      BY <2>1, InLine DEF IInv
    <3>8. Ahead' = Ahead \cup (Line \X {r})
      <4>1. Ahead' = {p \in Line' \X Line' : Before(p[1], p[2])'}
        BY DEF Ahead
      <4>2. \A p, q : <<p, q>> \in Ahead' <=> <<p, q>> \in Ahead \cup (Line \X {r})
        BY <2>1, <3>2, <3>3, <3>4, <3>5, <3>6, <3>7, <4>1, BeforeIsOrder DEF Ahead
      <4>3. Ahead' \subseteq Line' \X Line'
            /\ Ahead \cup (Line \X {r}) \subseteq Line' \X Line'
        BY <3>2, <4>1 DEF Ahead
      <4> QED BY <4>2, <4>3
    <3>9. InsideNow' = InsideNow
      <4>1. \A q \in Reqs : pc'[q] = "inside" <=> pc[q] = "inside"
        BY <2>1, <3>1 DEF IInv, Typed
      <4> QED BY <4>1 DEF InsideNow
    <3>10. T!Arrive(r)
      BY <2>1, <3>2, <3>8, <3>9 DEF T!Arrive, Line, Ahead, InsideNow
    <3> QED BY <3>10
  <2> QED BY <2>2, <2>3
<1>4. CASE Claim(r)
  <2>1. /\ pc[r] = "waiting" /\ future[r] = "set" /\ waiters' = Without(r)
        /\ pc' = [pc EXCEPT ![r] = "inside"]
    BY <1>4 DEF Claim
  <2>2. ~locked /\ r = Head(waiters)
    BY <2>1 DEF IInv, FuturesOK
  <2>3. Line' = Line \ {r} /\ Ahead' = Ahead \cap (Line' \X Line') /\ r \in Line
    BY <2>1, StepsOut
  <2>4. InsideNow = Nobody /\ InsideNow' = r
    BY <1>2, <2>1, <2>2 DEF IInv, Typed
  <2>5. \A q \in Line : <<q, r>> \notin Ahead
    BY <2>1, <2>2, HeadIsFirst
  <2>6. T!Advance(r)
    BY <2>3, <2>4, <2>5 DEF T!Advance, T!First, T!StepOut, Line, Ahead, InsideNow
  <2> QED BY <2>6
<1>5. CASE ClaimLate(r) \/ Timeout(r)
  <2>1. /\ pc[r] = "waiting"
        /\ waiters' = waiters \/ waiters' = Without(r)
        /\ \E to \in {"idle", "cancelled"} : pc' = [pc EXCEPT ![r] = to]
    BY <1>5 DEF ClaimLate, Timeout
  <2>2. Line' = Line \ {r} /\ Ahead' = Ahead \cap (Line' \X Line') /\ r \in Line
    BY <2>1, StepsOut
  <2>3. InsideNow' = InsideNow
    <3>1. \A q \in Reqs : pc'[q] = "inside" <=> pc[q] = "inside"
      BY <2>1 DEF IInv, Typed
    <3> QED BY <3>1 DEF InsideNow
  <2>4. T!GiveUp(r)
    BY <2>2, <2>3 DEF T!GiveUp, T!StepOut, Line, Ahead, InsideNow
  <2> QED BY <2>4
<1>6. CASE LeaveLine(r)
  <2>1. /\ pc[r] = "cancelled" /\ waiters' = Without(r)
        /\ pc' = [pc EXCEPT ![r] = "idle"]
    BY <1>6 DEF LeaveLine
  <2>2. Line' = Line /\ r \notin Line
    BY <2>1 DEF Line, IInv, Typed
  <2>3. Ahead' = Ahead
    <3>1. \A p, q : p # r /\ q # r
             => (InOrder(waiters', p, q) <=> InOrder(waiters, p, q))
      BY <2>1, WithoutFacts DEF IInv
    <3>2. \A p, q : Before(p, q)' <=> InOrder(waiters', p, q)
      BY DEF Before, InOrder
    <3>3. \A p \in Line \X Line : p[1] # r /\ p[2] # r
      BY <2>2
    <3>4. \A p \in Line \X Line : Before(p[1], p[2])' <=> Before(p[1], p[2])
      BY <3>1, <3>2, <3>3, BeforeIsOrder
    <3>5. Ahead' = {p \in Line \X Line : Before(p[1], p[2])'}
      BY <2>2 DEF Ahead
    <3> QED BY <3>4, <3>5 DEF Ahead
  <2>4. InsideNow' = InsideNow
    <3>1. \A q \in Reqs : pc'[q] = "inside" <=> pc[q] = "inside"
      BY <2>1 DEF IInv, Typed
    <3> QED BY <3>1 DEF InsideNow
  <2>5. UNCHANGED T!vars
    BY <2>2, <2>3, <2>4 DEF T!vars, Line, Ahead, InsideNow
  <2> QED BY <2>5
<1>7. CASE Exit(r)
  <2>1. /\ pc[r] = "inside" /\ locked' = FALSE /\ UNCHANGED waiters
        /\ pc' = [pc EXCEPT ![r] = "idle"]
    BY <1>7 DEF Exit
  <2>2. Line' = Line
    BY <2>1 DEF Line, IInv, Typed
  <2>3. Ahead' = Ahead
    BY <2>1, <2>2 DEF Ahead, Before
  <2>4. InsideNow # Nobody /\ InsideNow' = Nobody
    BY <1>2, <2>1, QueueAssumption
  <2>5. T!Leave
    BY <2>2, <2>3, <2>4 DEF T!Leave, Line, Ahead, InsideNow
  <2> QED BY <2>5
<1> QED BY <1>3, <1>4, <1>5, <1>6, <1>7 DEF Step

\* The queue is a turnstile (the safety half of ServesInOrder): one request
\* at a time is served, in the order in which they came, whoever gives up.
THEOREM QueueIsTurnstile == Spec => T!Init /\ [][T!Next]_(T!vars)
<1>1. IInv /\ [Next]_vars => [T!Next]_(T!vars)
  <2> SUFFICES ASSUME IInv, [Next]_vars PROVE [T!Next]_(T!vars)
    OBVIOUS
  <2>1. CASE Next
    BY <2>1, StepRefines DEF Next, T!Next
  <2>2. CASE UNCHANGED vars
    BY <2>2 DEF vars, T!vars, Line, Before
  <2> QED BY <2>1, <2>2
<1> QED BY <1>1, InitRefines, QueueInvariant, PTL DEF Spec
=============================================================================
