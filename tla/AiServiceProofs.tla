---------------------------- MODULE AiServiceProofs ----------------------------
(***************************************************************************)
(* Proofs about AiService, for any requests, queues, tables and bounds: a  *)
(* request is worked on in one place and its reward is tracked in time,    *)
(* a traced response leaves only once its trace is on disk, and a request  *)
(* is neither done twice nor lost.                                         *)
(***************************************************************************)
EXTENDS AiService, FiniteSetTheorems, SequenceTheorems, WellFoundedInduction, TLAPS

\* How often a request is in a queue, and in a task.
Count(q, r) == Cardinality({i \in 1 .. Len(q) : q[i] = r})

At(task, r) == IF r \in Working(task) THEN 1 ELSE 0

\* The answers on their way, and the requests they are for.
Answers(s) == s.persisting \cup Inflight(s)

Answering(s) == {a[1] : a \in Answers(s)}

\* A handler of the right type, with tables within their limits.
Typed(s) ==
    /\ s \in Handler
    /\ Len(s.queue) <= QueueCap
    /\ IsFiniteSet(s.txids) /\ Cardinality(s.txids) <= SeenCap
    /\ s.txids \subseteq Rewarded

\* How often a request is being worked on.
Work(s, r) == Count(s.queue, r) + At(s.inference, r) + At(s.publish, r)

\* A request is worked on and answered no more often than it was met.
Counted(s, met) == \A r \in Request : Work(s, r) + s.made[r] <= met

\* OnePlace, place by place.
Apart(s, lost) ==
    \A r \in Request \ lost :
        /\ Work(s, r) <= 1
        /\ r \in Answering(s) => Work(s, r) = 0
        /\ \A a, b \in Answers(s) : a[1] = r /\ b[1] = r =>
              a = b /\ ~(a \in s.persisting /\ a \in Inflight(s))

\* A request that is worked on has been seen.
Noted(s, lost) ==
    \A r \in Request \ lost : Work(s, r) >= 1 \/ r \in Answering(s) => r \in s.seen

\* A request that pays has its transaction noted until its reward is tracked.
Paid(s, lost, paid) ==
    \A r \in Rewarded \ lost :
        /\ Work(s, r) >= 1 => r \in s.txids \cup paid
        /\ r \in Answering(s) => r \in paid

Sound(s, lost, paid, met) ==
    Typed(s) /\ Counted(s, met) /\ Apart(s, lost) /\ Paid(s, lost, paid)

\* What is on disk is tracked, and what is or was tracked pays.
RewardsTyped == ledger \subseteq tracked /\ Accounted \subseteq Rewarded

\* What the handler's surroundings are.
Around ==
    /\ kindOf \in Kindings
    /\ connected \in BOOLEAN
    /\ jobs \in Seq({"save", "flush"} \X Response)
    /\ written \subseteq Response /\ disk \subseteq Response
    /\ net \subseteq Response /\ known \subseteq Response
    /\ replies \subseteq Response
    /\ RewardsTyped
    /\ forgotten \subseteq Request /\ served \subseteq Request
    /\ scans \in 0 .. MaxScans

\* The reward of an answer that left is tracked.
SentIsPaid == \A a \in net \cup known : a[1] \in Rewarded \ forgotten => a[1] \in Accounted

\* The inductive invariant.
BooksInv ==
    /\ Around
    /\ Sound(h, forgotten, Accounted, scans)
    /\ IF connected THEN Noted(h, forgotten) ELSE h.persisting = {}
    /\ SentIsPaid

-----------------------------------------------------------------------------
\* Counting in queues.

\* The n-th of a set of numbers.
LEMMA NthIs ==
    ASSUME NEW m \in Nat, NEW K \in SUBSET (1 .. m), NEW n \in 1 .. Cardinality(K)
    PROVE  \E i \in K : Cardinality({j \in K : j <= i}) = n
<1> DEFINE Upto(i) == {j \in K : j <= i}
           T == {i \in Nat : Cardinality(Upto(i)) >= n}
<1>0. \A j \in K : j \in Nat /\ 1 <= j /\ j <= m
  OBVIOUS
<1>1. IsFiniteSet(K) /\ Cardinality(K) \in Nat
  <2>1. IsFiniteSet(1 .. m)
    BY FS_Interval
  <2> QED BY <2>1, FS_Subset, FS_CardinalityType
<1>2. \A i : IsFiniteSet(Upto(i)) /\ Cardinality(Upto(i)) \in Nat
  <2> SUFFICES ASSUME NEW i PROVE IsFiniteSet(Upto(i)) /\ Cardinality(Upto(i)) \in Nat
    OBVIOUS
  <2>1. Upto(i) \in SUBSET K
    OBVIOUS
  <2> HIDE DEF Upto
  <2> QED BY <1>1, <2>1, FS_Subset, FS_CardinalityType
<1>3. Upto(m) = K
  BY <1>0
<1>4. T # {}
  BY <1>3
<1>5. PICK k \in T : \A i \in T : ~(<<i, k>> \in OpToRel(<, Nat))
  <2>1. T \subseteq Nat
    OBVIOUS
  <2> HIDE DEF T
  <2> QED BY <1>4, <2>1, NatLessThanWellFounded, WFMin, Zenon
<1>6. \A i \in Nat : i < k => Cardinality(Upto(i)) < n
  <2> SUFFICES ASSUME NEW i \in Nat, i < k, ~(Cardinality(Upto(i)) < n) PROVE FALSE
    OBVIOUS
  <2>1. Cardinality(Upto(i)) >= n
    <3> HIDE DEF Upto
    <3> QED BY <1>2
  <2>2. i \in T /\ k \in Nat
    BY <2>1
  <2> QED BY <1>5, <2>2 DEF OpToRel
<1>7. k # 0
  <2>1. \A j \in K : ~(j <= 0)
    BY <1>0
  <2>2. Upto(0) = {}
    BY <2>1
  <2>3. Cardinality(Upto(0)) = 0
    BY <2>2, FS_EmptySet
  <2>4. SUFFICES ASSUME k = 0 PROVE FALSE
    OBVIOUS
  <2>5. Cardinality(Upto(0)) >= n
    BY <1>5, <2>4
  <2> HIDE DEF Upto
  <2> QED BY <2>3, <2>5
<1>8. k - 1 \in Nat /\ k - 1 < k /\ k \in Nat /\ Cardinality(Upto(k)) >= n
  BY <1>7
<1>9. Cardinality(Upto(k - 1)) < n
  BY <1>6, <1>8
<1>10. k \in K
  <2> SUFFICES ASSUME k \notin K PROVE FALSE
    OBVIOUS
  <2>1. \A j \in K : j <= k <=> j <= k - 1
    BY <1>0, <1>8
  <2>2. Upto(k) = Upto(k - 1)
    BY <2>1
  <2> HIDE DEF Upto
  <2> QED BY <1>2, <1>8, <1>9, <2>2
<1>11. Upto(k) = Upto(k - 1) \cup {k} /\ k \notin Upto(k - 1)
  <2>1. \A j \in K : j <= k <=> j <= k - 1 \/ j = k
    BY <1>0, <1>8
  <2>2. k <= k /\ ~(k <= k - 1)
    BY <1>8
  <2> QED BY <1>10, <2>1, <2>2
<1>12. Cardinality(Upto(k)) = Cardinality(Upto(k - 1)) + 1
  <2> HIDE DEF Upto
  <2> QED BY <1>2, <1>11, FS_AddElement
<1>13. Cardinality(Upto(k)) = n
  <2> HIDE DEF Upto
  <2> QED BY <1>2, <1>8, <1>9, <1>12
<1> QED BY <1>10, <1>13

\* A count is a number, and it is not 0 for what is there.
LEMMA CountIs ==
    ASSUME NEW S, NEW q \in Seq(S), NEW r
    PROVE  /\ IsFiniteSet({i \in 1 .. Len(q) : q[i] = r})
           /\ Count(q, r) \in Nat
           /\ r \in Elements(q) <=> Count(q, r) >= 1
<1> DEFINE I == {i \in 1 .. Len(q) : q[i] = r}
<1>1. IsFiniteSet(I) /\ Cardinality(I) \in Nat
  <2>1. IsFiniteSet(1 .. Len(q)) /\ I \in SUBSET (1 .. Len(q))
    BY FS_Interval
  <2> QED BY <2>1, FS_Subset, FS_CardinalityType
<1>2. r \in Elements(q) <=> I # {}
  BY DEF Elements
<1>3. Cardinality(I) = 0 <=> I = {}
  BY <1>1, FS_EmptySet
<1> HIDE DEF I
<1>4. r \in Elements(q) <=> Cardinality(I) >= 1
  BY <1>1, <1>2, <1>3
<1> QED BY <1>1, <1>4 DEF Count, I

\* A queue every place of which is a place of another holds nothing more often.
LEMMA CountBounded ==
    ASSUME NEW S, NEW q \in Seq(S), NEW t \in Seq(S), NEW f \in Injection(1 .. Len(t), 1 .. Len(q)),
           \A i \in 1 .. Len(t) : q[f[i]] = t[i],
           NEW r
    PROVE  Count(t, r) <= Count(q, r)
<1> DEFINE A == {i \in 1 .. Len(t) : t[i] = r}
           B == {i \in 1 .. Len(q) : q[i] = r}
           g == [i \in A |-> f[i]]
<1>0. f \in [1 .. Len(t) -> 1 .. Len(q)] /\ IsInjective(f)
  BY DEF Injection
<1>1. g \in [A -> B]
  BY <1>0
<1>2. \A i, j \in A : g[i] = g[j] => i = j
  <2> SUFFICES ASSUME NEW i \in A, NEW j \in A, g[i] = g[j] PROVE i = j
    OBVIOUS
  <2>1. i \in 1 .. Len(t) /\ j \in 1 .. Len(t) /\ f[i] = f[j]
    OBVIOUS
  <2> HIDE DEF A, g
  <2> QED BY <1>0, <2>1 DEF IsInjective
<1>3. IsFiniteSet(B)
  BY CountIs
<1> HIDE DEF A, B, g
<1>4. g \in Injection(A, B)
  BY <1>1, <1>2 DEF Injection, IsInjective
<1>5. Cardinality(A) <= Cardinality(B)
  BY <1>3, <1>4, FS_Injection
<1> QED BY <1>5 DEF Count, A, B

\* A request behind a queue, the first of a queue, and the queue from a place on.
LEMMA CountAppend ==
    ASSUME NEW S, NEW q \in Seq(S), NEW r \in S, NEW p
    PROVE  Count(Append(q, r), p) = Count(q, p) + (IF p = r THEN 1 ELSE 0)
<1> DEFINE t == Append(q, r)
           A == {i \in 1 .. Len(q) : q[i] = p}
           B == {i \in 1 .. Len(t) : t[i] = p}
<1>1. Len(q) \in Nat /\ Len(t) = Len(q) + 1 /\ t[Len(q) + 1] = r /\ \A i \in 1 .. Len(q) : t[i] = q[i]
  BY AppendProperties
<1>2. \A i : i \in 1 .. Len(t) <=> i \in 1 .. Len(q) \/ i = Len(q) + 1
  BY <1>1
<1>3. Len(q) + 1 \notin 1 .. Len(q)
  BY <1>1
<1>4. IsFiniteSet(A) /\ Cardinality(A) \in Nat
  BY CountIs DEF Count
<1>5. CASE p = r
  <2>1. B = A \cup {Len(q) + 1}
    BY <1>1, <1>2, <1>5
  <2>2. Cardinality(B) = Cardinality(A) + 1
    <3>1. Len(q) + 1 \notin A
      BY <1>3
    <3> HIDE DEF A, B
    <3> QED BY <1>4, <2>1, <3>1, FS_AddElement
  <2> QED BY <1>5, <2>2 DEF Count
<1>6. CASE p # r
  <2>1. B = A
    BY <1>1, <1>2, <1>3, <1>6
  <2>2. Count(t, p) = Count(q, p) /\ Count(q, p) \in Nat
    BY <2>1, CountIs DEF Count
  <2> QED BY <1>6, <2>2
<1> QED BY <1>5, <1>6

LEMMA CountSuffix ==
    ASSUME NEW S, NEW q \in Seq(S), NEW k \in 1 .. Len(q)
    PROVE  LET t == SubSeq(q, k, Len(q)) IN
           /\ t \in Seq(S) /\ Len(t) = Len(q) - k + 1 /\ t # <<>>
           /\ \A p : Count(t, p) <= Count(q, p)
<1> DEFINE t == SubSeq(q, k, Len(q))
<1>1. Len(q) \in Nat /\ k \in Nat /\ 1 <= k /\ k <= Len(q) /\ \A i \in 1 .. Len(q) : q[i] \in S
  OBVIOUS
<1>2. \A i \in k .. Len(q) : q[i] \in S
  BY <1>1
<1>3. t \in Seq(S) /\ Len(t) = Len(q) - k + 1 /\ \A i \in 1 .. Len(q) - k + 1 : t[i] = q[k + i - 1]
  BY <1>1, <1>2, SubSeqProperties
<1> HIDE DEF t
<1>4. t # <<>>
  BY <1>1, <1>3
<1> DEFINE f == [i \in 1 .. Len(t) |-> k + i - 1]
<1>5. f \in [1 .. Len(t) -> 1 .. Len(q)]
  BY <1>1, <1>3
<1>6. \A i \in 1 .. Len(t) : q[f[i]] = t[i]
  BY <1>1, <1>3
<1>7. \A i, j \in 1 .. Len(t) : f[i] = f[j] => i = j
  BY <1>1, <1>3
<1> HIDE DEF f
<1>8. f \in Injection(1 .. Len(t), 1 .. Len(q))
  BY <1>5, <1>7 DEF Injection, IsInjective
<1>9. \A p : Count(t, p) <= Count(q, p)
  BY <1>3, <1>6, <1>8, CountBounded
<1> QED BY <1>3, <1>4, <1>9 DEF t

LEMMA CountTail ==
    ASSUME NEW S, NEW q \in Seq(S), q # <<>>, NEW p
    PROVE  /\ Head(q) \in S /\ Tail(q) \in Seq(S) /\ Len(Tail(q)) = Len(q) - 1
           /\ Count(q, p) = Count(Tail(q), p) + (IF p = Head(q) THEN 1 ELSE 0)
<1>1. /\ Head(q) \in S /\ Tail(q) \in Seq(S) /\ Len(Tail(q)) = Len(q) - 1
      /\ Len(q) \in Nat \ {0} /\ Head(q) = q[1] /\ \A i \in 1 .. Len(q) - 1 : Tail(q)[i] = q[i + 1]
  BY HeadTailProperties, EmptySeq
<1> DEFINE A == {i \in 1 .. Len(Tail(q)) : Tail(q)[i] = p}
           B == {i \in 1 .. Len(q) : q[i] = p}
           C == B \ {1}
           f == [i \in A |-> i + 1]
<1>2. IsFiniteSet(A) /\ Cardinality(A) \in Nat /\ IsFiniteSet(B) /\ Cardinality(B) \in Nat
  <2>1. Tail(q) \in Seq(S)
    BY <1>1
  <2> QED BY <2>1, CountIs DEF Count
<1>3. f \in [A -> C]
  BY <1>1
<1>4. \A i, j \in A : f[i] = f[j] => i = j
  BY <1>1
<1>5. \A j \in C : j - 1 \in A /\ f[j - 1] = j
  BY <1>1
<1>6. Cardinality(C) = Cardinality(A)
  <2> HIDE DEF f, A, C
  <2>1. f \in Bijection(A, C)
    BY <1>3, <1>4, <1>5 DEF Bijection, Injection, Surjection, IsInjective
  <2> QED BY <1>2, <2>1, FS_Bijection DEF ExistsBijection
<1>7. 1 \in B <=> p = Head(q)
  BY <1>1
<1>8. Cardinality(C) = IF 1 \in B THEN Cardinality(B) - 1 ELSE Cardinality(B)
  <2> HIDE DEF B
  <2> QED BY <1>2, FS_RemoveElement
<1>9. Cardinality(B) = Cardinality(A) + (IF p = Head(q) THEN 1 ELSE 0)
  <2> HIDE DEF A, B, C
  <2> QED BY <1>2, <1>6, <1>7, <1>8
<1> QED BY <1>1, <1>9 DEF Count

\* A queue without a request.
LEMMA WithoutIs ==
    ASSUME NEW S, NEW q \in Seq(S), NEW r
    PROVE  /\ Without(q, r) \in Seq(S) /\ Len(Without(q, r)) <= Len(q)
           /\ \A p : Count(Without(q, r), p) <= Count(q, p)
           /\ Count(Without(q, r), r) = 0
<1> DEFINE keep == {i \in 1 .. Len(q) : q[i] /= r}
           nth(n) == CHOOSE i \in keep : Cardinality({j \in keep : j <= i}) = n
           t == Without(q, r)
           f == [n \in 1 .. Len(t) |-> nth(n)]
<1>1. Len(q) \in Nat /\ keep \in SUBSET (1 .. Len(q)) /\ \A i \in keep : q[i] \in S /\ q[i] # r
  OBVIOUS
<1>2. IsFiniteSet(keep) /\ Cardinality(keep) \in Nat /\ Cardinality(keep) <= Len(q)
  <2> HIDE DEF keep
  <2>1. IsFiniteSet(1 .. Len(q)) /\ Cardinality(1 .. Len(q)) = Len(q)
    <3> DEFINE n == Len(q)
    <3>1. n \in Nat
      OBVIOUS
    <3> HIDE DEF n
    <3>2. IsFiniteSet(1 .. n) /\ Cardinality(1 .. n) = n
      BY <3>1, FS_Interval
    <3> QED BY <3>2 DEF n
  <2> QED BY <1>1, <2>1, FS_Subset, FS_CardinalityType
<1>3. \A n \in 1 .. Cardinality(keep) : nth(n) \in keep /\ Cardinality({j \in keep : j <= nth(n)}) = n
  <2> HIDE DEF keep
  <2> SUFFICES ASSUME NEW n \in 1 .. Cardinality(keep)
               PROVE  nth(n) \in keep /\ Cardinality({j \in keep : j <= nth(n)}) = n
    OBVIOUS
  <2>1. \E i \in keep : Cardinality({j \in keep : j <= i}) = n
    BY <1>1, NthIs
  <2> QED BY <2>1, Zenon
<1>4. t = [n \in 1 .. Cardinality(keep) |-> q[nth(n)]]
  BY DEF Without
<1> HIDE DEF t, keep, nth
<1>5. t \in Seq(S) /\ Len(t) = Cardinality(keep) /\ \A n \in 1 .. Cardinality(keep) : t[n] = q[nth(n)]
  <2>1. t \in [1 .. Cardinality(keep) -> S]
    BY <1>1, <1>3, <1>4
  <2>2. t \in Seq(S)
    BY <1>2, <2>1, IsASeq
  <2> QED BY <1>2, <1>4, <2>1, <2>2, LenProperties
<1>6. f \in Injection(1 .. Len(t), 1 .. Len(q)) /\ \A n \in 1 .. Len(t) : q[f[n]] = t[n]
  <2>1. f \in [1 .. Len(t) -> 1 .. Len(q)]
    BY <1>1, <1>3, <1>5
  <2>2. \A n \in 1 .. Len(t) : f[n] = nth(n)
    OBVIOUS
  <2> HIDE DEF f
  <2>3. \A m, n \in 1 .. Len(t) : f[m] = f[n] => m = n
    <3> SUFFICES ASSUME NEW m \in 1 .. Len(t), NEW n \in 1 .. Len(t), f[m] = f[n] PROVE m = n
      OBVIOUS
    <3>1. nth(m) = nth(n)
      BY <2>2
    <3>2. /\ Cardinality({j \in keep : j <= nth(m)}) = m
          /\ Cardinality({j \in keep : j <= nth(n)}) = n
      BY <1>3, <1>5
    <3> QED BY <3>1, <3>2
  <2>4. \A n \in 1 .. Len(t) : q[f[n]] = t[n]
    BY <1>5, <2>2
  <2> QED BY <2>1, <2>3, <2>4 DEF Injection, IsInjective
<1>7. \A p : Count(t, p) <= Count(q, p)
  <2> HIDE DEF f
  <2> QED BY <1>5, <1>6, CountBounded
<1>8. Count(t, r) = 0
  <2>1. \A n \in 1 .. Len(t) : t[n] # r
    BY <1>1, <1>3, <1>5
  <2>2. {n \in 1 .. Len(t) : t[n] = r} = {}
    BY <2>1
  <2> QED BY <2>2, FS_EmptySet DEF Count
<1> QED BY <1>2, <1>5, <1>7, <1>8 DEF t

\* A queue with nothing in it.
LEMMA CountEmpty == \A p : Count(<<>>, p) = 0
<1> SUFFICES ASSUME NEW p PROVE Count(<<>>, p) = 0
  OBVIOUS
<1>1. {i \in 1 .. Len(<<>>) : <<>>[i] = p} = {}
  OBVIOUS
<1> QED BY <1>1, FS_EmptySet DEF Count

\* What is left of a queue past the requests already answered.
LEMMA RemainingIs ==
    ASSUME NEW s, s.queue \in Seq(Request)
    PROVE  /\ Remaining(s) \in Seq(Request) /\ Len(Remaining(s)) <= Len(s.queue)
           /\ \A p : Count(Remaining(s), p) <= Count(s.queue, p)
<1> DEFINE q == s.queue
           open == {i \in 1 .. Len(q) : q[i] \notin s.answered}
           first == CHOOSE i \in open : \A j \in open : i <= j
<1>1. CASE open = {}
  <2>1. Remaining(s) = <<>>
    BY <1>1 DEF Remaining
  <2>2. \A p : Count(q, p) \in Nat
    BY CountIs
  <2>3. Len(q) \in Nat
    OBVIOUS
  <2> QED BY <2>1, <2>2, <2>3, CountEmpty
<1>2. CASE open # {}
  <2>1. \E i \in open : \A j \in open : i <= j
    <3>1. open \subseteq Nat
      OBVIOUS
    <3> HIDE DEF open
    <3>2. PICK i \in open : \A j \in open : ~(<<j, i>> \in OpToRel(<, Nat))
      BY <1>2, <3>1, NatLessThanWellFounded, WFMin, Zenon
    <3>3. \A j \in open : ~(j < i)
      BY <3>1, <3>2 DEF OpToRel
    <3> QED BY <3>1, <3>3
  <2>2. first \in open
    BY <2>1
  <2>3. first \in 1 .. Len(q)
    <3> HIDE DEF first
    <3> QED BY <2>2
  <2>4. Remaining(s) = SubSeq(q, first, Len(q))
    BY <1>2 DEF Remaining
  <2> HIDE DEF first
  <2>5. Len(Remaining(s)) = Len(q) - first + 1 /\ Remaining(s) \in Seq(Request)
        /\ \A p : Count(Remaining(s), p) <= Count(q, p)
    BY <2>3, <2>4, CountSuffix
  <2>6. Len(q) - first + 1 <= Len(q)
    BY <2>3
  <2> QED BY <2>5, <2>6
<1> QED BY <1>1, <1>2

-----------------------------------------------------------------------------
\* Handlers.

\* The parts of a handler that one of its operations leaves alone.
SameWork(s, t) == t.queue = s.queue /\ t.inference = s.inference /\ t.publish = s.publish

SameAnswers(s, t) == t.persisting = s.persisting /\ t.inflight = s.inflight /\ t.made = s.made

SameTables(s, t) == t.seen = s.seen /\ t.txids = s.txids

LEMMA FieldsAre ==
    ASSUME NEW s \in Handler
    PROVE  /\ s.queue \in Seq(Request) /\ s.seen \in SUBSET Request /\ s.answered \in SUBSET Request
           /\ s.txids \in SUBSET Request
           /\ s.inference \in Task \cup {None} /\ s.publish \in Task \cup {None}
           /\ s.persisting \in SUBSET Response /\ s.inflight \in [Response -> 0 .. MaxAttempts]
           /\ s.made \in [Request -> 0 .. MaxScans] /\ s.asked \in BOOLEAN
BY DEF Handler

LEMMA WorkIs ==
    ASSUME NEW s \in Handler, NEW r
    PROVE  /\ Count(s.queue, r) \in Nat /\ At(s.inference, r) \in {0, 1} /\ At(s.publish, r) \in {0, 1}
           /\ Work(s, r) \in Nat
<1>1. Count(s.queue, r) \in Nat
  BY FieldsAre, CountIs
<1> QED BY <1>1 DEF Work, At

\* One field at a time.
LEMMA SetQueue ==
    ASSUME NEW s \in Handler, NEW q \in Seq(Request)
    PROVE  LET t == [s EXCEPT !.queue = q] IN
           /\ t \in Handler /\ t.queue = q /\ t.inference = s.inference /\ t.publish = s.publish
           /\ SameAnswers(s, t) /\ SameTables(s, t)
BY DEF Handler, SameAnswers, SameTables

LEMMA SetTables ==
    ASSUME NEW s \in Handler, NEW q \in Seq(Request), NEW X \in SUBSET Request, NEW Y \in SUBSET Request
    PROVE  LET t == [s EXCEPT !.queue = q, !.seen = X, !.txids = Y] IN
           /\ t \in Handler /\ t.queue = q /\ t.inference = s.inference /\ t.publish = s.publish
           /\ t.seen = X /\ t.txids = Y /\ SameAnswers(s, t)
BY DEF Handler, SameAnswers

LEMMA SetAnswered ==
    ASSUME NEW s \in Handler, NEW q \in Seq(Request), NEW X \in SUBSET Request
    PROVE  LET t == [s EXCEPT !.answered = X, !.queue = q] IN
           /\ t \in Handler /\ t.queue = q /\ t.inference = s.inference /\ t.publish = s.publish
           /\ SameAnswers(s, t) /\ SameTables(s, t)
BY DEF Handler, SameAnswers, SameTables

LEMMA SetInference ==
    ASSUME NEW s \in Handler, NEW q \in Seq(Request), NEW task \in Task
    PROVE  LET t == [s EXCEPT !.queue = q, !.inference = task] IN
           /\ t \in Handler /\ t.queue = q /\ t.inference = task /\ t.publish = s.publish
           /\ SameAnswers(s, t) /\ SameTables(s, t)
BY DEF Handler, SameAnswers, SameTables

LEMMA SetAsked ==
    ASSUME NEW s \in Handler, NEW b \in BOOLEAN
    PROVE  LET t == [s EXCEPT !.asked = b] IN
           t \in Handler /\ SameWork(s, t) /\ SameAnswers(s, t) /\ SameTables(s, t)
BY DEF Handler, SameAnswers, SameTables, SameWork

\* Work that only shrinks.
LEMMA LessWork ==
    ASSUME NEW s, NEW t, Typed(s), t \in Handler, Len(t.queue) <= QueueCap,
           SameAnswers(s, t), SameTables(s, t), \A p : Work(t, p) <= Work(s, p),
           NEW lost, NEW paid, NEW met \in Nat
    PROVE  /\ Sound(s, lost, paid, met) => Sound(t, lost, paid, met)
           /\ Noted(s, lost) => Noted(t, lost)
<1>1. Typed(t)
  BY DEF Typed, SameTables
<1>2. Answers(t) = Answers(s) /\ Answering(t) = Answering(s) /\ Inflight(t) = Inflight(s) /\ t.made = s.made
      /\ t.persisting = s.persisting /\ t.txids = s.txids /\ t.seen = s.seen
  BY DEF SameAnswers, SameTables, Answers, Answering, Inflight
<1>3. \A p : Work(t, p) \in Nat /\ Work(s, p) \in Nat
  BY WorkIs DEF Typed
<1>4. \A p \in Request : s.made[p] \in Nat
  BY FieldsAre DEF Typed
<1>5. Counted(s, met) => Counted(t, met)
  BY <1>2, <1>3, <1>4 DEF Counted
<1>6. Apart(s, lost) => Apart(t, lost)
  BY <1>2, <1>3 DEF Apart
<1>7. Paid(s, lost, paid) => Paid(t, lost, paid)
  BY <1>2, <1>3 DEF Paid
<1>8. Noted(s, lost) => Noted(t, lost)
  BY <1>2, <1>3 DEF Noted
<1> QED BY <1>1, <1>5, <1>6, <1>7, <1>8 DEF Sound

\* More lost, more paid and more met changes nothing.
LEMMA SoundGrows ==
    ASSUME NEW s, NEW lost, NEW lost2, lost \subseteq lost2, NEW paid, NEW paid2, paid \subseteq paid2,
           NEW met \in Nat, NEW met2 \in Nat, met <= met2
    PROVE  /\ Sound(s, lost, paid, met) => Sound(s, lost2, paid2, met2)
           /\ Noted(s, lost) => Noted(s, lost2)
<1>1. ASSUME Typed(s), Counted(s, met) PROVE Counted(s, met2)
  <2>1. \A r \in Request : Work(s, r) \in Nat /\ s.made[r] \in Nat
    BY <1>1, WorkIs, FieldsAre DEF Typed
  <2> QED BY <1>1, <2>1 DEF Counted
<1>2. Apart(s, lost) => Apart(s, lost2)
  BY DEF Apart
<1>3. Paid(s, lost, paid) => Paid(s, lost2, paid2)
  BY DEF Paid
<1>4. Noted(s, lost) => Noted(s, lost2)
  BY DEF Noted
<1> QED BY <1>1, <1>2, <1>3, <1>4 DEF Sound

-----------------------------------------------------------------------------
\* Scanning.

\* An answer on the chain takes its request off the queue.
LEMMA NoteAnswerIs ==
    ASSUME NEW s, Typed(s), NEW r \in Request
    PROVE  LET t == NoteAnswer(s, r) IN
           /\ t \in Handler /\ Len(t.queue) <= QueueCap
           /\ SameAnswers(s, t) /\ SameTables(s, t) /\ \A p : Work(t, p) <= Work(s, p)
<1> DEFINE X == IF Cardinality(s.answered \cup {r}) > SeenCap THEN {} ELSE s.answered \cup {r}
           q == Without(s.queue, r)
           t == [s EXCEPT !.answered = X, !.queue = q]
<1>1. s \in Handler /\ s.queue \in Seq(Request) /\ X \in SUBSET Request
      /\ Len(s.queue) <= QueueCap /\ Len(s.queue) \in Nat /\ QueueCap \in Nat
  BY FieldsAre, ServiceAssumption DEF Typed
<1>2. q \in Seq(Request) /\ Len(q) <= Len(s.queue) /\ \A p : Count(q, p) <= Count(s.queue, p)
  BY <1>1, WithoutIs
<1>3. NoteAnswer(s, r) = t
  BY DEF NoteAnswer
<1> HIDE DEF X, q
<1>4. /\ t \in Handler /\ t.queue = q /\ t.inference = s.inference /\ t.publish = s.publish
      /\ SameAnswers(s, t) /\ SameTables(s, t)
  BY <1>1, <1>2, SetAnswered
<1> HIDE DEF t
<1>5. Len(t.queue) <= QueueCap
  <2>1. Len(q) \in Nat
    BY <1>2
  <2> QED BY <1>1, <1>2, <1>4, <2>1
<1>6. \A p : Work(t, p) <= Work(s, p)
  <2> SUFFICES ASSUME NEW p PROVE Work(t, p) <= Work(s, p)
    OBVIOUS
  <2>1. Count(s.queue, p) \in Nat /\ At(s.inference, p) \in Nat /\ At(s.publish, p) \in Nat
    <3>1. s \in Handler
      BY <1>1
    <3> QED BY <3>1, WorkIs
  <2>2. Count(q, p) \in Nat /\ Count(q, p) <= Count(s.queue, p)
    BY <1>2, CountIs
  <2> QED BY <1>4, <2>1, <2>2 DEF Work
<1> QED BY <1>3, <1>4, <1>5, <1>6

\* A request met is queued when it was not seen, and its transaction noted.
LEMMA NoteRequestIs ==
    ASSUME NEW s, Typed(s), NEW r \in Request, NEW ready \in BOOLEAN
    PROVE  LET t == NoteRequest(s, r, ready) IN
           /\ Typed(t) /\ SameAnswers(s, t)
           /\ \/ \A p : Work(t, p) = Work(s, p)
              \/ /\ r \notin s.seen /\ r \in t.seen /\ (r \in Rewarded => r \in t.txids)
                 /\ \A p : Work(t, p) = Work(s, p) + (IF p = r THEN 1 ELSE 0)
<1> DEFINE t == NoteRequest(s, r, ready)
           fresh == r \notin s.seen
           q == IF fresh THEN Queued(s, r) ELSE s.queue
           X == IF fresh THEN Trimmed(s.seen \cup {r}, q) ELSE s.seen
           Y == IF r \in Rewarded THEN Rewards(s, r) ELSE s.txids
           u == [s EXCEPT !.queue = q, !.seen = X, !.txids = Y]
<1>1. /\ s \in Handler /\ s.queue \in Seq(Request) /\ s.seen \in SUBSET Request /\ s.txids \in SUBSET Request
      /\ Len(s.queue) <= QueueCap /\ Len(s.queue) \in Nat /\ QueueCap \in Nat
  BY FieldsAre, ServiceAssumption DEF Typed
<1>2. CASE ~ready \/ r \in s.answered
  <2>1. t = s
    BY <1>2 DEF NoteRequest
  <2> QED BY <2>1 DEF SameAnswers
<1>3. CASE ~(~ready \/ r \in s.answered)
  <2>1. t = u
    BY <1>3 DEF NoteRequest
  <2>2. \/ q = s.queue
        \/ q = Append(s.queue, r) /\ fresh /\ Len(s.queue) < QueueCap
    BY DEF Queued
  <2>3. q \in Seq(Request) /\ Len(q) <= QueueCap
    <3>1. Append(s.queue, r) \in Seq(Request) /\ Len(Append(s.queue, r)) = Len(s.queue) + 1
      BY <1>1, AppendProperties
    <3> HIDE DEF q
    <3>2. CASE q = s.queue
      BY <1>1, <3>2
    <3>3. CASE q = Append(s.queue, r) /\ Len(s.queue) < QueueCap
      <4>1. Len(s.queue) + 1 <= QueueCap
        BY <1>1, <3>3
      <4> QED BY <3>1, <3>3, <4>1
    <3> QED BY <2>2, <3>2, <3>3
  <2>4. X \in SUBSET Request /\ (X = s.seen \/ X = s.seen \cup {r} \/ X = Elements(q))
    <3>1. Elements(q) \subseteq Request
      BY <2>3 DEF Elements
    <3> QED BY <1>1, <3>1 DEF Trimmed
  <2>5. /\ Y \in SUBSET Request /\ Y \subseteq Rewarded /\ IsFiniteSet(Y) /\ Cardinality(Y) <= SeenCap
        /\ r \in Rewarded => r \in Y
    <3>1. IsFiniteSet(s.txids) /\ Cardinality(s.txids) <= SeenCap /\ s.txids \subseteq Rewarded /\ SeenCap \in Nat \ {0}
      BY ServiceAssumption DEF Typed
    <3>2. CASE r \notin Rewarded
      BY <1>1, <3>1, <3>2
    <3>3. CASE r \in Rewarded
      <4> DEFINE Z == IF Cardinality(s.txids) >= SeenCap THEN {} ELSE s.txids
      <4>1. Y = Z \cup {r}
        BY <3>3 DEF Rewards
      <4>2. IsFiniteSet(Z) /\ Cardinality(Z) < SeenCap /\ Cardinality(Z) \in Nat /\ Z \subseteq Rewarded /\ Z \subseteq Request
        <5>1. IsFiniteSet({}) /\ Cardinality({}) = 0 /\ Cardinality(s.txids) \in Nat
          BY <3>1, FS_EmptySet, FS_CardinalityType
        <5> QED BY <1>1, <3>1, <5>1
      <4> HIDE DEF Y, Z
      <4>3. IsFiniteSet(Z \cup {r}) /\ Cardinality(Z \cup {r}) <= Cardinality(Z) + 1
            /\ Cardinality(Z \cup {r}) \in Nat
        <5>1. IsFiniteSet(Z \cup {r}) /\ Cardinality(Z \cup {r}) = IF r \in Z THEN Cardinality(Z) ELSE Cardinality(Z) + 1
          BY <4>2, FS_AddElement
        <5> QED BY <4>2, <5>1
      <4>4. Cardinality(Z \cup {r}) <= SeenCap
        BY <3>1, <4>2, <4>3
      <4>5. Y \subseteq Rewarded /\ Y \subseteq Request /\ r \in Y
        BY <3>3, <4>1, <4>2
      <4> QED BY <4>1, <4>3, <4>4, <4>5
    <3> QED BY <3>2, <3>3
  <2>6. q = Append(s.queue, r) /\ fresh => r \in X
    <3>1. q = Append(s.queue, r) => r \in Elements(q)
      <4>1. Len(Append(s.queue, r)) = Len(s.queue) + 1 /\ Append(s.queue, r)[Len(s.queue) + 1] = r
        BY <1>1, AppendProperties
      <4>2. Len(s.queue) + 1 \in 1 .. Len(s.queue) + 1
        BY <1>1
      <4> HIDE DEF q
      <4> QED BY <4>1, <4>2 DEF Elements
    <3> QED BY <3>1 DEF Trimmed
  <2> HIDE DEF q, X, Y
  <2>7. /\ u \in Handler /\ u.queue = q /\ u.inference = s.inference /\ u.publish = s.publish
        /\ u.seen = X /\ u.txids = Y /\ SameAnswers(s, u)
    BY <1>1, <2>3, <2>4, <2>5, SetTables
  <2> HIDE DEF u, t
  <2>8. Typed(u)
    BY <2>3, <2>5, <2>7 DEF Typed
  <2>9. CASE q = s.queue
    <3>1. \A p : Work(u, p) = Work(s, p)
      BY <2>7, <2>9 DEF Work
    <3> QED BY <2>1, <2>7, <2>8, <3>1 DEF t
  <2>10. CASE q = Append(s.queue, r) /\ fresh
    <3> SUFFICES \A p : Work(u, p) = Work(s, p) + (IF p = r THEN 1 ELSE 0)
      BY <2>1, <2>5, <2>6, <2>7, <2>8, <2>10 DEF t
    <3> SUFFICES ASSUME NEW p PROVE Work(u, p) = Work(s, p) + (IF p = r THEN 1 ELSE 0)
      OBVIOUS
    <3>1. Count(q, p) = Count(s.queue, p) + (IF p = r THEN 1 ELSE 0)
      BY <1>1, <2>10, CountAppend
    <3> HIDE DEF q, X, Y, u
    <3>2. Count(s.queue, p) \in Nat /\ At(s.inference, p) \in Nat /\ At(s.publish, p) \in Nat
      <4>1. s \in Handler
        BY <1>1
      <4> QED BY <4>1, WorkIs
    <3> QED BY <2>7, <3>1, <3>2 DEF Work
  <2> QED BY <2>2, <2>9, <2>10
<1> QED BY <1>2, <1>3

\* What a scan keeps, whichever transaction it meets.
LEMMA ScanIs ==
    ASSUME NEW s, NEW tx \in {<<"none">>} \cup ({"request"} \X Request) \cup ({"answer"} \X Request),
           NEW ready \in BOOLEAN, NEW lost, NEW lost2, NEW paid, NEW met \in Nat, NEW met2 \in Nat,
           lost \cup Overflowed(s, Scan(s, tx, ready), tx) \subseteq lost2,
           met <= met2, tx[1] = "request" => met + 1 <= met2,
           Sound(s, lost, paid, met), Noted(s, lost)
    PROVE  Sound(Scan(s, tx, ready), lost2, paid, met2) /\ Noted(Scan(s, tx, ready), lost2)
<1> DEFINE t == Scan(s, tx, ready)
<1>1. lost \subseteq lost2 /\ s.seen \ t.seen \subseteq lost2 /\ s.txids \ t.txids \subseteq lost2
  BY DEF Overflowed
<1>2. Sound(s, lost2, paid, met2) /\ Noted(s, lost2) /\ Typed(s)
  <2>1. lost \subseteq lost2 /\ paid \subseteq paid
    BY <1>1
  <2> QED BY <2>1, SoundGrows DEF Sound
<1>3. CASE tx = <<"none">>
  <2>1. t = s
    BY <1>3 DEF Scan
  <2> QED BY <1>2, <2>1
<1>4. CASE tx \in {"answer"} \X Request
  <2>1. tx[1] = "answer" /\ tx[2] \in Request
    BY <1>4
  <2>2. t = NoteAnswer(s, tx[2])
    BY <2>1 DEF Scan
  <2> HIDE DEF t
  <2>3. /\ t \in Handler /\ Len(t.queue) <= QueueCap
        /\ SameAnswers(s, t) /\ SameTables(s, t) /\ \A p : Work(t, p) <= Work(s, p)
    BY <1>2, <2>1, <2>2, NoteAnswerIs
  <2>4. Sound(t, lost2, paid, met2) /\ Noted(t, lost2)
    BY <1>2, <2>3, LessWork
  <2> QED BY <2>4 DEF t
<1>5. CASE tx \in {"request"} \X Request
  <2>1. tx[1] = "request" /\ tx[2] \in Request /\ met + 1 <= met2
    BY <1>5
  <2>2. t = NoteRequest(s, tx[2], ready)
    BY <2>1 DEF Scan
  <2> DEFINE r == tx[2]
  <2> HIDE DEF t
  <2>3. /\ Typed(t) /\ SameAnswers(s, t)
        /\ \/ \A p : Work(t, p) = Work(s, p)
           \/ /\ r \notin s.seen /\ r \in t.seen /\ (r \in Rewarded => r \in t.txids)
              /\ \A p : Work(t, p) = Work(s, p) + (IF p = r THEN 1 ELSE 0)
    BY <1>2, <2>1, <2>2, NoteRequestIs
  <2> HIDE DEF r
  <2>4. /\ Answers(t) = Answers(s) /\ Answering(t) = Answering(s) /\ Inflight(t) = Inflight(s)
        /\ t.made = s.made /\ t.persisting = s.persisting
    BY <2>3 DEF SameAnswers, Answers, Answering, Inflight
  <2>5. \A p : Work(s, p) \in Nat
    BY <1>2, WorkIs DEF Typed
  <2>6. \A p : \/ Work(t, p) = Work(s, p)
               \/ /\ p = r /\ Work(t, p) = Work(s, p) + 1
                  /\ r \notin s.seen /\ r \in t.seen /\ (r \in Rewarded => r \in t.txids)
    BY <2>3, <2>5
  <2>7. \A p : p \notin lost2 => (p \in s.seen => p \in t.seen) /\ (p \in s.txids => p \in t.txids)
    BY <1>1 DEF t
  <2>8. Counted(t, met2)
    <3>1. \A p \in Request : Work(s, p) + s.made[p] <= met /\ s.made[p] \in Nat
      BY <1>2, FieldsAre DEF Sound, Counted, Typed
    <3> QED BY <2>1, <2>4, <2>5, <2>6, <3>1 DEF Counted
  <2>9. \A p \in Request \ lost2 : p \notin s.seen => Work(s, p) = 0 /\ p \notin Answering(s)
    BY <1>2, <2>5 DEF Noted
  <2>10. Apart(t, lost2)
    <3>1. Apart(s, lost2)
      BY <1>2 DEF Sound
    <3> QED BY <2>4, <2>5, <2>6, <2>9, <3>1 DEF Apart
  <2>11. Noted(t, lost2)
    BY <1>2, <2>4, <2>5, <2>6, <2>7 DEF Noted
  <2>12. Paid(t, lost2, paid)
    <3>1. Paid(s, lost2, paid)
      BY <1>2 DEF Sound
    <3> QED BY <2>4, <2>5, <2>6, <2>7, <3>1 DEF Paid
  <2>13. Sound(t, lost2, paid, met2)
    BY <2>3, <2>8, <2>10, <2>12 DEF Sound
  <2> QED BY <2>11, <2>13 DEF t
<1> QED BY <1>3, <1>4, <1>5

-----------------------------------------------------------------------------
\* Inference and answers.

\* Starting an inference takes its request off the queue, with those before it.
LEMMA TryStartIs ==
    ASSUME NEW s, Typed(s), NEW ready \in BOOLEAN, NEW held \in BOOLEAN
    PROVE  LET t == TryStartInference(s, ready, held) IN
           /\ t \in Handler /\ Len(t.queue) <= QueueCap
           /\ SameAnswers(s, t) /\ SameTables(s, t) /\ \A p : Work(t, p) <= Work(s, p)
<1> DEFINE t == TryStartInference(s, ready, held)
           q == Remaining(s)
<1>1. /\ s \in Handler /\ s.queue \in Seq(Request) /\ Len(s.queue) \in Nat /\ QueueCap \in Nat
      /\ Len(s.queue) <= QueueCap
  BY FieldsAre, ServiceAssumption DEF Typed
<1>2. q \in Seq(Request) /\ Len(q) <= Len(s.queue) /\ \A p : Count(q, p) <= Count(s.queue, p)
  BY <1>1, RemainingIs
<1>3. \A p : /\ Count(s.queue, p) \in Nat /\ Count(q, p) \in Nat
             /\ At(s.inference, p) \in Nat /\ At(s.publish, p) \in Nat /\ Work(s, p) \in Nat
  <2>1. \A p : Count(q, p) \in Nat
    BY <1>2, CountIs
  <2>2. \A p : Count(s.queue, p) \in Nat /\ Work(s, p) \in Nat
    BY <1>1, WorkIs
  <2>3. \A p : At(s.inference, p) \in Nat /\ At(s.publish, p) \in Nat
    BY DEF At
  <2> QED BY <2>1, <2>2, <2>3
<1>4. CASE s.inference # None \/ held \/ s.queue = <<>>
  <2>1. t = s
    BY <1>4 DEF TryStartInference
  <2> QED BY <1>1, <1>3, <2>1 DEF SameAnswers, SameTables
<1>5. CASE ~(s.inference # None \/ held \/ s.queue = <<>>) /\ q = <<>>
  <2>1. t = [s EXCEPT !.queue = <<>>]
    BY <1>5 DEF TryStartInference
  <2> HIDE DEF t
  <2>2. <<>> \in Seq(Request) /\ Len(<<>>) = 0
    OBVIOUS
  <2>3. /\ t \in Handler /\ t.queue = <<>> /\ t.inference = s.inference /\ t.publish = s.publish
        /\ SameAnswers(s, t) /\ SameTables(s, t)
    BY <1>1, <2>1, <2>2, SetQueue
  <2>4. \A p : Work(t, p) <= Work(s, p)
    BY <1>3, <2>3, CountEmpty DEF Work
  <2> QED BY <1>1, <2>2, <2>3, <2>4 DEF t
<1>6. CASE ~(s.inference # None \/ held \/ s.queue = <<>>) /\ q # <<>>
  <2> DEFINE r == Head(q)
             rest == Tail(q)
  <2>1. r \in Request /\ rest \in Seq(Request) /\ Len(rest) = Len(q) - 1
    BY <1>2, <1>6, CountTail
  <2>2. \A p : Count(q, p) = Count(rest, p) + (IF p = r THEN 1 ELSE 0) /\ Count(rest, p) \in Nat
    BY <1>2, <1>6, <2>1, CountTail, CountIs
  <2>3. Len(rest) <= QueueCap
    BY <1>1, <1>2, <2>1
  <2>4. \/ t = [s EXCEPT !.queue = rest]
        \/ \E at \in {"running", "text"} : t = [s EXCEPT !.queue = rest, !.inference = [req |-> r, at |-> at]]
    BY <1>6 DEF TryStartInference
  <2> HIDE DEF t, r, rest, q
  <2>5. CASE t = [s EXCEPT !.queue = rest]
    <3>1. /\ t \in Handler /\ t.queue = rest /\ t.inference = s.inference /\ t.publish = s.publish
          /\ SameAnswers(s, t) /\ SameTables(s, t)
      BY <1>1, <2>1, <2>5, SetQueue
    <3>2. \A p : Work(t, p) <= Work(s, p)
      BY <1>2, <1>3, <2>2, <3>1 DEF Work
    <3> QED BY <2>3, <3>1, <3>2 DEF t
  <2>6. CASE \E at \in {"running", "text"} : t = [s EXCEPT !.queue = rest, !.inference = [req |-> r, at |-> at]]
    <3>1. PICK at \in {"running", "text"} : t = [s EXCEPT !.queue = rest, !.inference = [req |-> r, at |-> at]]
      BY <2>6
    <3> DEFINE task == [req |-> r, at |-> at]
    <3>2. task \in Task
      BY <2>1 DEF Task
    <3>3. task.req = r
      OBVIOUS
    <3> DEFINE u == [s EXCEPT !.queue = rest, !.inference = task]
    <3>7. t = u
      BY <3>1
    <3> HIDE DEF task
    <3>8. /\ u \in Handler /\ u.queue = rest /\ u.inference = task /\ u.publish = s.publish
          /\ SameAnswers(s, u) /\ SameTables(s, u)
      BY <1>1, <2>1, <3>2, SetInference
    <3> HIDE DEF u
    <3>4. /\ t \in Handler /\ t.queue = rest /\ t.inference = task /\ t.publish = s.publish
          /\ SameAnswers(s, t) /\ SameTables(s, t)
      BY <3>7, <3>8
    <3>5. \A p : At(s.inference, p) = 0 /\ (At(task, p) = 0 \/ (p = r /\ At(task, p) = 1))
      BY <1>6, <3>3 DEF At, Working
    <3>6. \A p : Work(t, p) <= Work(s, p)
      <4> SUFFICES ASSUME NEW p PROVE Work(t, p) <= Work(s, p)
        OBVIOUS
      <4>1. Count(rest, p) + At(task, p) <= Count(q, p)
        BY <1>3, <2>2, <3>5
      <4>2. Count(rest, p) \in Nat /\ Count(q, p) \in Nat /\ Count(q, p) <= Count(s.queue, p)
        BY <1>2, <1>3, <2>2
      <4>3. At(task, p) \in Nat
        BY <3>5
      <4>4. Work(t, p) = Count(rest, p) + At(task, p) + At(s.publish, p)
        BY <3>4 DEF Work
      <4>5. Work(s, p) = Count(s.queue, p) + 0 + At(s.publish, p)
        BY <3>5 DEF Work
      <4> QED BY <1>3, <4>1, <4>2, <4>3, <4>4, <4>5
    <3> QED BY <2>3, <3>4, <3>6 DEF t
  <2> QED BY <2>4, <2>5, <2>6
<1> QED BY <1>4, <1>5, <1>6

LEMMA SetTasks ==
    ASSUME NEW s \in Handler, NEW i \in Task \cup {None}, NEW p \in Task \cup {None}
    PROVE  LET t == [s EXCEPT !.inference = i, !.publish = p] IN
           /\ t \in Handler /\ t.queue = s.queue /\ t.inference = i /\ t.publish = p
           /\ SameAnswers(s, t) /\ SameTables(s, t)
BY DEF Handler, SameAnswers, SameTables

LEMMA SetPublish ==
    ASSUME NEW s \in Handler, NEW p \in Task \cup {None}
    PROVE  LET t == [s EXCEPT !.publish = p] IN
           /\ t \in Handler /\ t.queue = s.queue /\ t.inference = s.inference /\ t.publish = p
           /\ SameAnswers(s, t) /\ SameTables(s, t)
BY DEF Handler, SameAnswers, SameTables

\* A poll takes the task that has ended, with the request it submits.
LEMMA PolledIs ==
    ASSUME NEW s, Typed(s)
    PROVE  LET t == Polled(s) IN
           /\ t \in Handler /\ t.queue = s.queue
           /\ SameAnswers(s, t) /\ SameTables(s, t)
           /\ \A p : Work(t, p) + (IF p \in Submits(s) THEN 1 ELSE 0) <= Work(s, p)
           /\ Submits(s) \subseteq Request
           /\ Submits(s) = {} \/ \E r : Submits(s) = {r}
<1> DEFINE t == Polled(s)
<1>1. s \in Handler /\ s.inference \in Task \cup {None} /\ s.publish \in Task \cup {None}
  BY FieldsAre DEF Typed
<1>2. \A p : Count(s.queue, p) \in Nat /\ At(s.inference, p) \in {0, 1} /\ At(s.publish, p) \in {0, 1}
  <2>1. \A p : Count(s.queue, p) \in Nat
    BY <1>1, WorkIs
  <2> QED BY <2>1 DEF At
<1>3. \A task \in Task : task # None /\ task.req \in Request /\ \A p : At(task, p) = IF p = task.req THEN 1 ELSE 0
  <2> SUFFICES ASSUME NEW task \in Task
               PROVE  /\ task # None /\ task.req \in Request
                      /\ \A p : At(task, p) = IF p = task.req THEN 1 ELSE 0
    OBVIOUS
  <2>1. task # None
    BY ServiceAssumption
  <2>2. task.req \in Request
    BY DEF Task
  <2> QED BY <2>1, <2>2 DEF At, Working
<1>4. \A p : At(None, p) = 0
  BY DEF At, Working
<1>5. CASE s.publish # None
  <2>1. Submits(s) = IF s.publish.at = "text" THEN {s.publish.req} ELSE {}
    BY <1>5 DEF Submits
  <2>2. s.publish.req \in Request
    BY <1>1, <1>3, <1>5
  <2>3. CASE s.publish.at = "running"
    <3>1. t = s
      BY <1>5, <2>3 DEF Polled
    <3>2. Submits(s) = {}
      BY <2>1, <2>3
    <3>3. \A p : Work(s, p) \in Nat
      BY <1>1, WorkIs
    <3> QED BY <1>1, <3>1, <3>2, <3>3 DEF SameAnswers, SameTables
  <2>4. CASE s.publish.at # "running"
    <3>1. t = [s EXCEPT !.publish = None]
      BY <1>5, <2>4 DEF Polled
    <3> HIDE DEF t
    <3>2. /\ t \in Handler /\ t.queue = s.queue /\ t.inference = s.inference /\ t.publish = None
          /\ SameAnswers(s, t) /\ SameTables(s, t)
      BY <1>1, <3>1, SetPublish
    <3>3. \A p : p \in Submits(s) => At(s.publish, p) = 1
      BY <1>1, <1>3, <1>5, <2>1
    <3>4. \A p : Work(t, p) + (IF p \in Submits(s) THEN 1 ELSE 0) <= Work(s, p)
      BY <1>2, <1>4, <3>2, <3>3 DEF Work
    <3> QED BY <2>1, <2>2, <3>2, <3>4 DEF t
  <2> QED BY <2>3, <2>4
<1>6. CASE s.publish = None
  <2>1. Submits(s) = IF s.inference # None /\ s.inference.at = "text" /\ kindOf[s.inference.req] # "public"
                     THEN {s.inference.req} ELSE {}
    BY <1>6 DEF Submits
  <2>2. CASE s.inference = None \/ s.inference.at = "running"
    <3>1. t = s
      BY <1>6, <2>2 DEF Polled
    <3>2. Submits(s) = {}
      BY <2>1, <2>2
    <3>3. \A p : Work(s, p) \in Nat
      BY <1>1, WorkIs
    <3> QED BY <1>1, <3>1, <3>2, <3>3 DEF SameAnswers, SameTables
  <2>3. CASE s.inference # None /\ s.inference.at # "running"
    <3> DEFINE public == s.inference.at = "text" /\ kindOf[s.inference.req] = "public"
               task == [req |-> s.inference.req, at |-> "running"]
               pub == IF public THEN task ELSE None
    <3> DEFINE u == [s EXCEPT !.inference = None, !.publish = pub]
    <3>1. t = u
      BY <1>6, <2>3 DEF Polled
    <3>2. s.inference \in Task /\ s.inference.req \in Request
      BY <1>1, <1>3, <2>3
    <3>3. task \in Task /\ task.req = s.inference.req
      BY <3>2 DEF Task
    <3>4. /\ pub \in Task \cup {None} /\ (pub = None \/ (pub = task /\ Submits(s) = {}))
      BY <2>1, <3>3
    <3> HIDE DEF t, pub, task, public
    <3>11. /\ u \in Handler /\ u.queue = s.queue /\ u.inference = None /\ u.publish = pub
           /\ SameAnswers(s, u) /\ SameTables(s, u)
      <4>1. None \in Task \cup {None}
        OBVIOUS
      <4> QED BY <1>1, <3>4, <4>1, SetTasks
    <3> HIDE DEF u
    <3>5. /\ t \in Handler /\ t.queue = s.queue /\ t.inference = None /\ t.publish = pub
          /\ SameAnswers(s, t) /\ SameTables(s, t)
      BY <3>1, <3>11
    <3>6. \A p : At(s.inference, p) = (IF p = s.inference.req THEN 1 ELSE 0) /\ At(s.publish, p) = 0
      BY <1>3, <1>4, <1>6, <3>2
    <3>7. \A p : p \in Submits(s) => p = s.inference.req
      BY <2>1
    <3>8. \A p : \/ At(pub, p) = 0
                 \/ At(pub, p) = (IF p = s.inference.req THEN 1 ELSE 0) /\ p \notin Submits(s)
      BY <1>3, <1>4, <3>3, <3>4
    <3>9. \A p : Work(t, p) + (IF p \in Submits(s) THEN 1 ELSE 0) <= Work(s, p)
      BY <1>2, <1>4, <3>5, <3>6, <3>7, <3>8 DEF Work
    <3>10. Submits(s) \subseteq Request /\ (Submits(s) = {} \/ \E r : Submits(s) = {r})
      BY <2>1, <3>2
    <3> QED BY <3>5, <3>9, <3>10 DEF t
  <2> QED BY <2>2, <2>3
<1> QED BY <1>5, <1>6

LEMMA SetPersisting ==
    ASSUME NEW s \in Handler, NEW P \in SUBSET Response
    PROVE  LET t == [s EXCEPT !.persisting = P] IN
           /\ t \in Handler /\ SameWork(s, t) /\ SameTables(s, t) /\ t.made = s.made
           /\ t.persisting = P /\ t.inflight = s.inflight
BY DEF Handler, SameWork, SameTables

LEMMA SetInflight ==
    ASSUME NEW s \in Handler, NEW I \in [Response -> 0 .. MaxAttempts]
    PROVE  LET t == [s EXCEPT !.inflight = I] IN
           /\ t \in Handler /\ SameWork(s, t) /\ SameTables(s, t) /\ t.made = s.made
           /\ t.persisting = s.persisting /\ t.inflight = I
BY DEF Handler, SameWork, SameTables

\* An answer made is written and waits for its trace, or is sent.
LEMMA SubmittedIs ==
    ASSUME NEW s, Typed(s), NEW r \in Request, s.made[r] + 1 <= MaxScans
    PROVE  LET t == Submitted(s, r) IN
           /\ t \in Handler /\ SameWork(s, t) /\ t.seen = s.seen /\ t.txids = s.txids \ {r}
           /\ t.made = [s.made EXCEPT ![r] = @ + 1]
           /\ AnswerOf(s, r) \in Response
           /\ \/ /\ Traced(r) /\ t.inflight = s.inflight
                 /\ t.persisting = s.persisting \cup {AnswerOf(s, r)}
              \/ /\ ~Traced(r) /\ t.inflight = [s.inflight EXCEPT ![AnswerOf(s, r)] = 1]
                 /\ t.persisting = s.persisting
<1> DEFINE a == AnswerOf(s, r)
           M == [s.made EXCEPT ![r] = @ + 1]
           Y == s.txids \ {r}
           P == s.persisting \cup {a}
           I == [s.inflight EXCEPT ![a] = 1]
           u == [s EXCEPT !.made = M, !.txids = Y]
<1>1. /\ s \in Handler /\ s.made \in [Request -> 0 .. MaxScans] /\ s.txids \in SUBSET Request
      /\ s.persisting \in SUBSET Response /\ s.inflight \in [Response -> 0 .. MaxAttempts]
      /\ MaxScans \in Nat /\ MaxAttempts \in Nat \ {0}
  BY FieldsAre, ServiceAssumption DEF Typed
<1>2. a \in Response
  <2>1. s.made[r] + 1 \in 1 .. MaxScans
    BY <1>1
  <2> QED BY <2>1 DEF AnswerOf, Response
<1>3. M \in [Request -> 0 .. MaxScans] /\ Y \in SUBSET Request /\ P \in SUBSET Response
      /\ I \in [Response -> 0 .. MaxAttempts]
  <2>1. s.made[r] + 1 \in 0 .. MaxScans /\ 1 \in 0 .. MaxAttempts
    BY <1>1
  <2> QED BY <1>1, <1>2, <2>1
<1>4. Submitted(s, r) = IF Traced(r) THEN [u EXCEPT !.persisting = P] ELSE [u EXCEPT !.inflight = I]
  <2>1. u = [s EXCEPT !.made[r] = @ + 1, !.txids = @ \ {r}]
    OBVIOUS
  <2>2. u.persisting = s.persisting /\ u.inflight = s.inflight
    BY <1>1 DEF Handler
  <2> HIDE DEF u
  <2>3. [u EXCEPT !.persisting = @ \cup {a}] = [u EXCEPT !.persisting = P]
    BY <2>2
  <2>4. [u EXCEPT !.inflight[a] = 1] = [u EXCEPT !.inflight = I]
    BY <2>2
  <2> QED BY <2>1, <2>3, <2>4 DEF Submitted
<1> HIDE DEF M, Y, P, I
<1> DEFINE v == [u EXCEPT !.persisting = P]
           w == [u EXCEPT !.inflight = I]
<1>7. /\ v \in Handler /\ SameWork(s, v) /\ v.seen = s.seen /\ v.txids = Y /\ v.made = M
      /\ v.persisting = P /\ v.inflight = s.inflight
      /\ w \in Handler /\ SameWork(s, w) /\ w.seen = s.seen /\ w.txids = Y /\ w.made = M
      /\ w.persisting = s.persisting /\ w.inflight = I
  <2>1. /\ u \in Handler /\ SameWork(s, u) /\ u.seen = s.seen /\ u.txids = Y /\ u.made = M
        /\ u.persisting = s.persisting /\ u.inflight = s.inflight
    BY <1>1, <1>3 DEF Handler, SameWork
  <2> HIDE DEF u
  <2>2. /\ v \in Handler /\ SameWork(u, v) /\ SameTables(u, v) /\ v.made = u.made
        /\ v.persisting = P /\ v.inflight = u.inflight
    BY <1>3, <2>1, SetPersisting
  <2>3. /\ w \in Handler /\ SameWork(u, w) /\ SameTables(u, w) /\ w.made = u.made
        /\ w.persisting = u.persisting /\ w.inflight = I
    BY <1>3, <2>1, SetInflight
  <2> HIDE DEF v, w
  <2> QED BY <2>1, <2>2, <2>3 DEF SameWork, SameTables
<1> HIDE DEF u, v, w
<1>5. CASE Traced(r)
  <2>1. Submitted(s, r) = v
    BY <1>4, <1>5 DEF v
  <2> QED BY <1>2, <1>5, <1>7, <2>1 DEF M, Y, P, a
<1>6. CASE ~Traced(r)
  <2>1. Submitted(s, r) = w
    BY <1>4, <1>6 DEF w
  <2> QED BY <1>2, <1>6, <1>7, <2>1 DEF M, Y, I, a
<1> QED BY <1>5, <1>6

\* A poll ends a task; an answer that is made is the only one, and is paid for.
LEMMA PollKeeps ==
    ASSUME NEW s, NEW lost, NEW paid, NEW met \in 0 .. MaxScans, Sound(s, lost, paid, met)
    PROVE  LET t == Poll(s) IN
           /\ Sound(t, lost, paid \cup PollTracks(s), met)
           /\ Noted(s, lost) => Noted(t, lost)
           /\ Submits(s) = {} => t.persisting = s.persisting /\ t.inflight = s.inflight
           /\ \A r \in Submits(s) :
                 /\ AnswerOf(s, r) \in Response
                 /\ \/ /\ Traced(r) /\ t.inflight = s.inflight
                       /\ t.persisting = s.persisting \cup {AnswerOf(s, r)}
                    \/ /\ ~Traced(r) /\ Inflight(t) = Inflight(s) \cup {AnswerOf(s, r)}
                       /\ t.persisting = s.persisting
<1> DEFINE t == Poll(s)
           u == Polled(s)
<1>1. Typed(s) /\ met \in Nat /\ MaxScans \in Nat /\ MaxAttempts \in Nat \ {0} /\ met <= MaxScans
  BY ServiceAssumption DEF Sound
<1>2. /\ u \in Handler /\ u.queue = s.queue
      /\ SameAnswers(s, u) /\ SameTables(s, u)
      /\ \A p : Work(u, p) + (IF p \in Submits(s) THEN 1 ELSE 0) <= Work(s, p)
      /\ Submits(s) \subseteq Request
      /\ Submits(s) = {} \/ \E r : Submits(s) = {r}
  BY <1>1, PolledIs
<1> HIDE DEF u
<1>3. \A p : Work(s, p) \in Nat /\ Work(u, p) \in Nat
  BY <1>1, <1>2, WorkIs DEF Typed
<1>4. \A p : Work(u, p) <= Work(s, p)
  BY <1>2, <1>3
<1>5. Len(u.queue) <= QueueCap
  BY <1>1, <1>2 DEF Typed
<1>6. Sound(u, lost, paid, met) /\ (Noted(s, lost) => Noted(u, lost))
  BY <1>1, <1>2, <1>4, <1>5, LessWork
<1>7. CASE Submits(s) = {}
  <2>1. t = u /\ PollTracks(s) = {}
    BY <1>7 DEF Poll, PollTracks, u
  <2>2. paid \cup PollTracks(s) = paid
    BY <2>1
  <2> HIDE DEF t
  <2> QED BY <1>2, <1>6, <1>7, <2>1, <2>2 DEF SameAnswers, t
<1>8. ASSUME NEW r, Submits(s) = {r}
      PROVE  /\ Sound(t, lost, paid \cup PollTracks(s), met)
             /\ Noted(s, lost) => Noted(t, lost)
             /\ AnswerOf(s, r) \in Response
             /\ \/ /\ Traced(r) /\ t.inflight = s.inflight
                   /\ t.persisting = s.persisting \cup {AnswerOf(s, r)}
                \/ /\ ~Traced(r) /\ Inflight(t) = Inflight(s) \cup {AnswerOf(s, r)}
                   /\ t.persisting = s.persisting
  <2> DEFINE a == AnswerOf(s, r)
             paid2 == paid \cup PollTracks(s)
  <2>1. t = Submitted(u, r)
    BY <1>8 DEF Poll, u
  <2> HIDE DEF t
  <2>2. r \in Request /\ Work(u, r) + 1 <= Work(s, r)
    BY <1>2, <1>8
  <2>3. /\ u.made = s.made /\ u.persisting = s.persisting /\ u.inflight = s.inflight
        /\ u.seen = s.seen /\ u.txids = s.txids /\ AnswerOf(u, r) = a /\ Inflight(u) = Inflight(s)
    BY <1>2 DEF SameAnswers, SameTables, AnswerOf, Inflight
  <2>4. s.made \in [Request -> 0 .. MaxScans] /\ Work(s, r) + s.made[r] <= met
        /\ \A p \in Request : s.made[p] \in Nat /\ Work(s, p) + s.made[p] <= met
    BY <1>1, <2>2, FieldsAre DEF Sound, Counted, Typed
  <2>5. u.made[r] + 1 <= MaxScans
    BY <1>1, <1>3, <2>2, <2>3, <2>4
  <2>6. /\ t \in Handler /\ SameWork(u, t) /\ t.seen = u.seen /\ t.txids = u.txids \ {r}
        /\ t.made = [u.made EXCEPT ![r] = @ + 1]
        /\ AnswerOf(u, r) \in Response
        /\ \/ /\ Traced(r) /\ t.inflight = u.inflight
              /\ t.persisting = u.persisting \cup {AnswerOf(u, r)}
           \/ /\ ~Traced(r) /\ t.inflight = [u.inflight EXCEPT ![AnswerOf(u, r)] = 1]
              /\ t.persisting = u.persisting
    <3>1. Typed(u)
      BY <1>6 DEF Sound
    <3> QED BY <2>1, <2>2, <2>5, <3>1, SubmittedIs
  <2>7. \A p : Work(t, p) = Work(u, p)
    BY <2>6 DEF SameWork, Work
  <2>8. a \in Response /\ a[1] = r
    BY <2>3, <2>6 DEF AnswerOf
  <2>9. \/ /\ Traced(r) /\ t.inflight = s.inflight /\ Inflight(t) = Inflight(s)
           /\ t.persisting = s.persisting \cup {a}
        \/ /\ ~Traced(r) /\ Inflight(t) = Inflight(s) \cup {a}
           /\ t.persisting = s.persisting
    <3>1. CASE Traced(r)
      BY <2>3, <2>6, <3>1 DEF Inflight
    <3>2. CASE ~Traced(r)
      <4>1. t.inflight = [s.inflight EXCEPT ![a] = 1] /\ t.persisting = s.persisting
        BY <2>3, <2>6, <3>2
      <4>2. s.inflight \in [Response -> 0 .. MaxAttempts]
        BY <1>1, FieldsAre DEF Typed
      <4>3. \A b \in Response : t.inflight[b] = IF b = a THEN 1 ELSE s.inflight[b]
        BY <2>8, <4>1, <4>2
      <4>4. Inflight(t) = Inflight(s) \cup {a}
        BY <2>8, <4>3 DEF Inflight
      <4> QED BY <3>2, <4>1, <4>4
    <3> QED BY <3>1, <3>2
  <2>10. Answers(t) = Answers(s) \cup {a} /\ Answering(t) = Answering(s) \cup {r}
    <3>1. Answers(t) = Answers(s) \cup {a}
      BY <2>9 DEF Answers
    <3> QED BY <2>8, <3>1 DEF Answering
  <2> HIDE DEF a
  <2>11. \A p : Work(t, p) \in Nat /\ Work(t, p) <= Work(s, p) /\ (p = r => Work(t, p) + 1 <= Work(s, p))
    BY <1>3, <1>4, <2>2, <2>7
  <2>12. Typed(t)
    <3>1. IsFiniteSet(s.txids) /\ Cardinality(s.txids) <= SeenCap /\ s.txids \subseteq Rewarded /\ SeenCap \in Nat
          /\ Cardinality(s.txids) \in Nat
      BY <1>1, ServiceAssumption, FS_CardinalityType DEF Typed
    <3>2. t.txids \in SUBSET s.txids
      BY <2>3, <2>6
    <3>3. IsFiniteSet(t.txids) /\ Cardinality(t.txids) <= Cardinality(s.txids) /\ Cardinality(t.txids) \in Nat
      BY <3>1, <3>2, FS_Subset, FS_CardinalityType
    <3>4. Cardinality(t.txids) <= SeenCap /\ t.txids \subseteq Rewarded
      BY <3>1, <3>2, <3>3
    <3> QED BY <1>5, <2>6, <3>3, <3>4 DEF Typed, SameWork
  <2>13. Counted(t, met)
    <3>1. \A p \in Request : t.made[p] = IF p = r THEN s.made[p] + 1 ELSE s.made[p]
      BY <2>2, <2>3, <2>4, <2>6
    <3> QED BY <1>1, <1>3, <2>4, <2>11, <3>1 DEF Counted
  <2>14. Apart(t, lost)
    <3>1. Apart(s, lost)
      BY DEF Sound
    <3>2. r \notin lost => Work(s, r) = 1 /\ Work(t, r) = 0 /\ r \notin Answering(s)
      BY <1>3, <2>2, <2>11, <3>1 DEF Apart
    <3>3. r \notin Answering(s) => \A b \in Answers(s) : b[1] # r
      BY DEF Answering
    <3>4. \A b : b \in t.persisting /\ b \in Inflight(t) => b = a \/ (b \in s.persisting /\ b \in Inflight(s))
      BY <2>9
    <3>5. r \notin Answering(s) => ~(a \in t.persisting /\ a \in Inflight(t))
      BY <2>8, <2>9, <3>3 DEF Answers
    <3> SUFFICES ASSUME NEW p \in Request \ lost
                 PROVE  /\ Work(t, p) <= 1
                        /\ p \in Answering(t) => Work(t, p) = 0
                        /\ \A b, c \in Answers(t) : b[1] = p /\ c[1] = p =>
                              b = c /\ ~(b \in t.persisting /\ b \in Inflight(t))
      BY DEF Apart
    <3>6. CASE p = r
      BY <2>8, <2>10, <3>2, <3>3, <3>5, <3>6
    <3>7. CASE p # r
      BY <1>3, <2>8, <2>10, <2>11, <3>1, <3>4, <3>7 DEF Apart
    <3> QED BY <3>6, <3>7
  <2>15. Paid(t, lost, paid2)
    <3>1. Paid(s, lost, paid)
      BY DEF Sound
    <3>2. r \in Rewarded \ lost => r \in paid2
      BY <1>3, <1>8, <2>2, <2>11, <3>1 DEF Paid, PollTracks
    <3>3. paid \subseteq paid2 /\ \A p : p # r /\ p \in s.txids => p \in t.txids
      BY <2>3, <2>6
    <3> HIDE DEF paid2
    <3> QED BY <1>3, <2>10, <2>11, <3>1, <3>2, <3>3 DEF Paid
  <2>16. Noted(s, lost) => Noted(t, lost)
    BY <1>3, <2>2, <2>3, <2>6, <2>10, <2>11 DEF Noted
  <2> QED BY <2>8, <2>9, <2>12, <2>13, <2>14, <2>15, <2>16 DEF Sound, a
<1> QED BY <1>2, <1>7, <1>8

-----------------------------------------------------------------------------
\* Answers on their way, lost connections and tasks that end.

\* Answers that only get fewer.
LEMMA FewerAnswers ==
    ASSUME NEW s, NEW t, Typed(s), t \in Handler, SameWork(s, t), t.made = s.made, t.txids = s.txids,
           Answers(t) \subseteq Answers(s),
           \A a : a \in t.persisting /\ a \in Inflight(t) => a \in s.persisting /\ a \in Inflight(s),
           NEW lost, NEW paid, NEW met
    PROVE  /\ Sound(s, lost, paid, met) => Sound(t, lost, paid, met)
           /\ Noted(s, lost) /\ s.seen \subseteq t.seen => Noted(t, lost)
<1>1. \A p : Work(t, p) = Work(s, p)
  BY DEF SameWork, Work
<1>2. Answering(t) \subseteq Answering(s)
  BY DEF Answering
<1>3. Typed(t)
  BY DEF Typed, SameWork
<1>4. Counted(s, met) => Counted(t, met)
  BY <1>1 DEF Counted
<1>5. Apart(s, lost) => Apart(t, lost)
  BY <1>1, <1>2 DEF Apart
<1>6. Paid(s, lost, paid) => Paid(t, lost, paid)
  BY <1>1, <1>2 DEF Paid
<1>7. Noted(s, lost) /\ s.seen \subseteq t.seen => Noted(t, lost)
  BY <1>1, <1>2 DEF Noted
<1> QED BY <1>3, <1>4, <1>5, <1>6, <1>7 DEF Sound

\* Answers whose trace is written are sent.
LEMMA ReleasedIs ==
    ASSUME NEW s \in Handler
    PROVE  LET t == Released(s) IN
           /\ t \in Handler /\ SameWork(s, t) /\ SameTables(s, t) /\ t.made = s.made
           /\ t.persisting = s.persisting \ Ready(s)
           /\ Inflight(t) = Inflight(s) \cup Ready(s) /\ Ready(s) \subseteq s.persisting
<1> DEFINE R == Ready(s)
           P == s.persisting \ R
           I == [a \in Response |-> IF a \in R THEN 1 ELSE s.inflight[a]]
           t == [s EXCEPT !.persisting = P, !.inflight = I]
<1>1. s.persisting \in SUBSET Response /\ s.inflight \in [Response -> 0 .. MaxAttempts] /\ MaxAttempts \in Nat \ {0}
  BY FieldsAre, ServiceAssumption
<1>2. R \subseteq s.persisting
  BY DEF Ready
<1> HIDE DEF R
<1>3. P \in SUBSET Response /\ I \in [Response -> 0 .. MaxAttempts]
  BY <1>1
<1>4. Inflight(s) \cup R = {a \in Response : I[a] > 0}
  <2>1. \A a \in Response : I[a] > 0 <=> a \in R \/ s.inflight[a] > 0
    BY <1>1
  <2>2. R \subseteq Response
    BY <1>1, <1>2
  <2> HIDE DEF I
  <2> QED BY <2>1, <2>2 DEF Inflight
<1>5. Released(s) = t
  BY DEF Released, R
<1> HIDE DEF P, I
<1>6. /\ t \in Handler /\ SameWork(s, t) /\ SameTables(s, t) /\ t.made = s.made
      /\ t.persisting = P /\ t.inflight = I
  BY <1>3 DEF Handler, SameWork, SameTables
<1> HIDE DEF t
<1>7. Inflight(t) = Inflight(s) \cup R
  BY <1>4, <1>6 DEF Inflight
<1> QED BY <1>2, <1>5, <1>6, <1>7 DEF P, R

\* A retry counts an attempt, or gives the answer up.
LEMMA RetriedIs ==
    ASSUME NEW s \in Handler, NEW due
    PROVE  LET t == Retried(s, due) IN
           /\ t \in Handler /\ SameWork(s, t) /\ SameTables(s, t) /\ t.made = s.made
           /\ t.persisting = s.persisting /\ Inflight(t) \subseteq Inflight(s) \cup due
<1> DEFINE I == [a \in Response |-> IF a \notin due THEN s.inflight[a]
                                    ELSE IF s.inflight[a] >= MaxAttempts THEN 0 ELSE s.inflight[a] + 1]
           t == [s EXCEPT !.inflight = I]
<1>1. s.inflight \in [Response -> 0 .. MaxAttempts] /\ MaxAttempts \in Nat \ {0}
  BY FieldsAre, ServiceAssumption
<1>2. I \in [Response -> 0 .. MaxAttempts]
  BY <1>1
<1>3. \A a \in Response : I[a] > 0 => a \in due \/ s.inflight[a] > 0
  OBVIOUS
<1>4. Retried(s, due) = t
  BY DEF Retried
<1> HIDE DEF I
<1>5. /\ t \in Handler /\ SameWork(s, t) /\ SameTables(s, t) /\ t.made = s.made
      /\ t.persisting = s.persisting /\ t.inflight = I
  BY <1>2 DEF Handler, SameWork, SameTables
<1> HIDE DEF t
<1>6. Inflight(t) \subseteq Inflight(s) \cup due
  BY <1>3, <1>5 DEF Inflight
<1> QED BY <1>4, <1>5, <1>6

\* The node's last word on an answer.
LEMMA AnsweredIs ==
    ASSUME NEW s \in Handler, NEW a
    PROVE  LET t == [s EXCEPT !.inflight[a] = 0] IN
           /\ t \in Handler /\ SameWork(s, t) /\ SameTables(s, t) /\ t.made = s.made
           /\ t.persisting = s.persisting /\ Inflight(t) \subseteq Inflight(s)
<1> DEFINE I == [s.inflight EXCEPT ![a] = 0]
           t == [s EXCEPT !.inflight = I]
<1>1. s.inflight \in [Response -> 0 .. MaxAttempts] /\ MaxAttempts \in Nat \ {0}
  BY FieldsAre, ServiceAssumption
<1>2. I \in [Response -> 0 .. MaxAttempts]
  <2>1. 0 \in 0 .. MaxAttempts
    BY <1>1
  <2>2. I = [b \in Response |-> IF b = a THEN 0 ELSE s.inflight[b]]
    BY <1>1
  <2> QED BY <1>1, <2>1, <2>2
<1>3. \A b \in Response : I[b] > 0 => s.inflight[b] > 0
  BY <1>1
<1>4. [s EXCEPT !.inflight[a] = 0] = t
  OBVIOUS
<1> HIDE DEF I
<1>5. /\ t \in Handler /\ SameWork(s, t) /\ SameTables(s, t) /\ t.made = s.made
      /\ t.persisting = s.persisting /\ t.inflight = I
  BY <1>2 DEF Handler, SameWork, SameTables
<1> HIDE DEF t
<1>6. Inflight(t) \subseteq Inflight(s)
  BY <1>3, <1>5 DEF Inflight
<1> QED BY <1>4, <1>5, <1>6

\* What a lost connection leaves to the next one.
LEMMA ParkedIs ==
    ASSUME NEW s \in Handler
    PROVE  LET t == Parked(s) IN
           /\ t \in Handler /\ SameWork(s, t) /\ t.made = s.made /\ t.txids = s.txids
           /\ t.persisting = {} /\ Inflight(t) = Inflight(s) \cup s.persisting
<1> DEFINE I == [a \in Response |-> IF a \in s.persisting THEN 1 ELSE s.inflight[a]]
           t == [s EXCEPT !.seen = {}, !.answered = {}, !.persisting = {}, !.inflight = I, !.asked = FALSE]
<1>1. s.persisting \in SUBSET Response /\ s.inflight \in [Response -> 0 .. MaxAttempts] /\ MaxAttempts \in Nat \ {0}
  BY FieldsAre, ServiceAssumption
<1>2. I \in [Response -> 0 .. MaxAttempts]
  BY <1>1
<1>3. Inflight(s) \cup s.persisting = {a \in Response : I[a] > 0}
  <2>1. \A a \in Response : I[a] > 0 <=> a \in s.persisting \/ s.inflight[a] > 0
    BY <1>1
  <2> HIDE DEF I
  <2> QED BY <1>1, <2>1 DEF Inflight
<1>4. Parked(s) = t
  BY DEF Parked
<1> HIDE DEF I
<1>5. /\ t \in Handler /\ SameWork(s, t) /\ t.txids = s.txids /\ t.made = s.made
      /\ t.persisting = {} /\ t.inflight = I
  BY <1>2 DEF Handler, SameWork
<1> HIDE DEF t
<1>6. Inflight(t) = Inflight(s) \cup s.persisting
  BY <1>3, <1>5 DEF Inflight
<1> QED BY <1>4, <1>5, <1>6

\* What the next connection takes up, and counts as seen.
LEMMA RestoredIs ==
    ASSUME NEW s \in Handler, s.persisting = {}, NEW lost
    PROVE  LET t == Restored(s) IN
           /\ t \in Handler /\ SameWork(s, t) /\ SameAnswers(s, t) /\ t.txids = s.txids
           /\ Noted(t, lost)
<1> DEFINE answered == Working(s.publish) \cup {a[1] : a \in Inflight(s)}
           X == Elements(s.queue) \cup Working(s.inference) \cup answered
           t == [s EXCEPT !.seen = X, !.answered = answered, !.asked = TRUE]
<1>1. /\ s.queue \in Seq(Request) /\ s.inference \in Task \cup {None} /\ s.publish \in Task \cup {None}
  BY FieldsAre
<1>2. answered \subseteq Request /\ X \subseteq Request
  <2>1. \A task \in Task \cup {None} : Working(task) \subseteq Request
    BY DEF Working, Task
  <2>2. \A a \in Inflight(s) : a[1] \in Request
    BY DEF Inflight, Response
  <2>3. Elements(s.queue) \subseteq Request
    BY <1>1 DEF Elements
  <2> QED BY <1>1, <2>1, <2>2, <2>3
<1>3. Restored(s) = t
  BY DEF Restored
<1>4. \A p : Work(s, p) >= 1 => p \in X
  <2> SUFFICES ASSUME NEW p, p \notin X PROVE ~(Work(s, p) >= 1)
    OBVIOUS
  <2>1. Count(s.queue, p) = 0
    <3>1. p \notin Elements(s.queue)
      OBVIOUS
    <3>2. Count(s.queue, p) \in Nat /\ (p \in Elements(s.queue) <=> Count(s.queue, p) >= 1)
      BY <1>1, CountIs
    <3> QED BY <3>1, <3>2
  <2>2. At(s.inference, p) = 0 /\ At(s.publish, p) = 0
    BY DEF At
  <2> QED BY <2>1, <2>2 DEF Work
<1>5. Answering(s) \subseteq X
  BY DEF Answering, Answers
<1> HIDE DEF answered, X
<1>6. /\ t \in Handler /\ SameWork(s, t) /\ SameAnswers(s, t) /\ t.txids = s.txids /\ t.seen = X
  BY <1>2 DEF Handler, SameWork, SameAnswers
<1> HIDE DEF t
<1>7. Noted(t, lost)
  <2>1. \A p : Work(t, p) = Work(s, p)
    BY <1>6 DEF Work, SameWork
  <2>2. Answering(t) = Answering(s)
    BY <1>6 DEF Answering, Answers, Inflight, SameAnswers
  <2> QED BY <1>4, <1>5, <1>6, <2>1, <2>2 DEF Noted
<1> QED BY <1>3, <1>6, <1>7

\* Ending a task leaves the work as it is.
Ended(s, t) ==
    /\ t \in Handler /\ t.queue = s.queue /\ SameAnswers(s, t) /\ SameTables(s, t)
    /\ \A p : Work(t, p) = Work(s, p)

\* A task that ends keeps its request.
LEMMA EndedIs ==
    ASSUME NEW s \in Handler, NEW result \in {"text", "none"}
    PROVE  /\ s.inference # None => Ended(s, [s EXCEPT !.inference.at = result])
           /\ s.publish # None => Ended(s, [s EXCEPT !.publish.at = result])
<1>1. s.inference \in Task \cup {None} /\ s.publish \in Task \cup {None}
  BY FieldsAre
<1>2. ASSUME NEW task \in Task
      PROVE  LET e == [task EXCEPT !.at = result] IN e \in Task /\ \A p : At(e, p) = At(task, p)
  <2> DEFINE e == [task EXCEPT !.at = result]
  <2>1. e \in Task /\ e.req = task.req
    BY DEF Task
  <2> HIDE DEF e
  <2>2. e # None /\ task # None
    BY <2>1, ServiceAssumption
  <2>3. \A p : At(e, p) = At(task, p)
    BY <2>1, <2>2 DEF At, Working
  <2> QED BY <2>1, <2>3 DEF e
<1>3. ASSUME s.inference # None PROVE Ended(s, [s EXCEPT !.inference.at = result])
  <2> DEFINE e == [s.inference EXCEPT !.at = result]
             t == [s EXCEPT !.inference = e]
  <2>1. e \in Task /\ \A p : At(e, p) = At(s.inference, p)
    BY <1>1, <1>2, <1>3
  <2>2. [s EXCEPT !.inference.at = result] = t
    OBVIOUS
  <2> HIDE DEF e
  <2>3. /\ t \in Handler /\ t.queue = s.queue /\ t.inference = e /\ t.publish = s.publish
        /\ SameAnswers(s, t) /\ SameTables(s, t)
    BY <2>1 DEF Handler, SameAnswers, SameTables
  <2> HIDE DEF t
  <2>4. \A p : Work(t, p) = Work(s, p)
    BY <2>1, <2>3 DEF Work
  <2> QED BY <2>2, <2>3, <2>4 DEF Ended
<1>4. ASSUME s.publish # None PROVE Ended(s, [s EXCEPT !.publish.at = result])
  <2> DEFINE e == [s.publish EXCEPT !.at = result]
             t == [s EXCEPT !.publish = e]
  <2>1. e \in Task /\ \A p : At(e, p) = At(s.publish, p)
    BY <1>1, <1>2, <1>4
  <2>2. [s EXCEPT !.publish.at = result] = t
    OBVIOUS
  <2> HIDE DEF e
  <2>3. /\ t \in Handler /\ t.queue = s.queue /\ t.publish = e /\ t.inference = s.inference
        /\ SameAnswers(s, t) /\ SameTables(s, t)
    BY <2>1 DEF Handler, SameAnswers, SameTables
  <2> HIDE DEF t
  <2>4. \A p : Work(t, p) = Work(s, p)
    BY <2>1, <2>3 DEF Work
  <2> QED BY <2>2, <2>3, <2>4 DEF Ended
<1> QED BY <1>3, <1>4

-----------------------------------------------------------------------------
\* The steps.

\* A handler with nothing to do.
LEMMA NothingIsSound ==
    ASSUME NEW s \in Handler, s.queue = <<>>, s.inference = None, s.publish = None, s.txids = {},
           Answers(s) = {}, NEW met \in Nat, \A r \in Request : s.made[r] <= met, NEW lost, NEW paid
    PROVE  Sound(s, lost, paid, met) /\ Noted(s, lost)
<1>1. \A p : Work(s, p) = 0
  <2>1. \A p : Count(s.queue, p) = 0
    BY CountEmpty
  <2>2. \A p : At(s.inference, p) = 0 /\ At(s.publish, p) = 0
    BY DEF At, Working
  <2> QED BY <2>1, <2>2 DEF Work
<1>2. Answering(s) = {}
  BY DEF Answering
<1>3. Typed(s)
  <2>1. IsFiniteSet(s.txids) /\ Cardinality(s.txids) = 0
    BY FS_EmptySet
  <2>2. Len(s.queue) = 0 /\ QueueCap \in Nat /\ SeenCap \in Nat
    BY ServiceAssumption
  <2> QED BY <2>1, <2>2 DEF Typed
<1>4. Counted(s, met)
  <2>1. \A r \in Request : s.made[r] \in Nat
    BY FieldsAre
  <2> QED BY <1>1, <2>1 DEF Counted
<1>5. Apart(s, lost) /\ Paid(s, lost, paid) /\ Noted(s, lost)
  BY <1>1, <1>2 DEF Apart, Paid, Noted
<1> QED BY <1>3, <1>4, <1>5 DEF Sound

LEMMA IdleIs ==
    /\ Idle \in Handler /\ Idle.queue = <<>> /\ Idle.inference = None /\ Idle.publish = None /\ Idle.txids = {}
    /\ Idle.persisting = {} /\ Answers(Idle) = {} /\ \A r \in Request : Idle.made[r] = 0
    /\ \A M \in [Request -> 0 .. MaxScans] :
          LET t == [Idle EXCEPT !.made = M, !.asked = FALSE] IN
          /\ t \in Handler /\ t.queue = <<>> /\ t.inference = None /\ t.publish = None /\ t.txids = {}
          /\ t.persisting = {} /\ Answers(t) = {} /\ t.made = M
<1>1. MaxScans \in Nat /\ MaxAttempts \in Nat /\ 0 \in 0 .. MaxScans /\ 0 \in 0 .. MaxAttempts
  BY ServiceAssumption
<1>2. Idle \in Handler
  BY <1>1 DEF Idle, Handler
<1>3. /\ Idle.queue = <<>> /\ Idle.inference = None /\ Idle.publish = None /\ Idle.txids = {}
      /\ Idle.persisting = {} /\ \A r \in Request : Idle.made[r] = 0
      /\ \A a \in Response : Idle.inflight[a] = 0
  BY DEF Idle
<1>4. Answers(Idle) = {}
  BY <1>3 DEF Answers, Inflight
<1>5. ASSUME NEW M \in [Request -> 0 .. MaxScans]
      PROVE  LET t == [Idle EXCEPT !.made = M, !.asked = FALSE] IN
             /\ t \in Handler /\ t.queue = <<>> /\ t.inference = None /\ t.publish = None /\ t.txids = {}
             /\ t.persisting = {} /\ Answers(t) = {} /\ t.made = M
  <2> DEFINE t == [Idle EXCEPT !.made = M, !.asked = FALSE]
  <2>1. t \in Handler
    BY <1>2 DEF Handler
  <2>2. /\ t.queue = Idle.queue /\ t.inference = Idle.inference /\ t.publish = Idle.publish /\ t.txids = Idle.txids
        /\ t.persisting = Idle.persisting /\ t.inflight = Idle.inflight /\ t.made = M
    BY <1>2 DEF Handler
  <2> HIDE DEF t
  <2>3. Answers(t) = {}
    BY <1>4, <2>2 DEF Answers, Inflight
  <2> QED BY <1>3, <2>1, <2>2, <2>3 DEF t
<1> QED BY <1>2, <1>3, <1>4, <1>5

LEMMA InitKeepsBooks == Init => BooksInv
<1> SUFFICES ASSUME Init PROVE BooksInv
  OBVIOUS
<1>1. Around
  BY ServiceAssumption DEF Init, Around, RewardsTyped, Accounted
<1>2. scans = 0 /\ scans \in Nat /\ h = Idle /\ connected
  BY DEF Init
<1>3. Sound(h, forgotten, Accounted, scans) /\ Noted(h, forgotten)
  <2>1. \A r \in Request : h.made[r] <= scans
    <3>1. \A r \in Request : h.made[r] = 0
      BY <1>2, IdleIs
    <3> QED BY <1>2, <3>1
  <2> QED BY <1>2, <2>1, IdleIs, NothingIsSound
<1>4. SentIsPaid
  BY DEF Init, SentIsPaid
<1> QED BY <1>1, <1>2, <1>3, <1>4 DEF BooksInv

\* Scans count within their bound, and what is lost and served are requests.
LEMMA MetIs ==
    ASSUME BooksInv, NEW tx \in Transaction
    PROVE  /\ tx \in {<<"none">>} \cup ({"request"} \X Request) \cup ({"answer"} \X Request)
           /\ Met(tx) => /\ scans' \in 0 .. MaxScans /\ scans <= scans'
                         /\ tx[1] = "request" => scans + 1 <= scans'
<1>1. known \subseteq Response /\ scans \in 0 .. MaxScans /\ MaxScans \in Nat
  BY ServiceAssumption DEF BooksInv, Around
<1>2. \A a \in known : a[1] \in Request
  BY <1>1 DEF Response
<1>3. tx \in {<<"none">>} \cup ({"request"} \X Request) \cup ({"answer"} \X Request)
  BY <1>2 DEF Transaction
<1>4. Met(tx) => /\ scans' \in 0 .. MaxScans /\ scans <= scans'
                 /\ tx[1] = "request" => scans + 1 <= scans'
  BY <1>1 DEF Met
<1> QED BY <1>3, <1>4

LEMMA RememberedIs ==
    ASSUME BooksInv, NEW tx \in {<<"none">>} \cup ({"request"} \X Request) \cup ({"answer"} \X Request),
           NEW s \in Handler, NEW t, Remembered(s, t, tx)
    PROVE  /\ forgotten \cup Overflowed(s, t, tx) \subseteq forgotten'
           /\ forgotten' \subseteq Request /\ served' \subseteq Request
<1>1. s.seen \in SUBSET Request /\ s.txids \in SUBSET Request /\ s.answered \in SUBSET Request
  BY FieldsAre
<1>2. tx[1] = "answer" => tx[2] \in Request
  OBVIOUS
<1>3. Overflowed(s, t, tx) \subseteq Request
  BY <1>1, <1>2 DEF Overflowed
<1>4. forgotten \subseteq Request /\ served \subseteq Request
  BY DEF BooksInv, Around
<1> QED BY <1>2, <1>3, <1>4 DEF Remembered

LEMMA BooksInvIs ==
    ASSUME BooksInv
    PROVE  /\ Sound(h, forgotten, Accounted, scans) /\ Around /\ SentIsPaid /\ h \in Handler
           /\ scans \in Nat /\ scans \in 0 .. MaxScans /\ MaxScans \in Nat
           /\ connected => Noted(h, forgotten)
           /\ ~connected => h.persisting = {}
<1>1. Sound(h, forgotten, Accounted, scans) /\ Around /\ SentIsPaid
      /\ (connected => Noted(h, forgotten)) /\ (~connected => h.persisting = {})
  BY DEF BooksInv
<1>2. h \in Handler
  BY <1>1 DEF Sound, Typed
<1>3. MaxScans \in Nat /\ scans \in 0 .. MaxScans
  BY <1>1, ServiceAssumption DEF Around
<1> QED BY <1>1, <1>2, <1>3

\* The watcher's books: tracking, writing and the end of a watcher.
LEMMA RewardsKept ==
    ASSUME RewardsTyped, UNCHANGED rewardVars PROVE Accounted' = Accounted /\ RewardsTyped'
BY DEF rewardVars, RewardsTyped, Accounted

LEMMA FlushIs ==
    ASSUME RewardsTyped, MaybeFlush(tracked), UNCHANGED <<tracked, lapsed>>
    PROVE  Accounted' = Accounted /\ RewardsTyped'
BY DEF MaybeFlush, RewardsTyped, Accounted

LEMMA TrackIs ==
    ASSUME RewardsTyped, NEW rewards \in SUBSET Rewarded, Track(rewards)
    PROVE  Accounted' = Accounted \cup rewards /\ RewardsTyped'
<1>1. Accounted' = Accounted \cup rewards
  BY DEF Track, Accounted
<1>2. ledger' \subseteq tracked'
  BY DEF Track, MaybeFlush, RewardsTyped
<1> QED BY <1>1, <1>2 DEF RewardsTyped

LEMMA WatcherEndsIs ==
    ASSUME RewardsTyped, NEW kept, kept = ledger \/ kept = tracked, WatcherEnds(kept)
    PROVE  Accounted' = Accounted /\ RewardsTyped'
BY DEF WatcherEnds, RewardsTyped, Accounted

LEMMA OnBlockKeepsBooks ==
    ASSUME BooksInv, NEW tx \in Transaction, NEW ready \in BOOLEAN, NEW held \in BOOLEAN,
           OnBlock(tx, ready, held)
    PROVE  BooksInv'
<1> DEFINE s == Scan(h, tx, ready)
           t == TryStartInference(s, ready, held)
<1>1. /\ connected /\ Met(tx) /\ h' = t /\ Remembered(h, s, tx) /\ Accounted' = Accounted /\ RewardsTyped'
      /\ kindOf' = kindOf /\ connected' = connected /\ jobs' = jobs /\ written' = written /\ disk' = disk
      /\ net' = net /\ replies' = replies /\ known' = known
  BY BooksInvIs, FlushIs DEF OnBlock, storeVars, nodeVars, Around
<1>2. Sound(h, forgotten, Accounted, scans) /\ Noted(h, forgotten) /\ h \in Handler /\ scans \in Nat
      /\ Around /\ SentIsPaid
  BY <1>1, BooksInvIs
<1>3. /\ tx \in {<<"none">>} \cup ({"request"} \X Request) \cup ({"answer"} \X Request)
      /\ scans' \in 0 .. MaxScans /\ scans <= scans' /\ (tx[1] = "request" => scans + 1 <= scans')
      /\ scans' \in Nat
  <2>1. MaxScans \in Nat
    BY ServiceAssumption
  <2> QED BY <1>1, <2>1, MetIs
<1> HIDE DEF s
<1>4. /\ forgotten \cup Overflowed(h, s, tx) \subseteq forgotten'
      /\ forgotten' \subseteq Request /\ served' \subseteq Request
  BY <1>1, <1>2, <1>3, RememberedIs
<1>5. Sound(s, forgotten', Accounted, scans') /\ Noted(s, forgotten')
  BY <1>2, <1>3, <1>4, ScanIs DEF s
<1>6. /\ t \in Handler /\ Len(t.queue) <= QueueCap
      /\ SameAnswers(s, t) /\ SameTables(s, t) /\ \A p : Work(t, p) <= Work(s, p)
  BY <1>5, TryStartIs DEF Sound
<1> HIDE DEF t
<1>7. Sound(t, forgotten', Accounted, scans') /\ Noted(t, forgotten')
  BY <1>3, <1>5, <1>6, LessWork DEF Sound
<1>8. Around'
  BY <1>1, <1>2, <1>3, <1>4 DEF Around
<1>9. SentIsPaid'
  BY <1>1, <1>2, <1>4 DEF SentIsPaid
<1> QED BY <1>1, <1>7, <1>8, <1>9 DEF BooksInv

\* What a poll does to the handler's surroundings.
LEMMA PollActs ==
    ASSUME BooksInv, NEW s, SameWork(h, s), SameAnswers(h, s), SameTables(h, s),
           Sound(s, forgotten, Accounted, scans), connected => Noted(s, forgotten)
    PROVE  /\ Sound(Poll(s), forgotten, Accounted \cup PollTracks(h), scans)
           /\ connected => Noted(Poll(s), forgotten)
           /\ PollTracks(h) \subseteq Rewarded
           /\ PollJobs(h) \in Seq({"save", "flush"} \X Response)
           /\ Inflight(Poll(s)) = Inflight(h) \cup PollSends(h)
           /\ \A a \in PollSends(h) : ~Traced(a[1])
           /\ \/ PollJobs(h) = jobs /\ Poll(s).persisting = h.persisting
              \/ \E a : /\ PollJobs(h) = jobs \o <<<<"save", a>>, <<"flush", a>>>>
                        /\ Poll(s).persisting = h.persisting \cup {a}
<1> DEFINE t == Poll(s)
<1>1. /\ scans \in 0 .. MaxScans /\ h \in Handler /\ Typed(h) /\ jobs \in Seq({"save", "flush"} \X Response)
  BY BooksInvIs DEF Around, Sound
<1>2. /\ Submits(s) = Submits(h) /\ PollTracks(s) = PollTracks(h) /\ s.persisting = h.persisting
      /\ s.inflight = h.inflight /\ Inflight(s) = Inflight(h)
      /\ \A r : AnswerOf(s, r) = AnswerOf(h, r)
  BY DEF SameWork, SameAnswers, SameTables, Submits, PollTracks, AnswerOf, Inflight
<1>3. /\ Sound(t, forgotten, Accounted \cup PollTracks(s), scans)
      /\ Noted(s, forgotten) => Noted(t, forgotten)
      /\ Submits(s) = {} => t.persisting = s.persisting /\ t.inflight = s.inflight
      /\ \A r \in Submits(s) :
            /\ AnswerOf(s, r) \in Response
            /\ \/ /\ Traced(r) /\ t.inflight = s.inflight
                  /\ t.persisting = s.persisting \cup {AnswerOf(s, r)}
               \/ /\ ~Traced(r) /\ Inflight(t) = Inflight(s) \cup {AnswerOf(s, r)}
                  /\ t.persisting = s.persisting
  BY <1>1, PollKeeps
<1>4. Submits(h) = {} \/ \E r : Submits(h) = {r}
  BY <1>1, PolledIs
<1>5. PollTracks(h) \subseteq Rewarded
  BY <1>1 DEF PollTracks, Typed
<1> HIDE DEF t
<1>6. \A r : AnswerOf(h, r)[1] = r
  BY DEF AnswerOf
<1>7. CASE Submits(h) = {}
  <2>1. PollJobs(h) = jobs /\ PollSends(h) = {}
    BY <1>7 DEF PollJobs, PollSends
  <2>2. Inflight(t) = Inflight(h)
    BY <1>2, <1>3, <1>7 DEF Inflight
  <2> QED BY <1>1, <1>2, <1>3, <1>5, <1>7, <2>1, <2>2 DEF t
<1>8. ASSUME NEW r, Submits(h) = {r}, Traced(r)
      PROVE  /\ PollJobs(h) \in Seq({"save", "flush"} \X Response)
             /\ Inflight(t) = Inflight(h) /\ PollSends(h) = {}
             /\ PollJobs(h) = jobs \o <<<<"save", AnswerOf(h, r)>>, <<"flush", AnswerOf(h, r)>>>>
             /\ t.persisting = h.persisting \cup {AnswerOf(h, r)}
  <2> DEFINE a == AnswerOf(h, r)
             two == <<<<"save", a>>, <<"flush", a>>>>
  <2>1. (CHOOSE q \in Submits(h) : TRUE) = r /\ PollSends(h) = {}
    BY <1>8 DEF PollSends
  <2>2. PollJobs(h) = jobs \o two
    BY <1>8, <2>1 DEF PollJobs
  <2>3. a \in Response /\ t.inflight = s.inflight /\ t.persisting = s.persisting \cup {a}
    BY <1>2, <1>3, <1>8
  <2>4. Inflight(t) = Inflight(h)
    BY <1>2, <2>3 DEF Inflight
  <2> HIDE DEF a
  <2>5. two \in Seq({"save", "flush"} \X Response)
    BY <2>3
  <2> HIDE DEF two
  <2>6. jobs \o two \in Seq({"save", "flush"} \X Response)
    BY <1>1, <2>5, ConcatProperties
  <2> QED BY <1>2, <2>1, <2>2, <2>3, <2>4, <2>6 DEF a, two
<1>9. ASSUME NEW r, Submits(h) = {r}, ~Traced(r)
      PROVE  /\ PollJobs(h) = jobs /\ t.persisting = h.persisting
             /\ Inflight(t) = Inflight(h) \cup PollSends(h)
             /\ \A a \in PollSends(h) : ~Traced(a[1])
  <2>1. PollJobs(h) = jobs /\ PollSends(h) = {AnswerOf(h, r)}
    BY <1>9 DEF PollJobs, PollSends
  <2>2. Inflight(t) = Inflight(s) \cup {AnswerOf(h, r)} /\ t.persisting = s.persisting
    BY <1>2, <1>3, <1>9
  <2> QED BY <1>2, <1>6, <1>9, <2>1, <2>2
<1> QED BY <1>1, <1>2, <1>3, <1>4, <1>5, <1>7, <1>8, <1>9 DEF t

\* The template's handler is asked for no other, and that changes no book.
LEMMA AskedKeeps ==
    ASSUME NEW s, NEW b \in BOOLEAN, NEW lost, NEW paid, NEW met \in Nat, Sound(s, lost, paid, met)
    PROVE  LET t == [s EXCEPT !.asked = b] IN
           /\ Sound(t, lost, paid, met) /\ (Noted(s, lost) => Noted(t, lost))
           /\ SameWork(s, t) /\ SameAnswers(s, t) /\ SameTables(s, t)
<1> DEFINE t == [s EXCEPT !.asked = b]
<1>1. s \in Handler /\ Typed(s) /\ Len(s.queue) <= QueueCap
  BY DEF Sound, Typed
<1>2. t \in Handler /\ SameWork(s, t) /\ SameAnswers(s, t) /\ SameTables(s, t)
  BY <1>1, SetAsked
<1> HIDE DEF t
<1>3. \A p : Work(t, p) <= Work(s, p)
  <2>1. \A p : Work(t, p) = Work(s, p) /\ Work(s, p) \in Nat
    BY <1>1, <1>2, WorkIs DEF SameWork, Work
  <2> QED BY <2>1
<1>4. Len(t.queue) <= QueueCap
  BY <1>1, <1>2 DEF SameWork
<1>5. Sound(t, lost, paid, met) /\ (Noted(s, lost) => Noted(t, lost))
  BY <1>1, <1>2, <1>3, <1>4, LessWork
<1> QED BY <1>2, <1>5 DEF t

LEMMA OnTemplateKeepsBooks ==
    ASSUME BooksInv, NEW tx \in Transaction, NEW ready \in BOOLEAN, NEW held \in BOOLEAN,
           OnTemplate(tx, ready, held)
    PROVE  BooksInv'
<1> DEFINE s == [h EXCEPT !.asked = FALSE]
           u == Poll(s)
           v == Scan(u, tx, TRUE)
<1>1. /\ connected /\ connected' = connected /\ kindOf' = kindOf
      /\ jobs' = PollJobs(h) /\ net' = net \cup PollSends(h) /\ Track(PollTracks(h))
      /\ written' = written /\ disk' = disk /\ replies' = replies /\ known' = known
  BY DEF OnTemplate
<1>2. \/ /\ h' = [u EXCEPT !.asked = TRUE] /\ scans' = scans /\ forgotten' = forgotten /\ served' = served
      \/ /\ Met(tx) /\ h' = TryStartInference(v, TRUE, held) /\ Remembered(u, v, tx)
      \/ /\ Met(tx) /\ h' = u /\ Remembered(u, v, tx)
  BY DEF OnTemplate, pastVars
<1>3. /\ Sound(h, forgotten, Accounted, scans) /\ Noted(h, forgotten) /\ h \in Handler /\ scans \in Nat
      /\ scans \in 0 .. MaxScans /\ Around /\ SentIsPaid /\ MaxScans \in Nat
  BY <1>1, BooksInvIs
<1>4. /\ Sound(s, forgotten, Accounted, scans) /\ Noted(s, forgotten)
      /\ SameWork(h, s) /\ SameAnswers(h, s) /\ SameTables(h, s)
  BY <1>3, AskedKeeps
<1> HIDE DEF s
<1>11. /\ PollTracks(h) \subseteq Rewarded
       /\ Sound(u, forgotten, Accounted \cup PollTracks(h), scans)
  BY <1>1, <1>3, <1>4, PollActs
<1>12. Accounted' = Accounted \cup PollTracks(h) /\ RewardsTyped'
  BY <1>1, <1>3, <1>11, TrackIs DEF Around
<1>5. /\ Sound(u, forgotten, Accounted', scans) /\ Noted(u, forgotten)
      /\ PollTracks(h) \subseteq Rewarded
      /\ PollJobs(h) \in Seq({"save", "flush"} \X Response)
      /\ Inflight(u) = Inflight(h) \cup PollSends(h)
  BY <1>1, <1>3, <1>4, <1>12, PollActs
<1> HIDE DEF u
<1>6. u \in Handler /\ PollSends(h) \subseteq Response
  BY <1>5 DEF Sound, Typed, Inflight
<1>7. \A a \in PollSends(h) : a[1] \in Rewarded \ forgotten => a[1] \in Accounted'
  BY <1>5 DEF Sound, Paid, Answering, Answers
<1>8. CASE /\ h' = [u EXCEPT !.asked = TRUE] /\ scans' = scans /\ forgotten' = forgotten /\ served' = served
  <2>1. Sound(h', forgotten', Accounted', scans') /\ Noted(h', forgotten')
    BY <1>3, <1>5, <1>8, AskedKeeps
  <2>2. Around'
    BY <1>1, <1>3, <1>5, <1>6, <1>8, <1>12 DEF Around
  <2>3. SentIsPaid'
    BY <1>1, <1>3, <1>7, <1>8, <1>12 DEF SentIsPaid
  <2> QED BY <1>1, <2>1, <2>2, <2>3 DEF BooksInv
<1>9. ASSUME Met(tx), Remembered(u, v, tx), h' = TryStartInference(v, TRUE, held) \/ h' = u PROVE BooksInv'
  <2>1. /\ tx \in {<<"none">>} \cup ({"request"} \X Request) \cup ({"answer"} \X Request)
        /\ scans' \in 0 .. MaxScans /\ scans <= scans' /\ (tx[1] = "request" => scans + 1 <= scans')
        /\ scans' \in Nat
    BY <1>3, <1>9, MetIs
  <2> HIDE DEF v
  <2>2. /\ forgotten \cup Overflowed(u, v, tx) \subseteq forgotten'
        /\ forgotten' \subseteq Request /\ served' \subseteq Request
    BY <1>6, <1>9, <2>1, RememberedIs
  <2>3. Sound(v, forgotten', Accounted', scans') /\ Noted(v, forgotten')
    BY <1>3, <1>5, <2>1, <2>2, ScanIs DEF v
  <2>4. Sound(h', forgotten', Accounted', scans') /\ Noted(h', forgotten')
    <3>1. CASE h' = u
      <4>1. forgotten \subseteq forgotten' /\ Accounted' \subseteq Accounted'
        BY <2>2
      <4> QED BY <1>3, <1>5, <2>1, <3>1, <4>1, SoundGrows
    <3>2. CASE h' = TryStartInference(v, TRUE, held)
      <4>1. /\ h' \in Handler /\ Len(h'.queue) <= QueueCap
            /\ SameAnswers(v, h') /\ SameTables(v, h') /\ \A p : Work(h', p) <= Work(v, p)
        BY <2>3, <3>2, TryStartIs DEF Sound
      <4> QED BY <2>1, <2>3, <4>1, LessWork DEF Sound
    <3> QED BY <1>9, <3>1, <3>2
  <2>5. Around'
    BY <1>1, <1>3, <1>5, <1>6, <1>12, <2>1, <2>2 DEF Around
  <2>6. SentIsPaid'
    BY <1>1, <1>3, <1>7, <1>12, <2>2 DEF SentIsPaid
  <2> QED BY <1>1, <2>4, <2>5, <2>6 DEF BooksInv
<1> QED BY <1>2, <1>8, <1>9

LEMMA TickKeepsBooks == ASSUME BooksInv, NEW due \in SUBSET Inflight(h), Tick(due) PROVE BooksInv'
<1> DEFINE u == Poll(h)
           s == IF PollEnds(h) THEN [u EXCEPT !.asked = TRUE] ELSE u
           v == Released(s)
<1>1. /\ connected /\ connected' = connected /\ kindOf' = kindOf
      /\ h' = Retried(v, due)
      /\ jobs' = PollJobs(h) /\ net' = net \cup PollSends(h) \cup Ready(s) \cup Resent(s, due)
      /\ Track(PollTracks(h)) /\ written' = written \ Ready(s)
      /\ disk' = disk /\ replies' = replies /\ known' = known
      /\ forgotten' = forgotten /\ served' = served /\ scans' = scans
  BY DEF Tick, pastVars
<1>3. /\ Sound(h, forgotten, Accounted, scans) /\ Noted(h, forgotten) /\ h \in Handler /\ scans \in Nat
      /\ scans \in 0 .. MaxScans /\ Around /\ SentIsPaid
  BY <1>1, BooksInvIs
<1>2. /\ PollTracks(h) \subseteq Rewarded
      /\ Accounted' = Accounted \cup PollTracks(h) /\ RewardsTyped'
  <2>1. SameWork(h, h) /\ SameAnswers(h, h) /\ SameTables(h, h)
    BY DEF SameWork, SameAnswers, SameTables
  <2>2. PollTracks(h) \subseteq Rewarded
    BY <1>3, <2>1, PollActs
  <2> QED BY <1>1, <1>3, <2>2, TrackIs DEF Around
<1>4. /\ Sound(u, forgotten, Accounted', scans) /\ Noted(u, forgotten)
      /\ PollTracks(h) \subseteq Rewarded
      /\ PollJobs(h) \in Seq({"save", "flush"} \X Response)
      /\ Inflight(u) = Inflight(h) \cup PollSends(h)
  <2>1. SameWork(h, h) /\ SameAnswers(h, h) /\ SameTables(h, h)
    BY DEF SameWork, SameAnswers, SameTables
  <2> QED BY <1>1, <1>2, <1>3, <2>1, PollActs
<1> HIDE DEF u
<1>5. /\ Sound(s, forgotten, Accounted', scans) /\ Noted(s, forgotten) /\ SameAnswers(u, s)
  <2>1. SameAnswers(u, u)
    BY DEF SameAnswers
  <2> QED BY <1>3, <1>4, <2>1, AskedKeeps
<1> HIDE DEF s
<1>6. Inflight(s) = Inflight(h) \cup PollSends(h) /\ s \in Handler /\ Typed(s)
  BY <1>4, <1>5 DEF SameAnswers, Inflight, Sound, Typed
<1>7. /\ v \in Handler /\ SameWork(s, v) /\ SameTables(s, v) /\ v.made = s.made
      /\ v.persisting = s.persisting \ Ready(s)
      /\ Inflight(v) = Inflight(s) \cup Ready(s) /\ Ready(s) \subseteq s.persisting
  BY <1>6, ReleasedIs
<1> HIDE DEF v
<1>8. /\ h' \in Handler /\ SameWork(v, h') /\ SameTables(v, h') /\ h'.made = v.made
      /\ h'.persisting = v.persisting /\ Inflight(h') \subseteq Inflight(v) \cup due
  BY <1>1, <1>7, RetriedIs
<1>9. /\ SameWork(s, h') /\ h'.made = s.made /\ h'.txids = s.txids /\ h'.seen = s.seen
  BY <1>7, <1>8 DEF SameWork, SameTables
<1>10. /\ Answers(h') \subseteq Answers(s)
       /\ \A a : a \in h'.persisting /\ a \in Inflight(h') => a \in s.persisting /\ a \in Inflight(s)
  BY <1>6, <1>7, <1>8 DEF Answers
<1>11. Sound(h', forgotten', Accounted', scans') /\ Noted(h', forgotten')
  BY <1>1, <1>5, <1>6, <1>8, <1>9, <1>10, FewerAnswers
<1>12. \A a \in PollSends(h) \cup Ready(s) \cup Resent(s, due) : a \in Answers(s)
  BY <1>6, <1>7 DEF Answers, Resent
<1>13. \A a \in Answers(s) : a \in Response /\ (a[1] \in Rewarded \ forgotten => a[1] \in Accounted')
  <2>1. s.persisting \subseteq Response
    BY <1>6, FieldsAre
  <2> QED BY <1>5, <2>1 DEF Sound, Paid, Answering, Answers, Inflight
<1>14. Around'
  BY <1>1, <1>2, <1>3, <1>4, <1>12, <1>13 DEF Around
<1>15. SentIsPaid'
  BY <1>1, <1>2, <1>3, <1>12, <1>13 DEF SentIsPaid
<1> QED BY <1>1, <1>11, <1>14, <1>15 DEF BooksInv

\* A step of the handler alone.
LEMMA HandlerStep ==
    ASSUME BooksInv, UNCHANGED <<kindOf, connected, storeVars, net, known, rewardVars, pastVars, scans>>,
           replies' \subseteq replies, h'.persisting = h.persisting,
           Sound(h', forgotten, Accounted, scans), Noted(h, forgotten) => Noted(h', forgotten)
    PROVE  BooksInv'
<1>1. /\ kindOf' = kindOf /\ connected' = connected /\ jobs' = jobs /\ written' = written /\ disk' = disk
      /\ net' = net /\ known' = known /\ Accounted' = Accounted /\ RewardsTyped'
      /\ forgotten' = forgotten /\ served' = served /\ scans' = scans
  BY BooksInvIs, RewardsKept DEF storeVars, pastVars, Around
<1>2. Around'
  BY <1>1, BooksInvIs DEF Around
<1>3. SentIsPaid'
  BY <1>1, BooksInvIs DEF SentIsPaid
<1>4. IF connected THEN Noted(h', forgotten) ELSE h'.persisting = {}
  BY BooksInvIs
<1> QED BY <1>1, <1>2, <1>3, <1>4 DEF BooksInv

LEMMA AskTemplateKeepsBooks == ASSUME BooksInv, AskTemplate PROVE BooksInv'
<1>1. h' = [h EXCEPT !.asked = TRUE] /\ replies' \subseteq replies
      /\ UNCHANGED <<kindOf, connected, storeVars, net, known, rewardVars, pastVars, scans>>
  BY DEF AskTemplate, nodeVars
<1>2. Sound(h', forgotten, Accounted, scans) /\ (Noted(h, forgotten) => Noted(h', forgotten)) /\ SameAnswers(h, h')
  BY <1>1, BooksInvIs, AskedKeeps
<1> QED BY <1>1, <1>2, HandlerStep DEF SameAnswers

LEMMA OnSubmitResponseKeepsBooks ==
    ASSUME BooksInv, NEW reply \in replies, OnSubmitResponse(reply) PROVE BooksInv'
<1>1. /\ h' = [h EXCEPT !.inflight[reply] = 0]
      /\ replies' \subseteq replies
      /\ UNCHANGED <<kindOf, connected, storeVars, net, known, rewardVars, pastVars, scans>>
  BY DEF OnSubmitResponse
<1>2. Sound(h, forgotten, Accounted, scans) /\ h \in Handler /\ Typed(h)
  BY BooksInvIs DEF Sound
<1>3. /\ h' \in Handler /\ SameWork(h, h') /\ SameTables(h, h') /\ h'.made = h.made
      /\ h'.persisting = h.persisting /\ Inflight(h') \subseteq Inflight(h)
  BY <1>1, <1>2, AnsweredIs
<1>4. /\ Answers(h') \subseteq Answers(h) /\ h'.txids = h.txids /\ h.seen \subseteq h'.seen
      /\ \A a : a \in h'.persisting /\ a \in Inflight(h') => a \in h.persisting /\ a \in Inflight(h)
  BY <1>3 DEF Answers, SameTables
<1>5. Sound(h', forgotten, Accounted, scans) /\ (Noted(h, forgotten) => Noted(h', forgotten))
  BY <1>2, <1>3, <1>4, FewerAnswers
<1> QED BY <1>1, <1>3, <1>5, HandlerStep

LEMMA TaskEndsKeepsBooks ==
    ASSUME BooksInv, NEW result \in {"text", "none"}, Inferred(result) \/ Published(result) PROVE BooksInv'
<1>1. /\ \/ h.inference # None /\ h' = [h EXCEPT !.inference.at = result]
         \/ h.publish # None /\ h' = [h EXCEPT !.publish.at = result]
      /\ replies' \subseteq replies
      /\ UNCHANGED <<kindOf, connected, storeVars, net, known, rewardVars, pastVars, scans>>
  BY DEF Inferred, Published, nodeVars
<1>2. Sound(h, forgotten, Accounted, scans) /\ h \in Handler /\ Typed(h) /\ scans \in Nat /\ Len(h.queue) <= QueueCap
  BY BooksInvIs DEF Sound, Typed
<1>3. /\ h' \in Handler /\ h'.queue = h.queue
      /\ SameAnswers(h, h') /\ SameTables(h, h') /\ \A p : Work(h', p) = Work(h, p)
  <2>1. /\ h.inference # None => Ended(h, [h EXCEPT !.inference.at = result])
        /\ h.publish # None => Ended(h, [h EXCEPT !.publish.at = result])
    BY <1>2, EndedIs
  <2>2. Ended(h, h')
    BY <1>1, <2>1
  <2> QED BY <2>2 DEF Ended
<1>4. \A p : Work(h', p) <= Work(h, p)
  <2>1. \A p : Work(h, p) \in Nat
    BY <1>2, WorkIs
  <2> QED BY <1>3, <2>1
<1>5. Sound(h', forgotten, Accounted, scans) /\ (Noted(h, forgotten) => Noted(h', forgotten))
  BY <1>2, <1>3, <1>4, LessWork
<1> QED BY <1>1, <1>3, <1>5, HandlerStep DEF SameAnswers

\* The writer's job is a write or a signal, of a response.
LEMMA JobIs ==
    ASSUME NEW S, NEW q \in Seq(S), q # <<>>
    PROVE  Head(q) \in S /\ Tail(q) \in Seq(S) /\ Head(q) = q[1] /\ Len(Tail(q)) = Len(q) - 1
           /\ Len(q) \in Nat \ {0} /\ \A i \in 1 .. Len(q) - 1 : Tail(q)[i] = q[i + 1]
BY HeadTailProperties, EmptySeq

LEMMA WriteKeepsBooks == ASSUME BooksInv, NEW failed \in BOOLEAN, Write(failed) PROVE BooksInv'
<1>1. /\ jobs # <<>> /\ disk' = Saved(Head(jobs), failed) /\ written' = Signalled(Head(jobs)) /\ jobs' = Tail(jobs)
      /\ kindOf' = kindOf /\ h' = h /\ connected' = connected /\ net' = net /\ known' = known /\ replies' = replies
      /\ Accounted' = Accounted /\ RewardsTyped' /\ forgotten' = forgotten /\ served' = served /\ scans' = scans
  BY BooksInvIs, RewardsKept DEF Write, nodeVars, pastVars, Around
<1>2. Head(jobs) \in {"save", "flush"} \X Response /\ Tail(jobs) \in Seq({"save", "flush"} \X Response)
  BY <1>1, BooksInvIs, JobIs DEF Around
<1>3. Around'
  <2>1. Head(jobs)[2] \in Response
    BY <1>2
  <2>2. disk' \subseteq Response /\ written' \subseteq Response
    BY <1>1, <2>1, BooksInvIs DEF Around, Saved, Signalled
  <2> QED BY <1>1, <1>2, <2>2, BooksInvIs DEF Around
<1>4. SentIsPaid'
  BY <1>1, BooksInvIs DEF SentIsPaid
<1> QED BY <1>1, <1>3, <1>4 DEF BooksInv

LEMMA NodeAnswersKeepsBooks ==
    ASSUME BooksInv, NEW a \in net, NEW verdict \in Verdicts(a), NodeAnswers(a, verdict) PROVE BooksInv'
<1>1. /\ net' = net \ {a} /\ known \subseteq known' /\ known' \subseteq known \cup {a}
      /\ replies' \subseteq replies \cup {a}
      /\ kindOf' = kindOf /\ h' = h /\ connected' = connected /\ jobs' = jobs /\ written' = written /\ disk' = disk
      /\ Accounted' = Accounted /\ RewardsTyped' /\ forgotten' = forgotten /\ served' = served /\ scans' = scans
  BY BooksInvIs, RewardsKept DEF NodeAnswers, storeVars, pastVars, Around
<1>2. a \in Response
  BY BooksInvIs DEF Around
<1>3. Around'
  <2>1. replies' \subseteq Response /\ known' \subseteq Response /\ net' \subseteq Response
    BY <1>1, <1>2, BooksInvIs DEF Around
  <2> QED BY <1>1, <2>1, BooksInvIs DEF Around
<1>4. SentIsPaid'
  BY <1>1, BooksInvIs DEF SentIsPaid
<1> QED BY <1>1, <1>3, <1>4 DEF BooksInv

LEMMA DisconnectKeepsBooks ==
    ASSUME BooksInv, NEW failed \in SUBSET Refusable(h), Disconnect(failed) PROVE BooksInv'
<1>1. /\ h' = Parked(h) /\ connected' = FALSE /\ disk' = disk \cup (Awaited(h) \ failed) /\ written' = {}
      /\ jobs' = (IF h.persisting = {} THEN jobs ELSE <<>>) /\ net' = {} /\ replies' = {}
      /\ kindOf' = kindOf /\ known' = known /\ Accounted' = Accounted /\ RewardsTyped'
      /\ forgotten' = forgotten /\ served' = served /\ scans' = scans
  BY BooksInvIs, WatcherEndsIs DEF Disconnect, pastVars, Around, Flushed
<1>2. Sound(h, forgotten, Accounted, scans) /\ h \in Handler /\ Typed(h)
  BY BooksInvIs DEF Sound
<1>3. /\ h' \in Handler /\ SameWork(h, h') /\ h'.made = h.made /\ h'.txids = h.txids
      /\ h'.persisting = {} /\ Inflight(h') = Inflight(h) \cup h.persisting
  BY <1>1, <1>2, ParkedIs
<1>4. /\ Answers(h') \subseteq Answers(h)
      /\ \A a : a \in h'.persisting /\ a \in Inflight(h') => a \in h.persisting /\ a \in Inflight(h)
  BY <1>3 DEF Answers
<1>5. Sound(h', forgotten, Accounted, scans)
  BY <1>2, <1>3, <1>4, FewerAnswers
<1>6. Around'
  <2>1. jobs \in Seq({"save", "flush"} \X Response)
    BY BooksInvIs DEF Around
  <2>2. \A i \in 1 .. Len(jobs) : jobs[i][2] \in Response
    BY <2>1
  <2>3. Awaited(h) \subseteq Response
    BY <2>2 DEF Awaited
  <2>4. <<>> \in Seq({"save", "flush"} \X Response)
    OBVIOUS
  <2>5. jobs' \in Seq({"save", "flush"} \X Response)
    BY <1>1, <2>1, <2>4
  <2>6. connected' \in BOOLEAN
    BY <1>1, Zenon
  <2> QED BY <1>1, <2>3, <2>5, <2>6, BooksInvIs DEF Around
<1>7. SentIsPaid'
  BY <1>1, BooksInvIs DEF SentIsPaid
<1> QED BY <1>1, <1>3, <1>5, <1>6, <1>7 DEF BooksInv

LEMMA ConnectKeepsBooks == ASSUME BooksInv, Connect PROVE BooksInv'
<1>1. /\ ~connected /\ h' = Restored(h) /\ connected' = TRUE /\ served' = {}
      /\ kindOf' = kindOf /\ jobs' = jobs /\ written' = written /\ disk' = disk
      /\ net' = net /\ replies' = replies /\ known' = known
      /\ Accounted' = Accounted /\ RewardsTyped' /\ forgotten' = forgotten /\ scans' = scans
  BY BooksInvIs, RewardsKept DEF Connect, storeVars, nodeVars, Around
<1>2. Sound(h, forgotten, Accounted, scans) /\ h \in Handler /\ Typed(h) /\ h.persisting = {}
  BY <1>1, BooksInvIs DEF Sound
<1>3. /\ h' \in Handler /\ SameWork(h, h') /\ SameAnswers(h, h') /\ h'.txids = h.txids /\ Noted(h', forgotten)
  BY <1>1, <1>2, RestoredIs
<1>4. /\ Answers(h') \subseteq Answers(h) /\ h'.made = h.made
      /\ \A a : a \in h'.persisting /\ a \in Inflight(h') => a \in h.persisting /\ a \in Inflight(h)
  BY <1>3 DEF Answers, SameAnswers, Inflight
<1>5. Sound(h', forgotten, Accounted, scans)
  BY <1>2, <1>3, <1>4, FewerAnswers
<1>6. Around'
  <2>1. connected' \in BOOLEAN
    BY <1>1, Zenon
  <2> QED BY <1>1, <2>1, BooksInvIs DEF Around
<1>7. SentIsPaid'
  BY <1>1, BooksInvIs DEF SentIsPaid
<1> QED BY <1>1, <1>3, <1>5, <1>6, <1>7 DEF BooksInv

LEMMA CrashKeepsBooks == ASSUME BooksInv, Crash PROVE BooksInv'
<1>1. /\ h' = [Idle EXCEPT !.made = h.made, !.asked = FALSE] /\ connected' = FALSE
      /\ jobs' = <<>> /\ written' = {} /\ net' = {} /\ replies' = {}
      /\ kindOf' = kindOf /\ disk' = disk /\ known' = known
      /\ Accounted' = Accounted /\ RewardsTyped' /\ forgotten' = forgotten /\ served' = served /\ scans' = scans
  BY BooksInvIs, WatcherEndsIs DEF Crash, pastVars, Around
<1>2. h \in Handler /\ Sound(h, forgotten, Accounted, scans) /\ scans \in Nat
  BY BooksInvIs
<1>3. h.made \in [Request -> 0 .. MaxScans]
  BY <1>2, FieldsAre
<1>4. /\ h' \in Handler /\ h'.queue = <<>> /\ h'.inference = None /\ h'.publish = None /\ h'.txids = {}
      /\ h'.persisting = {} /\ Answers(h') = {} /\ h'.made = h.made
  BY <1>1, <1>3, IdleIs
<1>5. \A r \in Request : h'.made[r] <= scans
  <2>1. \A r \in Request : Work(h, r) \in Nat /\ h.made[r] \in Nat /\ Work(h, r) + h.made[r] <= scans
    BY <1>2, <1>3, WorkIs DEF Sound, Counted
  <2> QED BY <1>2, <1>4, <2>1
<1>6. Sound(h', forgotten, Accounted, scans)
  BY <1>2, <1>4, <1>5, NothingIsSound
<1>7. Around'
  <2>1. connected' \in BOOLEAN
    BY <1>1, Zenon
  <2>2. jobs' \in Seq({"save", "flush"} \X Response)
    BY <1>1
  <2> QED BY <1>1, <2>1, <2>2, BooksInvIs DEF Around
<1>8. SentIsPaid'
  BY <1>1, BooksInvIs DEF SentIsPaid
<1> QED BY <1>1, <1>4, <1>6, <1>7, <1>8 DEF BooksInv

LEMMA NextKeepsBooks == BooksInv /\ [Next]_vars => BooksInv'
<1> SUFFICES ASSUME BooksInv, [Next]_vars PROVE BooksInv'
  OBVIOUS
<1>1. CASE \E tx \in Transaction, ready, held \in BOOLEAN : OnBlock(tx, ready, held) \/ OnTemplate(tx, ready, held)
  BY <1>1, OnBlockKeepsBooks, OnTemplateKeepsBooks
<1>2. CASE AskTemplate
  BY <1>2, AskTemplateKeepsBooks
<1>3. CASE \E due \in SUBSET Inflight(h) : Tick(due)
  BY <1>3, TickKeepsBooks
<1>4. CASE \E reply \in replies : OnSubmitResponse(reply)
  BY <1>4, OnSubmitResponseKeepsBooks
<1>5. CASE \E result \in {"text", "none"} : Inferred(result) \/ Published(result)
  BY <1>5, TaskEndsKeepsBooks
<1>6. CASE \E failed \in BOOLEAN : Write(failed)
  BY <1>6, WriteKeepsBooks
<1>7. CASE \E a \in net : \E verdict \in Verdicts(a) : NodeAnswers(a, verdict)
  BY <1>7, NodeAnswersKeepsBooks
<1>8. CASE \E failed \in SUBSET Refusable(h) : Disconnect(failed)
  BY <1>8, DisconnectKeepsBooks
<1>9. CASE Connect
  BY <1>9, ConnectKeepsBooks
<1>10. CASE Crash
  BY <1>10, CrashKeepsBooks
<1>11. CASE UNCHANGED vars
  <2>1. h' = h /\ UNCHANGED <<kindOf, connected, storeVars, nodeVars, rewardVars, pastVars, scans>>
    BY <1>11 DEF vars
  <2>2. Accounted' = Accounted /\ RewardsTyped'
    BY <2>1, BooksInvIs, RewardsKept DEF Around
  <2> QED BY <2>1, <2>2 DEF storeVars, nodeVars, pastVars, BooksInv, Around, SentIsPaid
<1> QED
  BY <1>1, <1>2, <1>3, <1>4, <1>5, <1>6, <1>7, <1>8, <1>9, <1>10, <1>11 DEF Next

-----------------------------------------------------------------------------
\* The books.

\* A set two members of which are equal has one at most.
LEMMA OneAtMost == ASSUME NEW S, \A x, y \in S : x = y PROVE Cardinality(S) <= 1
<1>1. CASE S = {}
  BY <1>1, FS_EmptySet
<1>2. CASE S # {}
  <2>1. PICK x \in S : TRUE
    BY <1>2
  <2>2. S = {x}
    BY <2>1
  <2> QED BY <2>2, FS_Singleton
<1> QED BY <1>1, <1>2

LEMMA BooksInvImplies == BooksInv => BooksAgree
<1> SUFFICES ASSUME BooksInv PROVE BooksAgree
  OBVIOUS
<1>1. Typed(h) /\ Apart(h, forgotten) /\ Paid(h, forgotten, Accounted) /\ h \in Handler
  BY BooksInvIs DEF Sound
<1>2. TypeOK
  BY <1>1, BooksInvIs DEF TypeOK, Typed, Around, RewardsTyped, Accounted
<1>3. ASSUME NEW r \in Request \ forgotten
      PROVE  /\ Cardinality({i \in 1 .. 5 : r \in Places(h)[i]}) <= 1
             /\ Cardinality({i \in 1 .. Len(h.queue) : h.queue[i] = r}) <= 1
             /\ Cardinality({a \in h.persisting \cup Inflight(h) : a[1] = r}) <= 1
  <2>1. /\ Work(h, r) <= 1
        /\ r \in Answering(h) => Work(h, r) = 0
        /\ \A a, b \in Answers(h) : a[1] = r /\ b[1] = r =>
              a = b /\ ~(a \in h.persisting /\ a \in Inflight(h))
    BY <1>1 DEF Apart
  <2>2. /\ Count(h.queue, r) \in Nat /\ At(h.inference, r) \in {0, 1} /\ At(h.publish, r) \in {0, 1}
        /\ Work(h, r) = Count(h.queue, r) + At(h.inference, r) + At(h.publish, r)
    BY <1>1, WorkIs DEF Work
  <2>3. /\ r \in Elements(h.queue) <=> Count(h.queue, r) >= 1
        /\ r \in Working(h.inference) <=> At(h.inference, r) = 1
        /\ r \in Working(h.publish) <=> At(h.publish, r) = 1
    <3>1. h.queue \in Seq(Request)
      BY <1>1, FieldsAre
    <3>2. r \in Elements(h.queue) <=> Count(h.queue, r) >= 1
      BY <3>1, CountIs
    <3>3. /\ r \in Working(h.inference) <=> At(h.inference, r) = 1
          /\ r \in Working(h.publish) <=> At(h.publish, r) = 1
      BY DEF At
    <3> QED BY <3>2, <3>3
  <2>4. Count(h.queue, r) <= 1
    BY <2>1, <2>2
  <2> DEFINE P4 == {a[1] : a \in h.persisting}
             P5 == {a[1] : a \in Inflight(h)}
  <2>5. /\ r \in P4 => r \in Answering(h) /\ r \notin P5
        /\ r \in P5 => r \in Answering(h)
    <3>1. r \in P4 => r \in Answering(h)
      BY DEF Answering, Answers
    <3>2. r \in P5 => r \in Answering(h)
      BY DEF Answering, Answers
    <3>3. ASSUME r \in P4, r \in P5 PROVE FALSE
      <4>1. PICK a \in h.persisting : a[1] = r
        BY <3>3
      <4>2. PICK b \in Inflight(h) : b[1] = r
        BY <3>3
      <4> QED BY <2>1, <4>1, <4>2 DEF Answers
    <3> QED BY <3>1, <3>2, <3>3
  <2>6. /\ Places(h)[1] = Elements(h.queue) /\ Places(h)[2] = Working(h.inference)
        /\ Places(h)[3] = Working(h.publish) /\ Places(h)[4] = P4 /\ Places(h)[5] = P5
    BY DEF Places
  <2> HIDE DEF P4, P5
  <2>7. /\ r \in Places(h)[1] => r \notin Places(h)[2] /\ r \notin Places(h)[3]
        /\ r \in Places(h)[2] => r \notin Places(h)[3]
    BY <2>1, <2>2, <2>3, <2>6
  <2>8. /\ r \in Places(h)[4] => r \notin Places(h)[5]
        /\ r \in Places(h)[4] \/ r \in Places(h)[5] =>
              r \notin Places(h)[1] /\ r \notin Places(h)[2] /\ r \notin Places(h)[3]
    BY <2>1, <2>2, <2>3, <2>5, <2>6
  <2>9. \A i, j \in 1 .. 5 : r \in Places(h)[i] /\ r \in Places(h)[j] => i = j
    <3>1. 1 .. 5 = {1, 2, 3, 4, 5}
      OBVIOUS
    <3> QED BY <2>7, <2>8, <3>1
  <2>10. Cardinality({i \in 1 .. 5 : r \in Places(h)[i]}) <= 1
    BY <2>9, OneAtMost
  <2>11. Cardinality({a \in h.persisting \cup Inflight(h) : a[1] = r}) <= 1
    <3>1. \A a, b \in {c \in Answers(h) : c[1] = r} : a = b
      BY <2>1
    <3> QED BY <3>1, OneAtMost DEF Answers
  <2> QED BY <2>4, <2>10, <2>11 DEF Count
<1>4. OnePlace
  BY <1>3 DEF OnePlace
<1>5. RewardIsTracked
  <2>1. \A a \in h.persisting \cup Inflight(h) : a[1] \in Rewarded \ forgotten => a[1] \in Accounted
    BY <1>1 DEF Paid, Answering, Answers
  <2> QED BY <2>1, BooksInvIs DEF RewardIsTracked, SentIsPaid
<1> QED BY <1>2, <1>4, <1>5 DEF BooksAgree

\* The books on every request agree, however many requests, answers, lost
\* connections and crashes there are: it is in one of the handler's lists, and its
\* reward is tracked before its answer goes.
THEOREM BooksStayInAgreement == Spec => []BooksAgree
<1>1. Spec => []BooksInv
  BY InitKeepsBooks, NextKeepsBooks, PTL DEF Spec
<1> QED BY <1>1, BooksInvImplies, PTL

-----------------------------------------------------------------------------
\* Traces on disk.

\* A response whose trace has to be on disk when its Flush is reached: it is
\* there, or its Save comes before.
FlushesFollowSaves ==
    \A i \in 1 .. Len(jobs) : jobs[i][1] = "flush" =>
        jobs[i][2] \in disk \/ \E j \in 1 .. i - 1 : jobs[j] = <<"save", jobs[i][2]>>

\* The inductive invariant when no write fails: a signal is given, and a traced
\* answer resent or sent, for a trace on disk, and one that waits has its Save.
WireInv ==
    /\ written \subseteq disk
    /\ FlushesFollowSaves
    /\ \A a \in net \cup known \cup Inflight(h) : Traced(a[1]) => a \in disk
    /\ \A a \in h.persisting : a \in disk \/ \E i \in 1 .. Len(jobs) : jobs[i] = <<"save", a>>

\* A step that makes no answer and touches neither jobs nor traces.
LEMMA WireStep ==
    ASSUME WireInv, kindOf' = kindOf, jobs' = jobs, written' \subseteq written, disk' = disk,
           known' \subseteq known \cup net, net' \subseteq net, h'.persisting \subseteq h.persisting, Inflight(h') \subseteq Inflight(h)
    PROVE  WireInv'
<1>1. \A r : Traced(r)' <=> Traced(r)
  BY DEF Traced
<1>2. FlushesFollowSaves'
  BY DEF WireInv, FlushesFollowSaves
<1> QED BY <1>1, <1>2 DEF WireInv, Traced

LEMMA TwoMore ==
    ASSUME NEW S, NEW q \in Seq(S), NEW x \in S, NEW y \in S
    PROVE  LET t == q \o <<x, y>> IN
           /\ Len(t) = Len(q) + 2 /\ t[Len(q) + 1] = x /\ t[Len(q) + 2] = y
           /\ \A i \in 1 .. Len(q) : t[i] = q[i]
<1> DEFINE two == <<x, y>>
<1>1. two \in Seq(S) /\ Len(two) = 2 /\ two[1] = x /\ two[2] = y /\ Len(q) \in Nat
  OBVIOUS
<1> HIDE DEF two
<1>2. /\ Len(q \o two) = Len(q) + Len(two)
      /\ \A i \in 1 .. Len(q) + Len(two) : (q \o two)[i] = IF i <= Len(q) THEN q[i] ELSE two[i - Len(q)]
  BY <1>1, ConcatProperties
<1>3. /\ Len(q) + 1 \in 1 .. Len(q) + 2 /\ Len(q) + 2 \in 1 .. Len(q) + 2
      /\ (Len(q) + 1) - Len(q) = 1 /\ (Len(q) + 2) - Len(q) = 2
      /\ ~(Len(q) + 1 <= Len(q)) /\ ~(Len(q) + 2 <= Len(q))
  BY <1>1
<1>4. \A i \in 1 .. Len(q) : i \in 1 .. Len(q) + 2 /\ i <= Len(q)
  BY <1>1
<1> QED BY <1>1, <1>2, <1>3, <1>4 DEF two

\* A step that polls: the answer it makes is sent untraced, or queued behind its Save.
LEMMA WirePoll ==
    ASSUME BooksInv, WireInv, kindOf' = kindOf, disk' = disk, known' = known, written' \subseteq written,
           jobs' = PollJobs(h), NEW u,
           Inflight(u) = Inflight(h) \cup PollSends(h),
           \A a \in PollSends(h) : ~Traced(a[1]),
           \/ PollJobs(h) = jobs /\ u.persisting = h.persisting
           \/ \E a : /\ PollJobs(h) = jobs \o <<<<"save", a>>, <<"flush", a>>>>
                     /\ u.persisting = h.persisting \cup {a},
           net' \subseteq net \cup Inflight(u) \cup written,
           h'.persisting \subseteq u.persisting, Inflight(h') \subseteq Inflight(u) \cup written
    PROVE  WireInv'
<1>1. \A a \in net' \cup known' \cup Inflight(h') : Traced(a[1]) => a \in disk'
  BY DEF WireInv
<1>2. written' \subseteq disk'
  BY DEF WireInv
<1>3. /\ FlushesFollowSaves'
      /\ \A a \in h'.persisting : a \in disk' \/ \E i \in 1 .. Len(jobs') : jobs'[i] = <<"save", a>>
  <2>1. CASE PollJobs(h) = jobs /\ u.persisting = h.persisting
    BY <2>1 DEF WireInv, FlushesFollowSaves
  <2>2. ASSUME NEW a, PollJobs(h) = jobs \o <<<<"save", a>>, <<"flush", a>>>>,
               u.persisting = h.persisting \cup {a}
        PROVE  /\ FlushesFollowSaves'
               /\ \A b \in h'.persisting : b \in disk' \/ \E i \in 1 .. Len(jobs') : jobs'[i] = <<"save", b>>
    <3>1. jobs \in Seq({"save", "flush"} \X Response) /\ Len(jobs) \in Nat
      <4>1. jobs \in Seq({"save", "flush"} \X Response)
        BY BooksInvIs DEF Around
      <4> QED BY <4>1
    <3>2. /\ Len(jobs') = Len(jobs) + 2 /\ jobs'[Len(jobs) + 1] = <<"save", a>> /\ jobs'[Len(jobs) + 2] = <<"flush", a>>
          /\ \A i \in 1 .. Len(jobs) : jobs'[i] = jobs[i]
      <4> DEFINE S == ({"save", "flush"} \X Response) \cup {<<"save", a>>, <<"flush", a>>}
      <4>1. jobs \in Seq(S) /\ <<"save", a>> \in S /\ <<"flush", a>> \in S
        BY <3>1
      <4> HIDE DEF S
      <4> QED BY <2>2, <4>1, TwoMore
    <3>3. Len(jobs) + 1 \in 1 .. Len(jobs') /\ \A i \in 1 .. Len(jobs) : i \in 1 .. Len(jobs')
      BY <3>1, <3>2
    <3>4. \A b \in h'.persisting : b \in disk' \/ \E i \in 1 .. Len(jobs') : jobs'[i] = <<"save", b>>
      BY <2>2, <3>2, <3>3 DEF WireInv
    <3>5. FlushesFollowSaves'
      <4> SUFFICES ASSUME NEW i \in 1 .. Len(jobs'), jobs'[i][1] = "flush"
                   PROVE  jobs'[i][2] \in disk' \/ \E j \in 1 .. i - 1 : jobs'[j] = <<"save", jobs'[i][2]>>
        BY DEF FlushesFollowSaves
      <4>1. CASE i \in 1 .. Len(jobs)
        <5>1. jobs[i][1] = "flush" /\ jobs'[i] = jobs[i]
          BY <3>2, <4>1
        <5>2. CASE jobs[i][2] \in disk
          BY <5>1, <5>2
        <5>3. CASE \E j \in 1 .. i - 1 : jobs[j] = <<"save", jobs[i][2]>>
          <6>1. PICK j \in 1 .. i - 1 : jobs[j] = <<"save", jobs[i][2]>>
            BY <5>3
          <6>2. j \in 1 .. Len(jobs)
            BY <3>1, <4>1
          <6> QED BY <3>2, <5>1, <6>1, <6>2
        <5> QED BY <4>1, <5>1, <5>2, <5>3 DEF WireInv, FlushesFollowSaves
      <4>2. CASE i = Len(jobs) + 1
        BY <3>2, <4>2
      <4>3. CASE i = Len(jobs) + 2
        <5>1. Len(jobs) + 1 \in 1 .. i - 1 /\ jobs'[i][2] = a
          BY <3>1, <3>2, <4>3
        <5> QED BY <3>2, <5>1
      <4> QED BY <3>1, <3>2, <4>1, <4>2, <4>3
    <3> QED BY <3>4, <3>5
  <2> QED BY <2>1, <2>2
<1> QED
  <2>1. \A r : Traced(r)' <=> Traced(r)
    BY DEF Traced
  <2> QED BY <1>1, <1>2, <1>3 DEF WireInv, Traced

\* Scanning makes no answer.
LEMMA ScanMakesNone ==
    ASSUME NEW s, Typed(s), NEW ready \in BOOLEAN,
           NEW tx \in {<<"none">>} \cup ({"request"} \X Request) \cup ({"answer"} \X Request)
    PROVE  SameAnswers(s, Scan(s, tx, ready))
<1>1. CASE tx = <<"none">>
  BY <1>1 DEF Scan, SameAnswers
<1>2. CASE tx \in {"answer"} \X Request
  <2>1. tx[2] \in Request /\ Scan(s, tx, ready) = NoteAnswer(s, tx[2])
    BY <1>2 DEF Scan
  <2> QED BY <2>1, NoteAnswerIs
<1>3. CASE tx \in {"request"} \X Request
  <2>1. tx[2] \in Request /\ Scan(s, tx, ready) = NoteRequest(s, tx[2], ready)
    BY <1>3 DEF Scan
  <2> QED BY <2>1, NoteRequestIs
<1> QED BY <1>1, <1>2, <1>3

LEMMA SameInflight == ASSUME NEW s, NEW t, SameAnswers(s, t) PROVE Inflight(t) = Inflight(s) /\ t.persisting = s.persisting
BY DEF SameAnswers, Inflight

LEMMA OnBlockKeepsWire ==
    ASSUME BooksInv, WireInv, NEW tx \in Transaction, NEW ready \in BOOLEAN, NEW held \in BOOLEAN,
           OnBlock(tx, ready, held)
    PROVE  WireInv'
<1> DEFINE s == Scan(h, tx, ready)
<1>1. /\ connected /\ Met(tx) /\ h' = TryStartInference(s, ready, held) /\ Remembered(h, s, tx)
      /\ kindOf' = kindOf /\ jobs' = jobs /\ written' = written /\ disk' = disk /\ net' = net /\ known' = known
  BY BooksInvIs, FlushIs DEF OnBlock, storeVars, nodeVars, Around
<1>2. tx \in {<<"none">>} \cup ({"request"} \X Request) \cup ({"answer"} \X Request)
  BY MetIs
<1>3. Sound(h, forgotten, Accounted, scans) /\ Noted(h, forgotten) /\ Typed(h) /\ scans \in Nat /\ h \in Handler
  BY <1>1, BooksInvIs DEF Sound
<1> HIDE DEF s
<1>4. SameAnswers(h, s)
  BY <1>2, <1>3, ScanMakesNone DEF s
<1>5. Typed(s)
  <2>1. /\ forgotten \cup Overflowed(h, s, tx) \subseteq forgotten'
    BY <1>1, <1>2, <1>3, RememberedIs
  <2>2. scans' \in Nat /\ scans <= scans' /\ (tx[1] = "request" => scans + 1 <= scans')
    <3>1. MaxScans \in Nat
      BY ServiceAssumption
    <3> QED BY <1>1, <3>1, MetIs
  <2>3. Sound(s, forgotten', Accounted, scans')
    BY <1>2, <1>3, <2>1, <2>2, ScanIs DEF s
  <2> QED BY <2>3 DEF Sound
<1>6. SameAnswers(s, h')
  BY <1>1, <1>5, TryStartIs
<1>7. Inflight(h') = Inflight(h) /\ h'.persisting = h.persisting
  BY <1>4, <1>6, SameInflight
<1> QED BY <1>1, <1>7, WireStep

LEMMA OnTemplateKeepsWire ==
    ASSUME BooksInv, WireInv, NEW tx \in Transaction, NEW ready \in BOOLEAN, NEW held \in BOOLEAN,
           OnTemplate(tx, ready, held)
    PROVE  WireInv'
<1> DEFINE s == [h EXCEPT !.asked = FALSE]
           u == Poll(s)
           v == Scan(u, tx, TRUE)
<1>1. /\ connected /\ kindOf' = kindOf
      /\ jobs' = PollJobs(h) /\ net' = net \cup PollSends(h)
      /\ written' = written /\ disk' = disk /\ known' = known
  BY DEF OnTemplate
<1>2. \/ h' = [u EXCEPT !.asked = TRUE]
      \/ Met(tx) /\ h' = TryStartInference(v, TRUE, held) /\ Remembered(u, v, tx)
      \/ h' = u
  BY DEF OnTemplate
<1>3. Sound(h, forgotten, Accounted, scans) /\ Noted(h, forgotten) /\ scans \in Nat
  BY <1>1, BooksInvIs
<1>4. /\ Sound(s, forgotten, Accounted, scans) /\ Noted(s, forgotten)
      /\ SameWork(h, s) /\ SameAnswers(h, s) /\ SameTables(h, s)
  BY <1>3, AskedKeeps
<1> HIDE DEF s
<1>5. /\ Sound(u, forgotten, Accounted \cup PollTracks(h), scans) /\ Noted(u, forgotten)
      /\ Inflight(u) = Inflight(h) \cup PollSends(h)
      /\ \A a \in PollSends(h) : ~Traced(a[1])
      /\ \/ PollJobs(h) = jobs /\ u.persisting = h.persisting
         \/ \E a : /\ PollJobs(h) = jobs \o <<<<"save", a>>, <<"flush", a>>>>
                   /\ u.persisting = h.persisting \cup {a}
  BY <1>1, <1>3, <1>4, PollActs
<1> HIDE DEF u
<1>6. SameAnswers(u, h')
  <2>1. CASE h' = [u EXCEPT !.asked = TRUE]
    BY <1>3, <1>5, <2>1, AskedKeeps
  <2>2. CASE h' = u
    BY <2>2 DEF SameAnswers
  <2>3. CASE Met(tx) /\ h' = TryStartInference(v, TRUE, held) /\ Remembered(u, v, tx)
    <3>1. tx \in {<<"none">>} \cup ({"request"} \X Request) \cup ({"answer"} \X Request)
      BY MetIs
    <3>2. u \in Handler /\ Typed(u)
      BY <1>5 DEF Sound, Typed
    <3> HIDE DEF v
    <3>3. SameAnswers(u, v)
      BY <3>1, <3>2, ScanMakesNone DEF v
    <3>4. forgotten \cup Overflowed(u, v, tx) \subseteq forgotten'
      BY <2>3, <3>1, <3>2, RememberedIs
    <3>5. scans' \in Nat /\ scans <= scans' /\ (tx[1] = "request" => scans + 1 <= scans')
      <4>1. MaxScans \in Nat
        BY ServiceAssumption
      <4> QED BY <2>3, <4>1, MetIs
    <3>6. Sound(v, forgotten', Accounted \cup PollTracks(h), scans')
      BY <1>3, <1>5, <3>1, <3>4, <3>5, ScanIs DEF v
    <3>7. SameAnswers(v, h')
      BY <2>3, <3>6, TryStartIs DEF Sound
    <3> QED BY <3>3, <3>7 DEF SameAnswers
  <2> QED BY <1>2, <2>1, <2>2, <2>3
<1>7. Inflight(h') = Inflight(u) /\ h'.persisting = u.persisting
  BY <1>6, SameInflight
<1> QED BY <1>1, <1>5, <1>7, WirePoll

LEMMA TickKeepsWire ==
    ASSUME BooksInv, WireInv, NEW due \in SUBSET Inflight(h), Tick(due) PROVE WireInv'
<1> DEFINE u == Poll(h)
           s == IF PollEnds(h) THEN [u EXCEPT !.asked = TRUE] ELSE u
           v == Released(s)
<1>1. /\ connected /\ kindOf' = kindOf /\ h' = Retried(v, due)
      /\ jobs' = PollJobs(h) /\ net' = net \cup PollSends(h) \cup Ready(s) \cup Resent(s, due)
      /\ written' = written \ Ready(s) /\ disk' = disk /\ known' = known
  BY DEF Tick
<1>3. Sound(h, forgotten, Accounted, scans) /\ Noted(h, forgotten) /\ scans \in Nat
  BY <1>1, BooksInvIs
<1>4. /\ Sound(u, forgotten, Accounted \cup PollTracks(h), scans)
      /\ Inflight(u) = Inflight(h) \cup PollSends(h)
      /\ \A a \in PollSends(h) : ~Traced(a[1])
      /\ \/ PollJobs(h) = jobs /\ u.persisting = h.persisting
         \/ \E a : /\ PollJobs(h) = jobs \o <<<<"save", a>>, <<"flush", a>>>>
                   /\ u.persisting = h.persisting \cup {a}
  <2>1. SameWork(h, h) /\ SameAnswers(h, h) /\ SameTables(h, h)
    BY DEF SameWork, SameAnswers, SameTables
  <2> QED BY <1>3, <2>1, PollActs
<1> HIDE DEF u
<1>5. Sound(s, forgotten, Accounted \cup PollTracks(h), scans) /\ SameAnswers(u, s)
  <2>1. SameAnswers(u, u)
    BY DEF SameAnswers
  <2> QED BY <1>3, <1>4, <2>1, AskedKeeps
<1> HIDE DEF s
<1>6. Inflight(s) = Inflight(u) /\ s.persisting = u.persisting /\ s \in Handler
  BY <1>5, SameInflight DEF Sound, Typed
<1>7. /\ v \in Handler /\ v.persisting = s.persisting \ Ready(s)
      /\ Inflight(v) = Inflight(s) \cup Ready(s) /\ Ready(s) \subseteq written
  BY <1>6, ReleasedIs DEF Ready
<1> HIDE DEF v
<1>8. h'.persisting = v.persisting /\ Inflight(h') \subseteq Inflight(v) \cup due
  BY <1>1, <1>7, RetriedIs
<1>9. Resent(s, due) \subseteq Inflight(u) /\ due \subseteq Inflight(u) /\ PollSends(h) \subseteq Inflight(u)
  BY <1>4 DEF Resent
<1>10. /\ net' \subseteq net \cup Inflight(u) \cup written
       /\ h'.persisting \subseteq u.persisting /\ Inflight(h') \subseteq Inflight(u) \cup written
       /\ written' \subseteq written
  BY <1>1, <1>6, <1>7, <1>8, <1>9
<1> QED BY <1>1, <1>4, <1>10, WirePoll

LEMMA WriteKeepsWire == ASSUME BooksInv, WireInv, ~WritesFail, NEW failed \in BOOLEAN, Write(failed) PROVE WireInv'
<1>1. /\ jobs # <<>> /\ disk' = Saved(Head(jobs), failed) /\ written' = Signalled(Head(jobs)) /\ jobs' = Tail(jobs)
      /\ ~failed /\ kindOf' = kindOf /\ h' = h /\ net' = net /\ known' = known
  BY DEF Write, nodeVars
<1>2. jobs \in Seq({"save", "flush"} \X Response)
  BY BooksInvIs DEF Around
<1>3. /\ Head(jobs) = jobs[1] /\ Len(Tail(jobs)) = Len(jobs) - 1
      /\ Len(jobs) \in Nat \ {0} /\ \A i \in 1 .. Len(jobs) - 1 : Tail(jobs)[i] = jobs[i + 1]
  BY <1>1, <1>2, JobIs
<1>4. disk \subseteq disk'
  BY <1>1 DEF Saved
<1>5. \A a : Head(jobs) = <<"save", a>> => a \in disk'
  BY <1>1 DEF Saved
<1>6. written' \subseteq disk'
  <2>1. Head(jobs)[1] = "flush" => Head(jobs)[2] \in disk
    <3>1. 1 \in 1 .. Len(jobs) /\ 1 .. 1 - 1 = {}
      BY <1>3
    <3> QED BY <1>3, <3>1 DEF WireInv, FlushesFollowSaves
  <2>2. written \subseteq disk
    BY DEF WireInv
  <2> QED BY <1>1, <1>4, <2>1, <2>2 DEF Signalled
<1>7. \A a, i : i \in 1 .. Len(jobs) /\ jobs[i] = <<"save", a>> =>
          a \in disk' \/ (i - 1 \in 1 .. Len(jobs') /\ jobs'[i - 1] = <<"save", a>>)
  <2> SUFFICES ASSUME NEW a, NEW i \in 1 .. Len(jobs), jobs[i] = <<"save", a>>
               PROVE  a \in disk' \/ (i - 1 \in 1 .. Len(jobs') /\ jobs'[i - 1] = <<"save", a>>)
    OBVIOUS
  <2>1. CASE i = 1
    BY <1>3, <1>5, <2>1
  <2>2. CASE i # 1
    <3>1. i - 1 \in 1 .. Len(jobs) - 1 /\ (i - 1) + 1 = i
      BY <1>3, <2>2
    <3> QED BY <1>1, <1>3, <3>1
  <2> QED BY <2>1, <2>2
<1>8. FlushesFollowSaves'
  <2> SUFFICES ASSUME NEW i \in 1 .. Len(jobs'), jobs'[i][1] = "flush"
               PROVE  jobs'[i][2] \in disk' \/ \E j \in 1 .. i - 1 : jobs'[j] = <<"save", jobs'[i][2]>>
    BY DEF FlushesFollowSaves
  <2>1. i + 1 \in 1 .. Len(jobs) /\ jobs[i + 1] = jobs'[i]
    BY <1>1, <1>3
  <2>2. CASE jobs[i + 1][2] \in disk
    BY <1>4, <2>1, <2>2
  <2>3. CASE \E j \in 1 .. (i + 1) - 1 : jobs[j] = <<"save", jobs[i + 1][2]>>
    <3>1. PICK j \in 1 .. (i + 1) - 1 : jobs[j] = <<"save", jobs'[i][2]>>
      BY <2>1, <2>3
    <3>2. j \in 1 .. Len(jobs) /\ (j - 1 \in 1 .. Len(jobs') => j - 1 \in 1 .. i - 1)
      BY <1>1, <1>3, <2>1
    <3> QED BY <1>7, <3>1, <3>2
  <2> QED BY <2>1, <2>2, <2>3 DEF WireInv, FlushesFollowSaves
<1>9. \A a \in h'.persisting : a \in disk' \/ \E i \in 1 .. Len(jobs') : jobs'[i] = <<"save", a>>
  BY <1>1, <1>4, <1>7 DEF WireInv
<1>10. \A a \in net' \cup known' \cup Inflight(h') : Traced(a[1]) => a \in disk'
  BY <1>1, <1>4 DEF WireInv
<1> QED
  <2>1. \A r : Traced(r)' <=> Traced(r)
    BY <1>1 DEF Traced
  <2> QED BY <1>6, <1>8, <1>9, <1>10, <2>1 DEF WireInv, Traced

LEMMA AskTemplateKeepsWire == ASSUME BooksInv, WireInv, AskTemplate PROVE WireInv'
<1>1. /\ h' = [h EXCEPT !.asked = TRUE] /\ kindOf' = kindOf /\ jobs' = jobs /\ written' = written
      /\ disk' = disk /\ net' = net /\ known' = known
  BY DEF AskTemplate, storeVars, nodeVars
<1>2. SameAnswers(h, h')
  BY <1>1, BooksInvIs, AskedKeeps
<1> QED BY <1>1, <1>2, SameInflight, WireStep

LEMMA OnSubmitResponseKeepsWire ==
    ASSUME BooksInv, WireInv, NEW reply \in replies, OnSubmitResponse(reply) PROVE WireInv'
<1>1. /\ h' = [h EXCEPT !.inflight[reply] = 0]
      /\ kindOf' = kindOf /\ jobs' = jobs /\ written' = written /\ disk' = disk /\ net' = net /\ known' = known
  BY DEF OnSubmitResponse, storeVars
<1>2. h \in Handler /\ reply \in Response
  BY BooksInvIs DEF BooksInv, Around
<1>3. h'.persisting \subseteq h.persisting /\ Inflight(h') \subseteq Inflight(h)
  BY <1>1, <1>2, AnsweredIs
<1> QED BY <1>1, <1>3, WireStep

LEMMA TaskEndsKeepsWire ==
    ASSUME BooksInv, WireInv, NEW result \in {"text", "none"}, Inferred(result) \/ Published(result) PROVE WireInv'
<1>1. /\ \/ h.inference # None /\ h' = [h EXCEPT !.inference.at = result]
         \/ h.publish # None /\ h' = [h EXCEPT !.publish.at = result]
      /\ kindOf' = kindOf /\ jobs' = jobs /\ written' = written /\ disk' = disk /\ net' = net /\ known' = known
  BY DEF Inferred, Published, storeVars, nodeVars
<1>2. h \in Handler
  BY BooksInvIs
<1>3. SameAnswers(h, h')
  <2>1. /\ h.inference # None => Ended(h, [h EXCEPT !.inference.at = result])
        /\ h.publish # None => Ended(h, [h EXCEPT !.publish.at = result])
    BY <1>2, EndedIs
  <2>2. Ended(h, h')
    BY <1>1, <2>1
  <2> QED BY <2>2 DEF Ended
<1> QED BY <1>1, <1>3, SameInflight, WireStep

LEMMA NodeAnswersKeepsWire ==
    ASSUME WireInv, NEW a \in net, NEW verdict \in Verdicts(a), NodeAnswers(a, verdict) PROVE WireInv'
<1>1. /\ net' = net \ {a} /\ known' \subseteq known \cup {a} /\ kindOf' = kindOf /\ h' = h
      /\ jobs' = jobs /\ written' = written /\ disk' = disk
  BY DEF NodeAnswers, storeVars
<1> QED BY <1>1, WireStep

\* A lost connection waits for the writer when an answer waits for its trace, so
\* that what it parks as sent is on disk.
LEMMA DisconnectKeepsWire ==
    ASSUME BooksInv, WireInv, ~WritesFail, NEW failed \in SUBSET Refusable(h), Disconnect(failed) PROVE WireInv'
<1>1. /\ h' = Parked(h) /\ disk' = disk \cup (Awaited(h) \ failed) /\ written' = {}
      /\ jobs' = (IF h.persisting = {} THEN jobs ELSE <<>>) /\ net' = {}
      /\ kindOf' = kindOf /\ known' = known
  BY DEF Disconnect
<1>2. failed = {}
  BY DEF Refusable
<1>3. h'.persisting = {} /\ Inflight(h') = Inflight(h) \cup h.persisting
  BY <1>1, BooksInvIs, ParkedIs
<1>4. CASE h.persisting = {}
  <2>1. disk' = disk /\ jobs' = jobs /\ Inflight(h') = Inflight(h)
    BY <1>1, <1>3, <1>4 DEF Awaited
  <2> QED BY <1>1, <1>3, <2>1, WireStep
<1>5. CASE h.persisting # {}
  <2>1. jobs' = <<>> /\ disk' = disk \cup {jobs[i][2] : i \in 1 .. Len(jobs)}
    BY <1>1, <1>2, <1>5 DEF Awaited
  <2>2. h.persisting \subseteq disk'
    <3> SUFFICES ASSUME NEW a \in h.persisting, a \notin disk PROVE a \in disk'
      BY <2>1
    <3>1. PICK i \in 1 .. Len(jobs) : jobs[i] = <<"save", a>>
      BY DEF WireInv
    <3>2. jobs[i][2] = a
      BY <3>1
    <3> QED BY <2>1, <3>2
  <2>3. FlushesFollowSaves'
    BY <2>1 DEF FlushesFollowSaves
  <2>4. \A a \in net' \cup known' \cup Inflight(h') : Traced(a[1]) => a \in disk'
    BY <1>1, <1>3, <2>1, <2>2 DEF WireInv
  <2>5. \A r : Traced(r)' <=> Traced(r)
    BY <1>1 DEF Traced
  <2> QED BY <1>1, <1>3, <2>3, <2>4, <2>5 DEF WireInv, Traced
<1> QED BY <1>4, <1>5

LEMMA ConnectKeepsWire == ASSUME BooksInv, WireInv, Connect PROVE WireInv'
<1>1. /\ ~connected /\ h' = Restored(h) /\ kindOf' = kindOf /\ jobs' = jobs /\ written' = written
      /\ disk' = disk /\ net' = net /\ known' = known
  BY DEF Connect, storeVars, nodeVars
<1>2. h \in Handler /\ h.persisting = {}
  BY <1>1, BooksInvIs
<1>3. SameAnswers(h, h')
  BY <1>1, <1>2, RestoredIs
<1> QED BY <1>1, <1>3, SameInflight, WireStep

\* The answers of a process that stops are gone, and so are the writer's jobs.
LEMMA CrashKeepsWire == ASSUME BooksInv, WireInv, Crash PROVE WireInv'
<1>1. /\ h' = [Idle EXCEPT !.made = h.made, !.asked = FALSE] /\ jobs' = <<>> /\ written' = {} /\ net' = {}
      /\ kindOf' = kindOf /\ disk' = disk /\ known' = known
  BY DEF Crash
<1>2. h.made \in [Request -> 0 .. MaxScans]
  BY BooksInvIs, FieldsAre
<1>3. h'.persisting = {} /\ Answers(h') = {}
  BY <1>1, <1>2, IdleIs
<1>4. Inflight(h') = {}
  BY <1>3 DEF Answers
<1>5. FlushesFollowSaves'
  BY <1>1 DEF FlushesFollowSaves
<1>6. \A r : Traced(r)' <=> Traced(r)
  BY <1>1 DEF Traced
<1> QED BY <1>1, <1>3, <1>4, <1>5, <1>6 DEF WireInv, Traced

LEMMA InitKeepsWire == Init => WireInv
<1> SUFFICES ASSUME Init PROVE WireInv
  OBVIOUS
<1>1. Inflight(h) = {} /\ h.persisting = {}
  BY IdleIs DEF Init, Answers
<1>2. FlushesFollowSaves
  BY DEF Init, FlushesFollowSaves
<1> QED BY <1>1, <1>2 DEF Init, WireInv

LEMMA NextKeepsWire == ASSUME ~WritesFail PROVE BooksInv /\ WireInv /\ [Next]_vars => WireInv'
<1> SUFFICES ASSUME BooksInv, WireInv, [Next]_vars PROVE WireInv'
  OBVIOUS
<1>1. CASE \E tx \in Transaction, ready, held \in BOOLEAN : OnBlock(tx, ready, held) \/ OnTemplate(tx, ready, held)
  BY <1>1, OnBlockKeepsWire, OnTemplateKeepsWire
<1>2. CASE AskTemplate
  BY <1>2, AskTemplateKeepsWire
<1>3. CASE \E due \in SUBSET Inflight(h) : Tick(due)
  BY <1>3, TickKeepsWire
<1>4. CASE \E reply \in replies : OnSubmitResponse(reply)
  BY <1>4, OnSubmitResponseKeepsWire
<1>5. CASE \E result \in {"text", "none"} : Inferred(result) \/ Published(result)
  BY <1>5, TaskEndsKeepsWire
<1>6. CASE \E failed \in BOOLEAN : Write(failed)
  BY <1>6, WriteKeepsWire
<1>7. CASE \E a \in net : \E verdict \in Verdicts(a) : NodeAnswers(a, verdict)
  BY <1>7, NodeAnswersKeepsWire
<1>8. CASE \E failed \in SUBSET Refusable(h) : Disconnect(failed)
  BY <1>8, DisconnectKeepsWire
<1>9. CASE Connect
  BY <1>9, ConnectKeepsWire
<1>10. CASE Crash
  BY <1>10, CrashKeepsWire
<1>11. CASE UNCHANGED vars
  BY <1>11, WireStep DEF vars, storeVars, nodeVars, Inflight
<1> QED
  BY <1>1, <1>2, <1>3, <1>4, <1>5, <1>6, <1>7, <1>8, <1>9, <1>10, <1>11 DEF Next

\* On a disk that refuses no trace, no answer that needs one is on the wire, nor
\* with the node, before its trace is on disk: through retries, lost connections
\* and crashes, for any number of requests and any length of the writer's queue.
THEOREM TracesPrecedeAnswers == ASSUME ~WritesFail PROVE Spec => []WireIsOnDisk
<1>1. Init => BooksInv /\ WireInv
  BY InitKeepsBooks, InitKeepsWire
<1>2. BooksInv /\ WireInv /\ [Next]_vars => (BooksInv /\ WireInv)'
  BY NextKeepsBooks, NextKeepsWire
<1>3. BooksInv /\ WireInv => WireIsOnDisk
  BY DEF WireInv, WireIsOnDisk
<1> QED BY <1>1, <1>2, <1>3, PTL DEF Spec

-----------------------------------------------------------------------------
\* A request is neither done twice nor lost: what the handler's operations do
\* with the requests they owe work for.

\* Where a request may be owed.
LEMMA OwedIs ==
    ASSUME NEW s, NEW r
    PROVE  r \in Owed(s) <=> \/ r \in Elements(s.queue) \/ r \in Working(s.inference)
                             \/ r \in Working(s.publish) \/ r \in Answering(s)
<1>1. {a[1] : a \in s.persisting \cup Inflight(s)} = Answering(s)
  BY DEF Answering, Answers
<1> QED BY <1>1 DEF Owed

\* A member of a set of numbers is the one with its count.
LEMMA NthOnly ==
    ASSUME NEW m \in Nat, NEW K \in SUBSET (1 .. m), NEW i \in K, NEW k \in K,
           Cardinality({j \in K : j <= i}) = Cardinality({j \in K : j <= k})
    PROVE  ~(i < k)
<1> DEFINE Upto(n) == {j \in K : j <= n}
<1>1. i \in Nat /\ k \in Nat /\ \A j \in K : j \in Nat
  OBVIOUS
<1>2. IsFiniteSet(K)
  <2>1. IsFiniteSet(1 .. m)
    BY FS_Interval
  <2> QED BY <2>1, FS_Subset
<1>3. Upto(i) \in SUBSET K /\ Upto(k) \in SUBSET K
  OBVIOUS
<1>4. IsFiniteSet(Upto(i)) /\ IsFiniteSet(Upto(k))
  <2> HIDE DEF Upto
  <2> QED BY <1>2, <1>3, FS_Subset
<1> SUFFICES ASSUME i < k PROVE FALSE
  OBVIOUS
<1>5. Upto(i) \subseteq Upto(k) /\ k \in Upto(k) /\ k \notin Upto(i)
  <2>1. k <= k /\ ~(k <= i) /\ \A j \in K : j <= i => j <= k
    BY <1>1
  <2> QED BY <2>1
<1>6. Cardinality(Upto(i)) = Cardinality(Upto(k))
  OBVIOUS
<1> HIDE DEF Upto
<1>7. Upto(i) = Upto(k)
  <2>1. Cardinality(Upto(i)) <= Cardinality(Upto(k)) /\ (Cardinality(Upto(i)) = Cardinality(Upto(k)) => Upto(i) = Upto(k))
    BY <1>4, <1>5, FS_Subset
  <2> QED BY <1>6, <2>1
<1> QED BY <1>5, <1>7

\* What stays in a queue without a request: the others.
LEMMA WithoutKeeps ==
    ASSUME NEW S, NEW q \in Seq(S), NEW r
    PROVE  Elements(Without(q, r)) = Elements(q) \ {r}
<1> DEFINE keep == {i \in 1 .. Len(q) : q[i] /= r}
           nth(n) == CHOOSE i \in keep : Cardinality({j \in keep : j <= i}) = n
           t == Without(q, r)
<1>1. t \in Seq(S) /\ Count(t, r) = 0 /\ \A p : Count(t, p) <= Count(q, p)
  BY WithoutIs
<1>2. \A p : Count(t, p) \in Nat /\ Count(q, p) \in Nat
  BY <1>1, CountIs
<1>3. \A p : (p \in Elements(t) <=> Count(t, p) >= 1) /\ (p \in Elements(q) <=> Count(q, p) >= 1)
  BY <1>1, CountIs
<1>4. Elements(t) \subseteq Elements(q) \ {r}
  <2> HIDE DEF t
  <2> QED BY <1>1, <1>2, <1>3
<1>5. Len(q) \in Nat /\ keep \in SUBSET (1 .. Len(q))
  OBVIOUS
<1>6. IsFiniteSet(keep) /\ Cardinality(keep) \in Nat
  <2>1. IsFiniteSet(1 .. Len(q))
    BY <1>5, FS_Interval
  <2> HIDE DEF keep
  <2> QED BY <1>5, <2>1, FS_Subset, FS_CardinalityType
<1>7. t = [n \in 1 .. Cardinality(keep) |-> q[nth(n)]]
  BY DEF Without
<1> HIDE DEF t, nth
<1>8. ASSUME NEW p \in Elements(q), p # r PROVE p \in Elements(t)
  <2>1. PICK k \in 1 .. Len(q) : q[k] = p
    BY <1>8 DEF Elements
  <2>2. k \in keep
    BY <1>8, <2>1
  <2> DEFINE Upto(i) == {j \in keep : j <= i}
             n == Cardinality(Upto(k))
  <2>3. Upto(k) \in SUBSET keep /\ k \in Upto(k)
    BY <1>5, <2>2
  <2> HIDE DEF keep
  <2>4. IsFiniteSet(Upto(k)) /\ n \in Nat /\ n <= Cardinality(keep)
    <3> HIDE DEF Upto
    <3> QED BY <1>6, <2>3, FS_Subset, FS_CardinalityType
  <2>5. n # 0
    <3> HIDE DEF Upto
    <3> QED BY <2>3, <2>4, FS_EmptySet
  <2>6. n \in 1 .. Cardinality(keep)
    <3> HIDE DEF n
    <3> QED BY <1>6, <2>4, <2>5
  <2>7. nth(n) \in keep /\ Cardinality(Upto(nth(n))) = n
    <3> HIDE DEF n
    <3>1. \E i \in keep : Cardinality({j \in keep : j <= i}) = n
      BY <2>2 DEF n
    <3> QED BY <3>1, Zenon DEF nth
  <2>8. nth(n) = k
    <3> DEFINE i == nth(n)
    <3>1. i \in keep /\ Cardinality(Upto(i)) = Cardinality(Upto(k))
      BY <2>7
    <3> HIDE DEF i
    <3>2. ~(i < k) /\ ~(k < i)
      BY <1>5, <2>2, <3>1, NthOnly
    <3>3. i \in Nat /\ k \in Nat
      BY <1>5, <2>2, <3>1
    <3> QED BY <3>2, <3>3 DEF i
  <2> HIDE DEF n
  <2>9. t[n] = p
    BY <1>7, <2>1, <2>6, <2>8
  <2>10. Len(t) = Cardinality(keep)
    BY <1>6, <1>7
  <2> QED BY <2>6, <2>9, <2>10 DEF Elements
<1> QED BY <1>4, <1>8 DEF t

\* The queue past the requests at its front that are answered already.
LEMMA RemainingKeeps ==
    ASSUME NEW s, s.queue \in Seq(Request)
    PROVE  /\ Elements(Remaining(s)) \subseteq Elements(s.queue)
           /\ \A p \in Elements(s.queue) : p \in Elements(Remaining(s)) \/ p \in s.answered
           /\ Remaining(s) # <<>> => Head(Remaining(s)) \notin s.answered
<1> DEFINE q == s.queue
           open == {i \in 1 .. Len(q) : q[i] \notin s.answered}
           first == CHOOSE i \in open : \A j \in open : i <= j
<1>1. CASE open = {}
  <2>1. Remaining(s) = <<>>
    BY <1>1 DEF Remaining
  <2>2. \A p \in Elements(q) : p \in s.answered
    BY <1>1 DEF Elements
  <2>3. Elements(<<>>) = {}
    BY DEF Elements
  <2> QED BY <2>1, <2>2, <2>3
<1>2. CASE open # {}
  <2>1. \E i \in open : \A j \in open : i <= j
    <3>1. open \subseteq Nat
      OBVIOUS
    <3> HIDE DEF open
    <3>2. PICK i \in open : \A j \in open : ~(<<j, i>> \in OpToRel(<, Nat))
      BY <1>2, <3>1, NatLessThanWellFounded, WFMin, Zenon
    <3>3. \A j \in open : ~(j < i)
      BY <3>1, <3>2 DEF OpToRel
    <3> QED BY <3>1, <3>3
  <2>2. first \in open /\ \A j \in open : first <= j
    BY <2>1
  <2>3. first \in 1 .. Len(q) /\ q[first] \notin s.answered
    <3> HIDE DEF first
    <3> QED BY <2>2
  <2>4. Remaining(s) = SubSeq(q, first, Len(q))
    BY <1>2 DEF Remaining
  <2> HIDE DEF first
  <2>5. Len(q) \in Nat /\ first \in Nat /\ 1 <= first /\ first <= Len(q) /\ \A i \in first .. Len(q) : q[i] \in Request
    BY <2>3
  <2> DEFINE t == SubSeq(q, first, Len(q))
  <2>6. t \in Seq(Request) /\ Len(t) = Len(q) - first + 1 /\ \A i \in 1 .. Len(q) - first + 1 : t[i] = q[first + i - 1]
    BY <2>5, SubSeqProperties
  <2> HIDE DEF t
  <2>7. Elements(t) \subseteq Elements(q)
    <3>1. \A i \in 1 .. Len(t) : first + i - 1 \in 1 .. Len(q) /\ t[i] = q[first + i - 1]
      BY <2>5, <2>6
    <3> QED BY <3>1 DEF Elements
  <2>8. \A p \in Elements(q) : p \in Elements(t) \/ p \in s.answered
    <3> SUFFICES ASSUME NEW k \in 1 .. Len(q), q[k] \notin s.answered PROVE q[k] \in Elements(t)
      BY DEF Elements
    <3>1. first <= k
      BY <2>2
    <3>2. k - first + 1 \in 1 .. Len(t) /\ t[k - first + 1] = q[k]
      BY <2>5, <2>6, <3>1
    <3> QED BY <3>2 DEF Elements
  <2>9. Head(t) = q[first]
    <3>1. Len(t) # 0 /\ t[1] = q[first]
      BY <2>5, <2>6
    <3>2. t # <<>>
      BY <3>1
    <3> QED BY <2>6, <3>1, <3>2, HeadTailProperties
  <2> QED BY <2>3, <2>4, <2>7, <2>8, <2>9 DEF t
<1> QED BY <1>1, <1>2

\* No request that is queued has been answered, except those forgotten.
Open(s, lost) == \A r \in Request \ lost : r \in Elements(s.queue) => r \notin s.answered

TaskFailed(s, r) ==
    s.inference = [req |-> r, at |-> "none"] \/ s.publish = [req |-> r, at |-> "none"]

\* What is queued has been noted as seen.
QueueSeen(s) == Elements(s.queue) \subseteq s.seen

\* What a scan does to the work and to the answers noted.
AnswerIn(tx) == IF tx[1] = "answer" THEN {tx[2]} ELSE {}

Scanned(s, tx, ready, t) ==
    /\ QueueSeen(s) => /\ QueueSeen(t)
                       /\ \A p \in t.seen \ s.seen : /\ ready /\ p \notin t.answered
                                                     /\ p \in Elements(t.queue) \/ Len(s.queue) = QueueCap
    /\ t.queue \in Seq(Request) /\ t.inference = s.inference /\ t.publish = s.publish
    /\ Elements(s.queue) \subseteq Elements(t.queue) \cup AnswerIn(tx)
    /\ \A p \in Elements(t.queue) : p \in t.answered => p \in Elements(s.queue) /\ p \in s.answered
    /\ s.answered \cup AnswerIn(tx) \subseteq t.answered \cup Overflowed(s, t, tx)

\* What taking up a request does.
TakenUp(s, ready, t) ==
    /\ t.answered = s.answered /\ t.publish = s.publish /\ t.seen = s.seen
    /\ Elements(t.queue) \subseteq Elements(s.queue)
    /\ \A p \in Elements(s.queue) : \/ p \in Elements(t.queue) \/ p \in Working(t.inference)
                                    \/ (t.inference = None /\ ~ready) \/ p \in s.answered
    /\ \A p \in Working(t.inference) : p \in Working(s.inference) \/ p \notin s.answered
    /\ Working(s.inference) \subseteq Working(t.inference)

\* What is in a queue with a request put at its end.
LEMMA AppendKeeps ==
    ASSUME NEW S, NEW q \in Seq(S), NEW r \in S
    PROVE  Append(q, r) \in Seq(S) /\ Elements(Append(q, r)) = Elements(q) \cup {r}
<1> DEFINE z == Append(q, r)
           n == Len(q)
<1>1. /\ n \in Nat /\ z \in Seq(S) /\ Len(z) = n + 1 /\ z[n + 1] = r
      /\ \A i \in 1 .. n : z[i] = q[i]
  BY AppendProperties
<1> HIDE DEF z
<1>2. Elements(q) = {q[i] : i \in 1 .. n} /\ Elements(z) = {z[i] : i \in 1 .. n + 1}
  BY <1>1 DEF Elements
<1> HIDE DEF n
<1>3. 1 .. n + 1 = (1 .. n) \cup {n + 1}
  BY <1>1
<1>4. Elements(z) = Elements(q) \cup {r}
  BY <1>1, <1>2, <1>3
<1> QED BY <1>1, <1>4 DEF z

\* A scan takes off the queue what it finds answered, and queues nothing answered.
LEMMA ScanKeepsWork ==
    ASSUME NEW s, Typed(s), NEW ready \in BOOLEAN,
           NEW tx \in {<<"none">>} \cup ({"request"} \X Request) \cup ({"answer"} \X Request)
    PROVE  Scanned(s, tx, ready, Scan(s, tx, ready))
<1> DEFINE t == Scan(s, tx, ready)
<1>1. /\ s \in Handler /\ s.queue \in Seq(Request) /\ s.answered \in SUBSET Request
      /\ s.seen \in SUBSET Request /\ s.txids \in SUBSET Request
      /\ Len(s.queue) <= QueueCap /\ QueueCap \in Nat /\ Len(s.queue) \in Nat
  BY FieldsAre, ServiceAssumption DEF Typed
<1>2. CASE tx = <<"none">>
  <2>1. t = s /\ tx[1] # "answer"
    BY <1>2 DEF Scan
  <2> QED BY <1>1, <2>1 DEF Scanned, AnswerIn, QueueSeen
<1>3. CASE tx \in {"answer"} \X Request
  <2> DEFINE r == tx[2]
             A == s.answered \cup {r}
             X == IF Cardinality(A) > SeenCap THEN {} ELSE A
             q == Without(s.queue, r)
             u == [s EXCEPT !.answered = X, !.queue = q]
  <2>1. tx[1] = "answer" /\ r \in Request
    BY <1>3
  <2>2. t = u
    BY <2>1 DEF Scan, NoteAnswer
  <2>3. Overflowed(s, t, tx) = UNION {s.seen \ t.seen, s.txids \ t.txids, IF Cardinality(A) > SeenCap THEN A ELSE {}}
    BY <2>1 DEF Overflowed
  <2>4. A \subseteq X \cup Overflowed(s, t, tx)
    BY <2>3
  <2>5. Elements(q) = Elements(s.queue) \ {r} /\ q \in Seq(Request)
    BY <1>1, WithoutKeeps, WithoutIs
  <2>6. X \subseteq s.answered \cup {r} /\ A = s.answered \cup {r}
    OBVIOUS
  <2> HIDE DEF X, q, t, A
  <2>7. u.answered = X /\ u.queue = q /\ u.inference = s.inference /\ u.publish = s.publish /\ u.seen = s.seen
    BY <1>1 DEF Handler
  <2> HIDE DEF u
  <2> QED BY <2>1, <2>2, <2>4, <2>5, <2>6, <2>7 DEF t, Scanned, AnswerIn, QueueSeen
<1>4. CASE tx \in {"request"} \X Request
  <2> DEFINE r == tx[2]
             fresh == r \notin s.seen
             q == IF fresh THEN Queued(s, r) ELSE s.queue
             X == IF fresh THEN Trimmed(s.seen \cup {r}, q) ELSE s.seen
             Y == IF r \in Rewarded THEN Rewards(s, r) ELSE s.txids
             u == [s EXCEPT !.queue = q, !.seen = X, !.txids = Y]
  <2>1. tx[1] = "request" /\ r \in Request /\ t = NoteRequest(s, r, ready)
    BY <1>4 DEF Scan
  <2>2. CASE ~ready \/ r \in s.answered
    <3>1. t = s
      BY <2>1, <2>2 DEF NoteRequest
    <3> QED BY <1>1, <2>1, <3>1 DEF Scanned, AnswerIn, QueueSeen
  <2>3. CASE ~(~ready \/ r \in s.answered)
    <3>1. t = u
      BY <2>1, <2>3 DEF NoteRequest
    <3>2. q = s.queue \/ q = Append(s.queue, r)
      BY DEF Queued
    <3>3. q \in Seq(Request) /\ Elements(s.queue) \subseteq Elements(q) /\ Elements(q) \subseteq Elements(s.queue) \cup {r}
      <4>1. CASE q = s.queue
        BY <1>1, <4>1
      <4>2. CASE q = Append(s.queue, r)
        <5>1. Append(s.queue, r) \in Seq(Request) /\ Elements(Append(s.queue, r)) = Elements(s.queue) \cup {r}
          BY <1>1, <2>1, AppendKeeps
        <5> HIDE DEF q
        <5> QED BY <4>2, <5>1
      <4> QED BY <3>2, <4>1, <4>2
    <3>4. fresh => r \in Elements(q) \/ Len(s.queue) = QueueCap
      <4>1. CASE Len(s.queue) < QueueCap
        <5>1. Elements(Append(s.queue, r)) = Elements(s.queue) \cup {r}
          BY <1>1, <2>1, AppendKeeps
        <5> QED BY <4>1, <5>1 DEF Queued
      <4>2. CASE ~(Len(s.queue) < QueueCap)
        BY <1>1, <4>2
      <4> QED BY <4>1, <4>2
    <3>5. (X = s.seen /\ ~fresh /\ q = s.queue) \/ (fresh /\ X \in {s.seen \cup {r}, Elements(q)})
      BY DEF Trimmed
    <3>6. QueueSeen(s) => /\ Elements(q) \subseteq X
                          /\ \A p \in X \ s.seen : p = r /\ fresh
      BY <3>3, <3>5 DEF QueueSeen
    <3> HIDE DEF q, X, Y, t
    <3>7. /\ u.answered = s.answered /\ u.queue = q /\ u.inference = s.inference /\ u.publish = s.publish
          /\ u.seen = X
      BY <1>1 DEF Handler
    <3>8. QueueSeen(s) => /\ QueueSeen(t)
                          /\ \A p \in t.seen \ s.seen : /\ ready /\ p \notin t.answered
                                                        /\ p \in Elements(t.queue) \/ Len(s.queue) = QueueCap
      BY <2>3, <3>1, <3>4, <3>6, <3>7 DEF QueueSeen
    <3> HIDE DEF u, r
    <3>9. /\ t.queue \in Seq(Request) /\ t.inference = s.inference /\ t.publish = s.publish
          /\ Elements(s.queue) \subseteq Elements(t.queue) /\ t.answered = s.answered
          /\ \A p \in Elements(t.queue) : p \in t.answered => p \in Elements(s.queue) /\ p \in s.answered
      BY <2>3, <3>1, <3>3, <3>7
    <3>10. tx[1] # "answer"
      BY <2>1
    <3> QED BY <3>8, <3>9, <3>10 DEF t, Scanned, AnswerIn
  <2> QED BY <2>2, <2>3
<1> QED BY <1>2, <1>3, <1>4

\* The handler takes up a request that is not answered, and passes over no other
\* unless it finds nothing to take up.
LEMMA TryStartKeepsWork ==
    ASSUME NEW s, Typed(s), NEW ready \in BOOLEAN, NEW held \in BOOLEAN
    PROVE  TakenUp(s, ready, TryStartInference(s, ready, held))
<1> DEFINE t == TryStartInference(s, ready, held)
           q == Remaining(s)
<1>1. s \in Handler /\ s.queue \in Seq(Request) /\ s.inference \in Task \cup {None}
  BY FieldsAre DEF Typed
<1>2. /\ q \in Seq(Request)
      /\ Elements(q) \subseteq Elements(s.queue)
      /\ \A p \in Elements(s.queue) : p \in Elements(q) \/ p \in s.answered
      /\ q # <<>> => Head(q) \notin s.answered
  BY <1>1, RemainingIs, RemainingKeeps
<1>3. CASE s.inference # None \/ held \/ s.queue = <<>>
  <2>1. t = s
    BY <1>3 DEF TryStartInference
  <2> QED BY <2>1 DEF TakenUp
<1>4. CASE ~(s.inference # None \/ held \/ s.queue = <<>>) /\ q = <<>>
  <2> DEFINE u == [s EXCEPT !.queue = <<>>]
  <2>1. t = u
    BY <1>4 DEF TryStartInference
  <2>2. u.answered = s.answered /\ u.publish = s.publish /\ u.inference = s.inference /\ u.queue = <<>> /\ u.seen = s.seen
    BY <1>1 DEF Handler
  <2>3. Elements(<<>>) = {}
    BY DEF Elements
  <2>4. s.inference = None
    BY <1>4
  <2>5. \A p \in Elements(s.queue) : p \in s.answered
    BY <1>2, <1>4, <2>3
  <2> HIDE DEF t, u
  <2>6. TakenUp(s, ready, t)
    BY <2>1, <2>2, <2>3, <2>4, <2>5 DEF Working, TakenUp
  <2> QED BY <2>6 DEF t
<1>5. CASE ~(s.inference # None \/ held \/ s.queue = <<>>) /\ q # <<>>
  <2> DEFINE r == Head(q)
             rest == Tail(q)
  <2>1. \/ t = [s EXCEPT !.queue = rest] /\ ~ready
        \/ \E at \in {"running", "text"} : t = [s EXCEPT !.queue = rest, !.inference = [req |-> r, at |-> at]]
    BY <1>5 DEF TryStartInference
  <2>2. r \in Request /\ rest \in Seq(Request) /\ \A p : p \in Elements(q) <=> p = r \/ p \in Elements(rest)
    <3>1. /\ r \in Request /\ rest \in Seq(Request) /\ Len(rest) = Len(q) - 1 /\ r = q[1] /\ Len(q) \in Nat \ {0}
          /\ \A i \in 1 .. Len(q) - 1 : rest[i] = q[i + 1]
      BY <1>2, <1>5, HeadTailProperties, EmptySeq
    <3> HIDE DEF r, rest, q
    <3>2. \A i \in 1 .. Len(q) : i = 1 \/ (i - 1 \in 1 .. Len(rest) /\ rest[i - 1] = q[i])
      BY <3>1
    <3>3. 1 \in 1 .. Len(q) /\ \A i \in 1 .. Len(rest) : i + 1 \in 1 .. Len(q) /\ q[i + 1] = rest[i]
      BY <3>1
    <3>4. \A p \in Elements(q) : p = r \/ p \in Elements(rest)
      BY <3>1, <3>2 DEF Elements
    <3>5. \A p \in Elements(rest) : p \in Elements(q)
      BY <3>3 DEF Elements
    <3>6. r \in Elements(q)
      BY <3>1, <3>3 DEF Elements
    <3> QED BY <3>1, <3>4, <3>5, <3>6
  <2>3. s.inference = None /\ r \notin s.answered
    BY <1>2, <1>5
  <2> HIDE DEF t, r, rest, q
  <2>4. CASE t = [s EXCEPT !.queue = rest] /\ ~ready
    <3>1. /\ t.answered = s.answered /\ t.publish = s.publish /\ t.inference = s.inference /\ t.queue = rest
          /\ t.seen = s.seen
      BY <1>1, <2>4 DEF Handler
    <3> QED BY <1>2, <2>2, <2>3, <2>4, <3>1 DEF t, Working, TakenUp
  <2>5. CASE \E at \in {"running", "text"} : t = [s EXCEPT !.queue = rest, !.inference = [req |-> r, at |-> at]]
    <3>1. PICK at \in {"running", "text"} : t = [s EXCEPT !.queue = rest, !.inference = [req |-> r, at |-> at]]
      BY <2>5
    <3>2. /\ t.answered = s.answered /\ t.publish = s.publish /\ t.inference = [req |-> r, at |-> at]
          /\ t.queue = rest /\ t.seen = s.seen
      BY <1>1, <3>1 DEF Handler
    <3>3. [req |-> r, at |-> at] \in Task /\ [req |-> r, at |-> at].req = r
      BY <2>2 DEF Task
    <3>4. Working(t.inference) = {r} /\ Working(s.inference) = {}
      BY <2>3, <3>2, <3>3, ServiceAssumption DEF Working
    <3> QED BY <1>2, <2>2, <2>3, <3>2, <3>4 DEF t, TakenUp
  <2> QED BY <2>1, <2>4, <2>5
<1> QED BY <1>3, <1>4, <1>5

\* What both do to the work s owes, to the answers noted and to the queue: u is the
\* handler after the scan, t the one after it took up a request.
ScanStarted(s, tx, u, t, lost) ==
    /\ Open(t, lost)
    /\ QueueSeen(s) => /\ QueueSeen(t)
                       /\ \A p \in t.seen \ s.seen : p \in Owed(t) \/ Len(s.queue) = QueueCap
    /\ \A p \in Owed(s) \ lost : \/ p \in Owed(t) \/ p \in AnswerIn(tx)
                                 \/ p \in Elements(s.queue) /\ t.inference = None
    /\ \A p \in Working(t.inference) : p \in Working(s.inference) \/ p \notin t.answered
    /\ s.answered \cup AnswerIn(tx) \subseteq t.answered \cup Overflowed(s, u, tx)

\* A block's or template's transaction is scanned and a request taken up.
LEMMA ScanStartKeepsWork ==
    ASSUME NEW s, Typed(s), NEW ready \in BOOLEAN, NEW ready2 \in BOOLEAN, NEW held \in BOOLEAN, NEW lost,
           NEW tx \in {<<"none">>} \cup ({"request"} \X Request) \cup ({"answer"} \X Request),
           Open(s, lost), Typed(Scan(s, tx, ready)), ready => ready2
    PROVE  LET u == Scan(s, tx, ready) IN ScanStarted(s, tx, u, TryStartInference(u, ready2, held), lost)
<1> DEFINE u == Scan(s, tx, ready)
           t == TryStartInference(u, ready2, held)
<1>1. Scanned(s, tx, ready, u)
  BY ScanKeepsWork
<1>2. SameAnswers(s, u)
  BY ScanMakesNone
<1>3. TakenUp(u, ready2, t)
  BY TryStartKeepsWork
<1>4. SameAnswers(u, t)
  BY TryStartIs
<1> HIDE DEF u, t
<1>5. Answering(t) = Answering(s)
  BY <1>2, <1>4 DEF SameAnswers, Answering, Answers, Inflight
<1>6. Open(u, lost) /\ Open(t, lost)
  BY <1>1, <1>3 DEF Open, Scanned, TakenUp
<1>7. \A p \in Elements(u.queue) : p \in Request
  BY <1>1 DEF Elements, Scanned
<1>8. ASSUME NEW p \in Owed(s) \ lost
      PROVE  \/ p \in Owed(t) \/ p \in AnswerIn(tx)
             \/ p \in Elements(s.queue) /\ t.inference = None
  <2>1. /\ p \in Elements(s.queue) \/ p \in Working(s.inference) \/ p \in Working(s.publish) \/ p \in Answering(s)
        /\ p \in Elements(t.queue) \/ p \in Working(t.inference) \/ p \in Working(t.publish) \/ p \in Answering(t)
             => p \in Owed(t)
    BY OwedIs
  <2>2. CASE p \in Elements(s.queue)
    BY <1>1, <1>3, <1>6, <1>7, <2>1, <2>2 DEF Open, Scanned, TakenUp
  <2>3. CASE p \in Working(s.inference)
    BY <1>1, <1>3, <2>1, <2>3 DEF Scanned, TakenUp
  <2>4. CASE p \in Working(s.publish) \/ p \in Answering(s)
    BY <1>1, <1>3, <1>5, <2>1, <2>4 DEF Scanned, TakenUp
  <2> QED BY <2>1, <2>2, <2>3, <2>4
<1>9. \A p \in Working(t.inference) : p \in Working(s.inference) \/ p \notin t.answered
  BY <1>1, <1>3 DEF Scanned, TakenUp
<1>10. ASSUME QueueSeen(s)
       PROVE  /\ QueueSeen(t)
              /\ \A p \in t.seen \ s.seen : p \in Owed(t) \/ Len(s.queue) = QueueCap
  <2>1. QueueSeen(t) /\ t.seen = u.seen
    BY <1>1, <1>3, <1>10 DEF Scanned, TakenUp, QueueSeen
  <2>2. ASSUME NEW p \in t.seen \ s.seen, Len(s.queue) # QueueCap
        PROVE  p \in Elements(t.queue) \/ p \in Working(t.inference)
    <3>1. ready /\ p \notin u.answered /\ p \in Elements(u.queue)
      BY <1>1, <1>10, <2>1, <2>2 DEF Scanned
    <3> QED BY <1>3, <3>1 DEF TakenUp
  <2> QED BY <2>1, <2>2, OwedIs
<1> QED BY <1>1, <1>3, <1>6, <1>8, <1>9, <1>10 DEF t, u, Scanned, TakenUp, ScanStarted

\* A poll keeps the request of a task that ended with a text: it is published next,
\* or its answer is on its way.
LEMMA PollKeepsWork ==
    ASSUME NEW s, NEW lost, NEW paid, NEW met \in 0 .. MaxScans, Sound(s, lost, paid, met)
    PROVE  LET t == Poll(s) IN
           /\ t.answered = s.answered /\ t.queue = s.queue /\ t.seen = s.seen
           /\ Working(t.inference) \subseteq Working(s.inference)
           /\ \A p \in Owed(s) : p \in Owed(t) \/ TaskFailed(s, p)
           /\ \A a \in Response : t.inflight[a] \in {1, s.inflight[a]}
<1> DEFINE t == Poll(s)
           u == Polled(s)
<1>1. /\ Typed(s) /\ s \in Handler /\ s.inference \in Task \cup {None} /\ s.publish \in Task \cup {None}
      /\ s.inflight \in [Response -> 0 .. MaxAttempts]
  BY FieldsAre DEF Sound, Typed
<1>2. /\ u \in Handler /\ u.queue = s.queue
      /\ SameAnswers(s, u) /\ SameTables(s, u)
      /\ Submits(s) \subseteq Request
      /\ Submits(s) = {} \/ \E r : Submits(s) = {r}
      /\ Sound(u, lost, paid, met)
  <2>1. /\ u \in Handler /\ u.queue = s.queue
        /\ SameAnswers(s, u) /\ SameTables(s, u)
        /\ \A p : Work(u, p) + (IF p \in Submits(s) THEN 1 ELSE 0) <= Work(s, p)
        /\ Submits(s) \subseteq Request
        /\ Submits(s) = {} \/ \E r : Submits(s) = {r}
    BY <1>1, PolledIs
  <2> HIDE DEF u
  <2>2. \A p : Work(s, p) \in Nat /\ Work(u, p) \in Nat
    BY <1>1, <2>1, WorkIs
  <2>3. \A p : Work(u, p) <= Work(s, p)
    BY <2>1, <2>2
  <2>4. Len(u.queue) <= QueueCap /\ met \in Nat
    BY <1>1, <2>1, ServiceAssumption DEF Typed
  <2> QED BY <1>1, <2>1, <2>3, <2>4, LessWork
<1>3. \A task \in Task : task # None /\ Working(task) = {task.req} /\ task = [req |-> task.req, at |-> task.at]
                         /\ task.at \in {"running", "text", "none"}
  <2>1. \A task \in Task : task # None
    BY ServiceAssumption
  <2> QED BY <2>1 DEF Working, Task
<1>4. Working(None) = {}
  BY DEF Working
<1>5. /\ u.answered = s.answered
      /\ Working(u.inference) \subseteq Working(s.inference)
      /\ \A p \in Working(s.inference) \cup Working(s.publish) :
            \/ p \in Working(u.inference) \/ p \in Working(u.publish)
            \/ p \in Submits(s) \/ TaskFailed(s, p)
  <2>1. CASE s.publish # None
    <3>1. /\ Submits(s) = IF s.publish.at = "text" THEN {s.publish.req} ELSE {}
          /\ u = IF s.publish.at # "running" THEN [s EXCEPT !.publish = None] ELSE s
      BY <2>1 DEF Submits, Polled
    <3>2. u.answered = s.answered /\ u.inference = s.inference
      BY <1>1, <3>1 DEF Handler
    <3>3. s.publish \in Task
      BY <1>1, <2>1
    <3>4. s.publish.at = "running" => u.publish = s.publish
      BY <3>1
    <3> HIDE DEF u
    <3>5. \A p \in Working(s.publish) : p = s.publish.req
      BY <1>3, <3>3
    <3> QED BY <1>3, <3>1, <3>2, <3>3, <3>4, <3>5 DEF TaskFailed
  <2>2. CASE s.publish = None /\ (s.inference = None \/ s.inference.at = "running")
    <3>1. u = s
      BY <2>2 DEF Polled
    <3> QED BY <3>1
  <2>3. CASE s.publish = None /\ s.inference # None /\ s.inference.at # "running"
    <3> DEFINE public == s.inference.at = "text" /\ kindOf[s.inference.req] = "public"
               task == [req |-> s.inference.req, at |-> "running"]
               pub == IF public THEN task ELSE None
               v == [s EXCEPT !.inference = None, !.publish = pub]
    <3>1. /\ Submits(s) = IF s.inference.at = "text" /\ kindOf[s.inference.req] # "public" THEN {s.inference.req} ELSE {}
          /\ u = v
      BY <2>3 DEF Submits, Polled
    <3>2. s.inference \in Task
      BY <1>1, <2>3
    <3>3. task \in Task /\ task.req = s.inference.req
      BY <3>2 DEF Task
    <3>4. public => pub = task
      OBVIOUS
    <3>5. s.inference.at = "text" => public \/ s.inference.req \in Submits(s)
      BY <3>1
    <3> HIDE DEF pub, task, public, u
    <3>6. v.answered = s.answered /\ v.inference = None /\ v.publish = pub
      BY <1>1 DEF Handler
    <3> HIDE DEF v
    <3>7. Working(s.publish) = {} /\ Working(s.inference) = {s.inference.req}
      BY <1>3, <1>4, <2>3, <3>2
    <3>8. s.inference.at = "text" \/ s.inference = [req |-> s.inference.req, at |-> "none"]
      BY <1>3, <2>3, <3>2
    <3>9. public => s.inference.req \in Working(pub)
      BY <1>3, <3>3, <3>4
    <3> QED BY <1>4, <3>1, <3>5, <3>6, <3>7, <3>8, <3>9 DEF TaskFailed
  <2> QED BY <2>1, <2>2, <2>3
<1> HIDE DEF u
<1>6. Answering(u) = Answering(s) /\ u.inflight = s.inflight /\ u.made = s.made
  BY <1>2 DEF SameAnswers, Answering, Answers, Inflight
<1>7. /\ t.answered = u.answered /\ t.seen = u.seen /\ SameWork(u, t)
      /\ Answering(u) \cup Submits(s) \subseteq Answering(t)
      /\ \A a \in Response : t.inflight[a] \in {1, u.inflight[a]}
  <2>1. CASE Submits(s) = {}
    <3>1. t = u
      BY <2>1 DEF Poll, u
    <3> QED BY <2>1, <3>1 DEF SameWork
  <2>2. CASE Submits(s) # {}
    <3>1. PICK r : Submits(s) = {r}
      BY <1>2, <2>2
    <3>2. t = Submitted(u, r) /\ r \in Request
      BY <1>2, <3>1 DEF Poll, u
    <3> DEFINE a == AnswerOf(u, r)
    <3>3. u.made[r] + 1 <= MaxScans
      <4>1. /\ u.made \in [Request -> 0 .. MaxScans] /\ Work(s, r) + s.made[r] <= met /\ Work(s, r) \in Nat
            /\ MaxScans \in Nat
        BY <1>1, <1>2, <3>2, FieldsAre, WorkIs, ServiceAssumption DEF Sound, Counted
      <4>2. Work(s, r) >= 1
        <5>1. \A p : Work(u, p) + (IF p \in Submits(s) THEN 1 ELSE 0) <= Work(s, p)
          BY <1>1, PolledIs DEF u
        <5>2. Work(u, r) \in Nat
          BY <1>2, WorkIs
        <5> QED BY <3>1, <4>1, <5>1, <5>2
      <4>3. u.made[r] \in Nat
        BY <3>2, <4>1
      <4> QED BY <1>6, <4>1, <4>2, <4>3
    <3>4. /\ SameWork(u, t) /\ a \in Response
          /\ \/ t.inflight = u.inflight /\ t.persisting = u.persisting \cup {a}
             \/ t.inflight = [u.inflight EXCEPT ![a] = 1] /\ t.persisting = u.persisting
      <4>1. Typed(u)
        BY <1>2 DEF Sound
      <4> DEFINE w == Submitted(u, r)
      <4>2. /\ w \in Handler /\ SameWork(u, w) /\ w.seen = u.seen /\ w.txids = u.txids \ {r}
            /\ w.made = [u.made EXCEPT ![r] = @ + 1]
            /\ AnswerOf(u, r) \in Response
            /\ \/ /\ Traced(r) /\ w.inflight = u.inflight
                  /\ w.persisting = u.persisting \cup {AnswerOf(u, r)}
               \/ /\ ~Traced(r) /\ w.inflight = [u.inflight EXCEPT ![AnswerOf(u, r)] = 1]
                  /\ w.persisting = u.persisting
        BY <3>2, <3>3, <4>1, SubmittedIs
      <4> HIDE DEF w
      <4> QED BY <3>2, <4>2 DEF w
    <3>5. t.answered = u.answered /\ t.seen = u.seen
      BY <1>2, <3>2 DEF Submitted, Handler
    <3>6. \A b \in Response : t.inflight[b] \in {1, u.inflight[b]}
      BY <1>1, <1>6, <3>4
    <3>7. a[1] = r
      BY DEF AnswerOf
    <3> HIDE DEF a, t
    <3>8. Answers(u) \cup {a} \subseteq Answers(t)
      <4>1. CASE t.inflight = u.inflight /\ t.persisting = u.persisting \cup {a}
        BY <4>1 DEF Answers, Inflight
      <4>2. CASE t.inflight = [u.inflight EXCEPT ![a] = 1] /\ t.persisting = u.persisting
        <5>1. \A b \in Response : t.inflight[b] = IF b = a THEN 1 ELSE u.inflight[b]
          BY <1>1, <1>6, <3>4, <4>2
        <5> QED BY <3>4, <4>2, <5>1 DEF Answers, Inflight
      <4> QED BY <3>4, <4>1, <4>2
    <3>9. Answering(u) \cup {r} \subseteq Answering(t)
      BY <3>7, <3>8 DEF Answering
    <3> QED BY <3>1, <3>4, <3>5, <3>6, <3>9 DEF t
  <2> QED BY <2>1, <2>2
<1> HIDE DEF t
<1>8. t.queue = s.queue /\ t.inference = u.inference /\ t.publish = u.publish /\ t.seen = s.seen
  BY <1>2, <1>7 DEF SameWork, SameTables
<1>9. ASSUME NEW p \in Owed(s) PROVE p \in Owed(t) \/ TaskFailed(s, p)
  <2>1. /\ p \in Elements(s.queue) \/ p \in Working(s.inference) \/ p \in Working(s.publish) \/ p \in Answering(s)
        /\ p \in Elements(t.queue) \/ p \in Working(t.inference) \/ p \in Working(t.publish) \/ p \in Answering(t)
             => p \in Owed(t)
    BY OwedIs
  <2> QED BY <1>5, <1>6, <1>7, <1>8, <2>1
<1> QED BY <1>5, <1>6, <1>7, <1>8, <1>9 DEF t

-----------------------------------------------------------------------------
\* The steps.

\* What this connection has scanned an answer for is noted as answered.
ServedIsAnswered == connected => served \ forgotten \subseteq h.answered

\* The node says it has an answer only of one that it has.
LastWordIsKnown == \A reply \in replies : \E a \in known : a[1] = reply[1]

\* The inductive invariant.
DoneInv ==
    /\ BooksInv
    /\ ServedIsAnswered
    /\ connected => Open(h, forgotten) /\ QueueSeen(h)
    /\ LastWordIsKnown

\* The three parts of DoneOnce, of one step.
NotServedAgain ==
    \A r \in served' \ forgotten' : r \in Working(h'.inference) => r \in Working(h.inference)

Reason(r) ==
    \/ \E a \in known : a[1] = r
    \/ h.inference = [req |-> r, at |-> "none"]
    \/ h.publish = [req |-> r, at |-> "none"]
    \/ connected /\ r \in Elements(h.queue) /\ h'.inference = None
    \/ \E a \in Inflight(h) : a[1] = r /\ h.inflight[a] = MaxAttempts
    \/ Crash

LeftForAReason == \A r \in (Owed(h) \ Owed(h')) \ forgotten : Reason(r)

NewIsOwed == \A r \in h'.seen \ h.seen : r \in Owed(h') \/ Len(h.queue) = QueueCap

\* What each step is shown to do.
DoneStep ==
    /\ ServedIsAnswered' /\ (connected => Open(h, forgotten) /\ QueueSeen(h))'
    /\ NotServedAgain /\ LeftForAReason /\ NewIsOwed

\* A step that starts nothing, and keeps the work or has a reason.
LEMMA NothingStarts ==
    ASSUME DoneInv, connected' = connected, served' = served, forgotten' = forgotten,
           connected => h'.answered = h.answered, h'.seen = h.seen, Elements(h'.queue) \subseteq Elements(h.queue),
           Working(h'.inference) \subseteq Working(h.inference), LeftForAReason
    PROVE  DoneStep
<1>1. ServedIsAnswered' /\ (connected => Open(h, forgotten) /\ QueueSeen(h))'
  BY DEF DoneInv, ServedIsAnswered, Open, QueueSeen
<1>2. NotServedAgain /\ NewIsOwed
  BY DEF NotServedAgain, NewIsOwed
<1> QED BY <1>1, <1>2 DEF DoneStep

\* Nodes that have more and answers that are fewer.
LEMMA LastWordKept ==
    ASSUME LastWordIsKnown, replies' \subseteq replies, known \subseteq known' PROVE LastWordIsKnown'
BY DEF LastWordIsKnown

\* A block takes work off the queue only for the answer it carries, or for want of the model.
LEMMA OnBlockIsDone ==
    ASSUME DoneInv, NEW tx \in Transaction, NEW ready \in BOOLEAN, NEW held \in BOOLEAN,
           OnBlock(tx, ready, held)
    PROVE  DoneStep /\ LastWordIsKnown'
<1> DEFINE s == Scan(h, tx, ready)
           t == TryStartInference(s, ready, held)
<1>1. /\ connected /\ Met(tx) /\ h' = t /\ Remembered(h, s, tx)
      /\ connected' = connected /\ replies' = replies /\ known' = known
  BY DEF OnBlock, nodeVars
<1>2. /\ Sound(h, forgotten, Accounted, scans) /\ Noted(h, forgotten) /\ h \in Handler /\ scans \in Nat
      /\ Typed(h) /\ BooksInv /\ Around
  BY <1>1, BooksInvIs DEF DoneInv, Sound
<1>3. /\ tx \in {<<"none">>} \cup ({"request"} \X Request) \cup ({"answer"} \X Request)
      /\ scans' \in 0 .. MaxScans /\ scans <= scans' /\ (tx[1] = "request" => scans + 1 <= scans')
      /\ scans' \in Nat
  <2>1. MaxScans \in Nat
    BY ServiceAssumption
  <2> QED BY <1>1, <1>2, <2>1, MetIs
<1>4. /\ forgotten' = forgotten \cup Overflowed(h, s, tx)
      /\ served' = IF tx[1] = "answer" THEN served \cup {tx[2]} ELSE served
  BY <1>1 DEF Remembered
<1>5. Typed(s)
  <2> HIDE DEF s
  <2>1. forgotten \cup Overflowed(h, s, tx) \subseteq forgotten'
    BY <1>4
  <2>2. Sound(s, forgotten', Accounted, scans')
    BY <1>2, <1>3, <2>1, ScanIs DEF s
  <2> QED BY <2>2 DEF Sound
<1>6. Open(h, forgotten) /\ QueueSeen(h) /\ served \ forgotten \subseteq h.answered
  BY <1>1 DEF DoneInv, ServedIsAnswered
<1>7. ScanStarted(h, tx, s, t, forgotten)
  BY <1>2, <1>3, <1>5, <1>6, ScanStartKeepsWork
<1> HIDE DEF s, t
<1>8. served' \ forgotten' \subseteq t.answered
  BY <1>4, <1>6, <1>7 DEF AnswerIn, ScanStarted
<1>9. \A p \in AnswerIn(tx) : \E a \in known : a[1] = p
  BY DEF AnswerIn, Transaction
<1>10. LeftForAReason
  BY <1>1, <1>7, <1>9 DEF LeftForAReason, Reason, ScanStarted
<1>11. NotServedAgain
  BY <1>1, <1>7, <1>8 DEF NotServedAgain, ScanStarted
<1>12. Open(h', forgotten') /\ QueueSeen(h') /\ NewIsOwed
  BY <1>1, <1>4, <1>6, <1>7 DEF Open, NewIsOwed, ScanStarted
<1>13. LastWordIsKnown'
  BY <1>1, LastWordKept DEF DoneInv
<1> QED BY <1>1, <1>8, <1>10, <1>11, <1>12, <1>13 DEF DoneStep, ServedIsAnswered

\* Asking for a template leaves the work as it is.
LEMMA AskedIs ==
    ASSUME NEW s \in Handler, NEW b \in BOOLEAN
    PROVE  LET t == [s EXCEPT !.asked = b] IN
           /\ t \in Handler /\ SameWork(s, t) /\ SameAnswers(s, t) /\ t.answered = s.answered
           /\ t.seen = s.seen /\ Owed(t) = Owed(s)
<1> DEFINE t == [s EXCEPT !.asked = b]
<1>1. t \in Handler /\ SameWork(s, t) /\ SameAnswers(s, t) /\ t.answered = s.answered /\ t.seen = s.seen
  BY DEF Handler, SameWork, SameAnswers
<1> HIDE DEF t
<1>2. Owed(t) = Owed(s)
  BY <1>1 DEF Owed, Places, SameWork, SameAnswers, Inflight
<1> QED BY <1>1, <1>2 DEF t

\* A poll of the handler h, asked or not, that has nothing more to do.
LEMMA PollIsDone ==
    ASSUME DoneInv, connected, NEW b \in BOOLEAN
    PROVE  LET s == [h EXCEPT !.asked = b]
               t == Poll(s)
           IN  /\ Sound(t, forgotten, Accounted \cup PollTracks(s), scans) /\ Noted(t, forgotten)
               /\ t.answered = h.answered /\ t.queue = h.queue /\ t.seen = h.seen
               /\ Working(t.inference) \subseteq Working(h.inference)
               /\ \A p \in Owed(h) : p \in Owed(t) \/ TaskFailed(h, p)
               /\ \A a \in Response : t.inflight[a] \in {1, h.inflight[a]}
<1> DEFINE s == [h EXCEPT !.asked = b]
           t == Poll(s)
<1>1. /\ Sound(h, forgotten, Accounted, scans) /\ Noted(h, forgotten) /\ h \in Handler
      /\ scans \in Nat /\ scans \in 0 .. MaxScans
  BY BooksInvIs DEF DoneInv
<1>2. Sound(s, forgotten, Accounted, scans) /\ Noted(s, forgotten)
  BY <1>1, AskedKeeps
<1>3. /\ SameWork(h, s) /\ SameAnswers(h, s) /\ s.answered = h.answered /\ s.seen = h.seen
      /\ Owed(s) = Owed(h)
  BY <1>1, AskedIs
<1> HIDE DEF s
<1>4. Sound(t, forgotten, Accounted \cup PollTracks(s), scans) /\ Noted(t, forgotten)
  BY <1>1, <1>2, PollKeeps
<1>5. /\ t.answered = s.answered /\ t.queue = s.queue /\ t.seen = s.seen
      /\ Working(t.inference) \subseteq Working(s.inference)
      /\ \A p \in Owed(s) : p \in Owed(t) \/ TaskFailed(s, p)
      /\ \A a \in Response : t.inflight[a] \in {1, s.inflight[a]}
  BY <1>1, <1>2, PollKeepsWork
<1> HIDE DEF t
<1> QED BY <1>3, <1>4, <1>5 DEF SameWork, SameAnswers, TaskFailed, s, t

\* A template polls the tasks before it scans and starts: work goes as it does at each.
LEMMA OnTemplateIsDone ==
    ASSUME DoneInv, NEW tx \in Transaction, NEW ready \in BOOLEAN, NEW held \in BOOLEAN,
           OnTemplate(tx, ready, held)
    PROVE  DoneStep /\ LastWordIsKnown'
<1> DEFINE s == [h EXCEPT !.asked = FALSE]
           u == Poll(s)
           v == Scan(u, tx, TRUE)
           t == TryStartInference(v, TRUE, held)
<1>1. /\ connected /\ connected' = connected /\ replies' = replies /\ known' = known
      /\ \/ h' = [u EXCEPT !.asked = TRUE] /\ served' = served /\ forgotten' = forgotten
         \/ /\ Met(tx) /\ Remembered(u, v, tx)
            /\ \/ ready /\ h' = t
               \/ ~ready /\ tx = <<"none">> /\ h' = u
  BY DEF OnTemplate, pastVars
<1>2. BooksInv /\ Open(h, forgotten) /\ QueueSeen(h) /\ served \ forgotten \subseteq h.answered
  BY <1>1 DEF DoneInv, ServedIsAnswered
<1>3. /\ Sound(u, forgotten, Accounted \cup PollTracks(s), scans) /\ Noted(u, forgotten)
      /\ u.answered = h.answered /\ u.queue = h.queue /\ u.seen = h.seen
      /\ Working(u.inference) \subseteq Working(h.inference)
      /\ \A p \in Owed(h) : p \in Owed(u) \/ TaskFailed(h, p)
  BY <1>1, PollIsDone
<1> HIDE DEF s, u
<1>4. u \in Handler /\ Typed(u) /\ scans \in Nat
  BY <1>2, <1>3, BooksInvIs DEF Sound, Typed
<1>5. LastWordIsKnown'
  BY <1>1, LastWordKept DEF DoneInv
<1>6. CASE h' = [u EXCEPT !.asked = TRUE] /\ served' = served /\ forgotten' = forgotten
  <2>1. SameWork(u, h') /\ h'.answered = u.answered /\ h'.seen = u.seen /\ Owed(h') = Owed(u)
    BY <1>4, <1>6, AskedIs
  <2>2. LeftForAReason
    BY <1>3, <2>1 DEF LeftForAReason, Reason, TaskFailed
  <2>3. DoneStep
    BY <1>1, <1>3, <1>6, <2>1, <2>2, NothingStarts DEF SameWork
  <2> QED BY <1>5, <2>3
<1>7. CASE Met(tx) /\ Remembered(u, v, tx) /\ ((ready /\ h' = t) \/ (~ready /\ tx = <<"none">> /\ h' = u))
  <2>1. /\ tx \in {<<"none">>} \cup ({"request"} \X Request) \cup ({"answer"} \X Request)
        /\ scans' \in 0 .. MaxScans /\ scans <= scans' /\ (tx[1] = "request" => scans + 1 <= scans')
        /\ scans' \in Nat
    <3>1. MaxScans \in Nat
      BY ServiceAssumption
    <3> QED BY <1>2, <1>7, <3>1, MetIs
  <2>2. /\ forgotten' = forgotten \cup Overflowed(u, v, tx)
        /\ served' = IF tx[1] = "answer" THEN served \cup {tx[2]} ELSE served
    BY <1>7 DEF Remembered
  <2>3. Typed(v)
    <3> HIDE DEF v
    <3>1. forgotten \cup Overflowed(u, v, tx) \subseteq forgotten'
      BY <2>2
    <3>2. Sound(v, forgotten', Accounted \cup PollTracks(s), scans')
      BY <1>3, <1>4, <2>1, <3>1, ScanIs DEF v
    <3> QED BY <3>2 DEF Sound
  <2>4. Open(u, forgotten) /\ QueueSeen(u)
    BY <1>2, <1>3 DEF Open, QueueSeen
  <2>5. ScanStarted(u, tx, v, t, forgotten)
    BY <1>4, <2>1, <2>3, <2>4, ScanStartKeepsWork
  <2>10. (ready /\ h' = t) \/ (tx = <<"none">> /\ h' = u)
    BY <1>7
  <2> HIDE DEF t, v
  <2>6. \A p \in AnswerIn(tx) : \E a \in known : a[1] = p
    BY DEF AnswerIn, Transaction
  <2>7. tx = <<"none">> => tx[1] # "answer"
    OBVIOUS
  <2>8. CASE ready /\ h' = t
    <3>1. served' \ forgotten' \subseteq t.answered
      BY <1>2, <1>3, <2>2, <2>5 DEF AnswerIn, ScanStarted
    <3>2. LeftForAReason
      BY <1>1, <1>3, <2>5, <2>6, <2>8 DEF LeftForAReason, Reason, TaskFailed, ScanStarted
    <3>3. NotServedAgain
      BY <1>3, <2>5, <2>8, <3>1 DEF NotServedAgain, ScanStarted
    <3>4. Open(h', forgotten') /\ QueueSeen(h') /\ NewIsOwed
      BY <1>3, <2>2, <2>4, <2>5, <2>8 DEF Open, NewIsOwed, ScanStarted
    <3> QED BY <1>1, <1>5, <2>8, <3>1, <3>2, <3>3, <3>4 DEF DoneStep, ServedIsAnswered
  <2>9. CASE tx = <<"none">> /\ h' = u
    <3>1. served' \ forgotten' \subseteq u.answered
      BY <1>2, <1>3, <2>2, <2>7, <2>9
    <3>2. LeftForAReason
      BY <1>3, <2>9 DEF LeftForAReason, Reason, TaskFailed
    <3>3. NotServedAgain
      BY <1>3, <2>9 DEF NotServedAgain
    <3>4. Open(h', forgotten') /\ QueueSeen(h') /\ NewIsOwed
      BY <1>3, <2>2, <2>4, <2>9 DEF Open, NewIsOwed
    <3> QED BY <1>1, <1>5, <2>9, <3>1, <3>2, <3>3, <3>4 DEF DoneStep, ServedIsAnswered
  <2> QED BY <2>10, <2>8, <2>9
<1> QED BY <1>1, <1>6, <1>7

\* Answers released, retried, or given up after the last attempt.
LEMMA TickKeepsWork ==
    ASSUME NEW s \in Handler, NEW due
    PROVE  LET t == Retried(Released(s), due) IN
           /\ SameWork(s, t) /\ t.answered = s.answered /\ t.seen = s.seen
           /\ \A p \in Owed(s) : \/ p \in Owed(t)
                                 \/ \E a \in due : /\ a \in Response /\ a[1] = p
                                                   /\ MaxAttempts = 1 \/ s.inflight[a] = MaxAttempts
<1> DEFINE v == Released(s)
           I == [a \in Response |-> IF a \notin due THEN v.inflight[a]
                                    ELSE IF v.inflight[a] >= MaxAttempts THEN 0 ELSE v.inflight[a] + 1]
           t == Retried(v, due)
<1>1. /\ s.persisting \in SUBSET Response /\ s.inflight \in [Response -> 0 .. MaxAttempts] /\ MaxAttempts \in Nat \ {0}
  BY FieldsAre, ServiceAssumption
<1>2. /\ v \in Handler /\ SameWork(s, v) /\ v.persisting = s.persisting \ Ready(s)
      /\ Inflight(v) = Inflight(s) \cup Ready(s) /\ Ready(s) \subseteq s.persisting
  BY ReleasedIs
<1>3. v.answered = s.answered /\ v.seen = s.seen /\ \A a \in Response : v.inflight[a] \in {1, s.inflight[a]}
  BY <1>1 DEF Released, Handler
<1> HIDE DEF v
<1>4. v.inflight \in [Response -> 0 .. MaxAttempts]
  BY <1>2, FieldsAre
<1>5. t = [v EXCEPT !.inflight = I]
  BY DEF Retried
<1>6. \A a \in Response : I[a] > 0 \/ v.inflight[a] = 0 \/ (a \in due /\ v.inflight[a] = MaxAttempts)
  BY <1>1, <1>4
<1> HIDE DEF t, I
<1>7. SameWork(v, t) /\ t.persisting = v.persisting /\ t.inflight = I /\ t.answered = v.answered /\ t.seen = v.seen
  BY <1>2, <1>5 DEF SameWork, Handler
<1>8. \A a \in Answers(s) : \/ a \in Answers(t)
                            \/ /\ a \in due /\ a \in Response
                               /\ MaxAttempts = 1 \/ s.inflight[a] = MaxAttempts
  <2> SUFFICES ASSUME NEW a \in Answers(s), a \notin Answers(t)
               PROVE  a \in due /\ a \in Response /\ (MaxAttempts = 1 \/ s.inflight[a] = MaxAttempts)
    OBVIOUS
  <2>1. a \in v.persisting \/ a \in Inflight(v)
    BY <1>2 DEF Answers
  <2>2. a \in Inflight(v) /\ a \in Response /\ ~(I[a] > 0)
    BY <1>1, <1>2, <1>7, <2>1 DEF Answers, Inflight
  <2>3. v.inflight[a] > 0
    BY <2>2 DEF Inflight
  <2> QED BY <1>3, <1>4, <1>6, <2>2, <2>3
<1>9. SameWork(s, t) /\ t.answered = s.answered /\ t.seen = s.seen
  BY <1>2, <1>3, <1>7 DEF SameWork
<1>10. ASSUME NEW p \in Owed(s)
       PROVE  \/ p \in Owed(t)
              \/ \E a \in due : a \in Response /\ a[1] = p /\ (MaxAttempts = 1 \/ s.inflight[a] = MaxAttempts)
  <2>1. /\ p \in Elements(s.queue) \/ p \in Working(s.inference) \/ p \in Working(s.publish) \/ p \in Answering(s)
        /\ p \in Elements(t.queue) \/ p \in Working(t.inference) \/ p \in Working(t.publish) \/ p \in Answering(t)
             => p \in Owed(t)
    BY OwedIs
  <2>2. CASE p \in Elements(s.queue) \/ p \in Working(s.inference) \/ p \in Working(s.publish)
    BY <1>9, <2>1, <2>2 DEF SameWork
  <2>3. CASE p \in Answering(s)
    <3>1. PICK a \in Answers(s) : a[1] = p
      BY <2>3 DEF Answering
    <3>2. a \in Answers(t) => p \in Answering(t)
      BY <3>1 DEF Answering
    <3> QED BY <1>8, <2>1, <3>1, <3>2
  <2> QED BY <2>1, <2>2, <2>3
<1> QED BY <1>9, <1>10 DEF t, v

\* The timer polls, releases what is written, and retries what is due or gives it up.
LEMMA TickIsDone ==
    ASSUME DoneInv, NEW due \in SUBSET Inflight(h), Tick(due) PROVE DoneStep /\ LastWordIsKnown'
<1> DEFINE u == Poll(h)
           s == IF PollEnds(h) THEN [u EXCEPT !.asked = TRUE] ELSE u
           v == Released(s)
           t == Retried(v, due)
<1>1. /\ connected /\ connected' = connected /\ served' = served /\ forgotten' = forgotten
      /\ replies' = replies /\ known' = known /\ h' = t
  BY DEF Tick, nodeVars, pastVars
<1>2. /\ h \in Handler /\ h.asked \in BOOLEAN /\ h.inflight \in [Response -> 0 .. MaxAttempts]
      /\ MaxAttempts \in Nat \ {0} /\ scans \in 0 .. MaxScans /\ Sound(h, forgotten, Accounted, scans)
      /\ Noted(h, forgotten)
  BY <1>1, BooksInvIs, FieldsAre, ServiceAssumption DEF DoneInv
<1>3. /\ u.answered = h.answered /\ u.queue = h.queue /\ u.seen = h.seen
      /\ Working(u.inference) \subseteq Working(h.inference)
      /\ \A p \in Owed(h) : p \in Owed(u) \/ TaskFailed(h, p)
      /\ \A a \in Response : u.inflight[a] \in {1, h.inflight[a]}
  BY <1>2, PollKeepsWork
<1>4. u \in Handler
  <2>1. Sound(u, forgotten, Accounted \cup PollTracks(h), scans)
    BY <1>2, PollKeeps
  <2> QED BY <2>1 DEF Sound, Typed
<1> HIDE DEF u
<1>5. /\ s \in Handler /\ SameWork(u, s) /\ s.inflight = u.inflight /\ s.answered = u.answered /\ s.seen = u.seen
      /\ Owed(s) = Owed(u)
  <2>1. CASE PollEnds(h)
    BY <1>4, <2>1, AskedIs DEF SameAnswers
  <2>2. CASE ~PollEnds(h)
    BY <1>4, <2>2 DEF SameWork
  <2> QED BY <2>1, <2>2
<1> HIDE DEF s
<1>6. /\ SameWork(s, t) /\ t.answered = s.answered /\ t.seen = s.seen
      /\ \A p \in Owed(s) : \/ p \in Owed(t)
                            \/ \E a \in due : /\ a \in Response /\ a[1] = p
                                              /\ MaxAttempts = 1 \/ s.inflight[a] = MaxAttempts
  BY <1>5, TickKeepsWork
<1> HIDE DEF t, v
<1>7. \A a \in due : a \in Inflight(h) /\ h.inflight[a] \in Nat /\ h.inflight[a] >= 1 /\ h.inflight[a] <= MaxAttempts
  BY <1>2 DEF Inflight
<1>8. \A a \in due : a \in Response /\ (MaxAttempts = 1 \/ s.inflight[a] = MaxAttempts) => h.inflight[a] = MaxAttempts
  BY <1>2, <1>3, <1>5, <1>7
<1>9. LeftForAReason
  <2> SUFFICES ASSUME NEW r \in Owed(h), r \notin Owed(t) PROVE Reason(r)
    BY <1>1 DEF LeftForAReason
  <2>1. CASE TaskFailed(h, r)
    BY <2>1 DEF TaskFailed, Reason
  <2>2. CASE r \in Owed(s)
    <3>1. PICK a \in due : a \in Response /\ a[1] = r /\ (MaxAttempts = 1 \/ s.inflight[a] = MaxAttempts)
      BY <1>6, <2>2
    <3> QED BY <1>7, <1>8, <3>1 DEF Reason
  <2> QED BY <1>3, <1>5, <2>1, <2>2
<1>10. DoneStep
  BY <1>1, <1>3, <1>5, <1>6, <1>9, NothingStarts DEF SameWork
<1> QED BY <1>1, <1>10, LastWordKept DEF DoneInv

\* A step that leaves the handler's work alone.
LEMMA SameIsDone ==
    ASSUME DoneInv, connected' = connected, served' = served, forgotten' = forgotten,
           h'.answered = h.answered, h'.seen = h.seen, SameWork(h, h'), Answering(h) \subseteq Answering(h')
    PROVE  DoneStep
<1>1. \A r \in Owed(h) : r \in Owed(h')
  BY OwedIs DEF SameWork
<1>2. LeftForAReason
  BY <1>1 DEF LeftForAReason
<1> QED BY <1>2, NothingStarts DEF SameWork

\* Asking for a template takes nothing off.
LEMMA AskTemplateIsDone == ASSUME DoneInv, AskTemplate PROVE DoneStep /\ LastWordIsKnown'
<1>1. /\ h' = [h EXCEPT !.asked = TRUE] /\ connected' = connected /\ served' = served
      /\ forgotten' = forgotten /\ replies' = replies /\ known' = known
  BY DEF AskTemplate, nodeVars, pastVars
<1>2. SameWork(h, h') /\ SameAnswers(h, h') /\ h'.answered = h.answered /\ h'.seen = h.seen
  BY <1>1, AskedIs, BooksInvIs DEF DoneInv
<1>3. Answering(h') = Answering(h)
  BY <1>2 DEF SameAnswers, Answering, Answers, Inflight
<1> QED BY <1>1, <1>2, <1>3, SameIsDone, LastWordKept DEF DoneInv

\* The node's last word on an answer is one on a request it has an answer for.
LEMMA OnSubmitResponseIsDone ==
    ASSUME DoneInv, NEW reply \in replies, OnSubmitResponse(reply) PROVE DoneStep /\ LastWordIsKnown'
<1>1. /\ h' = [h EXCEPT !.inflight[reply] = 0]
      /\ replies' \subseteq replies /\ connected' = connected /\ served' = served
      /\ forgotten' = forgotten /\ known' = known
  BY DEF OnSubmitResponse, pastVars
<1>2. h \in Handler /\ h.inflight \in [Response -> 0 .. MaxAttempts]
  BY BooksInvIs, FieldsAre DEF DoneInv
<1>3. LastWordIsKnown'
  BY <1>1, LastWordKept DEF DoneInv
<1> DEFINE I == [h.inflight EXCEPT ![reply] = 0]
<1>4. h' = [h EXCEPT !.inflight = I]
  BY <1>1
<1>5. \A a \in Response : a # reply => I[a] = h.inflight[a]
  BY <1>2
<1> HIDE DEF I
<1>6. SameWork(h, h') /\ h'.answered = h.answered /\ h'.persisting = h.persisting /\ h'.inflight = I
  BY <1>2, <1>4 DEF SameWork, Handler
<1>7. Answers(h) \subseteq Answers(h') \cup {reply}
  BY <1>5, <1>6 DEF Answers, Inflight
<1>8. Answering(h) \subseteq Answering(h') \cup {reply[1]}
  BY <1>7 DEF Answering
<1>9. \E a \in known : a[1] = reply[1]
  BY DEF DoneInv, LastWordIsKnown
<1>10. \A r \in Owed(h) : r \in Owed(h') \/ r = reply[1]
  BY <1>6, <1>8, OwedIs DEF SameWork
<1>11. LeftForAReason
  BY <1>9, <1>10 DEF LeftForAReason, Reason
<1>12. h'.seen = h.seen
  BY <1>2, <1>4 DEF Handler
<1>13. DoneStep
  BY <1>1, <1>6, <1>11, <1>12, NothingStarts DEF SameWork
<1> QED BY <1>3, <1>13

\* A task that ends still holds its request until it is polled.
LEMMA TaskEndsIsDone ==
    ASSUME DoneInv, NEW result \in {"text", "none"}, Inferred(result) \/ Published(result)
    PROVE  DoneStep /\ LastWordIsKnown'
<1>1. /\ \/ h.inference # None /\ h' = [h EXCEPT !.inference.at = result]
         \/ h.publish # None /\ h' = [h EXCEPT !.publish.at = result]
      /\ connected' = connected /\ served' = served
      /\ forgotten' = forgotten /\ replies' = replies /\ known' = known
  BY DEF Inferred, Published, nodeVars, pastVars
<1>2. h \in Handler /\ h.inference \in Task \cup {None} /\ h.publish \in Task \cup {None}
  BY BooksInvIs, FieldsAre DEF DoneInv
<1>3. \A task \in Task : Working([task EXCEPT !.at = result]) = Working(task)
  <2> SUFFICES ASSUME NEW task \in Task PROVE Working([task EXCEPT !.at = result]) = Working(task)
    OBVIOUS
  <2> DEFINE e == [task EXCEPT !.at = result]
  <2>1. e \in Task /\ e.req = task.req
    BY DEF Task
  <2> HIDE DEF e
  <2>2. Working(e) = Working(task)
    BY <2>1, ServiceAssumption DEF Working
  <2> QED BY <2>2 DEF e
<1>4. /\ h'.answered = h.answered /\ h'.seen = h.seen /\ h'.queue = h.queue /\ Answering(h') = Answering(h)
      /\ Working(h'.inference) = Working(h.inference) /\ Working(h'.publish) = Working(h.publish)
  <2>1. CASE h.inference # None /\ h' = [h EXCEPT !.inference.at = result]
    <3> DEFINE e == [h.inference EXCEPT !.at = result]
    <3>1. h' = [h EXCEPT !.inference = e] /\ Working(e) = Working(h.inference)
      BY <1>2, <1>3, <2>1
    <3> HIDE DEF e
    <3>2. /\ h'.answered = h.answered /\ h'.seen = h.seen /\ h'.queue = h.queue /\ h'.inference = e /\ h'.publish = h.publish
          /\ h'.persisting = h.persisting /\ h'.inflight = h.inflight
      BY <1>2, <3>1 DEF Handler
    <3> QED BY <3>1, <3>2 DEF Answering, Answers, Inflight
  <2>2. CASE h.publish # None /\ h' = [h EXCEPT !.publish.at = result]
    <3> DEFINE e == [h.publish EXCEPT !.at = result]
    <3>1. h' = [h EXCEPT !.publish = e] /\ Working(e) = Working(h.publish)
      BY <1>2, <1>3, <2>2
    <3> HIDE DEF e
    <3>2. /\ h'.answered = h.answered /\ h'.seen = h.seen /\ h'.queue = h.queue /\ h'.inference = h.inference /\ h'.publish = e
          /\ h'.persisting = h.persisting /\ h'.inflight = h.inflight
      BY <1>2, <3>1 DEF Handler
    <3> QED BY <3>1, <3>2 DEF Answering, Answers, Inflight
  <2> QED BY <1>1, <2>1, <2>2
<1>5. \A r \in Owed(h) : r \in Owed(h')
  BY <1>4, OwedIs
<1>6. LeftForAReason
  BY <1>5 DEF LeftForAReason
<1>7. DoneStep
  BY <1>1, <1>4, <1>6, NothingStarts
<1> QED BY <1>1, <1>7, LastWordKept DEF DoneInv

\* The node has an answer for each request it gives its last word on.
LEMMA NodeAnswersIsDone ==
    ASSUME DoneInv, NEW a \in net, NEW verdict \in Verdicts(a), NodeAnswers(a, verdict)
    PROVE  DoneStep /\ LastWordIsKnown'
<1>1. /\ known' = IF verdict = "accepted" THEN known \cup {a} ELSE known
      /\ replies' = IF Done(verdict) THEN replies \cup {a} ELSE replies
      /\ connected' = connected /\ served' = served /\ forgotten' = forgotten /\ h' = h
  BY DEF NodeAnswers, pastVars
<1>2. Done(verdict) => \E b \in known' : b[1] = a[1]
  <2>1. CASE a \in known
    BY <1>1, <2>1
  <2>2. CASE a \notin known /\ \E b \in known : b[1] = a[1]
    BY <1>1, <2>2
  <2>3. CASE a \notin known /\ ~(\E b \in known : b[1] = a[1])
    <3>1. verdict \in {"accepted", "rejected"}
      BY <2>3 DEF Verdicts
    <3> QED BY <1>1, <3>1 DEF Done
  <2> QED BY <2>1, <2>2, <2>3
<1>3. LastWordIsKnown'
  <2> SUFFICES ASSUME NEW reply \in replies' PROVE \E b \in known' : b[1] = reply[1]
    BY DEF LastWordIsKnown
  <2>1. CASE reply \in replies
    BY <1>1, <2>1 DEF DoneInv, LastWordIsKnown
  <2>2. CASE reply = a /\ Done(verdict)
    BY <1>2, <2>2
  <2> QED BY <1>1, <2>1, <2>2
<1>4. DoneStep
  BY <1>1, SameIsDone DEF SameWork
<1> QED BY <1>3, <1>4

\* Losing the connection parks the work whole.
LEMMA DisconnectIsDone ==
    ASSUME DoneInv, NEW failed \in SUBSET Refusable(h), Disconnect(failed) PROVE DoneStep /\ LastWordIsKnown'
<1>1. /\ h' = Parked(h) /\ connected' = FALSE /\ replies' = {} /\ known' = known
      /\ served' = served /\ forgotten' = forgotten
  BY DEF Disconnect, pastVars
<1>2. h \in Handler
  BY BooksInvIs DEF DoneInv
<1>3. SameWork(h, h') /\ h'.persisting = {} /\ Inflight(h') = Inflight(h) \cup h.persisting
  BY <1>1, <1>2, ParkedIs
<1>4. Answering(h') = Answering(h)
  BY <1>3 DEF Answering, Answers
<1>5. \A r \in Owed(h) : r \in Owed(h')
  BY <1>3, <1>4, OwedIs DEF SameWork
<1>6. LeftForAReason /\ NotServedAgain
  BY <1>3, <1>5 DEF LeftForAReason, NotServedAgain, SameWork
<1>7. NewIsOwed
  <2>1. h'.seen = {}
    BY <1>1, <1>2 DEF Parked, Handler
  <2> QED BY <2>1 DEF NewIsOwed
<1> QED BY <1>1, <1>6, <1>7 DEF DoneStep, ServedIsAnswered, LastWordIsKnown

\* A new connection takes back the work, and notes as answered none of the queued.
LEMMA ConnectIsDone == ASSUME DoneInv, Connect PROVE DoneStep /\ LastWordIsKnown'
<1>1. /\ ~connected /\ h' = Restored(h) /\ served' = {} /\ forgotten' = forgotten
      /\ replies' = replies /\ known' = known
  BY DEF Connect, nodeVars
<1>2. h \in Handler /\ h.persisting = {} /\ Apart(h, forgotten)
  BY <1>1, BooksInvIs DEF DoneInv, Sound
<1>3. SameWork(h, h') /\ SameAnswers(h, h')
  BY <1>1, <1>2, RestoredIs
<1>4. Answering(h') = Answering(h)
  BY <1>3 DEF SameAnswers, Answering, Answers, Inflight
<1>5. \A r \in Owed(h) : r \in Owed(h')
  BY <1>3, <1>4, OwedIs DEF SameWork
<1>6. LeftForAReason /\ NotServedAgain
  BY <1>1, <1>5 DEF LeftForAReason, NotServedAgain
<1>7. h'.answered = Working(h.publish) \cup {a[1] : a \in Inflight(h)}
  BY <1>1, <1>2 DEF Restored, Handler
<1>8. Open(h', forgotten)
  <2> SUFFICES ASSUME NEW r \in Request \ forgotten, r \in Elements(h.queue), r \in h'.answered PROVE FALSE
    BY <1>3 DEF Open, SameWork
  <2>1. Work(h, r) <= 1 /\ (r \in Answering(h) => Work(h, r) = 0)
    BY <1>2 DEF Apart
  <2>2. Count(h.queue, r) >= 1 /\ Count(h.queue, r) \in Nat /\ At(h.inference, r) \in {0, 1} /\ At(h.publish, r) \in {0, 1}
    BY <1>2, CountIs, WorkIs, FieldsAre
  <2>3. CASE r \in Working(h.publish)
    <3>1. At(h.publish, r) = 1
      BY <2>3 DEF At
    <3> QED BY <2>1, <2>2, <3>1 DEF Work
  <2>4. CASE r \in {a[1] : a \in Inflight(h)}
    <3>1. r \in Answering(h)
      BY <2>4 DEF Answering, Answers
    <3> QED BY <2>1, <2>2, <3>1 DEF Work
  <2> QED BY <1>7, <2>3, <2>4
<1>9. LastWordIsKnown'
  BY <1>1, LastWordKept DEF DoneInv
<1>10. h'.seen = Elements(h.queue) \cup Working(h.inference) \cup h'.answered
  BY <1>1, <1>2, <1>7 DEF Restored, Handler
<1>11. \A r \in h'.seen : r \in Owed(h')
  <2>1. \A a \in Inflight(h) : a[1] \in Answering(h)
    BY DEF Answering, Answers
  <2> QED BY <1>3, <1>4, <1>7, <1>10, <2>1, OwedIs DEF SameWork
<1>12. QueueSeen(h') /\ NewIsOwed
  BY <1>3, <1>10, <1>11 DEF QueueSeen, NewIsOwed, SameWork
<1>13. (connected => Open(h, forgotten) /\ QueueSeen(h))'
  BY <1>1, <1>8, <1>12
<1> QED BY <1>1, <1>6, <1>9, <1>13, <1>12 DEF DoneStep, ServedIsAnswered

\* The process stops: that is a reason.
LEMMA CrashIsDone == ASSUME DoneInv, Crash PROVE DoneStep /\ LastWordIsKnown'
<1>1. /\ h' = [Idle EXCEPT !.made = h.made, !.asked = FALSE] /\ connected' = FALSE /\ replies' = {}
  BY DEF Crash
<1>2. h'.inference = None /\ h'.seen = {}
  BY <1>1 DEF Idle
<1>3. NotServedAgain /\ NewIsOwed
  BY <1>2 DEF NotServedAgain, NewIsOwed, Working
<1>4. LeftForAReason
  BY DEF LeftForAReason, Reason
<1> QED BY <1>1, <1>3, <1>4 DEF DoneStep, ServedIsAnswered, LastWordIsKnown

\* Every step keeps the invariant and does what DoneOnce says.
LEMMA NextIsDone == DoneInv /\ [Next]_vars => DoneInv' /\ DoneStep
<1> SUFFICES ASSUME DoneInv, [Next]_vars PROVE DoneInv' /\ DoneStep
  OBVIOUS
<1>0. BooksInv'
  BY NextKeepsBooks DEF DoneInv
<1> SUFFICES DoneStep /\ LastWordIsKnown'
  BY <1>0 DEF DoneInv, DoneStep
<1>1. CASE \E tx \in Transaction, ready, held \in BOOLEAN : OnBlock(tx, ready, held) \/ OnTemplate(tx, ready, held)
  BY <1>1, OnBlockIsDone, OnTemplateIsDone
<1>2. CASE AskTemplate
  BY <1>2, AskTemplateIsDone
<1>3. CASE \E due \in SUBSET Inflight(h) : Tick(due)
  BY <1>3, TickIsDone
<1>4. CASE \E reply \in replies : OnSubmitResponse(reply)
  BY <1>4, OnSubmitResponseIsDone
<1>5. CASE \E result \in {"text", "none"} : Inferred(result) \/ Published(result)
  BY <1>5, TaskEndsIsDone
<1>6. CASE \E failed \in BOOLEAN : Write(failed)
  <2>1. h' = h /\ connected' = connected /\ served' = served /\ forgotten' = forgotten /\ replies' = replies /\ known' = known
    BY <1>6 DEF Write, nodeVars, pastVars
  <2> QED BY <2>1, SameIsDone, LastWordKept DEF SameWork, DoneInv
<1>7. CASE \E a \in net : \E verdict \in Verdicts(a) : NodeAnswers(a, verdict)
  BY <1>7, NodeAnswersIsDone
<1>8. CASE \E failed \in SUBSET Refusable(h) : Disconnect(failed)
  BY <1>8, DisconnectIsDone
<1>9. CASE Connect
  BY <1>9, ConnectIsDone
<1>10. CASE Crash
  BY <1>10, CrashIsDone
<1>11. CASE UNCHANGED vars
  <2>1. h' = h /\ connected' = connected /\ served' = served /\ forgotten' = forgotten /\ replies' = replies /\ known' = known
    BY <1>11 DEF vars, nodeVars, pastVars
  <2> QED BY <2>1, SameIsDone, LastWordKept DEF SameWork, DoneInv
<1> QED
  BY <1>1, <1>2, <1>3, <1>4, <1>5, <1>6, <1>7, <1>8, <1>9, <1>10, <1>11 DEF Next

\* A request is not done twice, and not lost but over a full queue, whatever the order
\* of blocks, templates, timers, tasks, answers and lost connections: try_start_inference
\* starts no request this connection has seen answered, one that is worked on leaves the
\* handler and what it parks only for a reason, and one that is newly noted as seen is
\* worked on unless the queue was full.
THEOREM RequestsAreDoneOnce == Spec => DoneOnce
<1>1. Init => DoneInv
  <2> SUFFICES ASSUME Init PROVE DoneInv
    OBVIOUS
  <2>1. h.queue = <<>> /\ served = {} /\ replies = {}
    BY IdleIs DEF Init
  <2>2. Elements(<<>>) = {}
    BY DEF Elements
  <2> QED BY <2>1, <2>2, InitKeepsBooks DEF DoneInv, ServedIsAnswered, Open, QueueSeen, LastWordIsKnown
<1>2. DoneInv /\ [Next]_vars => DoneInv' /\ [NotServedAgain]_vars /\ [LeftForAReason]_vars
                             /\ [NewIsOwed]_vars
  BY NextIsDone DEF DoneStep
<1>3. Spec => [][NotServedAgain]_vars /\ [][LeftForAReason]_vars /\ [][NewIsOwed]_vars
  BY <1>1, <1>2, PTL DEF Spec
<1>4. Spec => AnsweredIsNotServed
  BY <1>3 DEF AnsweredIsNotServed, NotServedAgain
<1>5. Spec => LeavesForAReason
  BY <1>3 DEF LeavesForAReason, LeftForAReason, Reason
<1>6. Spec => NotedIsOwed
  BY <1>3 DEF NotedIsOwed, NewIsOwed
<1> QED BY <1>4, <1>5, <1>6 DEF DoneOnce
=============================================================================
