---------------------------- MODULE BackfillProofs ----------------------------
(***************************************************************************)
(* Proofs about Backfill, for any chain of blocks, window and limits: the  *)
(* walk keeps to its window of requests and behind mining, and asks for no *)
(* block twice before it is over.                                          *)
(***************************************************************************)
EXTENDS Backfill, FiniteSetTheorems, FunctionTheorems, SequenceTheorems, TLAPS

\* Nobody is notified of a connection that is lost.
QuietWhileDown == ~up => notes = <<>>

\* What is announced is news: later than what was announced before it and, while
\* the walk is on, later than all that the walk has come by.
NewsAreNew ==
    /\ \A i, j \in 1 .. Len(notes) : i < j => notes[i] < notes[j]
    /\ \A i \in 1 .. Len(notes) : notes[i] <= height
    /\ ~done => \A v \in visited : v <= height /\ \A i \in 1 .. Len(notes) : v < notes[i]

\* Before the walk is over a block is asked for once, and scanned when it comes.
AskedOnce ==
    ~done => /\ IsInjective(queue)
             /\ ToSet(queue) \cap pending = {}
             /\ (ToSet(queue) \cup pending) \cap scanned = {}
             /\ ToSet(queue) \cup pending \cup scanned \subseteq visited

\* The inductive invariant.
WalkInv == TypeOK /\ MiningComesFirst /\ QuietWhileDown /\ NewsAreNew /\ AskedOnce

\* Without errors, what the walk has come by is scanned or asked for before it is
\* over, and the parents of what it fetched above the cutoff are among it.
WalkedThrough ==
    ~done /\ errors = 0 =>
        /\ visited \subseteq scanned \cup ToSet(queue) \cup pending
        /\ \A b \in fetched : b > cutoff => Parents[b] \subseteq visited

\* When the first walk is over, what it has come by is scanned, and with it the
\* parents of every block it fetched above the cutoff.
FetchedIsWalked ==
    [][~done /\ done' /\ errors = 0 =>
          /\ visited \subseteq scanned'
          /\ \A b \in fetched' : b > cutoff => Parents[b] \subseteq scanned']_vars

-----------------------------------------------------------------------------
\* Sets and sequences.

\* The blocks are finitely many.
LEMMA BlocksAreFinite == ASSUME NEW S \in SUBSET Blocks PROVE IsFiniteSet(S) /\ Cardinality(S) \in Nat
<1>1. IsFiniteSet(Blocks)
  BY BackfillAssumption, FS_Interval DEF Blocks
<1> QED BY <1>1, FS_Subset, FS_CardinalityType

\* SetToSeq lists a set of blocks without repetition.
LEMMA SetToSeqIs ==
    ASSUME NEW S \in SUBSET Blocks
    PROVE  SetToSeq(S) \in Seq(S) /\ IsInjective(SetToSeq(S)) /\ ToSet(SetToSeq(S)) = S
<1> DEFINE n == Cardinality(S)
           s == SetToSeq(S)
<1>1. IsFiniteSet(S) /\ n \in Nat /\ ExistsBijection(1..n, S)
  BY BlocksAreFinite, FS_CardinalityType
<1>2. PICK f \in [1..n -> S] : IsInjective(f)
  BY <1>1 DEF ExistsBijection, Bijection, Injection
<1>3. s \in [1..n -> S] /\ IsInjective(s)
  BY <1>2 DEF SetToSeq
<1> HIDE DEF s
<1>4. s \in Bijection(1..n, Range(s))
  BY <1>3, Fun_InjMeansBijImage DEF Injection
<1>5. Range(s) \subseteq S
  BY <1>3, Fun_RangeProperties
<1>6. IsFiniteSet(1..n) /\ Cardinality(1..n) = n
  BY <1>1, FS_Interval
<1>7. Cardinality(Range(s)) = n
  BY <1>4, <1>6, FS_Bijection DEF ExistsBijection
<1>8. Range(s) = S
  BY <1>1, <1>5, <1>7, FS_Subset
<1>9. s \in Seq(S)
  BY <1>1, <1>3, IsASeq
<1> QED BY <1>3, <1>8, <1>9 DEF ToSet, Range, s

\* One sequence before another.
LEMMA Joined ==
    ASSUME NEW S, NEW s \in Seq(S), NEW t \in Seq(S)
    PROVE  /\ s \o t \in Seq(S) /\ ToSet(s \o t) = ToSet(s) \cup ToSet(t)
           /\ IsInjective(s) /\ IsInjective(t) /\ ToSet(s) \cap ToSet(t) = {} => IsInjective(s \o t)
<1>1. /\ s \o t \in Seq(S) /\ Len(s \o t) = Len(s) + Len(t)
      /\ \A i \in 1 .. Len(s) + Len(t) : (s \o t)[i] = IF i <= Len(s) THEN s[i] ELSE t[i - Len(s)]
  BY ConcatProperties
<1>2. Len(s) \in Nat /\ Len(t) \in Nat /\ DOMAIN s = 1 .. Len(s) /\ DOMAIN t = 1 .. Len(t)
      /\ DOMAIN (s \o t) = 1 .. Len(s) + Len(t)
  BY <1>1
<1> DEFINE u == s \o t
<1>3. \A i \in DOMAIN s : i \in DOMAIN u /\ u[i] = s[i]
  BY <1>1, <1>2
<1>4. \A i \in DOMAIN t : i + Len(s) \in DOMAIN u /\ u[i + Len(s)] = t[i]
  BY <1>1, <1>2
<1>5. \A i \in DOMAIN u : \/ i \in DOMAIN s /\ u[i] = s[i]
                          \/ i - Len(s) \in DOMAIN t /\ u[i] = t[i - Len(s)] /\ i \notin DOMAIN s
  BY <1>1, <1>2
<1>6. DOMAIN u \subseteq Int
  BY <1>2
<1> HIDE DEF u
<1>7. ToSet(u) = ToSet(s) \cup ToSet(t)
  <2>1. ToSet(u) \subseteq ToSet(s) \cup ToSet(t)
    BY <1>5 DEF ToSet
  <2>2. ToSet(s) \subseteq ToSet(u)
    BY <1>3 DEF ToSet
  <2>3. ToSet(t) \subseteq ToSet(u)
    BY <1>4 DEF ToSet
  <2> QED BY <2>1, <2>2, <2>3
<1>8. ASSUME IsInjective(s), IsInjective(t), ToSet(s) \cap ToSet(t) = {} PROVE IsInjective(u)
  <2> SUFFICES ASSUME NEW i \in DOMAIN u, NEW j \in DOMAIN u, u[i] = u[j] PROVE i = j
    BY DEF IsInjective
  <2>1. CASE i \in DOMAIN s /\ u[i] = s[i] /\ j \in DOMAIN s /\ u[j] = s[j]
    BY <1>8, <2>1 DEF IsInjective
  <2>2. CASE i - Len(s) \in DOMAIN t /\ u[i] = t[i - Len(s)] /\ j - Len(s) \in DOMAIN t /\ u[j] = t[j - Len(s)]
    <3>1. i - Len(s) = j - Len(s)
      BY <1>8, <2>2 DEF IsInjective
    <3> QED BY <1>2, <1>6, <3>1
  <2>3. \A k, l : ~(k \in DOMAIN s /\ l \in DOMAIN t /\ s[k] = t[l])
    BY <1>8 DEF ToSet
  <2> QED BY <1>5, <2>1, <2>2, <2>3
<1> QED BY <1>1, <1>7, <1>8 DEF u

\* The first n of a sequence and the rest of it.
LEMMA Cut ==
    ASSUME NEW S, NEW q \in Seq(S), NEW n \in 0 .. Len(q)
    PROVE  /\ SubSeq(q, n + 1, Len(q)) \in Seq(S) /\ SubSeq(q, 1, n) \in Seq(S)
           /\ Len(SubSeq(q, 1, n)) = n
           /\ ToSet(SubSeq(q, 1, n)) \cup ToSet(SubSeq(q, n + 1, Len(q))) = ToSet(q)
           /\ IsInjective(q) => /\ IsInjective(SubSeq(q, n + 1, Len(q)))
                                /\ ToSet(SubSeq(q, 1, n)) \cap ToSet(SubSeq(q, n + 1, Len(q))) = {}
<1> DEFINE a == SubSeq(q, 1, n)
           r == SubSeq(q, n + 1, Len(q))
<1>1. Len(q) \in Nat /\ n \in Nat /\ n <= Len(q) /\ DOMAIN q = 1 .. Len(q) /\ \A i \in 1 .. Len(q) : q[i] \in S
  OBVIOUS
<1>2. a \in Seq(S) /\ Len(a) = n /\ \A i \in 1 .. n : a[i] = q[i]
  BY <1>1, SubSeqProperties
<1>3. r \in Seq(S) /\ Len(r) = Len(q) - n /\ \A i \in 1 .. Len(q) - n : r[i] = q[n + i]
  <2>1. \A i \in n + 1 .. Len(q) : q[i] \in S
    BY <1>1
  <2>2. /\ r \in Seq(S) /\ Len(r) = IF n + 1 <= Len(q) THEN Len(q) - (n + 1) + 1 ELSE 0
        /\ \A i \in 1 .. Len(q) - (n + 1) + 1 : r[i] = q[n + 1 + i - 1]
    BY <1>1, <2>1, SubSeqProperties
  <2>3. Len(q) - (n + 1) + 1 = Len(q) - n /\ Len(r) = Len(q) - n
    <3>0. \A k, m \in Nat : k <= m => m - (k + 1) + 1 = m - k /\ (k + 1 <= m \/ m - k = 0)
      OBVIOUS
    <3>1. Len(q) - (n + 1) + 1 = Len(q) - n /\ (n + 1 <= Len(q) \/ Len(q) - n = 0)
      BY <1>1, <3>0
    <3> QED BY <2>2, <3>1
  <2>4. \A i \in 1 .. Len(q) - n : n + 1 + i - 1 = n + i
    BY <1>1
  <2> QED BY <2>2, <2>3, <2>4
<1> HIDE DEF a, r
<1>4. DOMAIN a = 1 .. n /\ DOMAIN r = 1 .. Len(q) - n
  BY <1>2, <1>3
<1>5. \A i \in DOMAIN a : i \in DOMAIN q /\ a[i] = q[i] /\ i <= n
  BY <1>1, <1>2, <1>4
<1>6. \A i \in DOMAIN r : n + i \in DOMAIN q /\ r[i] = q[n + i] /\ n + i > n /\ i \in Int
  BY <1>1, <1>3, <1>4
<1>7. \A i \in DOMAIN q : (i \in DOMAIN a /\ a[i] = q[i]) \/ (i - n \in DOMAIN r /\ r[i - n] = q[i])
  BY <1>1, <1>2, <1>3, <1>4
<1>8. ToSet(a) \cup ToSet(r) = ToSet(q)
  <2>1. ToSet(a) \subseteq ToSet(q)
    BY <1>5 DEF ToSet
  <2>2. ToSet(r) \subseteq ToSet(q)
    BY <1>6 DEF ToSet
  <2>3. ToSet(q) \subseteq ToSet(a) \cup ToSet(r)
    BY <1>7 DEF ToSet
  <2> QED BY <2>1, <2>2, <2>3
<1>9. ASSUME IsInjective(q) PROVE IsInjective(r) /\ ToSet(a) \cap ToSet(r) = {}
  <2>1. \A i, j \in DOMAIN r : r[i] = r[j] => n + i = n + j
    BY <1>6, <1>9 DEF IsInjective
  <2>2. IsInjective(r)
    BY <1>1, <1>6, <2>1 DEF IsInjective
  <2>3. \A i \in DOMAIN a, j \in DOMAIN r : a[i] # r[j]
    BY <1>1, <1>5, <1>6, <1>9 DEF IsInjective
  <2> QED BY <2>2, <2>3 DEF ToSet
<1> QED BY <1>2, <1>3, <1>8, <1>9 DEF a, r

\* A sequence of n has n elements at most.
LEMMA FewElements ==
    ASSUME NEW S \in SUBSET Blocks, NEW s \in Seq(S) PROVE Cardinality(ToSet(s)) <= Len(s) /\ ToSet(s) \subseteq S
<1>1. s \in [1 .. Len(s) -> S] /\ Len(s) \in Nat /\ DOMAIN s = 1 .. Len(s)
  OBVIOUS
<1>2. ToSet(s) \subseteq S
  BY <1>1 DEF ToSet
<1>3. s \in Surjection(1 .. Len(s), ToSet(s))
  BY <1>1 DEF Surjection, ToSet
<1>4. Cardinality(ToSet(s)) <= Len(s)
  BY <1>1, <1>3, FS_SurjCardinalityBound DEF ExistsSurjection
<1> QED BY <1>2, <1>4

-----------------------------------------------------------------------------
\* The pump.

\* What the pump sends comes from the front of the queue and fits the window; it
\* sends nothing while it is held back.
LEMMA PumpIs ==
    ASSUME NEW q \in Seq(Blocks), NEW pend \in SUBSET Blocks, Cardinality(pend) <= InFlight,
           NEW b, NEW c, Pumped(q, pend, b, c)
    PROVE  /\ queue' \in Seq(Blocks) /\ pend \subseteq pending' /\ pending' \subseteq Blocks
           /\ Cardinality(pending') <= InFlight
           /\ ToSet(queue') \cup pending' = ToSet(q) \cup pend
           /\ pending' = pend \/ MayPump(b, c)
           /\ IsInjective(q) /\ ToSet(q) \cap pend = {} => IsInjective(queue') /\ ToSet(queue') \cap pending' = {}
<1> DEFINE n == IF ~MayPump(b, c) THEN 0
                ELSE IF Len(q) < Room(pend) THEN Len(q) ELSE Room(pend)
           sent == SubSeq(q, 1, n)
<1>1. IsFiniteSet(pend) /\ Cardinality(pend) \in Nat
  BY BlocksAreFinite
<1>2. Room(pend) \in Nat /\ Cardinality(pend) + Room(pend) = InFlight
  BY <1>1, BackfillAssumption DEF Room
<1>3. n \in 0 .. Len(q) /\ n <= Room(pend) /\ (n = 0 \/ MayPump(b, c))
  BY <1>2
<1>4. queue' = SubSeq(q, n + 1, Len(q)) /\ pending' = pend \cup ToSet(sent)
  BY DEF Pumped
<1> HIDE DEF n
<1>5. /\ queue' \in Seq(Blocks) /\ sent \in Seq(Blocks) /\ Len(sent) = n
      /\ ToSet(sent) \cup ToSet(queue') = ToSet(q)
      /\ IsInjective(q) => IsInjective(queue') /\ ToSet(sent) \cap ToSet(queue') = {}
  BY <1>3, <1>4, Cut
<1> HIDE DEF sent
<1>6. Cardinality(ToSet(sent)) <= n /\ ToSet(sent) \subseteq Blocks
  BY <1>5, FewElements
<1>7. IsFiniteSet(ToSet(sent)) /\ Cardinality(ToSet(sent)) \in Nat
  BY <1>6, BlocksAreFinite
<1>8. Cardinality(pending') <= Cardinality(pend) + Cardinality(ToSet(sent))
  <2>1. Cardinality(pend \cap ToSet(sent)) \in Nat
    BY BlocksAreFinite
  <2>2. Cardinality(pending') = Cardinality(pend) + Cardinality(ToSet(sent)) - Cardinality(pend \cap ToSet(sent))
    BY <1>1, <1>4, <1>7, FS_Union
  <2> QED BY <1>1, <1>7, <2>1, <2>2
<1>9. Cardinality(pending') <= InFlight
  <2>1. Cardinality(pending') \in Nat
    BY <1>4, <1>6, BlocksAreFinite
  <2> QED BY <1>1, <1>2, <1>3, <1>6, <1>7, <1>8, <2>1, BackfillAssumption
<1>10. n = 0 => ToSet(sent) = {}
  BY <1>5 DEF ToSet
<1> QED BY <1>3, <1>4, <1>5, <1>6, <1>9, <1>10

\* Parents join the queue behind what waits.
LEMMA QueuedIs ==
    ASSUME NEW q \in Seq(Blocks), NEW seen \in SUBSET Blocks, NEW b \in Blocks
    PROVE  /\ Queued(q, seen, b) \in Seq(Blocks)
           /\ ToSet(Queued(q, seen, b)) = ToSet(q) \cup (Parents[b] \ seen)
           /\ IsInjective(q) /\ ToSet(q) \subseteq seen => IsInjective(Queued(q, seen, b))
<1> DEFINE s == SetToSeq(Parents[b] \ seen)
<1>1. Parents[b] \ seen \in SUBSET Blocks
  BY BackfillAssumption
<1>2. s \in Seq(Blocks) /\ IsInjective(s) /\ ToSet(s) = Parents[b] \ seen
  <2>1. s \in Seq(Parents[b] \ seen) /\ IsInjective(s) /\ ToSet(s) = Parents[b] \ seen
    BY <1>1, SetToSeqIs
  <2> QED BY <1>1, <2>1, SeqMonotonic
<1> HIDE DEF s
<1>3. /\ q \o s \in Seq(Blocks) /\ ToSet(q \o s) = ToSet(q) \cup ToSet(s)
      /\ IsInjective(q) /\ IsInjective(s) /\ ToSet(q) \cap ToSet(s) = {} => IsInjective(q \o s)
  BY <1>2, Joined
<1>4. Queued(q, seen, b) = q \o s
  BY DEF Queued, s
<1>5. ToSet(q) \subseteq seen => ToSet(q) \cap ToSet(s) = {}
  BY <1>2
<1> QED BY <1>2, <1>3, <1>4, <1>5

\* What a lost connection leaves unanswered goes to the front of the queue.
LEMMA UnansweredIs ==
    ASSUME NEW q \in Seq(Blocks), NEW pend \in SUBSET Blocks
    PROVE  /\ Unanswered(pend) \o q \in Seq(Blocks)
           /\ ToSet(Unanswered(pend) \o q) = ToSet(q) \cup pend
           /\ IsInjective(q) /\ ToSet(q) \cap pend = {} => IsInjective(Unanswered(pend) \o q)
<1>1. Unanswered(pend) \in Seq(Blocks) /\ IsInjective(Unanswered(pend)) /\ ToSet(Unanswered(pend)) = pend
  <2>1. SetToSeq(pend) \in Seq(pend) /\ IsInjective(SetToSeq(pend)) /\ ToSet(SetToSeq(pend)) = pend
    BY SetToSeqIs
  <2> QED BY <2>1, SeqMonotonic DEF Unanswered
<1> QED BY <1>1, Joined

-----------------------------------------------------------------------------
\* The steps.

\* The handler of notifications, seen from what it takes and what it leaves.
LEMMA NotifiedBlock ==
    ASSUME TypeOK, BlockAdded
    PROVE  /\ Head(notes) \in Blocks /\ Head(notes) = notes[1] /\ Len(notes) \in Nat /\ Len(notes) > 0
           /\ notes' \in Seq(Blocks) /\ Len(notes') = Len(notes) - 1
           /\ \A i \in 1 .. Len(notes') : notes'[i] = notes[i + 1] /\ i + 1 \in 2 .. Len(notes)
<1>1. notes \in Seq(Blocks) /\ notes # <<>> /\ notes' = Tail(notes)
  BY DEF TypeOK, BlockAdded
<1> QED BY <1>1, HeadTailProperties

\* Every step keeps the types, with the window of requests among them.
LEMMA TypesKeep == ASSUME TypeOK, [Next]_vars PROVE TypeOK'
<1>1. CASE UNCHANGED vars
  BY <1>1 DEF TypeOK, vars, walkVars
<1>2. CASE NewBlock
  <2>1. height' \in Blocks /\ height' = height + 1
    BY <1>2, BackfillAssumption DEF NewBlock, TypeOK, Blocks
  <2>2. notes' \in Seq(Blocks)
    BY <1>2, <2>1 DEF NewBlock, TypeOK
  <2> QED BY <1>2, <2>1, <2>2 DEF NewBlock, TypeOK, walkVars
<1>3. CASE BlockAdded
  <2> DEFINE b == Head(notes)
             top == Larger(live, b)
             seen == SeenLive(b)
             c == IF seeded THEN cutoff ELSE SeedCutoff(b, top)
             q == IF seeded THEN queue ELSE Queued(queue, seen, b)
  <2>1. b \in Blocks /\ notes' \in Seq(Blocks)
    BY <1>3, NotifiedBlock
  <2>2. /\ live' = top /\ seeded' = TRUE /\ cutoff' = c
        /\ visited' = (IF seeded THEN seen ELSE seen \cup Parents[b])
        /\ Pumped(q, pending, bulk, c) /\ scanned' = scanned \cup {b}
        /\ UNCHANGED <<height, up, done, bulk, fetched, drops, errors>>
    BY <1>3 DEF BlockAdded
  <2> HIDE DEF b
  <2>3. live' \in Nat
    BY <2>1, <2>2 DEF TypeOK, Larger, Blocks
  <2>4. cutoff' \in {Unset} \cup Nat
    <3>1. Window \in Nat /\ Margin \in Nat /\ b \in Int /\ top \in Nat
      BY <2>1, <2>2, <2>3, BackfillAssumption DEF Blocks
    <3>2. Larger(b - Window, 0) \in Nat
      BY <3>1 DEF Larger
    <3>3. Larger(Larger(b - Window, 0), top - Margin) \in Nat
      BY <3>1, <3>2 DEF Larger
    <3> HIDE DEF top
    <3>4. SeedCutoff(b, top) \in {Unset} \cup Nat
      BY <3>2, <3>3 DEF SeedCutoff, TypeOK
    <3> QED BY <2>2, <3>4 DEF TypeOK
  <2>5. seen \in SUBSET Blocks
    BY <2>1 DEF SeenLive, TypeOK
  <2>6. visited' \subseteq Blocks /\ scanned' \subseteq Blocks
    BY <2>1, <2>2, <2>5, BackfillAssumption DEF TypeOK
  <2>7. q \in Seq(Blocks)
    BY <2>1, <2>5, QueuedIs DEF TypeOK
  <2> HIDE DEF q, c
  <2>8. queue' \in Seq(Blocks) /\ pending' \subseteq Blocks /\ Cardinality(pending') <= InFlight
    BY <2>2, <2>7, PumpIs DEF TypeOK
  <2>9. height' \in Blocks /\ up' \in BOOLEAN /\ done' \in BOOLEAN /\ bulk' \in BOOLEAN /\ fetched' \subseteq Blocks
        /\ drops' \in 0..MaxDrops /\ errors' \in 0..MaxErrors
    BY <2>2 DEF TypeOK
  <2>10. seeded' \in BOOLEAN
    BY <2>2, Zenon
  <2> QED BY <2>1, <2>3, <2>4, <2>6, <2>8, <2>9, <2>10 DEF TypeOK
<1>4. CASE FirstTemplate
  <2>1. queue' \in Seq(Blocks) /\ pending' \subseteq Blocks /\ Cardinality(pending') <= InFlight
    BY <1>4, PumpIs DEF TypeOK, FirstTemplate
  <2>2. bulk' \in BOOLEAN
    BY <1>4, Zenon DEF FirstTemplate
  <2> QED BY <1>4, <2>1, <2>2 DEF TypeOK, FirstTemplate
<1>5. ASSUME NEW b \in Blocks, Fetched(b) PROVE TypeOK'
  <2> DEFINE on == b > cutoff
             q == IF on THEN Queued(queue, visited, b) ELSE queue
             seen == IF on THEN visited \cup Parents[b] ELSE visited
             over == Over(q, b)
  <2>1. /\ b \in pending /\ done' = (done \/ over) /\ visited' = IF over THEN {} ELSE seen
        /\ Pumped(q, pending \ {b}, bulk, cutoff)
        /\ scanned' = scanned \cup {b} /\ fetched' = fetched \cup {b}
        /\ UNCHANGED <<height, up, notes, cutoff, seeded, bulk, live, drops, errors>>
    BY <1>5 DEF Fetched
  <2>2. q \in Seq(Blocks) /\ seen \in SUBSET Blocks
    BY QueuedIs, BackfillAssumption DEF TypeOK
  <2> HIDE DEF q, seen
  <2>3. Cardinality(pending \ {b}) <= InFlight
    <3>1. IsFiniteSet(pending) /\ Cardinality(pending) \in Nat /\ Cardinality(pending \ {b}) \in Nat
      BY BlocksAreFinite DEF TypeOK
    <3>2. Cardinality(pending \ {b}) <= Cardinality(pending)
      BY <3>1, FS_Subset
    <3> QED BY <3>1, <3>2, BackfillAssumption DEF TypeOK
  <2>4. queue' \in Seq(Blocks) /\ pending' \subseteq Blocks /\ Cardinality(pending') <= InFlight
    BY <2>1, <2>2, <2>3, PumpIs DEF TypeOK
  <2>5. done' \in BOOLEAN
    BY <2>1, Zenon DEF TypeOK
  <2>6. visited' \subseteq Blocks /\ scanned' \subseteq Blocks /\ fetched' \subseteq Blocks
    BY <2>1, <2>2 DEF TypeOK
  <2> QED BY <2>1, <2>4, <2>5, <2>6 DEF TypeOK
<1>6. ASSUME NEW b \in Blocks, FetchFailed(b) PROVE TypeOK'
  <2>1. Cardinality(pending \ {b}) <= InFlight
    <3>1. IsFiniteSet(pending) /\ Cardinality(pending) \in Nat /\ Cardinality(pending \ {b}) \in Nat
      BY BlocksAreFinite DEF TypeOK
    <3>2. Cardinality(pending \ {b}) <= Cardinality(pending)
      BY <3>1, FS_Subset
    <3> QED BY <3>1, <3>2, BackfillAssumption DEF TypeOK
  <2>2. queue' \in Seq(Blocks) /\ pending' \subseteq Blocks /\ Cardinality(pending') <= InFlight
    BY <1>6, <2>1, PumpIs DEF TypeOK, FetchFailed
  <2>3. errors' \in 0..MaxErrors
    BY <1>6, BackfillAssumption DEF TypeOK, FetchFailed
  <2> QED BY <1>6, <2>2, <2>3 DEF TypeOK, FetchFailed
<1>7. CASE Disconnect
  <2>1. queue' \in Seq(Blocks)
    BY <1>7, UnansweredIs DEF TypeOK, Disconnect
  <2>2. pending' \subseteq Blocks /\ Cardinality(pending') <= InFlight
    BY <1>7, FS_EmptySet, BackfillAssumption DEF Disconnect
  <2>3. drops' \in 0..MaxDrops /\ notes' \in Seq(Blocks)
    BY <1>7, BackfillAssumption DEF TypeOK, Disconnect
  <2>4. up' \in BOOLEAN
    BY <1>7, Zenon DEF Disconnect
  <2> QED BY <1>7, <2>1, <2>2, <2>3, <2>4 DEF TypeOK, Disconnect
<1>8. CASE Connect
  <2>1. up' \in BOOLEAN /\ seeded' \in BOOLEAN /\ bulk' \in BOOLEAN
    BY <1>8, Zenon DEF Connect
  <2> QED BY <1>8, <2>1 DEF TypeOK, Connect
<1> QED BY <1>1, <1>2, <1>3, <1>4, <1>5, <1>6, <1>7, <1>8 DEF Next

\* Mining stays first: a request leaves on a connection that has had its template.
LEMMA MiningStaysFirst ==
    ASSUME TypeOK, MiningComesFirst, QuietWhileDown, [Next]_vars PROVE MiningComesFirst' /\ QuietWhileDown'
<1>1. ASSUME NEW q \in Seq(Blocks), NEW pend \in SUBSET pending, NEW b, NEW c, Pumped(q, pend, b, c),
             b => bulk' /\ up', up' = up, bulk => bulk'
      PROVE  MiningComesFirst'
  <2>1. Cardinality(pend) <= InFlight /\ pend \in SUBSET Blocks
    <3>1. IsFiniteSet(pending) /\ Cardinality(pending) \in Nat /\ Cardinality(pend) \in Nat
      BY BlocksAreFinite DEF TypeOK
    <3>2. Cardinality(pend) <= Cardinality(pending)
      BY <3>1, FS_Subset
    <3> QED BY <3>1, <3>2, BackfillAssumption DEF TypeOK
  <2>2. pending' = pend \/ MayPump(b, c)
    BY <1>1, <2>1, PumpIs
  <2> QED BY <1>1, <2>2 DEF MiningComesFirst, MayPump
<1>2. CASE UNCHANGED vars
  BY <1>2 DEF vars, walkVars, MiningComesFirst, QuietWhileDown
<1>3. CASE NewBlock
  BY <1>3 DEF NewBlock, walkVars, MiningComesFirst, QuietWhileDown
<1>4. CASE BlockAdded
  <2> DEFINE seen == SeenLive(Head(notes))
             q == IF seeded THEN queue ELSE Queued(queue, seen, Head(notes))
             c == IF seeded THEN cutoff ELSE SeedCutoff(Head(notes), Larger(live, Head(notes)))
  <2>1. up
    BY <1>4 DEF BlockAdded, QuietWhileDown
  <2>2. q \in Seq(Blocks)
    <3>1. Head(notes) \in Blocks
      BY <1>4, NotifiedBlock
    <3>2. seen \in SUBSET Blocks
      BY <3>1 DEF SeenLive, TypeOK
    <3> QED BY <3>1, <3>2, QueuedIs DEF TypeOK
  <2>3. Pumped(q, pending, bulk, c) /\ up' = up /\ bulk' = bulk
    BY <1>4 DEF BlockAdded
  <2> HIDE DEF q, c
  <2>4. MiningComesFirst'
    BY <1>1, <2>1, <2>2, <2>3
  <2> QED BY <2>1, <2>3, <2>4 DEF QuietWhileDown
<1>5. CASE FirstTemplate
  <2>1. Pumped(queue, pending, TRUE, cutoff) /\ up' = up /\ bulk' = TRUE /\ up /\ notes' = notes
    BY <1>5 DEF FirstTemplate
  <2>2. MiningComesFirst'
    BY <1>1, <2>1 DEF TypeOK
  <2> QED BY <2>1, <2>2 DEF QuietWhileDown
<1>6. ASSUME NEW b \in Blocks, Fetched(b) PROVE MiningComesFirst' /\ QuietWhileDown'
  <2> DEFINE q == IF b > cutoff THEN Queued(queue, visited, b) ELSE queue
  <2>1. /\ b \in pending /\ Pumped(q, pending \ {b}, bulk, cutoff) /\ up' = up /\ bulk' = bulk
        /\ notes' = notes
    BY <1>6 DEF Fetched
  <2>2. q \in Seq(Blocks)
    BY QueuedIs DEF TypeOK
  <2>3. bulk /\ up
    BY <2>1 DEF MiningComesFirst
  <2> HIDE DEF q
  <2>4. MiningComesFirst'
    BY <1>1, <2>1, <2>2, <2>3
  <2> QED BY <2>1, <2>3, <2>4 DEF QuietWhileDown
<1>7. ASSUME NEW b \in Blocks, FetchFailed(b) PROVE MiningComesFirst' /\ QuietWhileDown'
  <2>1. /\ b \in pending /\ Pumped(queue, pending \ {b}, bulk, cutoff) /\ up' = up /\ bulk' = bulk
        /\ notes' = notes
    BY <1>7 DEF FetchFailed
  <2>2. bulk /\ up
    BY <2>1 DEF MiningComesFirst
  <2>3. MiningComesFirst'
    BY <1>1, <2>1, <2>2 DEF TypeOK
  <2> QED BY <2>1, <2>2, <2>3 DEF QuietWhileDown
<1>8. CASE Disconnect
  BY <1>8 DEF Disconnect, MiningComesFirst, QuietWhileDown
<1>9. CASE Connect
  BY <1>9 DEF Connect, MiningComesFirst, QuietWhileDown
<1> QED BY <1>2, <1>3, <1>4, <1>5, <1>6, <1>7, <1>8, <1>9 DEF Next

\* News stays news: the node numbers blocks upwards, and a walk goes down.
LEMMA NewsStayNew == ASSUME WalkInv, [Next]_vars PROVE NewsAreNew'
<1>0. TypeOK /\ \A b \in Blocks : b \in Int /\ \A p \in Parents[b] : p \in Int /\ p < b
  BY BackfillAssumption DEF WalkInv, Blocks
<1>a. height \in Int /\ \A i \in 1 .. Len(notes) : notes[i] \in Int
  <2>1. \A i \in 1 .. Len(notes) : notes[i] \in Blocks
    BY <1>0 DEF TypeOK
  <2> QED BY <1>0, <2>1 DEF TypeOK
<1>1. CASE UNCHANGED <<height, notes, done, visited>>
  BY <1>1 DEF WalkInv, NewsAreNew
<1>2. CASE NewBlock
  <2>1. /\ notes \in Seq(Blocks) /\ Len(notes) \in Nat /\ height \in Int /\ height' = height + 1 /\ height' \in Blocks
        /\ UNCHANGED <<done, visited>> /\ visited \subseteq Int
        /\ \A i \in 1 .. Len(notes) : notes[i] \in Int
    BY <1>0, <1>2, BackfillAssumption DEF NewBlock, walkVars, TypeOK, Blocks
  <2>2. CASE up
    <3>1. notes' = Append(notes, height')
      BY <1>2, <2>2 DEF NewBlock
    <3>2. /\ Len(notes') = Len(notes) + 1 /\ \A i \in 1 .. Len(notes) : notes'[i] = notes[i]
          /\ notes'[Len(notes) + 1] = height'
      BY <2>1, <3>1, AppendProperties
    <3>3. 1 .. Len(notes') = 1 .. Len(notes) \cup {Len(notes) + 1}
      BY <2>1, <3>2
    <3>4. \A i \in 1 .. Len(notes') : notes'[i] <= height'
      BY <2>1, <3>2, <3>3 DEF WalkInv, NewsAreNew
    <3>5. \A i, j \in 1 .. Len(notes') : i < j => notes'[i] < notes'[j]
      BY <2>1, <3>2, <3>3 DEF WalkInv, NewsAreNew
    <3>6. ~done => \A v \in visited : v <= height' /\ \A i \in 1 .. Len(notes') : v < notes'[i]
      BY <2>1, <3>2, <3>3 DEF WalkInv, NewsAreNew
    <3> QED BY <2>1, <3>4, <3>5, <3>6 DEF NewsAreNew
  <2>3. CASE ~up
    <3>1. notes' = notes
      BY <1>2, <2>3 DEF NewBlock
    <3>2. /\ \A i \in 1 .. Len(notes) : notes[i] <= height'
          /\ ~done => \A v \in visited : v <= height'
      BY <2>1 DEF WalkInv, NewsAreNew
    <3> QED BY <2>1, <3>1, <3>2 DEF WalkInv, NewsAreNew
  <2> QED BY <2>2, <2>3
<1>3. CASE BlockAdded
  <2> DEFINE b == Head(notes)
  <2>1. /\ b \in Blocks /\ b = notes[1] /\ Len(notes) \in Nat /\ Len(notes) > 0
        /\ Len(notes') = Len(notes) - 1
        /\ \A i \in 1 .. Len(notes') : notes'[i] = notes[i + 1] /\ i + 1 \in 2 .. Len(notes)
    BY <1>0, <1>3, NotifiedBlock
  <2>2. height' = height /\ done' = done /\ (~done => visited' \subseteq visited \cup {b} \cup Parents[b])
    BY <1>3 DEF BlockAdded, SeenLive
  <2> HIDE DEF b
  <2>3. \A i \in 1 .. Len(notes') : notes'[i] <= height' /\ b < notes'[i]
    BY <2>1, <2>2 DEF WalkInv, NewsAreNew
  <2>4. \A i, j \in 1 .. Len(notes') : i < j => notes'[i] < notes'[j]
    <3> SUFFICES ASSUME NEW i \in 1 .. Len(notes'), NEW j \in 1 .. Len(notes'), i < j
                 PROVE  notes'[i] < notes'[j]
      OBVIOUS
    <3>1. i + 1 \in 1 .. Len(notes) /\ j + 1 \in 1 .. Len(notes) /\ i + 1 < j + 1
      BY <2>1
    <3> QED BY <2>1, <3>1 DEF WalkInv, NewsAreNew
  <2>5. b <= height
    BY <2>1 DEF WalkInv, NewsAreNew
  <2>6. ~done => \A v \in visited' : v <= height /\ \A i \in 1 .. Len(notes') : v < notes'[i]
    <3> SUFFICES ASSUME ~done, NEW v \in visited' PROVE v <= height /\ \A i \in 1 .. Len(notes') : v < notes'[i]
      OBVIOUS
    <3>1. CASE v \in visited
      BY <2>1, <3>1 DEF WalkInv, NewsAreNew
    <3>2. CASE v = b
      BY <2>3, <2>5, <3>2
    <3>3. CASE v \in Parents[b]
      <4>1. v \in Int /\ v < b /\ b \in Int /\ height \in Int /\ \A i \in 1 .. Len(notes') : notes'[i] \in Int
        <5>1. \A i \in 1 .. Len(notes') : notes'[i] \in Int
          BY <1>a, <2>1
        <5> QED BY <1>0, <1>a, <2>1, <3>3, <5>1
      <4> QED BY <2>3, <2>5, <4>1
    <3> QED BY <2>2, <3>1, <3>2, <3>3
  <2> QED BY <2>2, <2>3, <2>4, <2>6 DEF NewsAreNew
<1>4. ASSUME NEW b \in Blocks, Fetched(b) PROVE NewsAreNew'
  <2>1. /\ b \in pending /\ UNCHANGED <<height, notes>> /\ (~done' => ~done)
        /\ visited' \subseteq visited \cup Parents[b]
    BY <1>4 DEF Fetched
  <2>2. ASSUME ~done', NEW v \in Parents[b] PROVE v <= height /\ \A i \in 1 .. Len(notes) : v < notes[i]
    <3>1. b <= height /\ \A i \in 1 .. Len(notes) : b < notes[i]
      BY <2>1, <2>2 DEF WalkInv, AskedOnce, NewsAreNew
    <3>2. v \in Int /\ v < b /\ height \in Int /\ \A i \in 1 .. Len(notes) : notes[i] \in Int
      BY <1>0, <1>a
    <3> QED BY <1>0, <3>1, <3>2
  <2> QED BY <2>1, <2>2 DEF WalkInv, NewsAreNew
<1>5. CASE Disconnect
  <2>1. notes' = <<>> /\ UNCHANGED <<height, done, visited>>
    BY <1>5 DEF Disconnect
  <2> QED BY <2>1 DEF WalkInv, NewsAreNew
<1> QED
  BY <1>1, <1>2, <1>3, <1>4, <1>5 DEF Next, FirstTemplate, FetchFailed, Connect, vars, walkVars

\* A block is asked for once: what is queued was not visited before, and what was
\* scanned leaves what is asked.
LEMMA AskedOnceStays == ASSUME WalkInv, [Next]_vars PROVE AskedOnce'
<1>0. TypeOK
  BY DEF WalkInv
<1>1. CASE UNCHANGED <<done, queue, pending, scanned, visited>>
  BY <1>1 DEF WalkInv, AskedOnce
<1>2. ASSUME NEW q \in Seq(Blocks), NEW pend \in SUBSET pending, NEW b, NEW c, Pumped(q, pend, b, c),
             ~done' => /\ IsInjective(q) /\ ToSet(q) \cap pend = {}
                       /\ (ToSet(q) \cup pend) \cap scanned' = {}
                       /\ ToSet(q) \cup pend \cup scanned' \subseteq visited'
      PROVE  AskedOnce'
  <2>1. Cardinality(pend) <= InFlight /\ pend \in SUBSET Blocks
    <3>1. IsFiniteSet(pending) /\ Cardinality(pending) \in Nat /\ Cardinality(pend) \in Nat
      BY <1>0, BlocksAreFinite DEF TypeOK
    <3>2. Cardinality(pend) <= Cardinality(pending)
      BY <3>1, FS_Subset
    <3> QED BY <1>0, <3>1, <3>2, BackfillAssumption DEF TypeOK
  <2>2. /\ ToSet(queue') \cup pending' = ToSet(q) \cup pend
        /\ IsInjective(q) /\ ToSet(q) \cap pend = {} => IsInjective(queue') /\ ToSet(queue') \cap pending' = {}
    BY <1>2, <2>1, PumpIs
  <2>3. ASSUME ~done' PROVE IsInjective(queue') /\ ToSet(queue') \cap pending' = {}
    BY <1>2, <2>2, <2>3
  <2>4. ASSUME ~done' PROVE /\ (ToSet(queue') \cup pending') \cap scanned' = {}
                            /\ ToSet(queue') \cup pending' \cup scanned' \subseteq visited'
    BY <1>2, <2>2, <2>4
  <2> QED BY <2>3, <2>4 DEF AskedOnce
<1>3. CASE BlockAdded
  <2> DEFINE b == Head(notes)
             seen == SeenLive(b)
             q == IF seeded THEN queue ELSE Queued(queue, seen, b)
             c == IF seeded THEN cutoff ELSE SeedCutoff(b, Larger(live, b))
  <2>1. b \in Blocks /\ Len(notes) \in Nat /\ 1 \in 1 .. Len(notes) /\ b = notes[1]
    BY <1>0, <1>3, NotifiedBlock
  <2>2. /\ visited' = (IF seeded THEN seen ELSE seen \cup Parents[b]) /\ scanned' = scanned \cup {b}
        /\ Pumped(q, pending, bulk, c) /\ done' = done
    BY <1>3 DEF BlockAdded
  <2> HIDE DEF b
  <2>3. seen \in SUBSET Blocks /\ (~done => seen = visited \cup {b})
    BY <1>0, <2>1 DEF SeenLive, TypeOK
  <2>4. /\ q \in Seq(Blocks)
        /\ ToSet(q) = IF seeded THEN ToSet(queue) ELSE ToSet(queue) \cup (Parents[b] \ seen)
        /\ IsInjective(queue) /\ ToSet(queue) \subseteq seen => IsInjective(q)
    BY <1>0, <2>1, <2>3, QueuedIs DEF TypeOK
  <2> HIDE DEF q, c
  <2>5. ~done => b \notin visited
    <3>1. b \in Int
      BY <2>1 DEF Blocks
    <3> QED BY <2>1, <3>1 DEF WalkInv, NewsAreNew
  <2>6. ASSUME ~done
        PROVE  /\ IsInjective(q) /\ ToSet(q) \cap pending = {}
               /\ (ToSet(q) \cup pending) \cap scanned' = {}
               /\ ToSet(q) \cup pending \cup scanned' \subseteq visited'
    <3>1. /\ IsInjective(queue) /\ ToSet(queue) \cap pending = {}
          /\ (ToSet(queue) \cup pending) \cap scanned = {}
          /\ ToSet(queue) \cup pending \cup scanned \subseteq visited
      BY <2>6 DEF WalkInv, AskedOnce
    <3>2. b \notin ToSet(queue) \cup pending /\ b \notin Parents[b] \ seen
      BY <2>3, <2>5, <2>6, <3>1
    <3> QED BY <2>2, <2>3, <2>4, <2>6, <3>1, <3>2
  <2> QED BY <1>2, <2>2, <2>4, <2>6
<1>4. CASE FirstTemplate
  <2>1. Pumped(queue, pending, TRUE, cutoff) /\ UNCHANGED <<done, scanned, visited>>
    BY <1>4 DEF FirstTemplate
  <2> QED BY <1>0, <1>2, <2>1 DEF WalkInv, AskedOnce, TypeOK
<1>5. ASSUME NEW b \in Blocks, Fetched(b) PROVE AskedOnce'
  <2> DEFINE on == b > cutoff
             q == IF on THEN Queued(queue, visited, b) ELSE queue
             seen == IF on THEN visited \cup Parents[b] ELSE visited
  <2>1. /\ b \in pending /\ (~done' => ~done /\ visited' = seen)
        /\ Pumped(q, pending \ {b}, bulk, cutoff) /\ scanned' = scanned \cup {b}
    BY <1>5 DEF Fetched
  <2>2. /\ q \in Seq(Blocks)
        /\ ToSet(q) = IF on THEN ToSet(queue) \cup (Parents[b] \ visited) ELSE ToSet(queue)
        /\ IsInjective(queue) /\ ToSet(queue) \subseteq visited => IsInjective(q)
    BY <1>0, QueuedIs DEF TypeOK
  <2> HIDE DEF q, on
  <2>3. ASSUME ~done'
        PROVE  /\ IsInjective(q) /\ ToSet(q) \cap (pending \ {b}) = {}
               /\ (ToSet(q) \cup (pending \ {b})) \cap scanned' = {}
               /\ ToSet(q) \cup (pending \ {b}) \cup scanned' \subseteq visited'
    <3>1. /\ IsInjective(queue) /\ ToSet(queue) \cap pending = {}
          /\ (ToSet(queue) \cup pending) \cap scanned = {}
          /\ ToSet(queue) \cup pending \cup scanned \subseteq visited
      BY <2>1, <2>3 DEF WalkInv, AskedOnce
    <3> QED BY <2>1, <2>2, <2>3, <3>1
  <2> QED BY <1>2, <2>1, <2>2, <2>3
<1>6. ASSUME NEW b \in Blocks, FetchFailed(b) PROVE AskedOnce'
  <2>1. Pumped(queue, pending \ {b}, bulk, cutoff) /\ UNCHANGED <<done, scanned, visited>>
    BY <1>6 DEF FetchFailed
  <2> QED BY <1>0, <1>2, <2>1 DEF WalkInv, AskedOnce, TypeOK
<1>7. CASE Disconnect
  <2>1. queue' = Unanswered(pending) \o queue /\ pending' = {} /\ UNCHANGED <<done, scanned, visited>>
    BY <1>7 DEF Disconnect
  <2>2. /\ ToSet(queue') = ToSet(queue) \cup pending
        /\ IsInjective(queue) /\ ToSet(queue) \cap pending = {} => IsInjective(queue')
    BY <1>0, <2>1, UnansweredIs DEF TypeOK
  <2> QED BY <2>1, <2>2 DEF WalkInv, AskedOnce
<1> QED
  BY <1>1, <1>3, <1>4, <1>5, <1>6, <1>7 DEF Next, NewBlock, Connect, vars, walkVars

\* Nothing is walked at the start.
LEMMA WalkStarts == Init => WalkInv
<1> SUFFICES ASSUME Init PROVE WalkInv
  OBVIOUS
<1>2. up \in BOOLEAN /\ done \in BOOLEAN /\ seeded \in BOOLEAN /\ bulk \in BOOLEAN
  BY Zenon DEF Init
<1>3. notes \in Seq(Blocks) /\ queue \in Seq(Blocks) /\ pending \subseteq Blocks
      /\ visited \subseteq Blocks /\ scanned \subseteq Blocks /\ fetched \subseteq Blocks
  BY DEF Init
<1>4. /\ height \in Blocks /\ cutoff \in {Unset} \cup Nat /\ live \in Nat
      /\ drops \in 0..MaxDrops /\ errors \in 0..MaxErrors
  BY BackfillAssumption DEF Init
<1>5. Cardinality(pending) <= InFlight
  BY FS_EmptySet, BackfillAssumption DEF Init
<1>6. TypeOK
  BY <1>2, <1>3, <1>4, <1>5 DEF TypeOK
<1>7. MiningComesFirst /\ QuietWhileDown /\ NewsAreNew
  BY DEF Init, MiningComesFirst, QuietWhileDown, NewsAreNew
<1>8. AskedOnce
  BY DEF Init, AskedOnce, IsInjective, ToSet
<1> QED BY <1>6, <1>7, <1>8 DEF WalkInv

\* The walk keeps its invariant.
LEMMA WalkKeeps == WalkInv /\ [Next]_vars => WalkInv'
  BY TypesKeep, MiningStaysFirst, NewsStayNew, AskedOnceStays DEF WalkInv

\* At most AI_BACKFILL_INFLIGHT requests are with the node, and none before the
\* first block template of the connection: whatever connections and blocks are lost.
THEOREM WalkStaysOrderly == Spec => []WalkIsOrderly
<1>1. WalkInv => WalkIsOrderly
  BY DEF WalkInv, WalkIsOrderly
<1> QED BY <1>1, WalkStarts, WalkKeeps, PTL DEF Spec

\* A step before the first walk is over asks for no block whose transactions were
\* scanned, neither after a reconnect nor for a block that was announced since.
THEOREM NoBlockIsAskedAgain == Spec => NoneIsAskedAgain
<1>1. ASSUME WalkInv, [Next]_vars
      PROVE  [~done => \A b \in pending' \ pending : b \notin scanned]_vars
  <2> SUFFICES ASSUME ~done, NEW b \in pending' \ pending PROVE b \notin scanned
    OBVIOUS
  <2>1. /\ (ToSet(queue) \cup pending) \cap scanned = {}
        /\ ToSet(queue) \cup pending \cup scanned \subseteq visited
    BY <1>1 DEF WalkInv, AskedOnce
  <2>2. CASE ~done'
    <3>1. WalkInv'
      BY <1>1, WalkKeeps
    <3>2. b \notin scanned'
      BY <2>2, <3>1 DEF WalkInv, AskedOnce
    <3>3. scanned \subseteq scanned'
      BY <1>1 DEF Next, NewBlock, BlockAdded, FirstTemplate, Fetched, FetchFailed, Disconnect, Connect, vars
    <3> QED BY <3>2, <3>3
  <2>3. CASE done'
    <3>1. PICK a \in Blocks : Fetched(a) /\ Over(IF a > cutoff THEN Queued(queue, visited, a) ELSE queue, a)
      BY <1>1, <2>3 DEF Next, NewBlock, BlockAdded, FirstTemplate, Fetched, FetchFailed, Disconnect, Connect,
         vars, walkVars
    <3>2. pending = {a} /\ Pumped(<<>>, {}, bulk, cutoff)
      BY <3>1 DEF Fetched, Over
    <3>3. pending' = {}
      <4>1. <<>> \in Seq(Blocks) /\ Cardinality({}) <= InFlight /\ ToSet(<<>>) = {}
        BY FS_EmptySet, BackfillAssumption DEF ToSet
      <4>2. ToSet(queue') \cup pending' = {}
        BY <3>2, <4>1, PumpIs
      <4> QED BY <4>2
    <3> QED BY <3>3
  <2> QED BY <2>2, <2>3
<1> QED BY <1>1, WalkStarts, WalkKeeps, PTL DEF Spec, NoneIsAskedAgain

\* Nothing the walk has come by is lost while it is on.
LEMMA WalkedThroughStays == ASSUME WalkInv, WalkedThrough, [Next]_vars PROVE WalkedThrough'
<1>0. TypeOK /\ Cardinality(pending) <= InFlight /\ errors \in Nat
  BY BackfillAssumption DEF WalkInv, TypeOK
<1>1. CASE UNCHANGED <<done, errors, queue, pending, scanned, visited, fetched, cutoff>>
  BY <1>1 DEF WalkedThrough
<1>2. ASSUME NEW q \in Seq(Blocks), NEW pend \in SUBSET pending, NEW b, NEW c, Pumped(q, pend, b, c),
             visited' \subseteq scanned' \cup ToSet(q) \cup pend
      PROVE  visited' \subseteq scanned' \cup ToSet(queue') \cup pending'
  <2>1. Cardinality(pend) <= InFlight /\ pend \in SUBSET Blocks
    <3>1. IsFiniteSet(pending) /\ Cardinality(pending) \in Nat /\ Cardinality(pend) \in Nat
      BY <1>0, BlocksAreFinite DEF TypeOK
    <3>2. Cardinality(pend) <= Cardinality(pending)
      BY <3>1, FS_Subset
    <3> QED BY <1>0, <3>1, <3>2, BackfillAssumption DEF TypeOK
  <2>2. ToSet(queue') \cup pending' = ToSet(q) \cup pend
    BY <1>2, <2>1, PumpIs
  <2> QED BY <1>2, <2>2
<1>3. CASE BlockAdded
  <2> DEFINE b == Head(notes)
             seen == SeenLive(b)
             q == IF seeded THEN queue ELSE Queued(queue, seen, b)
             c == IF seeded THEN cutoff ELSE SeedCutoff(b, Larger(live, b))
  <2> SUFFICES ASSUME ~done, errors = 0
               PROVE  /\ visited' \subseteq scanned' \cup ToSet(queue') \cup pending'
                      /\ \A a \in fetched : a > cutoff' => Parents[a] \subseteq visited'
    BY <1>3 DEF WalkedThrough, BlockAdded
  <2>1. b \in Blocks
    BY <1>0, <1>3, NotifiedBlock
  <2>2. /\ visited' = (IF seeded THEN seen ELSE seen \cup Parents[b]) /\ scanned' = scanned \cup {b}
        /\ Pumped(q, pending, bulk, c) /\ cutoff' = c
    BY <1>3 DEF BlockAdded
  <2> HIDE DEF b
  <2>3. seen = visited \cup {b} /\ seen \in SUBSET Blocks
    BY <1>0, <2>1 DEF SeenLive, TypeOK
  <2>4. q \in Seq(Blocks) /\ ToSet(q) = IF seeded THEN ToSet(queue) ELSE ToSet(queue) \cup (Parents[b] \ seen)
    BY <1>0, <2>1, <2>3, QueuedIs DEF TypeOK
  <2>5. cutoff = c \/ (cutoff = -1 /\ c >= 0)
    <3>1. b \in Int /\ Window \in Nat
      BY <2>1, BackfillAssumption DEF Blocks
    <3>2. Larger(b - Window, 0) >= 0
      BY <3>1 DEF Larger
    <3> QED BY <3>2 DEF SeedCutoff, Unset
  <2>6. c \in Int /\ cutoff \in Int /\ fetched \subseteq Int
    <3>1. c = cutoff \/ c = Larger(b - Window, 0)
      BY DEF SeedCutoff
    <3>2. b \in Int /\ Window \in Nat /\ cutoff \in Int /\ fetched \subseteq Int
      BY <1>0, <2>1, BackfillAssumption DEF TypeOK, Blocks, Unset
    <3>3. Larger(b - Window, 0) \in Int
      BY <3>2 DEF Larger
    <3> QED BY <3>1, <3>2, <3>3
  <2> HIDE DEF q, c
  <2>7. visited' \subseteq scanned' \cup ToSet(q) \cup pending
    BY <2>2, <2>3, <2>4 DEF WalkedThrough
  <2>8. visited' \subseteq scanned' \cup ToSet(queue') \cup pending'
    BY <1>2, <2>2, <2>4, <2>7
  <2>9. ASSUME NEW a \in fetched, a > c PROVE Parents[a] \subseteq visited
    <3>1. a > cutoff
      BY <2>5, <2>6, <2>9
    <3> QED BY <3>1 DEF WalkedThrough
  <2> QED BY <2>2, <2>3, <2>8, <2>9
<1>4. CASE FirstTemplate
  <2>1. Pumped(queue, pending, TRUE, cutoff) /\ UNCHANGED <<done, errors, scanned, visited, fetched, cutoff>>
    BY <1>4 DEF FirstTemplate
  <2> QED BY <1>0, <1>2, <2>1 DEF WalkedThrough, TypeOK
<1>5. ASSUME NEW b \in Blocks, Fetched(b) PROVE WalkedThrough'
  <2> DEFINE on == b > cutoff
             q == IF on THEN Queued(queue, visited, b) ELSE queue
             seen == IF on THEN visited \cup Parents[b] ELSE visited
  <2>1. /\ b \in pending /\ (~done' => ~done /\ visited' = seen)
        /\ Pumped(q, pending \ {b}, bulk, cutoff) /\ scanned' = scanned \cup {b}
        /\ fetched' = fetched \cup {b} /\ UNCHANGED <<cutoff, errors>>
    BY <1>5 DEF Fetched
  <2>2. /\ q \in Seq(Blocks)
        /\ ToSet(q) = IF on THEN ToSet(queue) \cup (Parents[b] \ visited) ELSE ToSet(queue)
    BY <1>0, QueuedIs DEF TypeOK
  <2> HIDE DEF q
  <2>3. ASSUME ~done', errors = 0 PROVE visited' \subseteq scanned' \cup ToSet(q) \cup (pending \ {b})
    BY <2>1, <2>2, <2>3 DEF WalkedThrough
  <2>4. ASSUME ~done', errors = 0 PROVE visited' \subseteq scanned' \cup ToSet(queue') \cup pending'
    BY <1>2, <2>1, <2>2, <2>3, <2>4
  <2>5. ASSUME ~done', errors = 0, NEW a \in fetched', a > cutoff PROVE Parents[a] \subseteq visited'
    BY <2>1, <2>5 DEF WalkedThrough
  <2> QED BY <2>1, <2>4, <2>5 DEF WalkedThrough
<1>6. ASSUME NEW b \in Blocks, FetchFailed(b) PROVE WalkedThrough'
  <2>1. errors' # 0
    BY <1>0, <1>6 DEF FetchFailed
  <2> QED BY <2>1 DEF WalkedThrough
<1>7. CASE Disconnect
  <2>1. /\ queue' = Unanswered(pending) \o queue /\ pending' = {}
        /\ UNCHANGED <<done, errors, scanned, visited, fetched, cutoff>>
    BY <1>7 DEF Disconnect
  <2>2. ToSet(queue') = ToSet(queue) \cup pending
    BY <1>0, <2>1, UnansweredIs DEF TypeOK
  <2> QED BY <2>1, <2>2 DEF WalkedThrough
<1> QED
  BY <1>1, <1>3, <1>4, <1>5, <1>6, <1>7 DEF Next, NewBlock, Connect, vars, walkVars

\* When the first walk ends without an error, through any number of lost connections,
\* all that it came by is scanned: the parents of the first block of each connection
\* and those of every block above the cutoff that it fetched, on any graph of blocks.
THEOREM TheWalkMissesNothing == Spec => FetchedIsWalked
<1>1. ASSUME WalkInv, WalkedThrough, [Next]_vars
      PROVE  [~done /\ done' /\ errors = 0 =>
                /\ visited \subseteq scanned'
                /\ \A b \in fetched' : b > cutoff => Parents[b] \subseteq scanned']_vars
  <2> SUFFICES ASSUME ~done, done', errors = 0
               PROVE  /\ visited \subseteq scanned'
                      /\ \A b \in fetched' : b > cutoff => Parents[b] \subseteq scanned'
    OBVIOUS
  <2>1. PICK a \in Blocks : Fetched(a) /\ Over(IF a > cutoff THEN Queued(queue, visited, a) ELSE queue, a)
    BY <1>1 DEF Next, NewBlock, BlockAdded, FirstTemplate, Fetched, FetchFailed, Disconnect, Connect,
       vars, walkVars
  <2> DEFINE on == a > cutoff
             q == IF on THEN Queued(queue, visited, a) ELSE queue
  <2>2. q = <<>> /\ pending = {a} /\ scanned' = scanned \cup {a} /\ fetched' = fetched \cup {a}
    BY <2>1 DEF Over, Fetched
  <2>3. ToSet(q) = IF on THEN ToSet(queue) \cup (Parents[a] \ visited) ELSE ToSet(queue)
    BY <1>1, QueuedIs DEF WalkInv, TypeOK
  <2>4. ToSet(q) = {}
    BY <2>2 DEF ToSet
  <2> HIDE DEF q
  <2>5. ToSet(queue) = {} /\ (on => Parents[a] \subseteq visited)
    BY <2>3, <2>4
  <2>6. visited \subseteq scanned'
    BY <1>1, <2>2, <2>5 DEF WalkedThrough
  <2> QED BY <1>1, <2>2, <2>5, <2>6 DEF WalkedThrough
<1>2. Init => WalkedThrough
  BY DEF Init, WalkedThrough
<1>3. WalkInv /\ WalkedThrough /\ [Next]_vars => WalkedThrough'
  BY WalkedThroughStays
<1> QED BY <1>1, <1>2, <1>3, WalkStarts, WalkKeeps, PTL DEF Spec, FetchedIsWalked

===============================================================================
