---------------------------- MODULE EscrowProofs ----------------------------
(***************************************************************************)
(* The ledger of the escrow watcher stays sound, for every set of blocks   *)
(* and outputs and every value of the constants: the entries, the index of *)
(* their blocks, the outputs that are known and those in flight agree      *)
(* after every message, compaction and reconnect.                          *)
(*                                                                         *)
(* Two relations carry the proof.  Booked relates a vector of entries to   *)
(* its outputs and its index; Apart relates the claims in flight to their  *)
(* outputs.  Each of the changes the watcher makes to a vector (ageing,    *)
(* healing, slashing, answering, retaining, appending) keeps Booked, and   *)
(* the selection of a batch, which is a scan that fills a set, yields a    *)
(* claim that keeps Apart.  A second theorem is of what is claimed: only   *)
(* an acceptance claims entries, and the node accepts before it says so.   *)
(***************************************************************************)
EXTENDS EscrowSystem, FiniteSetTheorems, SequenceTheorems, WellFoundedInduction, FunctionTheorems, TLAPS

Fields == {"o", "claimed", "slashed", "dead", "oret", "retry", "sret", "cap", "capAt", "conf"}

\* What the ledger needs of an entry.
IsEntry(e) ==
    /\ e = [x \in Fields |-> e[x]]
    /\ e.o \in Outpoint /\ e.claimed \in BOOLEAN /\ e.slashed \in BOOLEAN

Vector(es) == es \in Seq(ToSet(es)) /\ \A i \in 1..Len(es) : IsEntry(es[i])

\* An output has at most one live entry.
OneLive(es) == \A i, j \in 1..Len(es) : Live(es[i]) /\ Live(es[j]) /\ es[i].o = es[j].o => i = j

\* The entries of a vector, the outputs listed and the index of blocks agree.
Booked(es, listed, index) ==
    /\ Vector(es)
    /\ index \in [Block -> SUBSET Nat]
    /\ \A b \in Block : \A i \in index[b] : i \in 1..Len(es) /\ BlockOf[es[i].o] = b
    /\ \A i \in 1..Len(es) : Live(es[i]) /\ BlockOf[es[i].o] # NoBlock => i \in index[BlockOf[es[i].o]]
    /\ OneLive(es)
    /\ \A i \in 1..Len(es) : Live(es[i]) => es[i].o \in listed

\* The claims of a flight share no output, and busy holds theirs.
Apart(flight, busy) ==
    /\ \A c \in flight : c = [outs |-> c.outs, at |-> c.at]
    /\ busy = UNION {ToSet(c.outs) : c \in flight}
    /\ \A c, d \in flight : c # d => ToSet(c.outs) \cap ToSet(d.outs) = {}
    /\ \A c \in flight : Cardinality(ToSet(c.outs)) = Len(c.outs)

\* What the node says of a claim.
Kinds == {"ok", "duplicate", "orphan", "seqlock", "burned", "other"}

\* Messages on their way are about blocks, or tell what became of a claim.
Messages ==
    /\ notes \in Seq([removed : SUBSET Block, added : SUBSET Block])
    /\ fetching \subseteq Block
    /\ answers \subseteq [b : Block, onChain : BOOLEAN]
    /\ \A r \in replies : r.kind \in Kinds

\* The inductive invariant.
LedgerInv ==
    Booked(entries, outpointSet, blockIndex) /\ Apart(inFlight, inFlightOutpoints) /\ Messages

-----------------------------------------------------------------------------
\* Vectors of entries.

\* The indices of a vector, and the outputs of its entries.
LEMMA VectorIs ==
    ASSUME NEW es, Vector(es)
    PROVE  /\ Len(es) \in Nat /\ DOMAIN es = 1..Len(es)
           /\ \A i \in DOMAIN es : IsEntry(es[i]) /\ es[i].o \in Outpoint
<1>1. es \in Seq(ToSet(es)) /\ \A i \in 1..Len(es) : IsEntry(es[i])
  BY DEF Vector
<1>2. Len(es) \in Nat /\ DOMAIN es = 1..Len(es)
  BY <1>1, LenProperties
<1> QED BY <1>1, <1>2 DEF IsEntry

\* A function on 1..n that gives entries is a vector.
LEMMA MakeVector ==
    ASSUME NEW n \in Nat, NEW f, f = [i \in 1..n |-> f[i]], \A i \in 1..n : IsEntry(f[i])
    PROVE  Vector(f) /\ Len(f) = n
<1>1. DOMAIN f = 1..n
  OBVIOUS
<1>2. ToSet(f) = {f[i] : i \in 1..n}
  BY <1>1 DEF ToSet
<1>3. f \in [1..n -> ToSet(f)]
  BY <1>2
<1>4. f \in Seq(ToSet(f))
  BY <1>3, IsASeq
<1>5. Len(f) = n
  BY <1>1, <1>4, LenProperties
<1> QED BY <1>4, <1>5 DEF Vector

\* A vector with the same outputs, in which nothing came to life.
Follows(new, es) ==
    /\ Vector(new) /\ Len(new) = Len(es)
    /\ \A i \in 1..Len(es) : new[i].o = es[i].o /\ (Live(new[i]) => Live(es[i]))

\* Changing entries, reviving none, keeps the books.
LEMMA FollowsKeeps ==
    ASSUME NEW es, NEW listed, NEW index, NEW new, Booked(es, listed, index), Follows(new, es)
    PROVE  Booked(new, listed, index)
<1>1. OneLive(new)
  BY DEF Booked, Follows, OneLive
<1> QED BY <1>1, VectorIs DEF Booked, Follows

\* Changing entries one by one.
LEMMA MapFollows ==
    ASSUME NEW es, Vector(es), NEW new, new = [i \in DOMAIN es |-> new[i]],
           \A i \in DOMAIN es : IsEntry(new[i]) /\ new[i].o = es[i].o /\ (Live(new[i]) => Live(es[i]))
    PROVE  Follows(new, es)
<1>1. Len(es) \in Nat /\ DOMAIN es = 1..Len(es)
  BY VectorIs
<1>2. Vector(new) /\ Len(new) = Len(es)
  BY <1>1, MakeVector
<1> QED BY <1>1, <1>2 DEF Follows

\* Ageing changes no output and revives nothing.
LEMMA AgedFollows == ASSUME NEW es, Vector(es) PROVE Follows(Aged(es), es)
<1>1. \A i \in DOMAIN es : IsEntry(es[i])
  BY VectorIs
<1>2. \A e : IsEntry(e) => IsEntry(AgedEntry(e)) /\ AgedEntry(e).o = e.o /\ (Live(AgedEntry(e)) => Live(e))
  <2> SUFFICES ASSUME NEW e, IsEntry(e) PROVE IsEntry(AgedEntry(e)) /\ AgedEntry(e).o = e.o /\ (Live(AgedEntry(e)) => Live(e))
    OBVIOUS
  <2>1. IsEntry(AgedEntry(e)) /\ AgedEntry(e).o = e.o
    BY DEF IsEntry, AgedEntry, Fields
  <2>2. AgedEntry(e).claimed = e.claimed /\ AgedEntry(e).slashed = e.slashed
    BY DEF IsEntry, AgedEntry, Fields
  <2> QED BY <2>1, <2>2 DEF Live
<1>3. Aged(es) = [i \in DOMAIN es |-> AgedEntry(es[i])]
  BY DEF Aged
<1> HIDE DEF Aged
<1>4. Aged(es) = [i \in DOMAIN es |-> Aged(es)[i]] /\ \A i \in DOMAIN es : Aged(es)[i] = AgedEntry(es[i])
  BY <1>3
<1> QED BY <1>1, <1>2, <1>4, MapFollows

\* Nor does the expiry of repair verdicts (heal in find_claim).
LEMMA HealedFollows == ASSUME NEW es, NEW now, Vector(es) PROVE Follows(HealedAll(es, now), es)
<1>1. \A i \in DOMAIN es : IsEntry(es[i])
  BY VectorIs
<1>2. \A e : IsEntry(e) => IsEntry(Healed(e, now)) /\ Healed(e, now).o = e.o /\ (Live(Healed(e, now)) => Live(e))
  <2> SUFFICES ASSUME NEW e, IsEntry(e)
               PROVE  IsEntry(Healed(e, now)) /\ Healed(e, now).o = e.o /\ (Live(Healed(e, now)) => Live(e))
    OBVIOUS
  <2>1. IsEntry(Healed(e, now)) /\ Healed(e, now).o = e.o
    BY DEF IsEntry, Healed, Fields
  <2>2. Healed(e, now).claimed = e.claimed /\ Healed(e, now).slashed = e.slashed
    BY DEF IsEntry, Healed, Fields
  <2> QED BY <2>1, <2>2 DEF Live
<1>3. HealedAll(es, now) = [i \in DOMAIN es |-> Healed(es[i], now)]
  BY DEF HealedAll
<1> HIDE DEF HealedAll
<1>4. /\ HealedAll(es, now) = [i \in DOMAIN es |-> HealedAll(es, now)[i]]
      /\ \A i \in DOMAIN es : HealedAll(es, now)[i] = Healed(es[i], now)
  BY <1>3
<1> QED BY <1>1, <1>2, <1>4, MapFollows

\* Nor does slashing, whatever the indices.
LEMMA SlashedFollows == ASSUME NEW es, NEW I, Vector(es) PROVE Follows(Slashed(es, I), es)
<1>1. \A i \in DOMAIN es : IsEntry(es[i])
  BY VectorIs
<1> DEFINE new(e) == [e EXCEPT !.slashed = TRUE]
<1>2. \A e : IsEntry(e) => IsEntry(new(e)) /\ new(e).o = e.o /\ ~Live(new(e))
  BY DEF IsEntry, Fields, Live
<1>3. \A i \in DOMAIN es : Slashed(es, I)[i] \in {es[i], new(es[i])}
  BY DEF Slashed
<1>4. Slashed(es, I) = [i \in DOMAIN es |-> Slashed(es, I)[i]]
  BY DEF Slashed
<1> HIDE DEF Slashed, new
<1>5. \A i \in DOMAIN es : /\ IsEntry(Slashed(es, I)[i]) /\ Slashed(es, I)[i].o = es[i].o
                           /\ Live(Slashed(es, I)[i]) => Live(es[i])
  BY <1>1, <1>2, <1>3
<1> QED BY <1>4, <1>5, MapFollows

-----------------------------------------------------------------------------
\* Ranks.

\* The place of i among S, by key.
Rank(S, key, i) == Cardinality({j \in S : key[j] <= key[i]})

HasNth(S, key, n) == \E i \in S : Rank(S, key, i) = n

\* The members of S have different keys, up to m.
Keyed(S, key, m) ==
    (\A i \in S : key[i] \in 1..m) /\ (\A i, j \in S : key[i] = key[j] => i = j)

\* A set whose members have different keys has an n-th member by key.
LEMMA RankIs ==
    ASSUME NEW m \in Nat, NEW S, IsFiniteSet(S), NEW key, Keyed(S, key, m),
           NEW n \in 1..Cardinality(S)
    PROVE  HasNth(S, key, n)
<1> USE DEF Keyed
<1> DEFINE Upto(v) == {j \in S : key[j] <= v}
           T == {v \in Nat : Cardinality(Upto(v)) >= n}
<1>1. Cardinality(S) \in Nat /\ n \in Nat /\ n >= 1
  BY FS_CardinalityType
<1>2. \A v : IsFiniteSet(Upto(v)) /\ Cardinality(Upto(v)) \in Nat
  <2> SUFFICES ASSUME NEW v PROVE IsFiniteSet(Upto(v)) /\ Cardinality(Upto(v)) \in Nat
    OBVIOUS
  <2>1. Upto(v) \in SUBSET S
    OBVIOUS
  <2> HIDE DEF Upto
  <2> QED BY <2>1, FS_Subset, FS_CardinalityType
<1>3. Upto(m) = S
  OBVIOUS
<1>4. T # {}
  <2>1. Cardinality(Upto(m)) >= n
    <3> HIDE DEF Upto
    <3> QED BY <1>1, <1>3
  <2> HIDE DEF Upto
  <2> QED BY <2>1
<1>5. PICK k \in T : \A i \in T : ~(<<i, k>> \in OpToRel(<, Nat))
  <2>1. T \subseteq Nat
    OBVIOUS
  <2> HIDE DEF T
  <2> QED BY <1>4, <2>1, NatLessThanWellFounded, WFMin, Zenon
<1>5a. k \in Nat /\ Cardinality(Upto(k)) >= n
  OBVIOUS
<1>6. \A i \in Nat : i < k => Cardinality(Upto(i)) < n
  <2> SUFFICES ASSUME NEW i \in Nat, i < k, ~(Cardinality(Upto(i)) < n) PROVE FALSE
    OBVIOUS
  <2>1. Cardinality(Upto(i)) >= n
    <3> HIDE DEF Upto
    <3> QED BY <1>2
  <2>2. i \in T /\ k \in Nat
    BY <2>1
  <2> QED BY <1>5, <2>2 DEF OpToRel
<1>7. k # 0
  <2>1. \A j \in S : ~(key[j] <= 0)
    OBVIOUS
  <2>2. Upto(0) = {}
    BY <2>1
  <2>3. Cardinality(Upto(0)) = 0
    BY <2>2, FS_EmptySet
  <2>4. SUFFICES ASSUME k = 0 PROVE FALSE
    OBVIOUS
  <2>5. Cardinality(Upto(0)) >= n
    <3> HIDE DEF Upto
    <3> QED BY <1>5a, <2>4
  <2> HIDE DEF Upto
  <2> QED BY <1>1, <2>3, <2>5
<1>8. k - 1 \in Nat /\ k - 1 < k /\ k \in Nat /\ Cardinality(Upto(k)) >= n
  BY <1>7
<1>9. Cardinality(Upto(k - 1)) < n
  BY <1>6, <1>8
<1>10. \A j \in S : key[j] <= k <=> key[j] <= k - 1 \/ key[j] = k
  BY <1>8
<1>11. PICK i \in S : key[i] = k
  <2> SUFFICES ASSUME \A j \in S : key[j] # k PROVE FALSE
    OBVIOUS
  <2>1. Upto(k) = Upto(k - 1)
    BY <1>10
  <2> HIDE DEF Upto
  <2> QED BY <1>1, <1>2, <1>8, <1>9, <2>1
<1>12. Upto(k) = Upto(k - 1) \cup {i} /\ i \notin Upto(k - 1)
  <2>1. key[i] <= k /\ ~(key[i] <= k - 1)
    BY <1>8, <1>11
  <2> QED BY <1>10, <1>11, <2>1
<1>13. Cardinality(Upto(k)) = Cardinality(Upto(k - 1)) + 1
  <2> HIDE DEF Upto
  <2> QED BY <1>2, <1>12, FS_AddElement
<1>14. Cardinality(Upto(k)) = n
  <2> HIDE DEF Upto
  <2> QED BY <1>1, <1>2, <1>8, <1>9, <1>13
<1>15. Rank(S, key, i) = Cardinality(Upto(k))
  BY <1>11 DEF Rank
<1> QED BY <1>11, <1>14, <1>15 DEF HasNth

\* The entries that are retained, and where they were.
LEMMA RetainedIs ==
    ASSUME NEW es, Vector(es)
    PROVE  /\ Vector(Retained(es))
           /\ \E nth : /\ \A n \in 1..Len(Retained(es)) : nth[n] \in 1..Len(es) /\ Retained(es)[n] = es[nth[n]]
                       /\ \A m, n \in 1..Len(Retained(es)) : nth[m] = nth[n] => m = n
           /\ \A i \in 1..Len(es) : Live(es[i]) => \E n \in 1..Len(Retained(es)) : Retained(es)[n] = es[i]
<1> DEFINE keep == {i \in DOMAIN es : Live(es[i])}
           size == Cardinality(keep)
           Is(i, n) == Cardinality({j \in keep : j <= i}) = n
           nth == [n \in 1..size |-> CHOOSE i \in keep : Is(i, n)]
           key == [i \in keep |-> i]
<1>1. Len(es) \in Nat /\ DOMAIN es = 1..Len(es) /\ \A i \in DOMAIN es : IsEntry(es[i])
  BY VectorIs
<1>2. keep \in SUBSET (1..Len(es)) /\ IsFiniteSet(keep) /\ size \in Nat
  <2>1. keep \in SUBSET (1..Len(es)) /\ IsFiniteSet(1..Len(es))
    BY <1>1, FS_Interval
  <2> HIDE DEF keep
  <2> QED BY <2>1, FS_Subset, FS_CardinalityType
<1>3. \A n \in 1..size : \E i \in keep : Is(i, n)
  <2> SUFFICES ASSUME NEW n \in 1..size PROVE \E i \in keep : Is(i, n)
    OBVIOUS
  <2> HIDE DEF keep
  <2>1. \A i \in keep : key[i] \in 1..Len(es) /\ key[i] = i
    BY <1>2
  <2> HIDE DEF key
  <2>2. PICK i \in keep : Rank(keep, key, i) = n
    <3>1. Keyed(keep, key, Len(es))
      BY <2>1 DEF Keyed
    <3>2. Len(es) \in Nat /\ IsFiniteSet(keep) /\ n \in 1..Cardinality(keep)
      BY <1>1, <1>2
    <3> HIDE DEF keep, key
    <3>3. HasNth(keep, key, n)
      BY <3>1, <3>2, RankIs
    <3> QED BY <3>3 DEF HasNth
  <2>3. {j \in keep : key[j] <= key[i]} = {j \in keep : j <= i}
    BY <2>1
  <2> QED BY <2>2, <2>3 DEF Rank
<1>4. \A n \in 1..size : nth[n] \in keep /\ Is(nth[n], n)
  <2> HIDE DEF keep, Is, size
  <2> SUFFICES ASSUME NEW n \in 1..size PROVE nth[n] \in keep /\ Is(nth[n], n)
    OBVIOUS
  <2>1. nth[n] = CHOOSE i \in keep : Is(i, n)
    OBVIOUS
  <2> QED BY <1>3, <2>1, Zenon
<1>5. Retained(es) = [n \in 1..size |-> es[nth[n]]]
  BY DEF Retained
<1>6. \A m, n \in 1..size : nth[m] = nth[n] => m = n
  <2> SUFFICES ASSUME NEW m \in 1..size, NEW n \in 1..size, nth[m] = nth[n] PROVE m = n
    OBVIOUS
  <2>1. Is(nth[m], m) /\ Is(nth[m], n)
    <3> HIDE DEF Is, nth, size
    <3> QED BY <1>4
  <2> HIDE DEF nth, keep, size
  <2> QED BY <2>1
<1> HIDE DEF nth, Is, size
<1>7. Vector(Retained(es)) /\ Len(Retained(es)) = size
  <2>1. Retained(es) = [n \in 1..size |-> Retained(es)[n]] /\ \A n \in 1..size : IsEntry(Retained(es)[n])
    <3>1. \A n \in 1..size : nth[n] \in DOMAIN es
      BY <1>4
    <3> HIDE DEF keep
    <3> QED BY <1>1, <1>5, <3>1
  <2> HIDE DEF keep
  <2> QED BY <1>2, <2>1, MakeVector
<1>8. \A n \in 1..size : nth[n] \in 1..Len(es) /\ Retained(es)[n] = es[nth[n]]
  BY <1>1, <1>4, <1>5
<1>9. ASSUME NEW i \in 1..Len(es), Live(es[i]) PROVE \E n \in 1..size : Retained(es)[n] = es[i]
  <2> DEFINE n == Cardinality({j \in keep : j <= i})
  <2>1. i \in keep
    BY <1>1, <1>9
  <2>2. n \in 1..size
    <3> DEFINE U == {j \in keep : j <= i}
    <3>1. U \in SUBSET keep /\ i \in U
      BY <1>1, <2>1
    <3> HIDE DEF keep, U
    <3>2. IsFiniteSet(U) /\ Cardinality(U) <= size /\ Cardinality(U) \in Nat
      BY <1>2, <3>1, FS_Subset, FS_CardinalityType DEF size
    <3>3. Cardinality(U) # 0
      BY <3>1, <3>2, FS_EmptySet
    <3> QED BY <1>2, <3>2, <3>3 DEF U
  <2>3. nth[n] = i
    <3> DEFINE k == nth[n]
               A == {j \in keep : j <= i}
               B == {j \in keep : j <= k}
    <3>1. k \in keep /\ Cardinality(B) = Cardinality(A)
      <4> HIDE DEF n, keep
      <4>1. k \in keep /\ Is(k, n)
        BY <1>4, <2>2
      <4> QED BY <4>1 DEF Is, n
    <3> HIDE DEF k, n
    <3>2. IsFiniteSet(A) /\ IsFiniteSet(B)
      <4>1. A \in SUBSET keep /\ B \in SUBSET keep
        OBVIOUS
      <4> HIDE DEF keep, A, B
      <4> QED BY <1>2, <4>1, FS_Subset
    <3>3. k \in Nat /\ i \in Nat /\ k \in B /\ i \in A /\ \A j \in keep : j \in Nat
      BY <1>1, <1>2, <2>1, <3>1
    <3>4. A \subseteq B \/ B \subseteq A
      BY <3>3
    <3>5. A = B
      <4> HIDE DEF A, B, keep
      <4>1. CASE A \subseteq B
        BY <3>1, <3>2, <4>1, FS_Subset
      <4>2. CASE B \subseteq A
        BY <3>1, <3>2, <4>2, FS_Subset
      <4> QED BY <3>4, <4>1, <4>2
    <3>6. k <= i /\ i <= k
      BY <3>3, <3>5
    <3>7. k = i
      BY <3>3, <3>6
    <3> QED BY <3>7 DEF k
  <2> HIDE DEF n
  <2> QED BY <1>8, <2>2, <2>3
<1>10. /\ \A n \in 1..Len(Retained(es)) : nth[n] \in 1..Len(es) /\ Retained(es)[n] = es[nth[n]]
       /\ \A m, n \in 1..Len(Retained(es)) : nth[m] = nth[n] => m = n
  BY <1>6, <1>7, <1>8
<1> QED BY <1>7, <1>9, <1>10

-----------------------------------------------------------------------------
\* The batch of a claim.

\* The place of an entry in the scan.
ScanKey(es, pass, i) == IF pass = 0 /\ es[i].o \notin Inference THEN i + Len(es) ELSE i

\* The scan of select_claim_batch goes by these keys, which are different.
LEMMA ScanKeyIs ==
    ASSUME NEW es, Vector(es), NEW pass
    PROVE  /\ \A i \in 1..Len(es) : ScanKey(es, pass, i) \in 1..2 * Len(es)
           /\ \A i, j \in 1..Len(es) :
                /\ ScannedBefore(es, pass, i, j) <=> ScanKey(es, pass, i) < ScanKey(es, pass, j)
                /\ ScanKey(es, pass, i) = ScanKey(es, pass, j) => i = j
<1>1. Len(es) \in Nat
  BY VectorIs
<1>2. ASSUME NEW i \in 1..Len(es), NEW j \in 1..Len(es)
      PROVE  /\ ScannedBefore(es, pass, i, j) <=> ScanKey(es, pass, i) < ScanKey(es, pass, j)
             /\ ScanKey(es, pass, i) = ScanKey(es, pass, j) => i = j
  <2>1. CASE pass = 0 /\ es[i].o \in Inference /\ es[j].o \notin Inference
    BY <1>1, <2>1 DEF ScannedBefore, ScanKey
  <2>2. CASE pass = 0 /\ es[i].o \notin Inference /\ es[j].o \in Inference
    BY <1>1, <2>2 DEF ScannedBefore, ScanKey
  <2>3. CASE pass = 0 /\ es[i].o \notin Inference /\ es[j].o \notin Inference
    BY <1>1, <2>3 DEF ScannedBefore, ScanKey
  <2>4. CASE pass = 0 /\ es[i].o \in Inference /\ es[j].o \in Inference
    BY <1>1, <2>4 DEF ScannedBefore, ScanKey
  <2>5. CASE pass # 0
    BY <1>1, <2>5 DEF ScannedBefore, ScanKey
  <2> QED BY <2>1, <2>2, <2>3, <2>4, <2>5
<1>3. \A i \in 1..Len(es) : ScanKey(es, pass, i) \in 1..2 * Len(es)
  BY <1>1 DEF ScanKey
<1> QED BY <1>2, <1>3

\* What the scan collects is determined, entry by entry.
LEMMA FilledIs ==
    ASSUME NEW es, Vector(es), NEW pass, NEW pool \in SUBSET (1..Len(es))
    PROVE  Filled(es, pass, pool) \in SUBSET pool
<1> DEFINE Key(i) == ScanKey(es, pass, i)
           Earlier(S, i) == {j \in S : ScannedBefore(es, pass, j, i)}
           Upto(S, n) == \A i \in pool : Key(i) < n => (i \in S <=> Joins(es, Earlier(S, i), i))
           Within(S, n) == \A i \in S : Key(i) < n
           Bad == {n \in Nat : ~ \E S \in SUBSET pool : Within(S, n) /\ Upto(S, n)}
<1>1. Len(es) \in Nat
  BY VectorIs
<1>2. \A i \in pool : Key(i) \in Nat /\ 0 < Key(i) /\ Key(i) < 2 * Len(es) + 1
  BY <1>1, ScanKeyIs
<1>3. \A i, j \in pool : (ScannedBefore(es, pass, i, j) <=> Key(i) < Key(j)) /\ (Key(i) = Key(j) => i = j)
  BY ScanKeyIs
<1> HIDE DEF Key
<1>4. ASSUME NEW n \in Nat, NEW S \in SUBSET pool, Within(S, n), Upto(S, n)
      PROVE  \E R \in SUBSET pool : Within(R, n + 1) /\ Upto(R, n + 1)
  <2>1. CASE \A i \in pool : Key(i) = n => ~Joins(es, Earlier(S, i), i)
    <3>1. Within(S, n + 1)
      BY <1>2, <1>4
    <3>2. ASSUME NEW i \in pool, Key(i) < n + 1 PROVE i \in S <=> Joins(es, Earlier(S, i), i)
      <4>1. CASE Key(i) < n
        BY <1>4, <4>1
      <4>2. CASE Key(i) = n
        <5>1. i \notin S
          BY <1>2, <1>4, <4>2
        <5>2. ~Joins(es, Earlier(S, i), i)
          BY <2>1, <4>2
        <5> QED BY <5>1, <5>2
      <4> QED BY <1>2, <3>2, <4>1, <4>2
    <3>3. Upto(S, n + 1)
      <4> HIDE DEF Earlier
      <4> QED BY <3>2
    <3> HIDE DEF Within, Upto
    <3> QED BY <3>1, <3>3
  <2>2. CASE \E i \in pool : Key(i) = n /\ Joins(es, Earlier(S, i), i)
    <3>1. PICK x \in pool : Key(x) = n /\ Joins(es, Earlier(S, x), x)
      BY <2>2
    <3> DEFINE R == S \cup {x}
    <3>2. Within(R, n + 1) /\ R \in SUBSET pool
      BY <1>2, <1>4, <3>1
    <3>3. ASSUME NEW i \in pool, Key(i) < n + 1 PROVE i \in R <=> Joins(es, Earlier(R, i), i)
      <4>1. ~ScannedBefore(es, pass, x, i)
        BY <1>2, <1>3, <3>1, <3>3
      <4>2. Earlier(R, i) = Earlier(S, i)
        BY <4>1
      <4>3. CASE Key(i) < n
        <5>1. i # x
          BY <1>2, <3>1, <4>3
        <5>2. i \in S <=> Joins(es, Earlier(S, i), i)
          BY <1>4, <4>3
        <5> HIDE DEF Earlier
        <5> QED BY <4>2, <5>1, <5>2
      <4>4. CASE Key(i) = n
        <5>1. i = x
          BY <1>3, <3>1, <4>4
        <5> HIDE DEF Earlier
        <5> QED BY <3>1, <4>2, <5>1
      <4> QED BY <1>2, <3>3, <4>3, <4>4
    <3>4. Upto(R, n + 1)
      <4> HIDE DEF Earlier, R
      <4> QED BY <3>3
    <3> HIDE DEF Within, Upto, R
    <3> QED BY <3>2, <3>4
  <2> QED BY <2>1, <2>2
<1>5. 0 \notin Bad
  <2>1. Within({}, 0)
    OBVIOUS
  <2>2. Upto({}, 0)
    BY <1>2
  <2>3. {} \in SUBSET pool
    OBVIOUS
  <2> HIDE DEF Within, Upto
  <2> QED BY <2>1, <2>2, <2>3
<1>6. \A n \in Nat : n + 1 \in Bad => n \in Bad
  <2> HIDE DEF Within, Upto
  <2> QED BY <1>4
<1>7. Bad = {}
  <2> SUFFICES ASSUME Bad # {} PROVE FALSE
    OBVIOUS
  <2>1. Bad \subseteq Nat
    OBVIOUS
  <2> HIDE DEF Bad
  <2>2. PICK k \in Bad : \A i \in Bad : ~(<<i, k>> \in OpToRel(<, Nat))
    BY <2>1, NatLessThanWellFounded, WFMin, Zenon
  <2>3. k \in Nat /\ k # 0
    BY <1>5, <2>1
  <2>4. k - 1 \in Nat /\ k - 1 < k /\ (k - 1) + 1 = k
    BY <2>3
  <2>5. k - 1 \in Bad
    BY <1>6, <2>4
  <2> QED BY <2>2, <2>3, <2>4, <2>5 DEF OpToRel
<1>8. PICK S \in SUBSET pool : Within(S, 2 * Len(es) + 1) /\ Upto(S, 2 * Len(es) + 1)
  <2>1. 2 * Len(es) + 1 \in Nat
    BY <1>1
  <2> HIDE DEF Within, Upto
  <2> QED BY <1>7, <2>1
<1>9. \A i \in pool : i \in S <=> Joins(es, Earlier(S, i), i)
  <2> HIDE DEF Earlier
  <2> QED BY <1>2, <1>8
<1>10. \E R \in SUBSET pool : \A i \in pool : i \in R <=> Joins(es, {j \in R : ScannedBefore(es, pass, j, i)}, i)
  BY <1>9
<1> QED BY <1>10, Zenon DEF Filled

\* The members of a batch in scan order, each once.
LEMMA InScanOrderIs ==
    ASSUME NEW es, Vector(es), NEW pass, NEW S \in SUBSET (1..Len(es))
    PROVE  /\ Cardinality(S) \in Nat
           /\ InScanOrder(es, pass, S) = [n \in 1..Cardinality(S) |-> InScanOrder(es, pass, S)[n]]
           /\ \A n \in 1..Cardinality(S) : InScanOrder(es, pass, S)[n] \in S
           /\ \A m, n \in 1..Cardinality(S) :
                InScanOrder(es, pass, S)[m] = InScanOrder(es, pass, S)[n] => m = n
<1> DEFINE Is(i, n) == Cardinality({j \in S : j = i \/ ScannedBefore(es, pass, j, i)}) = n
           nth(n) == CHOOSE i \in S : Is(i, n)
           key == [i \in S |-> ScanKey(es, pass, i)]
           size == Cardinality(S)
<1>1. IsFiniteSet(S) /\ size \in Nat /\ Len(es) \in Nat
  <2>1. IsFiniteSet(1..Len(es)) /\ Len(es) \in Nat
    BY VectorIs, FS_Interval
  <2> QED BY <2>1, FS_Subset, FS_CardinalityType
<1>2. \A n \in 1..size : \E i \in S : Is(i, n)
  <2> SUFFICES ASSUME NEW n \in 1..size PROVE \E i \in S : Is(i, n)
    OBVIOUS
  <2>1. \A i \in S : key[i] = ScanKey(es, pass, i)
    OBVIOUS
  <2> HIDE DEF key
  <2>2. (\A i \in S : key[i] \in 1..2 * Len(es)) /\ (\A i, j \in S : key[i] = key[j] => i = j)
    <3>1. \A i \in S : i \in 1..Len(es)
      OBVIOUS
    <3>2. \A i \in S : key[i] \in 1..2 * Len(es)
      BY <2>1, <3>1, ScanKeyIs
    <3>3. \A i, j \in S : key[i] = key[j] => i = j
      BY <2>1, <3>1, ScanKeyIs
    <3> QED BY <3>2, <3>3
  <2>3. 2 * Len(es) \in Nat
    BY <1>1
  <2>4. PICK i \in S : Rank(S, key, i) = n
    <3>1. IsFiniteSet(S) /\ n \in 1..Cardinality(S)
      BY <1>1
    <3> DEFINE top == 2 * Len(es)
    <3>2. top \in Nat /\ Keyed(S, key, top)
      BY <2>2, <2>3 DEF Keyed
    <3> HIDE DEF size, Is, top, key
    <3>3. HasNth(S, key, n)
      BY <3>1, <3>2, RankIs
    <3> QED BY <3>3 DEF HasNth
  <2>5. \A j \in S : key[j] <= key[i] <=> j = i \/ ScannedBefore(es, pass, j, i)
    <3> SUFFICES ASSUME NEW j \in S PROVE key[j] <= key[i] <=> j = i \/ ScannedBefore(es, pass, j, i)
      OBVIOUS
    <3>1. ScannedBefore(es, pass, j, i) <=> key[j] < key[i]
      BY <2>1, ScanKeyIs
    <3>2. key[i] \in Int /\ key[j] \in Int /\ (key[i] = key[j] <=> i = j)
      BY <1>1, <2>2
    <3> QED BY <3>1, <3>2
  <2>6. {j \in S : key[j] <= key[i]} = {j \in S : j = i \/ ScannedBefore(es, pass, j, i)}
    BY <2>5
  <2> QED BY <2>4, <2>6 DEF Rank
<1>3. \A n \in 1..size : nth(n) \in S /\ Is(nth(n), n)
  <2> HIDE DEF Is, size
  <2> SUFFICES ASSUME NEW n \in 1..size PROVE nth(n) \in S /\ Is(nth(n), n)
    OBVIOUS
  <2> QED BY <1>2, Zenon
<1>4. InScanOrder(es, pass, S) = [n \in 1..size |-> nth(n)]
  BY DEF InScanOrder
<1> HIDE DEF nth, size
<1>5. ASSUME NEW m \in 1..size, NEW n \in 1..size, nth(m) = nth(n) PROVE m = n
  <2> DEFINE i == nth(m)
  <2>1. Is(i, m) /\ Is(i, n)
    <3> HIDE DEF Is
    <3> QED BY <1>3, <1>5
  <2> HIDE DEF i
  <2> QED BY <2>1
<1> HIDE DEF Is
<1>6. \A m, n \in 1..size : nth(m) = nth(n) => m = n
  BY <1>5
<1>7. \A n \in 1..size : InScanOrder(es, pass, S)[n] = nth(n)
  BY <1>4
<1>8. InScanOrder(es, pass, S) = [n \in 1..size |-> InScanOrder(es, pass, S)[n]]
  BY <1>4
<1> QED BY <1>1, <1>3, <1>6, <1>7, <1>8 DEF size

\* A claim is made of different outputs that are not in flight, and one at a time.
LEMMA ClaimsAre ==
    ASSUME NEW es, Vector(es), OneLive(es), NEW flight, NEW busy, NEW now
    PROVE  /\ \A tx \in Claims(es, flight, busy, now) :
                ToSet(tx) \cap busy = {} /\ Cardinality(ToSet(tx)) = Len(tx)
           /\ \A tx, ty \in Claims(es, flight, busy, now) : tx = ty
<1> DEFINE batch == SelectClaimBatch(es, now, busy, CurrentWindow)
           tx == [i \in DOMAIN batch |-> es[batch[i]].o]
<1>1. Claims(es, flight, busy, now) \in {{}, {tx}} /\ (Claims(es, flight, busy, now) # {} => batch # <<>>)
  BY DEF Claims
<1>2. ASSUME batch # <<>>
      PROVE  \E n \in Nat : /\ batch = [k \in 1..n |-> batch[k]]
                            /\ \A k \in 1..n : batch[k] \in 1..Len(es) /\ Eligible(es[batch[k]], now, busy)
                            /\ \A k, m \in 1..n : batch[k] = batch[m] => k = m
  <2>1. PICK c : batch = InScanOrder(es, c.pass, Batch(es, c, now, busy, CurrentWindow))
    BY <1>2 DEF SelectClaimBatch
  <2> DEFINE pool == Pool(es, c, now, busy, CurrentWindow)
             S == Batch(es, c, now, busy, CurrentWindow)
  <2>2. pool \in SUBSET (1..Len(es)) /\ \A i \in pool : Eligible(es[i], now, busy)
    BY VectorIs DEF Pool
  <2>3. S \in SUBSET pool
    <3>1. S = Filled(es, c.pass, pool)
      BY DEF Batch
    <3> HIDE DEF pool, S
    <3> QED BY <2>2, <3>1, FilledIs
  <2> HIDE DEF pool, S, batch
  <2>4. batch = InScanOrder(es, c.pass, S) /\ S \in SUBSET (1..Len(es))
    BY <2>1, <2>2, <2>3 DEF S
  <2>5. /\ Cardinality(S) \in Nat
        /\ batch = [k \in 1..Cardinality(S) |-> batch[k]]
        /\ \A k \in 1..Cardinality(S) : batch[k] \in S
        /\ \A k, m \in 1..Cardinality(S) : batch[k] = batch[m] => k = m
    BY <2>4, InScanOrderIs
  <2> QED BY <2>2, <2>3, <2>5
<1> HIDE DEF batch
<1>3. ASSUME batch # <<>> PROVE ToSet(tx) \cap busy = {} /\ Cardinality(ToSet(tx)) = Len(tx)
  <2>1. PICK n \in Nat : /\ batch = [k \in 1..n |-> batch[k]]
                         /\ \A k \in 1..n : batch[k] \in 1..Len(es) /\ Eligible(es[batch[k]], now, busy)
                         /\ \A k, m \in 1..n : batch[k] = batch[m] => k = m
    BY <1>2, <1>3
  <2>2. DOMAIN batch = 1..n
    BY <2>1
  <2>3. tx = [k \in 1..n |-> es[batch[k]].o]
    BY <2>2
  <2> HIDE DEF tx
  <2>4. /\ \A k \in 1..n : tx[k] = es[batch[k]].o /\ tx[k] \notin busy
        /\ \A k, m \in 1..n : tx[k] = tx[m] => k = m
    <3>1. ASSUME NEW k \in 1..n
          PROVE  /\ tx[k] = es[batch[k]].o /\ tx[k] \notin busy
                 /\ batch[k] \in 1..Len(es) /\ Live(es[batch[k]])
      <4>1. tx[k] = es[batch[k]].o
        BY <2>3
      <4>2. Eligible(es[batch[k]], now, busy) /\ batch[k] \in 1..Len(es)
        BY <2>1
      <4> QED BY <4>1, <4>2 DEF Eligible, Live
    <3>2. ASSUME NEW k \in 1..n, NEW m \in 1..n, tx[k] = tx[m] PROVE k = m
      <4> DEFINE x == batch[k]
                 y == batch[m]
      <4>1. /\ x \in 1..Len(es) /\ Live(es[x]) /\ tx[k] = es[x].o
            /\ y \in 1..Len(es) /\ Live(es[y]) /\ tx[m] = es[y].o
        BY <3>1
      <4> HIDE DEF x, y
      <4>2. x = y
        BY <3>2, <4>1 DEF OneLive
      <4> QED BY <2>1, <4>2 DEF x, y
    <3> QED BY <3>1, <3>2
  <2>5. ToSet(tx) = {tx[k] : k \in 1..n}
    BY <2>3 DEF ToSet
  <2>6. tx \in [1..n -> ToSet(tx)]
    BY <2>3, <2>5
  <2>7. tx \in Seq(ToSet(tx))
    BY <2>6, IsASeq
  <2>8. Len(tx) = n
    BY <2>3, <2>7, LenProperties
  <2>9. Cardinality(ToSet(tx)) = n
    <3>1. tx \in Bijection(1..n, ToSet(tx))
      BY <2>4, <2>5, <2>6 DEF Bijection, Injection, Surjection, IsInjective
    <3>2. IsFiniteSet(1..n) /\ Cardinality(1..n) = n
      BY FS_Interval
    <3> QED BY <3>1, <3>2, FS_Bijection DEF ExistsBijection
  <2> QED BY <2>4, <2>5, <2>8, <2>9
<1> HIDE DEF tx
<1> QED BY <1>1, <1>3

-----------------------------------------------------------------------------
\* Changes of the books.

\* compact rebuilds the books of the entries that are left.
LEMMA RebuiltIs ==
    ASSUME NEW es, Vector(es), OneLive(es)
    PROVE  Booked(es, OutpointsIn(es), IndexOf(es))
<1>1. Len(es) \in Nat /\ DOMAIN es = 1..Len(es) /\ \A i \in 1..Len(es) : es[i].o \in Outpoint
  BY VectorIs
<1>2. \A i \in 1..Len(es) : BlockOf[es[i].o] # NoBlock => BlockOf[es[i].o] \in Block
  BY <1>1, WatcherAssumption
<1>3. \A b \in Block : IndexOf(es)[b] = {i \in 1..Len(es) : BlockOf[es[i].o] = b}
  BY <1>1 DEF IndexOf
<1>4. IndexOf(es) \in [Block -> SUBSET Nat]
  <2>1. \A b \in Block : {i \in DOMAIN es : BlockOf[es[i].o] = b} \in SUBSET Nat
    BY <1>1
  <2> QED BY <2>1 DEF IndexOf
<1>5. \A i \in 1..Len(es) : es[i].o \in OutpointsIn(es)
  BY <1>1 DEF OutpointsIn
<1>6. \A b \in Block : \A i \in IndexOf(es)[b] : i \in 1..Len(es) /\ BlockOf[es[i].o] = b
  BY <1>3
<1>7. \A i \in 1..Len(es) : Live(es[i]) /\ BlockOf[es[i].o] # NoBlock => i \in IndexOf(es)[BlockOf[es[i].o]]
  BY <1>2, <1>3
<1> QED BY <1>4, <1>5, <1>6, <1>7 DEF Booked

\* compact keeps the books, whether or not it is due and drops anything.
LEMMA CompactedIs ==
    ASSUME NEW es, NEW due, Booked(es, outpointSet, blockIndex)
    PROVE  LET new == Compacted(es, due)
           IN  Booked(new, CompactedOutpoints(es, new), CompactedIndex(es, new))
<1> DEFINE new == Compacted(es, due)
<1>1. CASE new = es
  BY <1>1 DEF CompactedOutpoints, CompactedIndex
<1>2. CASE new # es
  <2>1. new = Retained(es)
    BY <1>2 DEF Compacted
  <2>2. Vector(es) /\ OneLive(es)
    BY DEF Booked
  <2>3. PICK nth : /\ \A n \in 1..Len(Retained(es)) : nth[n] \in 1..Len(es) /\ Retained(es)[n] = es[nth[n]]
                   /\ \A m, n \in 1..Len(Retained(es)) : nth[m] = nth[n] => m = n
    BY <2>2, RetainedIs
  <2>4. OneLive(Retained(es))
    <3> DEFINE left == Retained(es)
    <3> HIDE DEF left
    <3> SUFFICES ASSUME NEW i \in 1..Len(left), NEW j \in 1..Len(left),
                        Live(left[i]), Live(left[j]), left[i].o = left[j].o
                 PROVE  i = j
      BY DEF OneLive, left
    <3>1. /\ nth[i] \in 1..Len(es) /\ left[i] = es[nth[i]]
          /\ nth[j] \in 1..Len(es) /\ left[j] = es[nth[j]]
      BY <2>3 DEF left
    <3>2. nth[i] = nth[j]
      BY <2>2, <3>1 DEF OneLive
    <3> QED BY <2>3, <3>2 DEF left
  <2>5. Booked(Retained(es), OutpointsIn(Retained(es)), IndexOf(Retained(es)))
    BY <2>2, <2>4, RetainedIs, RebuiltIs
  <2> QED BY <1>2, <2>1, <2>5 DEF CompactedOutpoints, CompactedIndex
<1> QED BY <1>1, <1>2

\* new is es and, after it, one entry for outputs of fresh, which were not listed.
Extends(new, index2, es, listed, fresh, index) ==
    /\ Vector(new)
    /\ Len(new) >= Len(es) /\ \A i \in 1..Len(es) : new[i] = es[i]
    /\ fresh \cap listed = {}
    /\ \A i \in 1..Len(new) : i > Len(es) => new[i].o \in fresh
    /\ \A i, j \in 1..Len(new) : i > Len(es) /\ j > Len(es) /\ new[i].o = new[j].o => i = j
    /\ index2 \in [Block -> SUBSET Nat]
    /\ \A b \in Block : index2[b] =
          index[b] \cup {i \in 1..Len(new) : i > Len(es) /\ BlockOf[new[i].o] = b}

\* Entries of outputs that were not listed are added at the end.
LEMMA ExtendedIs ==
    ASSUME NEW es, NEW listed, NEW index, Booked(es, listed, index), NEW new, NEW fresh, NEW index2,
           Extends(new, index2, es, listed, fresh, index)
    PROVE  Booked(new, listed \cup fresh, index2)
<1> USE DEF Extends
<1>1. /\ Len(es) \in Nat /\ Len(new) \in Nat
      /\ \A i \in 1..Len(new) : new[i].o \in Outpoint
      /\ \A i \in 1..Len(es) : i \in 1..Len(new)
  <2>1. Len(es) \in Nat
    BY VectorIs DEF Booked
  <2>2. Len(new) \in Nat /\ \A i \in 1..Len(new) : new[i].o \in Outpoint
    BY VectorIs
  <2> QED BY <2>1, <2>2
<1>2. \A i \in 1..Len(new) : BlockOf[new[i].o] # NoBlock => BlockOf[new[i].o] \in Block
  BY <1>1, WatcherAssumption
<1>3. \A i \in 1..Len(new) : i \in 1..Len(es) \/ i > Len(es)
  BY <1>1
<1>4. \A b \in Block : \A i \in index2[b] : i \in 1..Len(new) /\ BlockOf[new[i].o] = b
  BY <1>1 DEF Booked
<1>5. \A i \in 1..Len(new) : Live(new[i]) /\ BlockOf[new[i].o] # NoBlock => i \in index2[BlockOf[new[i].o]]
  <2> SUFFICES ASSUME NEW i \in 1..Len(new), Live(new[i]), BlockOf[new[i].o] # NoBlock
               PROVE  i \in index2[BlockOf[new[i].o]]
    OBVIOUS
  <2>1. CASE i \in 1..Len(es)
    BY <1>2, <2>1 DEF Booked
  <2>2. CASE i > Len(es)
    BY <1>2, <2>2
  <2> QED BY <1>3, <2>1, <2>2
<1>6. \A i \in 1..Len(new) : Live(new[i]) => new[i].o \in listed \cup fresh
  BY <1>3 DEF Booked
<1>7. OneLive(new)
  <2> SUFFICES ASSUME NEW i \in 1..Len(new), NEW j \in 1..Len(new),
                      Live(new[i]), Live(new[j]), new[i].o = new[j].o
               PROVE  i = j
    BY DEF OneLive
  <2>1. CASE i \in 1..Len(es) /\ j \in 1..Len(es)
    BY <2>1 DEF Booked, OneLive
  <2>2. CASE i > Len(es) /\ j > Len(es)
    BY <2>2
  <2>3. CASE i \in 1..Len(es) /\ j > Len(es)
    BY <2>3 DEF Booked
  <2>4. CASE i > Len(es) /\ j \in 1..Len(es)
    BY <2>4 DEF Booked
  <2> QED BY <1>3, <2>1, <2>2, <2>3, <2>4
<1> QED BY <1>4, <1>5, <1>6, <1>7 DEF Booked

\* A freshly tracked output makes an entry.
LEMMA FreshIs == ASSUME NEW o \in Outpoint, NEW conf PROVE IsEntry(Fresh(o, conf)) /\ Fresh(o, conf).o = o
BY DEF IsEntry, Fresh, Fields

\* SetToSeq lists a finite set without repetition.
LEMMA SetToSeqIs ==
    ASSUME NEW S, IsFiniteSet(S)
    PROVE  /\ Cardinality(S) \in Nat /\ SetToSeq(S) \in [1..Cardinality(S) -> S]
           /\ \A i, j \in 1..Cardinality(S) : SetToSeq(S)[i] = SetToSeq(S)[j] => i = j
<1> DEFINE n == Cardinality(S)
<1>1. n \in Nat /\ ExistsBijection(1..n, S)
  BY FS_CardinalityType
<1>2. PICK f \in [1..n -> S] : IsInjective(f)
  BY <1>1 DEF ExistsBijection, Bijection, Injection
<1>3. SetToSeq(S) \in [1..n -> S] /\ IsInjective(SetToSeq(S))
  BY <1>2 DEF SetToSeq
<1> QED BY <1>1, <1>3 DEF IsInjective

\* The entries after track_block_escrows, and the index.
Grown(es, fresh, now) == es \o [i \in 1..Cardinality(fresh) |-> Fresh(SetToSeq(fresh)[i], now)]

GrownIndex(index, es, new) ==
    [b \in Block |-> index[b] \cup {i \in DOMAIN new : i > Len(es) /\ BlockOf[new[i].o] = b}]

\* track_block_escrows adds the outputs it did not know.
LEMMA TrackedIs ==
    ASSUME NEW es, NEW listed, NEW index, Booked(es, listed, index), NEW now,
           NEW fresh \in SUBSET Outpoint, IsFiniteSet(fresh), fresh \cap listed = {}
    PROVE  Booked(Grown(es, fresh, now), listed \cup fresh, GrownIndex(index, es, Grown(es, fresh, now)))
<1> DEFINE n == Cardinality(fresh)
           s == SetToSeq(fresh)
           tail == [i \in 1..n |-> Fresh(s[i], now)]
           new == es \o tail
           index2 == [b \in Block |-> index[b] \cup {i \in DOMAIN new : i > Len(es) /\ BlockOf[new[i].o] = b}]
<1>1. n \in Nat /\ s \in [1..n -> fresh] /\ \A i, j \in 1..n : s[i] = s[j] => i = j
  BY SetToSeqIs
<1> HIDE DEF n, s
<1>2. Vector(es) /\ Len(es) \in Nat
  BY VectorIs DEF Booked
<1>3. tail = [i \in 1..n |-> tail[i]] /\ \A i \in 1..n : tail[i] = Fresh(s[i], now)
  OBVIOUS
<1> HIDE DEF tail
<1>4. \A i \in 1..n : IsEntry(tail[i]) /\ tail[i].o = s[i] /\ s[i] \in fresh
  BY <1>1, <1>3, FreshIs
<1>5. Vector(tail) /\ Len(tail) = n
  BY <1>1, <1>3, <1>4, MakeVector
<1> DEFINE T == ToSet(es) \cup ToSet(tail)
<1>6. es \in Seq(T) /\ tail \in Seq(T)
  <2>1. es \in Seq(ToSet(es)) /\ tail \in Seq(ToSet(tail))
    BY <1>2, <1>5 DEF Vector
  <2>2. \A A, B : A \subseteq B => Seq(A) \subseteq Seq(B)
    BY SeqMonotonic
  <2> QED BY <2>1, <2>2
<1> HIDE DEF T
<1>7. /\ new \in Seq(T) /\ Len(new) = Len(es) + n
      /\ \A i \in 1..Len(es) + n : new[i] = IF i <= Len(es) THEN es[i] ELSE tail[i - Len(es)]
  BY <1>5, <1>6, ConcatProperties
<1>8. DOMAIN new = 1..Len(es) + n
  BY <1>7, LenProperties
<1> HIDE DEF new
<1>9. \A i \in 1..Len(es) : new[i] = es[i] /\ IsEntry(es[i])
  BY <1>1, <1>2, <1>7 DEF Vector
<1>10. ASSUME NEW i \in 1..Len(es) + n, i > Len(es)
       PROVE  i - Len(es) \in 1..n /\ new[i] = tail[i - Len(es)] /\ IsEntry(new[i])
              /\ new[i].o = s[i - Len(es)] /\ new[i].o \in fresh
  <2>1. i - Len(es) \in 1..n /\ new[i] = tail[i - Len(es)]
    BY <1>1, <1>2, <1>7, <1>10
  <2> QED BY <1>4, <2>1
<1>11. \A i \in 1..Len(es) + n : IsEntry(new[i])
  BY <1>1, <1>2, <1>9, <1>10
<1>12. Vector(new)
  <2> DEFINE size == Len(es) + n
  <2>1. size \in Nat
    BY <1>1, <1>2
  <2>2. new \in [1..size -> T]
    BY <1>7, LenProperties
  <2>3. \A i \in 1..size : IsEntry(new[i])
    BY <1>11
  <2> HIDE DEF size, index2
  <2>4. new = [i \in 1..size |-> new[i]]
    BY <2>2
  <2> QED BY <2>1, <2>3, <2>4, MakeVector
<1>13. Len(new) >= Len(es)
  BY <1>1, <1>2, <1>7
<1>14. \A i \in 1..Len(new) : i > Len(es) => new[i].o \in fresh
  BY <1>7, <1>10
<1>15. \A i, j \in 1..Len(new) : i > Len(es) /\ j > Len(es) /\ new[i].o = new[j].o => i = j
  <2> SUFFICES ASSUME NEW i \in 1..Len(new), NEW j \in 1..Len(new), i > Len(es), j > Len(es), new[i].o = new[j].o
               PROVE  i = j
    OBVIOUS
  <2>1. i - Len(es) \in 1..n /\ j - Len(es) \in 1..n /\ s[i - Len(es)] = s[j - Len(es)]
    BY <1>7, <1>10
  <2>2. i - Len(es) = j - Len(es)
    BY <1>1, <2>1
  <2> QED BY <1>1, <1>2, <1>7, <2>2
<1>16. index2 \in [Block -> SUBSET Nat]
  <2>1. \A b \in Block : index[b] \in SUBSET Nat
    BY DEF Booked
  <2>2. \A i \in DOMAIN new : i \in Nat
    BY <1>1, <1>2, <1>8
  <2> QED BY <2>1, <2>2
<1>17. \A b \in Block : index2[b] = index[b] \cup {i \in 1..Len(new) : i > Len(es) /\ BlockOf[new[i].o] = b}
  BY <1>7, <1>8
<1> HIDE DEF index2
<1>18. Extends(new, index2, es, listed, fresh, index)
  BY <1>9, <1>12, <1>13, <1>14, <1>15, <1>16, <1>17 DEF Extends
<1>19. Booked(new, listed \cup fresh, index2)
  BY <1>18, ExtendedIs
<1> QED BY <1>19 DEF new, index2, tail, n, s, Grown, GrownIndex

-----------------------------------------------------------------------------
\* Changes of the claims in flight.

\* The outputs of a set of claims.
InFlightOf(flight) == UNION {ToSet(c.outs) : c \in flight}

\* Claims that leave take their outputs with them.
LEMMA FewerApart ==
    ASSUME NEW flight, NEW busy, Apart(flight, busy), NEW gone \in SUBSET flight
    PROVE  Apart(flight \ gone, busy \ InFlightOf(gone))
<1>1. \A c, d \in flight : c # d => ToSet(c.outs) \cap ToSet(d.outs) = {}
  BY DEF Apart
<1>2. busy = InFlightOf(flight)
  BY DEF Apart, InFlightOf
<1>3. ASSUME NEW x \in InFlightOf(flight), x \notin InFlightOf(gone)
      PROVE  x \in InFlightOf(flight \ gone)
  BY <1>3 DEF InFlightOf
<1>4. ASSUME NEW x \in InFlightOf(flight \ gone)
      PROVE  x \in InFlightOf(flight) /\ x \notin InFlightOf(gone)
  <2>1. PICK c \in flight \ gone : x \in ToSet(c.outs)
    BY DEF InFlightOf
  <2>2. ASSUME NEW d \in gone PROVE x \notin ToSet(d.outs)
    <3>1. ToSet(c.outs) \cap ToSet(d.outs) = {}
      BY <1>1, <2>1
    <3> QED BY <2>1, <3>1
  <2> QED BY <2>1, <2>2 DEF InFlightOf
<1>5. busy \ InFlightOf(gone) = InFlightOf(flight \ gone)
  BY <1>2, <1>3, <1>4
<1>6. Apart(flight \ gone, InFlightOf(flight \ gone))
  BY <1>1 DEF Apart, InFlightOf
<1> QED BY <1>5, <1>6

\* expire_in_flight releases the outputs of the claims that time out, and no others.
LEMMA UnexpiredApart ==
    ASSUME NEW flight, NEW busy, Apart(flight, busy), NEW now
    PROVE  Apart(Unexpired(flight, now), UnexpiredOutpoints(flight, busy, now))
<1> DEFINE gone == flight \ Unexpired(flight, now)
<1>1. gone \in SUBSET flight /\ flight \ gone = Unexpired(flight, now)
  BY DEF Unexpired
<1>2. UnexpiredOutpoints(flight, busy, now) = busy \ InFlightOf(gone)
  BY DEF UnexpiredOutpoints, InFlightOf
<1> HIDE DEF gone
<1> QED BY <1>1, <1>2, FewerApart

\* The claims that find_claim ships, in flight, and their outputs.
Shipped(claims, now) == {[outs |-> tx, at |-> now] : tx \in claims}

OutputsOf(claims) == UNION {ToSet(tx) : tx \in claims}

\* At most one claim, of different outputs that are not in flight.
OneOfTheRest(claims, busy) ==
    /\ \A tx \in claims : ToSet(tx) \cap busy = {} /\ Cardinality(ToSet(tx)) = Len(tx)
    /\ \A tx, ty \in claims : tx = ty

\* A claim of outputs that are not in flight is added, or none.
LEMMA MoreApart ==
    ASSUME NEW flight, NEW busy, Apart(flight, busy), NEW claims, NEW now,
           OneOfTheRest(claims, busy)
    PROVE  Apart(flight \cup Shipped(claims, now), busy \cup OutputsOf(claims))
<1>1. CASE claims = {}
  <2>1. Shipped(claims, now) = {} /\ OutputsOf(claims) = {}
    BY <1>1 DEF Shipped, OutputsOf
  <2>2. flight \cup Shipped(claims, now) = flight /\ busy \cup OutputsOf(claims) = busy
    BY <2>1
  <2> QED BY <2>2
<1>2. CASE claims # {}
  <2>1. PICK tx \in claims : TRUE
    BY <1>2
  <2>2. claims = {tx}
    BY <2>1 DEF OneOfTheRest
  <2> DEFINE new == [outs |-> tx, at |-> now]
  <2>3. Shipped(claims, now) = {new} /\ OutputsOf(claims) = ToSet(tx)
    BY <2>2 DEF Shipped, OutputsOf
  <2>4. new.outs = tx /\ new = [outs |-> new.outs, at |-> new.at]
    OBVIOUS
  <2>5. ToSet(tx) \cap busy = {} /\ Cardinality(ToSet(tx)) = Len(tx)
    BY <2>1 DEF OneOfTheRest
  <2> HIDE DEF new
  <2>6. UNION {ToSet(c.outs) : c \in flight \cup {new}} = busy \cup ToSet(tx)
    BY <2>4 DEF Apart
  <2>7. \A c \in flight : ToSet(c.outs) \cap ToSet(tx) = {}
    BY <2>5 DEF Apart
  <2>8. \A c, d \in flight \cup {new} : c # d => ToSet(c.outs) \cap ToSet(d.outs) = {}
    BY <2>4, <2>7 DEF Apart
  <2>9. Apart(flight \cup {new}, busy \cup ToSet(tx))
    BY <2>4, <2>5, <2>6, <2>8 DEF Apart
  <2> QED BY <2>3, <2>9
<1> QED BY <1>1, <1>2

\* Scores grow older; the outputs of the claims stay.
LEMMA AgedApart ==
    ASSUME NEW flight, NEW busy, Apart(flight, busy)
    PROVE  Apart({[c EXCEPT !.at = Older(@)] : c \in flight}, busy)
<1> DEFINE old(c) == [c EXCEPT !.at = Older(@)]
           aged == {old(c) : c \in flight}
<1>1. \A c \in flight : old(c) = [outs |-> old(c).outs, at |-> old(c).at] /\ old(c).outs = c.outs
  BY DEF Apart
<1> HIDE DEF old
<1>2. \A d \in aged : \E c \in flight : d = old(c)
  OBVIOUS
<1>3. \A d \in aged : d = [outs |-> d.outs, at |-> d.at]
  BY <1>1
<1>4. busy = UNION {ToSet(d.outs) : d \in aged}
  <2>1. ASSUME NEW x PROVE x \in UNION {ToSet(c.outs) : c \in flight} <=> x \in UNION {ToSet(d.outs) : d \in aged}
    BY <1>1
  <2> QED BY <2>1 DEF Apart
<1>5. \A d, e \in aged : d # e => ToSet(d.outs) \cap ToSet(e.outs) = {}
  <2> SUFFICES ASSUME NEW d \in aged, NEW e \in aged, d # e PROVE ToSet(d.outs) \cap ToSet(e.outs) = {}
    OBVIOUS
  <2>1. PICK c \in flight, f \in flight : d = old(c) /\ e = old(f)
    BY <1>2
  <2>2. c # f
    BY <2>1
  <2> QED BY <1>1, <2>1, <2>2 DEF Apart
<1>6. \A d \in aged : Cardinality(ToSet(d.outs)) = Len(d.outs)
  BY <1>1, <1>2 DEF Apart
<1>7. Apart(aged, busy)
  BY <1>3, <1>4, <1>5, <1>6 DEF Apart
<1> QED BY <1>7 DEF aged, old

-----------------------------------------------------------------------------
\* Entries that are claimed.

\* The claimed entries of a vector are of outputs in S.
ClaimedIn(es, S) == \A i \in 1..Len(es) : es[i].claimed => es[i].o \in S

\* The claimed entries of new are of outputs that es has claimed entries of.
ClaimsNone(new, es) == \A S : ClaimedIn(es, S) => ClaimedIn(new, S)

\* Changes entry by entry that claim none.
LEMMA MapClaims ==
    ASSUME NEW es, NEW new, Follows(new, es),
           \A i \in 1..Len(es) : new[i].claimed => es[i].claimed
    PROVE  ClaimsNone(new, es)
BY DEF ClaimsNone, ClaimedIn, Follows

\* Ageing, healing and slashing claim none.
LEMMA AgedClaims == ASSUME NEW es, Vector(es) PROVE ClaimsNone(Aged(es), es)
<1>1. Follows(Aged(es), es) /\ DOMAIN es = 1..Len(es) /\ \A i \in DOMAIN es : IsEntry(es[i])
  BY VectorIs, AgedFollows
<1>2. \A e : IsEntry(e) => AgedEntry(e).claimed = e.claimed
  BY DEF IsEntry, AgedEntry, Fields
<1>3. \A i \in 1..Len(es) : Aged(es)[i] = AgedEntry(es[i])
  BY <1>1 DEF Aged
<1> QED BY <1>1, <1>2, <1>3, MapClaims

LEMMA HealedClaims == ASSUME NEW es, NEW now, Vector(es) PROVE ClaimsNone(HealedAll(es, now), es)
<1>1. Follows(HealedAll(es, now), es) /\ DOMAIN es = 1..Len(es) /\ \A i \in DOMAIN es : IsEntry(es[i])
  BY VectorIs, HealedFollows
<1>2. \A e : IsEntry(e) => Healed(e, now).claimed = e.claimed
  BY DEF IsEntry, Healed, Fields
<1>3. \A i \in 1..Len(es) : HealedAll(es, now)[i] = Healed(es[i], now)
  BY <1>1 DEF HealedAll
<1> QED BY <1>1, <1>2, <1>3, MapClaims

LEMMA SlashedClaims == ASSUME NEW es, NEW I, Vector(es) PROVE ClaimsNone(Slashed(es, I), es)
<1>1. Follows(Slashed(es, I), es) /\ DOMAIN es = 1..Len(es) /\ \A i \in DOMAIN es : IsEntry(es[i])
  BY VectorIs, SlashedFollows
<1> DEFINE new(e) == [e EXCEPT !.slashed = TRUE]
<1>2. \A e : IsEntry(e) => new(e).claimed = e.claimed
  BY DEF IsEntry, Fields
<1>3. \A i \in 1..Len(es) : Slashed(es, I)[i] \in {es[i], new(es[i])}
  BY <1>1 DEF Slashed
<1> HIDE DEF new
<1>4. \A i \in 1..Len(es) : Slashed(es, I)[i].claimed => es[i].claimed
  BY <1>1, <1>2, <1>3
<1> QED BY <1>1, <1>4, MapClaims

\* What compact retains has not been claimed since.
LEMMA CompactedClaims == ASSUME NEW es, NEW due, Vector(es) PROVE ClaimsNone(Compacted(es, due), es)
<1>1. CASE Compacted(es, due) = es
  BY <1>1 DEF ClaimsNone
<1>2. CASE Compacted(es, due) = Retained(es)
  <2>1. PICK nth : \A n \in 1..Len(Retained(es)) : nth[n] \in 1..Len(es) /\ Retained(es)[n] = es[nth[n]]
    BY RetainedIs
  <2> DEFINE left == Retained(es)
  <2> HIDE DEF left
  <2>2. ClaimsNone(left, es)
    BY <2>1 DEF ClaimsNone, ClaimedIn, left
  <2> QED BY <1>2, <2>2 DEF left
<1> QED BY <1>1, <1>2 DEF Compacted

\* A vector that goes on with entries that are not claimed.
LEMMA LongerClaims ==
    ASSUME NEW es, Vector(es), NEW new, Vector(new),
           \A i \in 1..Len(new) : (i \in 1..Len(es) /\ new[i] = es[i]) \/ ~new[i].claimed
    PROVE  ClaimsNone(new, es)
BY DEF ClaimsNone, ClaimedIn

\* A tracked output is not claimed.
LEMMA GrownClaims ==
    ASSUME NEW es, Vector(es), NEW now, NEW fresh \in SUBSET Outpoint, IsFiniteSet(fresh),
           Vector(Grown(es, fresh, now))
    PROVE  ClaimsNone(Grown(es, fresh, now), es)
<1> DEFINE n == Cardinality(fresh)
           s == SetToSeq(fresh)
           tail == [i \in 1..n |-> Fresh(s[i], now)]
           T == ToSet(es) \cup ToSet(tail)
           new == es \o tail
<1>1. n \in Nat /\ s \in [1..n -> fresh]
  BY SetToSeqIs
<1> HIDE DEF n, s
<1>2. tail = [i \in 1..n |-> tail[i]] /\ \A i \in 1..n : tail[i] = Fresh(s[i], now)
  OBVIOUS
<1> HIDE DEF tail
<1>3. \A i \in 1..n : IsEntry(tail[i]) /\ ~tail[i].claimed
  <2>1. \A o : ~Fresh(o, now).claimed
    BY DEF Fresh
  <2> QED BY <1>1, <1>2, <2>1, FreshIs
<1>4. Vector(tail) /\ Len(tail) = n /\ Len(es) \in Nat
  BY <1>1, <1>2, <1>3, MakeVector, VectorIs
<1>5. es \in Seq(T) /\ tail \in Seq(T)
  <2>1. es \in Seq(ToSet(es)) /\ tail \in Seq(ToSet(tail))
    BY <1>4 DEF Vector
  <2>2. \A A, B : A \subseteq B => Seq(A) \subseteq Seq(B)
    BY SeqMonotonic
  <2> QED BY <2>1, <2>2
<1> HIDE DEF T
<1>6. /\ Len(new) = Len(es) + n
      /\ \A i \in 1..Len(es) + n : new[i] = IF i <= Len(es) THEN es[i] ELSE tail[i - Len(es)]
  BY <1>4, <1>5, ConcatProperties
<1>7. new = Grown(es, fresh, now)
  BY DEF Grown, n, s, tail
<1> HIDE DEF new
<1>8. ASSUME NEW i \in 1..Len(new) PROVE (i \in 1..Len(es) /\ new[i] = es[i]) \/ ~new[i].claimed
  <2>1. CASE i <= Len(es)
    BY <1>1, <1>4, <1>6, <2>1
  <2>2. CASE ~(i <= Len(es))
    <3>1. i - Len(es) \in 1..n /\ new[i] = tail[i - Len(es)]
      BY <1>1, <1>4, <1>6, <2>2
    <3> QED BY <1>3, <3>1
  <2> QED BY <2>1, <2>2
<1>9. Vector(new)
  BY <1>7
<1>10. ClaimsNone(new, es)
  BY <1>8, <1>9, LongerClaims
<1> QED BY <1>7, <1>10

-----------------------------------------------------------------------------
\* The steps of the watcher.

\* handle_block keeps the books and claims no entry, whatever block is at hand
\* and whatever blocks its merge set reports as red.
LEMMA HandleBlockIs ==
    ASSUME NEW es, Booked(es, outpointSet, blockIndex),
           NEW flight, Apart(flight, inFlightOutpoints),
           NEW now, NEW reds, NEW chained \in SUBSET Block, \A b, c \in chained : b = c,
           HandleBlock(es, flight, now, reds, chained)
    PROVE  /\ Booked(entries', outpointSet', blockIndex') /\ Apart(inFlight', inFlightOutpoints')
           /\ ClaimsNone(entries', es)
<1> DEFINE due     == blocksSinceCompact + 1 >= CompactEvery
           flight1 == Unexpired(flight, now)
           busy1   == UnexpiredOutpoints(flight, inFlightOutpoints, now)
           es1     == Compacted(es, due)
           index1  == CompactedIndex(es, es1)
           known1  == CompactedOutpoints(es, es1)
           es2     == Slashed(es1, UNION {index1[b] : b \in reds})
           fresh   == NewOutputs(chained, known1)
           es3     == Grown(es2, fresh, now)
           es4     == IF MayClaim(flight1) THEN HealedAll(es3, now) ELSE es3
           claims  == Claims(es4, flight1, busy1, now)
           index3  == GrownIndex(index1, es2, es3)
<1>1. /\ entries' = es4
      /\ outpointSet' = known1 \cup fresh
      /\ blockIndex' = index3
      /\ inFlight' = flight1 \cup Shipped(claims, now)
      /\ inFlightOutpoints' = busy1 \cup OutputsOf(claims)
  BY DEF HandleBlock, Grown, GrownIndex, Shipped, OutputsOf
<1> HIDE DEF due
<1>2. Booked(es1, known1, index1)
  BY CompactedIs
<1>2a. ClaimsNone(es1, es)
  BY CompactedClaims DEF Booked
<1> HIDE DEF known1, index1, es1
<1>3. Booked(es2, known1, index1)
  <2>1. Follows(es2, es1)
    BY <1>2, SlashedFollows DEF Booked
  <2> HIDE DEF es2
  <2> QED BY <1>2, <2>1, FollowsKeeps
<1>3a. ClaimsNone(es2, es1)
  BY <1>2, SlashedClaims DEF Booked
<1> HIDE DEF es2
<1>4. fresh \in SUBSET Outpoint /\ fresh \cap known1 = {} /\ IsFiniteSet(fresh)
  <2>1. fresh \in SUBSET Outpoint /\ fresh \cap known1 = {}
    BY DEF NewOutputs
  <2>2. IsFiniteSet(fresh)
    <3>1. CASE chained = {}
      <4>1. fresh = {}
        BY <3>1 DEF NewOutputs
      <4> QED BY <4>1, FS_EmptySet
    <3>2. CASE chained # {}
      <4>1. PICK b \in chained : TRUE
        BY <3>2
      <4>2. fresh \subseteq {o \in Outpoint : BlockOf[o] = b}
        BY <4>1 DEF NewOutputs
      <4>3. IsFiniteSet({o \in Outpoint : BlockOf[o] = b})
        BY <4>1, WatcherAssumption
      <4> HIDE DEF fresh
      <4> QED BY <4>2, <4>3, FS_Subset
    <3> QED BY <3>1, <3>2
  <2> QED BY <2>1, <2>2
<1> HIDE DEF fresh
<1>5. Booked(es3, known1 \cup fresh, index3)
  BY <1>3, <1>4, TrackedIs
<1>5a. Vector(es3)
  BY <1>5 DEF Booked
<1>5b. ClaimsNone(es3, es2)
  BY <1>3, <1>4, <1>5a, GrownClaims DEF Booked
<1> HIDE DEF es3, index3
<1>6. Booked(es4, known1 \cup fresh, index3)
  <2>1. CASE es4 = es3
    BY <1>5, <2>1
  <2>2. CASE es4 = HealedAll(es3, now)
    <3>1. Follows(HealedAll(es3, now), es3)
      BY <1>5a, HealedFollows
    <3> QED BY <1>5, <2>2, <3>1, FollowsKeeps
  <2> QED BY <2>1, <2>2
<1>6a. ClaimsNone(es4, es3)
  <2>1. ClaimsNone(es3, es3)
    BY DEF ClaimsNone
  <2> QED BY <1>5a, <2>1, HealedClaims
<1> HIDE DEF es4
<1>7. Apart(flight1, busy1)
  BY UnexpiredApart
<1> HIDE DEF flight1, busy1
<1>8. OneOfTheRest(claims, busy1)
  <2>1. Vector(es4) /\ OneLive(es4)
    BY <1>6 DEF Booked
  <2> QED BY <2>1, ClaimsAre DEF OneOfTheRest
<1> HIDE DEF claims
<1>9. Apart(flight1 \cup Shipped(claims, now), busy1 \cup OutputsOf(claims))
  BY <1>7, <1>8, MoreApart
<1>10. ClaimsNone(es4, es)
  BY <1>2a, <1>3a, <1>5b, <1>6a DEF ClaimsNone
<1> QED BY <1>1, <1>6, <1>9, <1>10

\* on_chain_blocks_removed slashes every live entry of the blocks, and only
\* the outputs of those entries are forgotten.
LEMMA RemovedIs ==
    ASSUME NEW B \in SUBSET Block, Booked(entries, outpointSet, blockIndex), OnChainBlocksRemoved(B)
    PROVE  Booked(entries', outpointSet', blockIndex') /\ ClaimsNone(entries', entries)
<1> DEFINE I == UNION {blockIndex[b] : b \in B}
           new == Slashed(entries, I)
<1>1. /\ entries' = new /\ outpointSet' = outpointSet \ Released(B)
      /\ blockIndex' = [b \in Block |-> IF b \in B THEN {} ELSE blockIndex[b]]
  BY DEF OnChainBlocksRemoved
<1>2. Vector(entries) /\ Len(entries) \in Nat /\ DOMAIN entries = 1..Len(entries)
  BY VectorIs DEF Booked
<1>3. Follows(new, entries) /\ ClaimsNone(new, entries)
  BY <1>2, SlashedFollows, SlashedClaims
<1>4. Booked(new, outpointSet, blockIndex)
  <2> HIDE DEF new
  <2> QED BY <1>3, FollowsKeeps
<1>5. \A i \in 1..Len(entries) : Live(new[i]) => i \notin I
  <2>1. \A i \in 1..Len(entries) : IsEntry(entries[i])
    BY <1>2 DEF Vector
  <2>2. \A e : IsEntry(e) => ~Live([e EXCEPT !.slashed = TRUE])
    BY DEF IsEntry, Fields, Live
  <2>3. \A i \in 1..Len(entries) : new[i] = IF i \in I /\ Live(entries[i])
                                            THEN [entries[i] EXCEPT !.slashed = TRUE] ELSE entries[i]
    BY <1>2 DEF Slashed
  <2> HIDE DEF new, I
  <2> QED BY <2>1, <2>2, <2>3
<1>6. Released(B) = {entries[i].o : i \in {j \in I : Live(entries[j])}}
  BY DEF Released
<1>7. I \subseteq 1..Len(entries)
  BY DEF Booked
<1> HIDE DEF I, new
<1>8. \A i \in 1..Len(new) : Live(new[i]) => new[i].o \in outpointSet \ Released(B)
  <2> SUFFICES ASSUME NEW i \in 1..Len(new), Live(new[i]), new[i].o \in Released(B) PROVE FALSE
    BY <1>4 DEF Booked
  <2>1. i \in 1..Len(entries) /\ Live(entries[i]) /\ new[i].o = entries[i].o
    BY <1>3 DEF Follows
  <2>2. PICK j \in I : Live(entries[j]) /\ entries[j].o = new[i].o
    BY <1>6
  <2>3. i = j
    BY <1>7, <2>1, <2>2 DEF Booked, OneLive
  <2> QED BY <1>5, <2>1, <2>2, <2>3
<1>9. \A i \in 1..Len(new) : Live(new[i]) /\ BlockOf[new[i].o] # NoBlock => i \in blockIndex'[BlockOf[new[i].o]]
  <2> SUFFICES ASSUME NEW i \in 1..Len(new), Live(new[i]), BlockOf[new[i].o] # NoBlock
               PROVE  i \in blockIndex'[BlockOf[new[i].o]]
    OBVIOUS
  <2>1. i \in blockIndex[BlockOf[new[i].o]] /\ i \in 1..Len(entries)
    BY <1>3, <1>4 DEF Booked, Follows
  <2>2. BlockOf[new[i].o] \in Block
    <3>1. new[i].o \in Outpoint
      BY <1>4 DEF Booked, Vector, IsEntry
    <3> QED BY <3>1, WatcherAssumption
  <2>3. BlockOf[new[i].o] \notin B
    BY <1>5, <2>1 DEF I
  <2> QED BY <1>1, <2>1, <2>2, <2>3
<1>10. blockIndex' \in [Block -> SUBSET Nat]
  BY <1>1 DEF Booked
<1>11. \A b \in Block : \A i \in blockIndex'[b] : i \in 1..Len(new) /\ BlockOf[new[i].o] = b
  <2>1. \A b \in Block : \A i \in blockIndex[b] : i \in 1..Len(new) /\ BlockOf[new[i].o] = b
    BY <1>4 DEF Booked
  <2> QED BY <1>1, <2>1
<1>12. Booked(new, outpointSet', blockIndex')
  BY <1>1, <1>4, <1>8, <1>9, <1>10, <1>11 DEF Booked
<1> QED BY <1>1, <1>3, <1>12

\* An answer changes an entry without reviving it.
Keeps(f, e) == IsEntry(f) /\ f.o = e.o /\ (Live(f) => Live(e))

\* f is e, but for its retries and verdicts, and maybe done.
Touched(f, e) ==
    /\ f = [x \in Fields |-> f[x]] /\ f.o = e.o
    /\ f.claimed = e.claimed \/ f.claimed = TRUE
    /\ f.slashed = e.slashed \/ f.slashed = TRUE

\* What is only touched is not revived.
LEMMA TouchedKeeps == ASSUME NEW e, IsEntry(e), NEW f, Touched(f, e) PROVE Keeps(f, e)
<1>1. f.claimed \in BOOLEAN /\ f.slashed \in BOOLEAN
  BY Zenon DEF Touched, IsEntry
<1>2. IsEntry(f) /\ f.o = e.o
  BY <1>1 DEF Touched, IsEntry
<1>3. ASSUME Live(f) PROVE Live(e)
  <2>1. ~f.claimed /\ ~f.slashed
    BY <1>3 DEF Live
  <2>2. ~e.claimed /\ ~e.slashed
    BY <2>1, Zenon DEF Touched
  <2> QED BY <2>2 DEF Live
<1> QED BY <1>2, <1>3 DEF Keeps

\* No answer, of whatever kind, revives an entry or changes its output.
LEMMA AnsweredKeeps ==
    ASSUME NEW e, IsEntry(e), NEW n, NEW kind \in Kinds, NEW list
    PROVE  Keeps(Answered(e, n, kind, list), e)
<1>1. e = [x \in Fields |-> e[x]]
  BY DEF IsEntry
<1>2. Touched(e, e)
  BY <1>1 DEF Touched
<1>3. Touched(Halved(e, n), e)
  BY <1>1 DEF Halved, Touched, Fields
<1>4. Touched([e EXCEPT !.claimed = TRUE], e)
  BY <1>1 DEF Touched, Fields
<1>5. \A x : Touched([e EXCEPT !.retry = x], e)
  BY <1>1 DEF Touched, Fields
<1>6. Touched([e EXCEPT !.slashed = TRUE], e)
  BY <1>1 DEF Touched, Fields
<1>7. Touched(Orphaned(e, n), e)
  <2> DEFINE tries == e.oret + 1
             dead == [e EXCEPT !.oret = tries, !.dead = FALSE, !.slashed = TRUE]
             orphan == [e EXCEPT !.oret = tries, !.dead = TRUE, !.retry = At(lastDaa + OrphanCooldown)]
  <2>1. Touched(dead, e) /\ Touched(orphan, e)
    <3> HIDE DEF tries
    <3>1. Touched(dead, e)
      BY <1>1 DEF Touched, Fields
    <3>2. Touched(orphan, e)
      BY <1>1 DEF Touched, Fields
    <3> QED BY <3>1, <3>2
  <2>2. Orphaned(e, n) = Halved(e, n) \/ Orphaned(e, n) = dead \/ Orphaned(e, n) = orphan
    BY Zenon DEF Orphaned
  <2> HIDE DEF dead, orphan
  <2> QED BY <1>3, <2>1, <2>2
<1>8. Touched([e EXCEPT !.slashed = @ \/ e.o \in list], e)
  <2>1. CASE e.o \in list
    <3>1. (e.slashed \/ e.o \in list) = TRUE
      BY <2>1
    <3>2. [e EXCEPT !.slashed = @ \/ e.o \in list] = [e EXCEPT !.slashed = TRUE]
      BY <3>1, Zenon
    <3> QED BY <1>6, <3>2
  <2>2. CASE e.o \notin list
    <3>1. (e.slashed \/ e.o \in list) = e.slashed
      BY <2>2 DEF IsEntry
    <3>2. [e EXCEPT !.slashed = @ \/ e.o \in list] = [e EXCEPT !.slashed = e.slashed]
      BY <3>1, Zenon
    <3>3. [e EXCEPT !.slashed = e.slashed] = e
      BY <1>1 DEF Fields
    <3> QED BY <1>2, <3>2, <3>3
  <2> QED BY <2>1, <2>2
<1>9. Touched(Burned(e, n, list), e)
  BY <1>3, <1>6, <1>8 DEF Burned
<1>10. Touched(Refused(e, n), e)
  <2> DEFINE h == IF n > 1 THEN Halved(e, n) ELSE e
             tries == IF e.sret < MaxSubmitRetries THEN e.sret + 1 ELSE e.sret
             until == At(lastDaa + Backoff(tries))
             g == [h EXCEPT !.sret = tries, !.retry = until]
  <2>1. Touched(h, e)
    BY <1>2, <1>3
  <2>2. Refused(e, n) = g
    BY Zenon DEF Refused
  <2> HIDE DEF h, tries, until
  <2>3. g = [z \in Fields |-> g[z]] /\ g.o = h.o /\ g.claimed = h.claimed /\ g.slashed = h.slashed
    <3>1. h = [z \in Fields |-> h[z]]
      BY <2>1 DEF Touched
    <3> QED BY <3>1 DEF Fields
  <2> HIDE DEF g
  <2>4. Touched(g, e)
    BY <2>1, <2>3 DEF Touched
  <2> QED BY <2>2, <2>4
<1>11. Touched(Answered(e, n, kind, list), e)
  <2>1. CASE Accepted(kind)
    BY <1>4, <2>1 DEF Answered, Accepted
  <2>2. CASE kind = "orphan"
    BY <1>7, <2>2 DEF Answered, Accepted
  <2>3. CASE kind = "seqlock"
    BY <1>5, <2>3 DEF Answered, Accepted
  <2>4. CASE kind = "burned"
    BY <1>9, <2>4 DEF Answered, Accepted
  <2>5. CASE kind = "other"
    BY <1>10, <2>5 DEF Answered, Accepted
  <2> QED BY <2>1, <2>2, <2>3, <2>4, <2>5 DEF Kinds, Accepted
<1> QED BY <1>11, TouchedKeeps

\* A rejection, of whatever kind, claims no entry.
LEMMA RejectedClaims ==
    ASSUME NEW e, IsEntry(e), NEW n, NEW kind \in Kinds, ~Accepted(kind), NEW list
    PROVE  Answered(e, n, kind, list).claimed = e.claimed
<1>1. e = [x \in Fields |-> e[x]]
  BY DEF IsEntry
<1>2. Halved(e, n).claimed = e.claimed /\ Halved(e, n) = [x \in Fields |-> Halved(e, n)[x]]
  BY <1>1 DEF Halved, Fields
<1>3. \A x : [e EXCEPT !.slashed = x].claimed = e.claimed
  BY <1>1 DEF Fields
<1>4. CASE kind = "orphan"
  <2> DEFINE tries == e.oret + 1
             dead == [e EXCEPT !.oret = tries, !.dead = FALSE, !.slashed = TRUE]
             orphan == [e EXCEPT !.oret = tries, !.dead = TRUE, !.retry = At(lastDaa + OrphanCooldown)]
  <2>1. dead.claimed = e.claimed /\ orphan.claimed = e.claimed
    <3> HIDE DEF tries
    <3> QED BY <1>1 DEF Fields
  <2>2. Orphaned(e, n) = Halved(e, n) \/ Orphaned(e, n) = dead \/ Orphaned(e, n) = orphan
    BY Zenon DEF Orphaned
  <2> HIDE DEF dead, orphan
  <2> QED BY <1>2, <1>4, <2>1, <2>2 DEF Answered, Accepted
<1>5. CASE kind = "seqlock"
  <2>1. \A x : [e EXCEPT !.retry = x].claimed = e.claimed
    BY <1>1 DEF Fields
  <2> QED BY <1>5, <2>1 DEF Answered, Accepted
<1>6. CASE kind = "burned"
  <2>1. Burned(e, n, list).claimed = e.claimed
    BY <1>2, <1>3, Zenon DEF Burned
  <2> QED BY <1>6, <2>1 DEF Answered, Accepted
<1>7. CASE kind = "other"
  <2> DEFINE h == IF n > 1 THEN Halved(e, n) ELSE e
             tries == IF e.sret < MaxSubmitRetries THEN e.sret + 1 ELSE e.sret
             until == At(lastDaa + Backoff(tries))
             g == [h EXCEPT !.sret = tries, !.retry = until]
  <2>1. h.claimed = e.claimed /\ h = [x \in Fields |-> h[x]]
    BY <1>1, <1>2
  <2>2. Refused(e, n) = g
    BY Zenon DEF Refused
  <2> HIDE DEF h, tries, until
  <2>3. g.claimed = h.claimed
    BY <2>1 DEF Fields
  <2> HIDE DEF g
  <2> QED BY <1>7, <2>1, <2>2, <2>3 DEF Answered, Accepted
<1> QED BY <1>4, <1>5, <1>6, <1>7 DEF Kinds, Accepted

\* Only an acceptance claims entries, and only those of its outputs.
ClaimsIfAccepted(new, es, tx, kind) ==
    \A S : ClaimedIn(es, S) /\ (Accepted(kind) => ToSet(tx) \subseteq S) => ClaimedIn(new, S)

\* on_submit_response: the claim leaves with its outputs.
LEMMA ResponseIs ==
    ASSUME NEW tx, NEW kind \in Kinds, NEW list, OnSubmitResponse(tx, kind, list),
           Booked(entries, outpointSet, blockIndex), Apart(inFlight, inFlightOutpoints)
    PROVE  /\ Booked(entries', outpointSet', blockIndex') /\ Apart(inFlight', inFlightOutpoints')
           /\ ClaimsIfAccepted(entries', entries, tx, kind)
<1> DEFINE mine == {c \in inFlight : c.outs = tx}
<1>1. CASE mine = {}
  BY <1>1 DEF OnSubmitResponse, indexVars, ClaimsIfAccepted
<1>2. CASE mine # {}
  <2>1. /\ inFlight' = inFlight \ mine /\ inFlightOutpoints' = inFlightOutpoints \ ToSet(tx)
        /\ entries' = AnsweredFirst(entries, tx, kind, list)
        /\ outpointSet' = outpointSet /\ blockIndex' = blockIndex
    BY <1>2 DEF OnSubmitResponse, indexVars
  <2>2. InFlightOf(mine) = ToSet(tx)
    BY <1>2 DEF InFlightOf
  <2>3. mine \in SUBSET inFlight
    OBVIOUS
  <2> HIDE DEF mine
  <2>4. Apart(inFlight', inFlightOutpoints')
    BY <2>1, <2>2, <2>3, FewerApart
  <2> DEFINE new == AnsweredFirst(entries, tx, kind, list)
  <2>5. Vector(entries) /\ \A i \in DOMAIN entries : IsEntry(entries[i])
    BY VectorIs DEF Booked
  <2>6. \A i \in DOMAIN entries :
          \/ new[i] = entries[i]
          \/ entries[i].o \in ToSet(tx) /\ new[i] = Answered(entries[i], Len(tx), kind, list)
    BY DEF AnsweredFirst
  <2>7. new = [i \in DOMAIN entries |-> new[i]]
    BY DEF AnsweredFirst
  <2> HIDE DEF new
  <2>8. \A i \in DOMAIN entries : Keeps(Answered(entries[i], Len(tx), kind, list), entries[i])
    BY <2>5, AnsweredKeeps
  <2>9. Follows(new, entries)
    BY <2>5, <2>6, <2>7, <2>8, MapFollows DEF Keeps
  <2>10. Booked(new, outpointSet, blockIndex)
    BY <2>9, FollowsKeeps
  <2>11. ClaimsIfAccepted(new, entries, tx, kind)
    <3> SUFFICES ASSUME NEW S, ClaimedIn(entries, S), Accepted(kind) => ToSet(tx) \subseteq S,
                        NEW i \in 1..Len(new), new[i].claimed
                 PROVE  new[i].o \in S
      BY DEF ClaimsIfAccepted, ClaimedIn
    <3>1. i \in 1..Len(entries) /\ i \in DOMAIN entries /\ new[i].o = entries[i].o
      BY <2>5, <2>9, VectorIs DEF Follows
    <3>2. CASE entries[i].claimed
      BY <3>1, <3>2 DEF ClaimedIn
    <3>3. CASE ~entries[i].claimed
      <4>1. entries[i].o \in ToSet(tx) /\ new[i] = Answered(entries[i], Len(tx), kind, list)
        BY <2>6, <3>1, <3>3
      <4>2. Accepted(kind)
        BY <2>5, <3>1, <3>3, <4>1, RejectedClaims
      <4> QED BY <3>1, <4>1, <4>2
    <3> QED BY <3>2, <3>3
  <2> QED BY <2>1, <2>4, <2>10, <2>11 DEF new
<1> QED BY <1>1, <1>2

\* track_inference_escrow adds an output of no block.
LEMMA InferenceIs ==
    ASSUME NEW o \in Outpoint, NEW conf, TrackInferenceEscrow(o, conf),
           Booked(entries, outpointSet, blockIndex)
    PROVE  Booked(entries', outpointSet', blockIndex') /\ ClaimsNone(entries', entries)
<1> DEFINE new == Append(entries, Fresh(o, conf))
           T == ToSet(entries) \cup {Fresh(o, conf)}
<1>1. /\ o \notin outpointSet /\ BlockOf[o] = NoBlock
      /\ entries' = new /\ outpointSet' = outpointSet \cup {o} /\ blockIndex' = blockIndex
  BY WatcherAssumption DEF TrackInferenceEscrow
<1>2. Vector(entries) /\ Len(entries) \in Nat
  BY VectorIs DEF Booked
<1>3. entries \in Seq(T) /\ Fresh(o, conf) \in T
  <2>1. entries \in Seq(ToSet(entries)) /\ ToSet(entries) \subseteq T
    BY <1>2 DEF Vector
  <2> HIDE DEF T
  <2>2. entries \in Seq(T)
    BY <2>1, SeqMonotonic
  <2> QED BY <2>2 DEF T
<1> HIDE DEF T
<1>4. /\ new \in Seq(T) /\ Len(new) = Len(entries) + 1
      /\ \A i \in 1..Len(entries) : new[i] = entries[i]
      /\ new[Len(entries) + 1] = Fresh(o, conf)
  BY <1>3, AppendProperties
<1> HIDE DEF new
<1>5. \A i \in 1..Len(new) : i > Len(entries) => i = Len(entries) + 1
  BY <1>2, <1>4
<1>6. \A i \in 1..Len(new) : IsEntry(new[i])
  <2>1. \A i \in 1..Len(entries) : IsEntry(entries[i])
    BY <1>2 DEF Vector
  <2>2. \A i \in 1..Len(new) : i \in 1..Len(entries) \/ i = Len(entries) + 1
    BY <1>2, <1>4
  <2> QED BY <1>4, <2>1, <2>2, FreshIs
<1>7. Vector(new)
  <2>1. new = [i \in 1..Len(new) |-> new[i]]
    <3>1. new \in [1..Len(new) -> T]
      BY <1>4, LenProperties
    <3> QED BY <3>1
  <2>2. Len(new) \in Nat
    BY <1>2, <1>4
  <2> QED BY <1>6, <2>1, <2>2, MakeVector
<1>8. Extends(new, blockIndex, entries, outpointSet, {o}, blockIndex)
  <2>1. Len(new) >= Len(entries) /\ {o} \cap outpointSet = {}
    BY <1>1, <1>2, <1>4
  <2>2. \A i \in 1..Len(new) : i > Len(entries) => new[i].o = o
    BY <1>4, <1>5, FreshIs
  <2>3. \A b \in Block : {i \in 1..Len(new) : i > Len(entries) /\ BlockOf[new[i].o] = b} = {}
    BY <1>1, <2>2, WatcherAssumption
  <2>4. blockIndex \in [Block -> SUBSET Nat]
    BY DEF Booked
  <2> QED BY <1>4, <1>5, <1>7, <2>1, <2>2, <2>3, <2>4 DEF Extends
<1>9. Booked(new, outpointSet \cup {o}, blockIndex)
  BY <1>8, ExtendedIs
<1>10. ClaimsNone(new, entries)
  <2>1. ~Fresh(o, conf).claimed
    BY DEF Fresh
  <2>2. \A i \in 1..Len(new) : i \in 1..Len(entries) \/ i = Len(entries) + 1
    BY <1>2, <1>4
  <2> QED BY <1>2, <1>4, <1>7, <2>1, <2>2, LongerClaims
<1> QED BY <1>1, <1>9, <1>10

-----------------------------------------------------------------------------
\* The theorem.

\* The ledger loaded from the state file is sound.
LEMMA LedgerStarts == ASSUME Init PROVE LedgerInv
<1> DEFINE es == scenario.stored
<1>1. IsScenario(scenario) /\ Loaded(es)
  BY SystemAssumption DEF Init
<1>2. /\ es \in Seq(Entry)
      /\ \A i, j \in DOMAIN es : Live(es[i]) /\ Live(es[j]) /\ es[i].o = es[j].o => i = j
  BY <1>1 DEF IsScenario
<1>3. entries = es /\ outpointSet = OutpointsIn(es) /\ blockIndex = IndexOf(es) /\ inFlight = {} /\ inFlightOutpoints = {}
  BY <1>1 DEF Loaded
<1> HIDE DEF es
<1>4. Len(es) \in Nat /\ DOMAIN es = 1..Len(es) /\ es \in [1..Len(es) -> Entry]
  BY <1>2, LenProperties
<1>5. \A e \in Entry : IsEntry(e)
  BY DEF Entry, IsEntry, Fields
<1>6. Vector(es)
  <2>1. es = [i \in 1..Len(es) |-> es[i]] /\ \A i \in 1..Len(es) : IsEntry(es[i])
    BY <1>4, <1>5
  <2> QED BY <1>4, <2>1, MakeVector
<1>7. Booked(entries, outpointSet, blockIndex)
  <2>1. OneLive(es)
    BY <1>2, <1>4 DEF OneLive
  <2> QED BY <1>3, <1>6, <2>1, RebuiltIs
<1>8. Apart({}, {})
  BY DEF Apart
<1>9. Messages
  BY DEF Init, Messages
<1> QED BY <1>3, <1>7, <1>8, <1>9 DEF LedgerInv

\* Every step of the miner and of the node keeps the ledger sound.
LEMMA LedgerKept == ASSUME LedgerInv, [Next]_vars PROVE LedgerInv'
<1> DEFINE Books == Booked(entries, outpointSet, blockIndex)
           Flight == Apart(inFlight, inFlightOutpoints)
<1>1. Books /\ Flight /\ Messages
  BY DEF LedgerInv
<1>2. Booked(entries', outpointSet', blockIndex') /\ Apart(inFlight', inFlightOutpoints') /\ Messages' => LedgerInv'
  BY DEF LedgerInv
<1>3. ASSUME UNCHANGED <<entries, outpointSet, blockIndex>>
      PROVE  Booked(entries', outpointSet', blockIndex')
  BY <1>1, <1>3
<1>4. ASSUME UNCHANGED <<inFlight, inFlightOutpoints>> PROVE Apart(inFlight', inFlightOutpoints')
  BY <1>1, <1>4
<1>5. ASSUME UNCHANGED <<notes, fetching, answers, replies>> PROVE Messages'
  BY <1>1, <1>5 DEF Messages
<1> HIDE DEF Books, Flight
<1>10. ASSUME NEW r \in SUBSET Reds, BlockAdded(r) PROVE LedgerInv'
  <2> DEFINE flight == {[c EXCEPT !.at = Older(@)] : c \in inFlight}
  <2>1. Booked(Aged(entries), outpointSet, blockIndex)
    <3>1. Vector(entries)
      BY <1>1 DEF Books, Booked
    <3> QED BY <1>1, <3>1, AgedFollows, FollowsKeeps DEF Books
  <2>2. Apart(flight, inFlightOutpoints)
    BY <1>1, AgedApart DEF Flight
  <2>3. HandleBlock(Aged(entries), flight, 0, r, {})
    BY <1>10 DEF BlockAdded
  <2> HIDE DEF flight
  <2>4. Booked(entries', outpointSet', blockIndex') /\ Apart(inFlight', inFlightOutpoints')
    BY <2>1, <2>2, <2>3, HandleBlockIs
  <2>5. Messages'
    BY <1>5, <1>10 DEF BlockAdded, mempoolVars
  <2> QED BY <1>2, <2>4, <2>5
<1>11. ASSUME NEW rem \in SUBSET Block, NEW add \in SUBSET Block, ChainChange(rem, add) PROVE LedgerInv'
  <2> DEFINE note == [removed |-> rem, added |-> add]
  <2>1. notes' = Append(notes, note) /\ UNCHANGED <<watcherVars, fetching, answers, replies>>
    BY <1>11 DEF ChainChange, mempoolVars
  <2>2. note \in [removed : SUBSET Block, added : SUBSET Block]
    OBVIOUS
  <2> HIDE DEF note
  <2>3. Messages'
    BY <1>1, <2>1, <2>2, AppendProperties DEF Messages
  <2> QED BY <1>2, <1>3, <1>4, <2>1, <2>3 DEF watcherVars, indexVars, flightVars
<1>12. ASSUME NEW b \in Block, AnswerGetBlock(b) PROVE LedgerInv'
  <2>1. /\ fetching' = fetching \ {b} /\ answers' = answers \cup {[b |-> b, onChain |-> b \in chain]}
        /\ UNCHANGED <<watcherVars, notes, replies>>
    BY <1>12 DEF AnswerGetBlock, mempoolVars
  <2>2. [b |-> b, onChain |-> b \in chain] \in [b : Block, onChain : BOOLEAN]
    OBVIOUS
  <2>3. Messages'
    BY <1>1, <2>1, <2>2 DEF Messages
  <2> QED BY <1>2, <1>3, <1>4, <2>1, <2>3 DEF watcherVars, indexVars, flightVars
<1>13. ASSUME NEW a \in answers, NEW r \in SUBSET Reds, BlockFetched(a, r) PROVE LedgerInv'
  <2> DEFINE chained == IF a.onChain THEN {a.b} ELSE {}
  <2>1. a.b \in Block
    BY <1>1 DEF Messages
  <2>2. chained \in SUBSET Block /\ \A b, c \in chained : b = c
    BY <2>1
  <2>3. HandleBlock(entries, inFlight, born[a.b], r, chained)
    BY <1>13 DEF BlockFetched
  <2> HIDE DEF chained
  <2>4. Booked(entries', outpointSet', blockIndex') /\ Apart(inFlight', inFlightOutpoints')
    BY <1>1, <2>2, <2>3, HandleBlockIs DEF Books, Flight
  <2>5. Messages'
    BY <1>1, <1>13 DEF BlockFetched, mempoolVars, Messages
  <2> QED BY <1>2, <2>4, <2>5
<1>14. ASSUME NEW b \in Block, NEW v, BlockValidated(b, v) PROVE LedgerInv'
  <2>1. /\ entries' \in {entries, Slashed(entries, blockIndex[b])}
        /\ UNCHANGED <<indexVars, flightVars, notes, fetching, answers, replies>>
    BY <1>14 DEF BlockValidated, OnBlockValidated, mempoolVars
  <2>2. Booked(Slashed(entries, blockIndex[b]), outpointSet, blockIndex)
    <3>1. Vector(entries)
      BY <1>1 DEF Books, Booked
    <3> QED BY <1>1, <3>1, SlashedFollows, FollowsKeeps DEF Books
  <2>3. Booked(entries', outpointSet', blockIndex')
    BY <1>1, <2>1, <2>2 DEF Books, indexVars
  <2> QED BY <1>2, <1>4, <1>5, <2>1, <2>3 DEF flightVars
<1>15. ASSUME NEW tx \in submitted, ProcessClaim(tx) PROVE LedgerInv'
  <2>1. \E r \in Verdicts(tx) : replies' = replies \cup {r}
    BY <1>15 DEF ProcessClaim
  <2>2. \A r \in Verdicts(tx) : r.kind \in Kinds
    BY DEF Verdicts, Kinds
  <2>3. Messages'
    BY <1>1, <1>15, <2>1, <2>2 DEF ProcessClaim, chainVars, Messages
  <2> QED BY <1>2, <1>3, <1>4, <1>15, <2>3 DEF ProcessClaim, indexVars
<1>16. ASSUME NEW tx \in submitted, NEW k \in {"seqlock", "other"}, RefuseClaim(tx, k) PROVE LedgerInv'
  <2>1. replies' = replies \cup {[tx |-> tx, kind |-> k, list |-> {}]} /\ k \in Kinds
    BY <1>16 DEF RefuseClaim, Kinds
  <2>2. Messages'
    BY <1>1, <1>16, <2>1 DEF RefuseClaim, chainVars, Messages
  <2> QED BY <1>2, <1>3, <1>4, <1>16, <2>2 DEF RefuseClaim, indexVars
<1>17. ASSUME NEW r \in replies, SubmitResponse(r) PROVE LedgerInv'
  <2>1. r.kind \in Kinds /\ OnSubmitResponse(r.tx, r.kind, r.list)
    BY <1>1, <1>17 DEF SubmitResponse, Messages
  <2>2. Booked(entries', outpointSet', blockIndex') /\ Apart(inFlight', inFlightOutpoints')
    BY <1>1, <2>1, ResponseIs DEF Books, Flight
  <2>3. Messages'
    BY <1>1, <1>17 DEF SubmitResponse, chainVars, Messages
  <2> QED BY <1>2, <2>2, <2>3
<1>18. ASSUME NEW o \in Outpoint, Burn(o) PROVE LedgerInv'
  BY <1>2, <1>3, <1>4, <1>5, <1>18 DEF Burn, watcherVars, indexVars, flightVars, chainVars
<1>19. ASSUME NEW o \in Outpoint, InferenceServed(o) PROVE LedgerInv'
  <2>1. TrackInferenceEscrow(o, 0)
    BY <1>19 DEF InferenceServed
  <2>2. Booked(entries', outpointSet', blockIndex')
    BY <1>1, <2>1, InferenceIs DEF Books
  <2>3. Apart(inFlight', inFlightOutpoints')
    BY <1>4, <2>1 DEF TrackInferenceEscrow, flightVars
  <2>4. Messages'
    BY <1>5, <1>19 DEF InferenceServed, chainVars, mempoolVars
  <2> QED BY <1>2, <2>2, <2>3, <2>4
<1>20. ASSUME ChainChanged PROVE LedgerInv'
  <2>1. /\ notes # <<>> /\ OnChainBlocksRemoved(Head(notes).removed)
        /\ fetching' = fetching \cup Head(notes).added /\ notes' = Tail(notes)
        /\ UNCHANGED <<answers, replies>>
    BY <1>20 DEF ChainChanged, mempoolVars
  <2>2. /\ Head(notes) \in [removed : SUBSET Block, added : SUBSET Block]
        /\ Tail(notes) \in Seq([removed : SUBSET Block, added : SUBSET Block])
    BY <1>1, <2>1, HeadTailProperties DEF Messages
  <2>3. Booked(entries', outpointSet', blockIndex')
    <3>1. Head(notes).removed \in SUBSET Block
      BY <2>2
    <3> QED BY <1>1, <2>1, <3>1, RemovedIs DEF Books
  <2>4. Apart(inFlight', inFlightOutpoints')
    BY <1>4, <2>1 DEF OnChainBlocksRemoved, flightVars
  <2>5. Messages'
    BY <1>1, <2>1, <2>2 DEF Messages
  <2> QED BY <1>2, <2>3, <2>4, <2>5
<1>21. ASSUME Reconnect PROVE LedgerInv'
  <2>1. /\ entries' = entries /\ outpointSet' = OutpointsIn(entries) /\ blockIndex' = IndexOf(entries)
        /\ inFlight' = {} /\ inFlightOutpoints' = {}
        /\ notes' = <<>> /\ answers' = {} /\ replies' = {} /\ fetching' = Backfilled
    BY <1>21 DEF Reconnect, Reload
  <2>2. Booked(entries, OutpointsIn(entries), IndexOf(entries))
    BY <1>1, RebuiltIs DEF Books, Booked
  <2>3. Apart({}, {})
    BY DEF Apart
  <2>4. Messages'
    BY <2>1 DEF Messages, Backfilled
  <2>5. Booked(entries', outpointSet', blockIndex') /\ Apart(inFlight', inFlightOutpoints')
    BY <2>1, <2>2, <2>3
  <2> QED BY <1>2, <2>4, <2>5
<1>22. CASE UNCHANGED vars
  BY <1>2, <1>3, <1>4, <1>5, <1>22 DEF vars, watcherVars, indexVars, flightVars, chainVars, mempoolVars
<1> QED
  BY <1>10, <1>11, <1>12, <1>13, <1>14, <1>15, <1>16, <1>17, <1>18, <1>19, <1>20, <1>21, <1>22 DEF Next

\* The inductive invariant is stronger than the property.
LEMMA LedgerInvSound == LedgerInv => LedgerIsSound
<1> SUFFICES ASSUME LedgerInv PROVE LedgerIsSound
  OBVIOUS
<1>1. Booked(entries, outpointSet, blockIndex) /\ Apart(inFlight, inFlightOutpoints)
  BY DEF LedgerInv
<1>2. DOMAIN entries = 1..Len(entries)
  BY <1>1, VectorIs DEF Booked
<1>3. IndexIsSound
  BY <1>1, <1>2 DEF IndexIsSound, Booked
<1>4. OneLiveEntry
  BY <1>1, <1>2 DEF OneLiveEntry, Booked, OneLive
<1>5. ClaimsAreDisjoint
  BY <1>1 DEF ClaimsAreDisjoint, Apart
<1> QED BY <1>3, <1>4, <1>5 DEF LedgerIsSound

\* The ledger is sound for ever: block_index names the ordinals of the vector
\* and misses no live entry, an output has at most one live entry, and the
\* claims in flight spend different outputs, those in in_flight_outpoints,
\* after any sequence of blocks, reorganisations, answers and reconnects.
THEOREM LedgerStaysSound == Spec => []LedgerIsSound
<1>1. Init => LedgerInv
  BY LedgerStarts
<1>2. LedgerInv /\ [Next]_vars => LedgerInv'
  BY LedgerKept
<1> QED BY <1>1, <1>2, LedgerInvSound, PTL DEF Spec

-----------------------------------------------------------------------------
\* What is claimed was accepted.

\* Outputs of the entries that were claimed when the program started.
ClaimedBefore ==
    {scenario.stored[i].o : i \in {j \in DOMAIN scenario.stored : scenario.stored[j].claimed}}

\* The node says of a claim that it is accepted, or known, only if it is; and
\* claimed entries are of outputs such claims spend, or were claimed before.
ClaimInv ==
    /\ \A r \in replies : Accepted(r.kind) => r.tx \in known
    /\ ClaimedIn(entries, Spent \cup ClaimedBefore)

\* At first no claim has been made.
LEMMA ClaimsStart == ASSUME Init PROVE ClaimInv
<1>1. IsScenario(scenario) /\ Loaded(scenario.stored)
  BY SystemAssumption DEF Init
<1>2. entries = scenario.stored /\ DOMAIN entries = 1..Len(entries)
  <2>1. entries = scenario.stored /\ entries \in Seq(Entry)
    BY <1>1 DEF Loaded, IsScenario
  <2> QED BY <2>1, LenProperties
<1>3. ClaimedIn(entries, ClaimedBefore)
  BY <1>2 DEF ClaimedIn, ClaimedBefore
<1>4. replies = {}
  BY DEF Init
<1> QED BY <1>3, <1>4 DEF ClaimInv, ClaimedIn

\* No step claims an entry without the acceptance of a claim that spends it.
LEMMA ClaimsKept == ASSUME LedgerInv, ClaimInv, [Next]_vars PROVE ClaimInv'
<1> DEFINE S == Spent \cup ClaimedBefore
<1>1. /\ Booked(entries, outpointSet, blockIndex) /\ Apart(inFlight, inFlightOutpoints) /\ Messages
      /\ Vector(entries)
  BY DEF LedgerInv, Booked
<1>2. ASSUME NEW more, known' = known \cup more, UNCHANGED scenario PROVE S \subseteq S'
  BY <1>2 DEF Spent, ClaimedBefore
<1>3. ASSUME ClaimsNone(entries', entries), UNCHANGED <<known, scenario>>, replies' \subseteq replies
      PROVE  ClaimInv'
  <2>1. S' = S
    BY <1>3 DEF Spent, ClaimedBefore
  <2> QED BY <1>3, <2>1 DEF ClaimInv, ClaimsNone
<1>4. ClaimsNone(entries, entries)
  BY DEF ClaimsNone
<1>10. ASSUME NEW r \in SUBSET Reds, BlockAdded(r) PROVE ClaimInv'
  <2> DEFINE flight == {[c EXCEPT !.at = Older(@)] : c \in inFlight}
  <2>1. Booked(Aged(entries), outpointSet, blockIndex)
    BY <1>1, AgedFollows, FollowsKeeps
  <2>2. Apart(flight, inFlightOutpoints)
    BY <1>1, AgedApart
  <2>3. HandleBlock(Aged(entries), flight, 0, r, {})
    BY <1>10 DEF BlockAdded
  <2> HIDE DEF flight
  <2>4. ClaimsNone(entries', Aged(entries))
    BY <2>1, <2>2, <2>3, HandleBlockIs
  <2>5. ClaimsNone(entries', entries)
    BY <1>1, <2>4, AgedClaims DEF ClaimsNone
  <2> QED BY <1>3, <1>10, <2>5 DEF BlockAdded, mempoolVars
<1>11. ASSUME NEW rem, NEW add, ChainChange(rem, add) PROVE ClaimInv'
  BY <1>3, <1>4, <1>11 DEF ChainChange, watcherVars, mempoolVars
<1>12. ASSUME NEW b, AnswerGetBlock(b) PROVE ClaimInv'
  BY <1>3, <1>4, <1>12 DEF AnswerGetBlock, watcherVars, mempoolVars
<1>13. ASSUME NEW a \in answers, NEW r \in SUBSET Reds, BlockFetched(a, r) PROVE ClaimInv'
  <2> DEFINE chained == IF a.onChain THEN {a.b} ELSE {}
  <2>1. a.b \in Block
    BY <1>1 DEF Messages
  <2>2. chained \in SUBSET Block /\ \A b, c \in chained : b = c
    BY <2>1
  <2>3. HandleBlock(entries, inFlight, born[a.b], r, chained)
    BY <1>13 DEF BlockFetched
  <2> HIDE DEF chained
  <2>4. ClaimsNone(entries', entries)
    BY <1>1, <2>2, <2>3, HandleBlockIs
  <2> QED BY <1>3, <1>13, <2>4 DEF BlockFetched, mempoolVars
<1>14. ASSUME NEW b, NEW v, BlockValidated(b, v) PROVE ClaimInv'
  <2>1. entries' \in {entries, Slashed(entries, blockIndex[b])} /\ UNCHANGED <<scenario, known, replies>>
    BY <1>14 DEF BlockValidated, OnBlockValidated, mempoolVars
  <2> QED BY <1>1, <1>3, <1>4, <2>1, SlashedClaims
<1>15. ASSUME NEW tx \in submitted, ProcessClaim(tx) PROVE ClaimInv'
  <2>1. PICK r \in Verdicts(tx) :
          /\ replies' = replies \cup {r}
          /\ known' = IF r.kind = "ok" THEN known \cup {tx} ELSE known
    BY <1>15 DEF ProcessClaim
  <2>2. UNCHANGED <<entries, scenario>>
    BY <1>15 DEF ProcessClaim, chainVars
  <2>3. r.tx = tx /\ (r.kind = "duplicate" => tx \in known)
    BY DEF Verdicts
  <2>4. known \subseteq known' /\ (Accepted(r.kind) => r.tx \in known')
    BY <2>1, <2>3 DEF Accepted
  <2>5. \A q \in replies' : Accepted(q.kind) => q.tx \in known'
    BY <2>1, <2>4 DEF ClaimInv
  <2>6. S \subseteq S'
    BY <2>2, <2>4 DEF Spent, ClaimedBefore
  <2>7. ClaimedIn(entries', S')
    BY <2>2, <2>6 DEF ClaimInv, ClaimedIn
  <2> QED BY <2>5, <2>7 DEF ClaimInv
<1>16. ASSUME NEW tx, NEW k \in {"seqlock", "other"}, RefuseClaim(tx, k) PROVE ClaimInv'
  <2>1. /\ replies' = replies \cup {[tx |-> tx, kind |-> k, list |-> {}]}
        /\ UNCHANGED <<entries, known, scenario>>
    BY <1>16 DEF RefuseClaim, chainVars
  <2>2. \A q \in replies' : Accepted(q.kind) => q.tx \in known'
    BY <2>1 DEF ClaimInv, Accepted
  <2>3. S' = S
    BY <2>1 DEF Spent, ClaimedBefore
  <2> QED BY <2>1, <2>2, <2>3 DEF ClaimInv
<1>17. ASSUME NEW r \in replies, SubmitResponse(r) PROVE ClaimInv'
  <2>1. /\ r.kind \in Kinds /\ OnSubmitResponse(r.tx, r.kind, r.list)
        /\ replies' \subseteq replies /\ UNCHANGED <<known, scenario>>
    BY <1>1, <1>17 DEF SubmitResponse, Messages, chainVars
  <2>2. Accepted(r.kind) => ToSet(r.tx) \subseteq S
    BY DEF ClaimInv, Spent
  <2>3. S' = S
    BY <2>1 DEF Spent, ClaimedBefore
  <2>4. ClaimsIfAccepted(entries', entries, r.tx, r.kind)
    BY <1>1, <2>1, ResponseIs
  <2> QED BY <2>1, <2>2, <2>3, <2>4 DEF ClaimInv, ClaimsIfAccepted
<1>18. ASSUME NEW o, Burn(o) PROVE ClaimInv'
  BY <1>3, <1>4, <1>18 DEF Burn, watcherVars, chainVars
<1>19. ASSUME NEW o \in Outpoint, InferenceServed(o) PROVE ClaimInv'
  <2>1. TrackInferenceEscrow(o, 0)
    BY <1>19 DEF InferenceServed
  <2> QED BY <1>1, <1>3, <1>19, <2>1, InferenceIs DEF InferenceServed, chainVars, mempoolVars
<1>20. ASSUME ChainChanged PROVE ClaimInv'
  <2>1. notes # <<>> /\ OnChainBlocksRemoved(Head(notes).removed)
    BY <1>20 DEF ChainChanged
  <2>2. Head(notes) \in [removed : SUBSET Block, added : SUBSET Block]
    BY <1>1, <2>1, HeadTailProperties DEF Messages
  <2>3. Head(notes).removed \in SUBSET Block
    BY <2>2
  <2> QED BY <1>1, <1>3, <1>20, <2>1, <2>3, RemovedIs DEF ChainChanged, mempoolVars
<1>21. ASSUME Reconnect PROVE ClaimInv'
  BY <1>3, <1>4, <1>21 DEF Reconnect, Reload
<1>22. CASE UNCHANGED vars
  BY <1>3, <1>4, <1>22 DEF vars, watcherVars, chainVars, mempoolVars
<1> QED
  BY <1>10, <1>11, <1>12, <1>13, <1>14, <1>15, <1>16, <1>17, <1>18, <1>19, <1>20, <1>21, <1>22 DEF Next

\* An entry is reported as claimed (on_submit_response) only if the node has
\* accepted a transaction that spends its output, whatever answers were lost,
\* late or doubled in between, or if it was claimed when the program started.
THEOREM ClaimedWasAccepted ==
    Spec => [](\A i \in DOMAIN entries : entries[i].claimed => entries[i].o \in Spent \cup ClaimedBefore)
<1>1. Init => LedgerInv /\ ClaimInv
  BY LedgerStarts, ClaimsStart
<1>2. LedgerInv /\ ClaimInv /\ [Next]_vars => (LedgerInv /\ ClaimInv)'
  BY LedgerKept, ClaimsKept
<1>3. LedgerInv /\ ClaimInv =>
        \A i \in DOMAIN entries : entries[i].claimed => entries[i].o \in Spent \cup ClaimedBefore
  BY VectorIs DEF LedgerInv, Booked, ClaimInv, ClaimedIn
<1> QED BY <1>1, <1>2, <1>3, PTL DEF Spec
=============================================================================
