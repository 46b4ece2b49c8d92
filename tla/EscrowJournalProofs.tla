------------------------- MODULE EscrowJournalProofs -------------------------
(***************************************************************************)
(* Proofs about EscrowJournal, for any set of outpoints and contents, any  *)
(* number of changes and any sequence of failures: as long as an append    *)
(* stops at a line end, nothing that was flushed is lost, and the store is *)
(* the durable map of DurableMap.                                          *)
(***************************************************************************)
EXTENDS EscrowJournal, TLAPS

Lines == journal \cup pending

\* Replay has a last word: the lines up to n about the keys K have a newest one.
HasTop(L)      == L = {} \/ \E t \in L : \A l \in L : l.s <= t.s
UpTo(L, K, n)  == {l \in L : l.k \in K /\ l.s <= n}
Topped(L)      == \A K \in SUBSET Key, n \in Nat : HasTop(UpTo(L, K, n))

Unique(L) == \A l, m \in L : l.s = m.s => l = m

\* The journal holds a prefix of the lines that are owed.
Ordered == \A j \in journal, p \in pending : p \in journal \/ j.s < p.s

Bounded ==
    /\ journalSeq <= MaxSeq /\ snapshotSeq <= MaxSeq
    /\ \A l \in Lines : l.s <= MaxSeq
    /\ running => snapshotSeq <= journalSeq /\ \A l \in Lines : l.s <= journalSeq

\* A stopped watcher owes nothing; an append that stops at a line end leaves
\* a terminated file.
Quiet == /\ ~running => pending = {} /\ ~snapshotDue
         /\ bare = {} /\ ~torn

\* The state in memory is the snapshot brought forward by all lines, up to the
\* done entries that compaction dropped and the next snapshot will drop.
Current ==
    running => \A k \in Key :
        LET r == Replay(snapshot, snapshotSeq, Lines)[k]
        IN entries[k] = r \/ (snapshotDue /\ entries[k] = None /\ r \in Done)

IInv ==
    /\ TypeOK
    /\ Topped(journal) /\ Topped(Lines) /\ Unique(Lines)
    /\ Ordered /\ Bounded /\ Quiet /\ Current

-----------------------------------------------------------------------------
\* Newest returns the line that no other line is newer than.
LEMMA NewestIs ==
    ASSUME NEW L, L \subseteq Line, Unique(L),
           NEW t \in L, \A l \in L : l.s <= t.s
    PROVE  Newest(L) = t
<1>1. Newest(L) \in L /\ \A l \in L : l.s <= Newest(L).s
  BY DEF Newest
<1>2. Newest(L).s = t.s
  BY <1>1 DEF Line
<1> QED BY <1>1, <1>2 DEF Unique

\* A key no line is about keeps the content the snapshot gives it.
LEMMA ReplayNone ==
    ASSUME NEW snap, NEW base, NEW L, NEW k \in Key, LinesOf(k, base, L) = {}
    PROVE  Replay(snap, base, L)[k] = snap[k]
BY DEF Replay

\* The last line about a key decides its content.
LEMMA ReplayTop ==
    ASSUME NEW snap, NEW base, NEW L, L \subseteq Line, Unique(L), NEW k \in Key,
           NEW t \in LinesOf(k, base, L), \A l \in LinesOf(k, base, L) : l.s <= t.s
    PROVE  Replay(snap, base, L)[k] = t.v
<1>1. LinesOf(k, base, L) \subseteq Line /\ Unique(LinesOf(k, base, L))
  BY DEF LinesOf, Unique
<1>2. Newest(LinesOf(k, base, L)) = t
  BY <1>1, NewestIs
<1> QED BY <1>2 DEF Replay

\* Lines about a key have a last one.
LEMMA TopOf ==
    ASSUME NEW L, L \subseteq Line, Topped(L), NEW k \in Key, NEW base \in Nat,
           \A l \in L : l.s <= MaxSeq, LinesOf(k, base, L) /= {}
    PROVE  \E t \in LinesOf(k, base, L) : \A l \in LinesOf(k, base, L) : l.s <= t.s
<1> DEFINE S == UpTo(L, {k}, MaxSeq)
<1>1. HasTop(S)
  BY JournalAssumption DEF Topped
<1>2. LinesOf(k, base, L) \subseteq S /\ \A l \in S : l.s > base => l \in LinesOf(k, base, L)
  BY DEF LinesOf, UpTo
<1>3. PICK t \in S : \A l \in S : l.s <= t.s
  BY <1>1, <1>2 DEF HasTop
<1>4. PICK l \in LinesOf(k, base, L) : TRUE
  OBVIOUS
<1>5. l.s > base /\ l.s <= t.s
  BY <1>2, <1>3, <1>4 DEF LinesOf
<1>6. t.s > base
  BY <1>3, <1>4, <1>5 DEF LinesOf, UpTo, Line
<1> QED BY <1>2, <1>3, <1>6

\* What replay returns has the type of the entry map.
LEMMA ReplayType ==
    ASSUME NEW snap \in Map, NEW base \in Nat, NEW L, L \subseteq Line,
           Topped(L), Unique(L), \A l \in L : l.s <= MaxSeq
    PROVE  Replay(snap, base, L) \in Map
<1>1. ASSUME NEW k \in Key PROVE Replay(snap, base, L)[k] \in Val \cup {None}
  <2>1. CASE LinesOf(k, base, L) = {}
    BY <2>1, ReplayNone DEF Map
  <2>2. CASE LinesOf(k, base, L) /= {}
    <3>1. PICK t \in LinesOf(k, base, L) : \A l \in LinesOf(k, base, L) : l.s <= t.s
      BY <2>2, TopOf
    <3>2. Replay(snap, base, L)[k] = t.v
      BY <3>1, ReplayTop
    <3> QED BY <3>1, <3>2 DEF LinesOf, Line
  <2> QED BY <2>1, <2>2
<1>2. Replay(snap, base, L) = [k \in Key |-> Replay(snap, base, L)[k]]
  BY DEF Replay
<1> QED BY <1>1, <1>2 DEF Map

-----------------------------------------------------------------------------
\* A line newer than all others keeps the lines topped and unique.
LEMMA AddTop ==
    ASSUME NEW L, L \subseteq Line, Topped(L), Unique(L),
           NEW n \in Line, \A l \in L : l.s < n.s
    PROVE  Topped(L \cup {n}) /\ Unique(L \cup {n})
<1>1. ASSUME NEW K \in SUBSET Key, NEW b \in Nat PROVE HasTop(UpTo(L \cup {n}, K, b))
  <2>1. CASE n.k \in K /\ n.s <= b
    <3>1. n \in UpTo(L \cup {n}, K, b)
      BY <2>1 DEF UpTo
    <3>2. \A l \in UpTo(L \cup {n}, K, b) : l.s <= n.s
      BY DEF UpTo, Line
    <3> QED BY <3>1, <3>2 DEF HasTop
  <2>2. CASE ~(n.k \in K /\ n.s <= b)
    <3>1. UpTo(L \cup {n}, K, b) = UpTo(L, K, b)
      BY <2>2 DEF UpTo
    <3> QED BY <3>1 DEF Topped
  <2> QED BY <2>1, <2>2
<1>2. Unique(L \cup {n})
  BY DEF Unique, Line
<1> QED BY <1>1, <1>2 DEF Topped

\* A prefix of the owed lines, appended to a journal that is itself a prefix,
\* leaves the journal topped.
LEMMA AppendPrefix ==
    ASSUME NEW J, NEW P, J \subseteq Line, P \subseteq Line, NEW b \in Nat,
           Topped(J), Topped(J \cup P),
           \A j \in J, p \in P : p \in J \/ j.s < p.s
    PROVE  Topped(J \cup {p \in P : p.s <= b})
<1> DEFINE A == {p \in P : p.s <= b}
<1>1. SUFFICES ASSUME NEW K \in SUBSET Key, NEW c \in Nat PROVE HasTop(UpTo(J \cup A, K, c))
  BY DEF Topped
<1>2. CASE \A p \in A : p \in UpTo(J \cup A, K, c) => p \in J
  <2>1. UpTo(J \cup A, K, c) = UpTo(J, K, c)
    BY <1>2 DEF UpTo
  <2> QED BY <2>1 DEF Topped
<1>3. ASSUME NEW w \in A, w \in UpTo(J \cup A, K, c), w \notin J PROVE HasTop(UpTo(J \cup A, K, c))
  <2> DEFINE d == IF b <= c THEN b ELSE c
  <2>1. d \in Nat /\ d <= b /\ d <= c
    OBVIOUS
  <2>2. HasTop(UpTo(J \cup P, K, d))
    BY <2>1 DEF Topped
  <2>3. w \in UpTo(J \cup P, K, d)
    BY <1>3 DEF UpTo
  <2>4. PICK t \in UpTo(J \cup P, K, d) : \A l \in UpTo(J \cup P, K, d) : l.s <= t.s
    BY <2>2, <2>3 DEF HasTop
  <2>5. t \in Line /\ w \in Line /\ w.s <= t.s
    BY <2>3, <2>4 DEF UpTo
  <2>6. \A j \in J : j.s < w.s
    BY <1>3
  <2>7. t \notin J
    BY <2>5, <2>6 DEF Line
  <2>8. t \in UpTo(J \cup A, K, c)
    BY <2>1, <2>4, <2>7 DEF UpTo, Line
  <2>9. ASSUME NEW l \in UpTo(J \cup A, K, c) PROVE l.s <= t.s
    <3>1. CASE l \in J
      BY <3>1, <2>5, <2>6 DEF Line
    <3>2. CASE l \in A
      <4>1. l \in UpTo(J \cup P, K, d)
        BY <3>2 DEF UpTo
      <4> QED BY <4>1, <2>4
    <3> QED BY <3>1, <3>2 DEF UpTo
  <2> QED BY <2>8, <2>9 DEF HasTop
<1> QED BY <1>2, <1>3

\* The snapshot of a running watcher supersedes every line.
LEMMA Superseded ==
    ASSUME IInv, running, NEW k \in Key, NEW L, L \subseteq Lines
    PROVE  Replay(entries, journalSeq, L)[k] = entries[k]
<1>1. LinesOf(k, journalSeq, L) = {}
  BY DEF IInv, Bounded, Lines, LinesOf, TypeOK, Line
<1> QED BY <1>1, ReplayNone

\* An append in which no line is torn.
LEMMA CleanAppend ==
    ASSUME IInv, NEW b \in Nat
    PROVE  journal \cup Applied({l \in pending : l.s <= b})
             = journal \cup {l \in pending : l.s <= b}
BY DEF IInv, Quiet, Applied, Ordered

\* The replayed sequence number covers the snapshot and every line.
LEMMA ReplaySeqCovers ==
    ASSUME NEW base \in Nat, base <= MaxSeq, NEW L, L \subseteq Line, Topped(L),
           Unique(L), \A l \in L : l.s <= MaxSeq
    PROVE  /\ ReplaySeq(base, L) \in Nat
           /\ ReplaySeq(base, L) <= MaxSeq
           /\ base <= ReplaySeq(base, L)
           /\ \A l \in L : l.s <= ReplaySeq(base, L)
<1> DEFINE new == {l \in L : l.s > base}
<1>1. CASE new = {}
  BY <1>1, JournalAssumption DEF ReplaySeq, Line
<1>2. CASE new /= {}
  <2>1. HasTop(UpTo(L, Key, MaxSeq))
    BY JournalAssumption DEF Topped
  <2>2. \A l \in L : l \in UpTo(L, Key, MaxSeq)
    BY DEF UpTo, Line
  <2>3. PICK t \in L : \A l \in L : l.s <= t.s
    BY <1>2, <2>1, <2>2 DEF HasTop, UpTo
  <2>4. t \in new /\ \A l \in new : l.s <= t.s
    BY <1>2, <2>3 DEF Line
  <2>5. Newest(new) = t
    BY <2>4, NewestIs DEF Unique
  <2>6. ReplaySeq(base, L) = t.s
    BY <1>2, <2>5 DEF ReplaySeq
  <2> QED BY <2>3, <2>4, <2>6 DEF Line
<1> QED BY <1>1, <1>2

-----------------------------------------------------------------------------
\* Nothing is tracked and nothing is on disk at first.
LEMMA InitIInv == Init => IInv
<1> SUFFICES ASSUME Init PROVE IInv
  OBVIOUS
<1>1. TypeOK
  BY DEF Init, TypeOK, Map, Empty, Line
<1>2. Lines = {} /\ journal = {}
  BY DEF Init, Lines
<1>3. Topped({}) /\ Unique({})
  BY DEF Topped, Unique, HasTop, UpTo
<1>4. Ordered /\ Bounded /\ Quiet
  BY <1>2, JournalAssumption DEF Init, Ordered, Bounded, Quiet
<1>5. \A k \in Key : Replay(snapshot, snapshotSeq, Lines)[k] = snapshot[k]
  BY <1>2, ReplayNone DEF LinesOf
<1>6. Current
  BY <1>5 DEF Init, Current
<1> QED BY <1>1, <1>2, <1>3, <1>4, <1>6 DEF IInv

\* append_journal_line: the new line is the newest of its key and past every other.
LEMMA ChangeIInv ==
    ASSUME IInv, NEW k \in Key, NEW v \in Val, Change(k, v) PROVE IInv'
<1> DEFINE n == [s |-> journalSeq + 1, k |-> k, v |-> v]
<1>1. TypeOK'
  BY DEF IInv, TypeOK, Change, Map, Line, diskVars
<1>2. n \in Line /\ Lines' = Lines \cup {n} /\ Lines \subseteq Line
  BY DEF IInv, TypeOK, Change, Lines, Line, diskVars
<1>3. running /\ \A l \in Lines : l.s < n.s
  BY <1>2 DEF IInv, Change, Bounded, TypeOK, Line
<1>4. Topped(Lines') /\ Unique(Lines')
  BY <1>2, <1>3, AddTop DEF IInv
<1>5. Topped(journal')
  BY DEF IInv, Change, diskVars
<1>6. Ordered'
  BY <1>3 DEF IInv, Ordered, Change, diskVars, Lines
<1>7. Bounded'
  BY <1>2, <1>3, JournalAssumption DEF IInv, Bounded, Change, diskVars, TypeOK, Line
<1>8. Quiet'
  BY DEF IInv, Quiet, Change, diskVars
<1>9. ASSUME NEW j \in Key, running'
      PROVE LET r == Replay(snapshot', snapshotSeq', Lines')[j]
            IN entries'[j] = r \/ (snapshotDue' /\ entries'[j] = None /\ r \in Done)
  <2>1. snapshot' = snapshot /\ snapshotSeq' = snapshotSeq /\ snapshotDue' = snapshotDue
    BY DEF Change, diskVars
  <2>2. CASE j = k
    <3>1. n \in LinesOf(k, snapshotSeq, Lines')
      BY <1>2, <1>3 DEF LinesOf, IInv, Bounded, TypeOK
    <3>2. \A l \in LinesOf(k, snapshotSeq, Lines') : l.s <= n.s
      BY <1>2, <1>3 DEF LinesOf, Line
    <3>3. Lines' \subseteq Line
      BY <1>2
    <3>4. Replay(snapshot, snapshotSeq, Lines')[k] = n.v
      <4> HIDE DEF n
      <4> QED BY <1>4, <3>1, <3>2, <3>3, ReplayTop
    <3>5. entries'[k] = v
      BY DEF Change, IInv, TypeOK, Map
    <3> QED BY <2>1, <2>2, <3>4, <3>5
  <2>3. CASE j /= k
    <3>1. LinesOf(j, snapshotSeq, Lines') = LinesOf(j, snapshotSeq, Lines)
      BY <1>2, <2>3 DEF LinesOf
    <3>2. Replay(snapshot, snapshotSeq, Lines')[j] = Replay(snapshot, snapshotSeq, Lines)[j]
      BY <3>1 DEF Replay
    <3>3. entries'[j] = entries[j]
      BY <2>3 DEF Change, IInv, TypeOK, Map
    <3> QED BY <1>3, <2>1, <3>2, <3>3 DEF IInv, Current
  <2> QED BY <2>2, <2>3
<1>10. Current'
  BY <1>9 DEF Current
<1> QED BY <1>1, <1>4, <1>5, <1>6, <1>7, <1>8, <1>10 DEF IInv

\* compact: the entries it drops leave snapshot_due set, which suspends the durable part.
LEMMA CompactIInv == ASSUME IInv, Compact PROVE IInv'
<1>1. TypeOK'
  BY DEF IInv, TypeOK, Compact, Map, diskVars
<1>2. UNCHANGED <<Lines, journal, journalSeq, pending, running, snapshot, snapshotSeq, bare, torn>>
  BY DEF Compact, diskVars, Lines
<1>3. Topped(journal') /\ Topped(Lines') /\ Unique(Lines')
  BY <1>2 DEF IInv
<1>4. Ordered' /\ Bounded' /\ Quiet'
  BY <1>2 DEF IInv, Ordered, Bounded, Quiet, Compact
<1>5. ASSUME NEW k \in Key
      PROVE LET r == Replay(snapshot, snapshotSeq, Lines)[k]
            IN entries'[k] = r \/ (entries'[k] = None /\ r \in Done)
  <2>1. entries'[k] = IF entries[k] \in Done THEN None ELSE entries[k]
    BY DEF Compact
  <2> QED BY <2>1, JournalAssumption DEF Compact, IInv, Current
<1>6. Current'
  BY <1>2, <1>5 DEF Current, Compact
<1> QED BY <1>1, <1>3, <1>4, <1>6 DEF IInv

\* Any snapshot attempt of a running watcher, whatever its outcome.
LEMMA FlushSnapshotIInv ==
    ASSUME IInv, NEW o \in Outcome, FlushSnapshot(o) PROVE IInv'
<1> USE DEF FlushSnapshot, WriteSnapshot, SaveOutcome, InstallSnapshot
<1>1. TypeOK'
  BY DEF IInv, TypeOK, diskVars
<1>2. Topped({}) /\ Unique({})
  BY DEF Topped, Unique, HasTop, UpTo
<1>3. CASE o = "ok"
  <2>1. Lines' = {} /\ journal' = {} /\ pending' = {}
    BY <1>3 DEF Lines
  <2>2. Ordered' /\ Bounded' /\ Quiet'
    BY <1>3, <2>1 DEF IInv, Ordered, Bounded, Quiet, TypeOK
  <2>3. \A k \in Key : Replay(entries, journalSeq, {})[k] = entries[k]
    BY Superseded
  <2>4. Current'
    BY <1>3, <2>1, <2>3 DEF Current
  <2> QED BY <1>1, <1>2, <2>1, <2>2, <2>4 DEF IInv
<1>4. CASE o = "installed"
  <2>1. UNCHANGED <<Lines, journal, pending, entries, journalSeq, running, snapshotDue, bare, torn>>
    BY <1>4 DEF Lines
  <2>2. snapshot' = entries /\ snapshotSeq' = journalSeq
    BY <1>4
  <2>3. Ordered' /\ Bounded' /\ Quiet'
    BY <2>1, <2>2 DEF IInv, Ordered, Bounded, Quiet, TypeOK
  <2>4. \A k \in Key : Replay(entries, journalSeq, Lines)[k] = entries[k]
    BY Superseded
  <2>5. Current'
    BY <2>1, <2>2, <2>4 DEF Current
  <2>6. Topped(journal') /\ Topped(Lines') /\ Unique(Lines')
    BY <2>1 DEF IInv
  <2> QED BY <1>1, <2>3, <2>5, <2>6 DEF IInv
<1>5. CASE o = "failed"
  <2>1. UNCHANGED <<Lines, journal, pending, entries, journalSeq, running, snapshotDue,
                    snapshot, snapshotSeq, bare, torn>>
    BY <1>5 DEF Lines, diskVars
  <2>2. Ordered' /\ Bounded' /\ Quiet' /\ Current'
    BY <2>1 DEF IInv, Ordered, Bounded, Quiet, Current
  <2>3. Topped(journal') /\ Topped(Lines') /\ Unique(Lines')
    BY <2>1 DEF IInv
  <2> QED BY <1>1, <2>2, <2>3 DEF IInv
<1> QED BY <1>3, <1>4, <1>5 DEF Outcome

\* Lines move from memory to the file; what replay makes of both is unchanged.
LEMMA AppendIInv ==
    ASSUME IInv, NEW b \in Nat,
           journal' = journal \cup {l \in pending : l.s <= b},
           pending' = pending \/ (pending' = {} /\ \A l \in pending : l.s <= b),
           bare' = {}, torn' = FALSE, sinceSnapshot' \in BOOLEAN,
           UNCHANGED <<entries, journalSeq, snapshotDue, running, snapshot, snapshotSeq>>
    PROVE  IInv'
<1>1. TypeOK'
  BY DEF IInv, TypeOK
<1>2. Lines' = Lines
  BY DEF Lines
<1>3. Topped(Lines') /\ Unique(Lines')
  BY <1>2 DEF IInv
<1>4. Topped(journal')
  BY AppendPrefix DEF IInv, TypeOK, Ordered, Lines
<1>5. ASSUME NEW j \in journal', NEW p \in pending' PROVE p \in journal' \/ j.s < p.s
  <2>1. j \in Line /\ p \in Line /\ p \in pending
    BY DEF IInv, TypeOK
  <2>2. CASE j \in journal
    BY <2>1, <2>2 DEF IInv, Ordered
  <2>3. CASE j \notin journal
    BY <2>1, <2>3 DEF Line
  <2> QED BY <2>2, <2>3
<1>6. Ordered' /\ Bounded' /\ Quiet' /\ Current'
  BY <1>2, <1>5 DEF IInv, Ordered, Bounded, Quiet, Current
<1> QED BY <1>1, <1>3, <1>4, <1>6 DEF IInv

\* write_journal appends every pending line; nothing is owed afterwards.
LEMMA FlushJournalIInv == ASSUME IInv, FlushJournal PROVE IInv'
<1>1. pending = {l \in pending : l.s <= MaxSeq}
  BY DEF IInv, Bounded, Lines
<1>2. MaxSeq \in Nat
  BY JournalAssumption
<1>3. journal' = journal \cup {l \in pending : l.s <= MaxSeq}
  BY <1>1, <1>2, CleanAppend DEF FlushJournal
<1>4. \A l \in pending : l.s <= MaxSeq
  BY <1>1
<1> QED BY <1>2, <1>3, <1>4, AppendIInv DEF FlushJournal

\* A cut append leaves a prefix of the pending lines and keeps all of them pending.
LEMMA FlushJournalCutIInv ==
    ASSUME ~TornWrites, IInv, NEW b \in 0..MaxSeq, FlushJournalCut(b) PROVE IInv'
<1>1. b \in Nat
  BY JournalAssumption
<1>2. journal' = journal \cup {l \in pending : l.s <= b}
  BY <1>1, CleanAppend DEF FlushJournalCut
<1>3. sinceSnapshot' \in BOOLEAN
  BY DEF IInv, TypeOK, FlushJournalCut, memVars
<1> QED BY <1>1, <1>2, <1>3, AppendIInv DEF FlushJournalCut, memVars

\* A stopped watcher: only the files matter, and their lines stay a set of
\* uniquely numbered lines.
LEMMA StoppedIInv ==
    ASSUME IInv, TypeOK', ~running', pending' = {}, ~snapshotDue',
           journalSeq' <= MaxSeq, snapshotSeq' <= MaxSeq,
           journal' \in {journal, {}}, bare' = {}, torn' = FALSE
    PROVE  IInv'
<1>1. Lines' = journal'
  BY DEF Lines
<1>2. Topped({}) /\ Unique({})
  BY DEF Topped, Unique, HasTop, UpTo
<1>3. Topped(journal)
  BY DEF IInv
<1>4. Unique(journal)
  BY DEF IInv, Unique, Lines
<1>5. Topped(journal') /\ Topped(Lines') /\ Unique(Lines')
  BY <1>1, <1>2, <1>3, <1>4
<1>6. Ordered' /\ Bounded' /\ Quiet' /\ Current'
  BY <1>1 DEF IInv, Ordered, Bounded, Quiet, Current, Lines
<1> QED BY <1>5, <1>6 DEF IInv

\* flush_state, then the watcher is dropped: the disk is a snapshot or what it was.
LEMMA ShutdownIInv ==
    ASSUME IInv, NEW o \in Outcome, Shutdown(o) PROVE IInv'
<1> USE DEF Shutdown, SaveOutcome, InstallSnapshot, Forget
<1>1. TypeOK'
  BY DEF IInv, TypeOK, diskVars, Map, Empty
<1>2. journal' \in {journal, {}} /\ bare' = {} /\ torn' = FALSE
  BY DEF IInv, Quiet, diskVars, TypeOK
<1>3. journalSeq' <= MaxSeq /\ snapshotSeq' <= MaxSeq
  BY JournalAssumption DEF IInv, Bounded, diskVars
<1> QED BY <1>1, <1>2, <1>3, StoppedIInv

\* A crash forgets the memory and leaves the disk alone.
LEMMA CrashIInv == ASSUME IInv, Crash PROVE IInv'
<1> USE DEF Crash, Forget
<1>1. TypeOK'
  BY DEF IInv, TypeOK, diskVars, Map, Empty
<1>2. journal' = journal /\ bare' = {} /\ torn' = FALSE
  BY DEF IInv, Quiet, diskVars, TypeOK
<1>3. journalSeq' <= MaxSeq /\ snapshotSeq' <= MaxSeq
  BY JournalAssumption DEF IInv, Bounded, diskVars
<1> QED BY <1>1, <1>2, <1>3, StoppedIInv

\* --recover-escrow writes the disk while no watcher runs.
LEMMA RecoverIInv ==
    ASSUME IInv, NEW m \in ApiState, NEW o \in Outcome, RecoverEscrow(m, o) PROVE IInv'
<1> USE DEF RecoverEscrow, SaveOutcome, InstallSnapshot
<1>1. m \in Map
  BY JournalAssumption DEF ApiState, Map
<1>2. TypeOK'
  <2>1. snapshot' \in Map /\ snapshotSeq' \in Nat
    BY <1>1 DEF IInv, TypeOK, diskVars
  <2>2. journal' \subseteq Line /\ bare' \subseteq Line /\ torn' \in BOOLEAN
    BY DEF IInv, TypeOK, diskVars
  <2>3. UNCHANGED <<entries, journalSeq, pending, sinceSnapshot, snapshotDue, running>>
    BY DEF memVars
  <2> QED BY <2>1, <2>2, <2>3 DEF IInv, TypeOK
<1>3. journal' \in {journal, {}} /\ bare' = {} /\ torn' = FALSE
  BY DEF IInv, Quiet, diskVars, TypeOK
<1>4. journalSeq' <= MaxSeq /\ snapshotSeq' <= MaxSeq
  BY JournalAssumption DEF IInv, Bounded, diskVars, memVars
<1>5. ~running' /\ pending' = {} /\ ~snapshotDue'
  BY DEF memVars, IInv, Quiet
<1> QED BY <1>2, <1>3, <1>4, <1>5, StoppedIInv

\* new: the replayed state is the memory, and numbering goes on past every line.
LEMMA StartIInv == ASSUME IInv, Start PROVE IInv'
<1>1. /\ Readable = journal /\ Lines = journal /\ journal \subseteq Line
      /\ pending' = {} /\ Lines' = journal /\ journal' = journal
  BY DEF IInv, Quiet, Readable, Start, Lines, diskVars, TypeOK
<1>2. /\ snapshot \in Map /\ snapshotSeq \in Nat /\ snapshotSeq <= MaxSeq
      /\ Topped(journal) /\ Unique(journal) /\ \A l \in journal : l.s <= MaxSeq
  BY <1>1 DEF IInv, TypeOK, Bounded
<1>3. Recovered \in Map
  BY <1>1, <1>2, ReplayType DEF Recovered
<1>4. /\ journalSeq' \in Nat /\ journalSeq' <= MaxSeq
      /\ snapshotSeq <= journalSeq' /\ \A l \in journal : l.s <= journalSeq'
  BY <1>1, <1>2, ReplaySeqCovers DEF Start
<1>5. TypeOK'
  BY <1>3, <1>4 DEF IInv, TypeOK, Start, diskVars
<1>6. Topped(journal') /\ Topped(Lines') /\ Unique(Lines')
  BY <1>1, <1>2
<1>7. Ordered' /\ Bounded' /\ Quiet'
  BY <1>1, <1>2, <1>4 DEF IInv, Ordered, Bounded, Quiet, Start, diskVars
<1>8. entries' = Replay(snapshot, snapshotSeq, Lines')
  BY <1>1 DEF Start, Recovered
<1>9. Current'
  BY <1>8 DEF Current, Start, diskVars
<1> QED BY <1>5, <1>6, <1>7, <1>9 DEF IInv

-----------------------------------------------------------------------------
\* Every step keeps the invariant when no append stops inside a line.
LEMMA NextIInv == ASSUME ~TornWrites, IInv, [Next]_vars PROVE IInv'
<1>1. ASSUME NEW k \in Key, NEW v \in Val, Change(k, v) PROVE IInv'
  BY <1>1, ChangeIInv
<1>2. ASSUME NEW o \in Outcome, FlushSnapshot(o) PROVE IInv'
  BY <1>2, FlushSnapshotIInv
<1>3. ASSUME NEW o \in Outcome, Shutdown(o) PROVE IInv'
  BY <1>3, ShutdownIInv
<1>4. ASSUME NEW m \in ApiState, NEW o \in Outcome, RecoverEscrow(m, o) PROVE IInv'
  BY <1>4, RecoverIInv
<1>5. ASSUME NEW n \in 0..MaxSeq, FlushJournalCut(n) PROVE IInv'
  BY <1>5, FlushJournalCutIInv
<1>6. CASE Compact
  BY <1>6, CompactIInv
<1>7. CASE FlushJournal
  BY <1>7, FlushJournalIInv
<1>8. CASE Crash
  BY <1>8, CrashIInv
<1>9. CASE Start
  BY <1>9, StartIInv
<1>10. CASE UNCHANGED vars
  <2>1. UNCHANGED <<entries, journalSeq, pending, sinceSnapshot, snapshotDue, running,
                    snapshot, snapshotSeq, journal, bare, torn>> /\ Lines' = Lines
    BY <1>10 DEF vars, memVars, diskVars, Lines
  <2>2. TypeOK' /\ Ordered' /\ Bounded' /\ Quiet' /\ Current'
    BY <2>1 DEF IInv, TypeOK, Ordered, Bounded, Quiet, Current
  <2>3. Topped(journal') /\ Topped(Lines') /\ Unique(Lines')
    BY <2>1 DEF IInv
  <2> QED BY <2>2, <2>3 DEF IInv
<1> QED BY <1>1, <1>2, <1>3, <1>4, <1>5, <1>6, <1>7, <1>8, <1>9, <1>10 DEF Next

\* Two maps over the outpoints are equal when they agree on each.
LEMMA SameMap ==
    ASSUME NEW f \in Map, NEW snap, NEW base, NEW L,
           \A k \in Key : f[k] = Replay(snap, base, L)[k]
    PROVE  Replay(snap, base, L) = f
BY DEF Map, Replay

\* When nothing is owed to the disk, the disk is the state in memory.
LEMMA IInvDurable == ASSUME IInv PROVE FlushedIsDurable
<1> SUFFICES ASSUME running, ~snapshotDue, pending = {} PROVE Recovered = entries
  BY DEF FlushedIsDurable
<1>1. Readable = Lines
  BY DEF IInv, Quiet, Readable, Lines
<1>2. \A k \in Key : entries[k] = Replay(snapshot, snapshotSeq, Lines)[k]
  BY DEF IInv, Current
<1>3. entries \in Map
  BY DEF IInv, TypeOK
<1> QED BY <1>1, <1>2, <1>3, SameMap DEF Recovered

\* The owed lines bring the disk up to the state in memory.
LEMMA IInvOwed == ASSUME IInv PROVE OwedIsRecoverable
<1> SUFFICES ASSUME running, ~snapshotDue
             PROVE  Replay(snapshot, snapshotSeq, journal \cup Applied(pending)) = entries
  BY DEF OwedIsRecoverable
<1>1. pending = {l \in pending : l.s <= MaxSeq} /\ MaxSeq \in Nat
  BY JournalAssumption DEF IInv, Bounded, Lines
<1>2. journal \cup Applied(pending) = Lines
  BY <1>1, CleanAppend DEF Lines
<1>3. \A k \in Key : entries[k] = Replay(snapshot, snapshotSeq, Lines)[k]
  BY DEF IInv, Current
<1>4. entries \in Map
  BY DEF IInv, TypeOK
<1> QED BY <1>2, <1>3, <1>4, SameMap

\* A save by the running watcher leaves a snapshot that replay does not touch.
LEMMA SavedIsWhole ==
    ASSUME IInv, running, NEW o \in Outcome, SaveOutcome(entries, journalSeq, o),
           snapshot' /= snapshot
    PROVE  Recovered' = snapshot'
<1> USE DEF SaveOutcome, InstallSnapshot
<1>1. snapshot' = entries /\ snapshotSeq' = journalSeq
  BY DEF diskVars
<1>2. Readable' \subseteq Lines
  BY DEF IInv, Quiet, Readable, Lines, diskVars
<1>3. \A k \in Key : Replay(entries, journalSeq, Readable')[k] = entries[k]
  BY <1>2, Superseded
<1>4. entries \in Map
  BY DEF IInv, TypeOK
<1>5. Replay(entries, journalSeq, Readable') = entries
  BY <1>3, <1>4, SameMap
<1> QED BY <1>1, <1>5 DEF Recovered

\* Only a save changes the snapshot of a running watcher.
LEMMA StepInstalls ==
    ASSUME IInv, [Next]_vars, running, snapshot' /= snapshot
    PROVE  Recovered' = snapshot'
<1>1. CASE \E o \in Outcome : FlushSnapshot(o)
  BY <1>1, SavedIsWhole DEF FlushSnapshot, WriteSnapshot
<1>2. CASE \E o \in Outcome : Shutdown(o)
  BY <1>2, SavedIsWhole DEF Shutdown, diskVars
<1>3. ~ \E k \in Key, v \in Val : Change(k, v)
  BY DEF Change, diskVars
<1>4. ~ \E m \in ApiState, o \in Outcome : RecoverEscrow(m, o)
  BY DEF RecoverEscrow
<1>5. ~ \E n \in 0..MaxSeq : FlushJournalCut(n)
  BY DEF FlushJournalCut
<1>6. ~Compact /\ ~FlushJournal /\ ~Crash /\ ~Start /\ ~UNCHANGED vars
  BY DEF Compact, FlushJournal, Crash, Start, diskVars, vars
<1> QED BY <1>1, <1>2, <1>3, <1>4, <1>5, <1>6 DEF Next

\* The inductive invariant of the store holds in every reachable state.
THEOREM StoreInvariant == ASSUME ~TornWrites PROVE Spec => []IInv
<1>1. IInv /\ [Next]_vars => IInv'
  BY NextIInv
<1> QED BY InitIInv, <1>1, PTL DEF Spec

\* Type correctness of the watcher's memory and of its two files.
THEOREM StoreTypes == ASSUME ~TornWrites PROVE Spec => []TypeOK
<1>1. IInv => TypeOK
  BY DEF IInv
<1> QED BY StoreInvariant, <1>1, PTL

\* Whatever was flushed survives a crash: the two-second promise of the
\* journal, for appends that stop at line ends.
THEOREM FlushedSurvives == ASSUME ~TornWrites PROVE Spec => []FlushedIsDurable
<1>1. IInv => FlushedIsDurable
  BY IInvDurable
<1> QED BY StoreInvariant, <1>1, PTL

\* A failed or partial flush owes no less than what is missing on disk.
THEOREM OwedSurvives == ASSUME ~TornWrites PROVE Spec => []OwedIsRecoverable
<1>1. IInv => OwedIsRecoverable
  BY IInvOwed
<1> QED BY StoreInvariant, <1>1, PTL
\* A snapshot that save_state_atomic installs is loaded whole by the next
\* start, also when the journal behind it could not be emptied.
THEOREM InstalledSurvives == ASSUME ~TornWrites PROVE Spec => InstalledIsWhole
<1>1. IInv /\ [Next]_vars => [running /\ snapshot' /= snapshot => Recovered' = snapshot']_vars
  BY StepInstalls
<1>2. Spec => []IInv /\ [][Next]_vars
  BY StoreInvariant, PTL DEF Spec
<1> QED BY <1>1, <1>2, PTL DEF InstalledIsWhole

-----------------------------------------------------------------------------
\* The store is a durable map.

\* Lines that are no longer owed are older than those that are.
Aged == \A j \in journal, p \in pending : j \in pending \/ j.s < p.s

\* p is the last line up to n that is owed about its outpoint.
LastOwed(p, n) ==
    p \in pending /\ p.s <= n /\ \A q \in pending : q.k = p.k /\ q.s <= n => q.s <= p.s

\* A snapshot that was installed and reported as failed holds what the lines
\* below its number say, which are still owed and will be appended behind it.
Covered == running /\ ~snapshotDue => \A p \in pending : LastOwed(p, snapshotSeq) => snapshot[p.k] = p.v

RInv == IInv /\ Aged /\ Covered

\* What the refinement needs of the invariant.
LEMMA RInvIs ==
    ASSUME RInv
    PROVE  /\ IInv /\ Aged /\ Covered /\ entries \in Map /\ snapshot \in Map
           /\ journal \subseteq Line /\ pending \subseteq Line /\ Lines \subseteq Line
           /\ journalSeq \in Nat /\ snapshotSeq \in Nat /\ running \in BOOLEAN /\ snapshotDue \in BOOLEAN
           /\ snapshotSeq <= MaxSeq /\ journalSeq <= MaxSeq /\ MaxSeq \in Nat
           /\ \A l \in Lines : l.s <= MaxSeq
           /\ running => snapshotSeq <= journalSeq /\ \A l \in Lines : l.s <= journalSeq
           /\ bare = {} /\ torn = FALSE /\ Readable = journal
           /\ ~running => pending = {} /\ ~snapshotDue
BY JournalAssumption DEF RInv, IInv, TypeOK, Bounded, Quiet, Lines, Readable

\* The last line that is owed about an outpoint is what memory holds of it.
LEMMA LastIsInMemory ==
    ASSUME RInv, running, ~snapshotDue, NEW p \in pending, LastOwed(p, journalSeq)
    PROVE  entries[p.k] = p.v
<1> DEFINE k == p.k
           mine == LinesOf(k, snapshotSeq, Lines)
<1>1. k \in Key /\ p \in Line /\ p \in Lines /\ p.s \in Nat
  BY RInvIs DEF Lines, Line
<1>2. entries[k] = Replay(snapshot, snapshotSeq, Lines)[k]
  BY <1>1, RInvIs DEF IInv, Current
<1>3. \A l \in mine : l \in Line /\ l.k = k /\ l.s \in Nat /\ l.s > snapshotSeq /\ l.s <= p.s
  <2> SUFFICES ASSUME NEW l \in mine
               PROVE  l \in Line /\ l.k = k /\ l.s \in Nat /\ l.s > snapshotSeq /\ l.s <= p.s
    OBVIOUS
  <2>1. l \in Lines /\ l \in Line /\ l.k = k /\ l.s > snapshotSeq /\ l.s <= journalSeq /\ l.s \in Nat
    BY RInvIs DEF LinesOf, Line
  <2>2. CASE l \in pending
    BY <2>1, <2>2 DEF LastOwed
  <2>3. CASE l \in journal /\ l \notin pending
    BY <1>1, <2>1, <2>3, RInvIs DEF Aged
  <2> QED BY <2>1, <2>2, <2>3 DEF Lines
<1>4. CASE p.s > snapshotSeq
  <2>1. p \in mine
    BY <1>1, <1>4 DEF LinesOf
  <2>2. Replay(snapshot, snapshotSeq, Lines)[k] = p.v
    <3>1. Lines \subseteq Line /\ Unique(Lines)
      BY RInvIs DEF IInv
    <3> QED BY <1>1, <1>3, <2>1, <3>1, ReplayTop
  <2> QED BY <1>2, <2>2
<1>5. CASE ~(p.s > snapshotSeq)
  <2>1. mine = {}
    BY <1>1, <1>3, <1>5, RInvIs
  <2>2. Replay(snapshot, snapshotSeq, Lines)[k] = snapshot[k]
    BY <1>1, <2>1, ReplayNone
  <2>3. LastOwed(p, snapshotSeq)
    <3>1. p.s <= snapshotSeq /\ snapshotSeq <= journalSeq
      BY <1>1, <1>5, RInvIs
    <3>2. \A q \in pending : q.s \in Nat /\ (q.s <= snapshotSeq => q.s <= journalSeq)
      BY <3>1, RInvIs DEF Line
    <3> QED BY <3>1, <3>2 DEF LastOwed
  <2> QED BY <1>2, <2>2, <2>3, RInvIs DEF Covered
<1> QED BY <1>4, <1>5

\* A snapshot by a running watcher is the map in memory, whatever lines follow it.
LEMMA SavedIsLoaded ==
    ASSUME RInv, running, NEW L, L \subseteq Lines
    PROVE  Replay(entries, journalSeq, L) = entries
<1>1. \A k \in Key : entries[k] = Replay(entries, journalSeq, L)[k]
  BY RInvIs, Superseded
<1> QED BY <1>1, RInvIs, SameMap

\* A prefix of the owed lines behind the journal brings forward what a restart loads.
LEMMA PrefixBringsForward ==
    ASSUME RInv, running, ~snapshotDue, NEW b \in Nat,
           NEW w \in pending, w.s <= b, w \notin journal, w.s > snapshotSeq
    PROVE  Replay(snapshot, snapshotSeq, journal \cup {l \in pending : l.s <= b})
             = Store!Forward(Replay(snapshot, snapshotSeq, journal), {l \in pending : l.s <= b})
<1> DEFINE W == {l \in pending : l.s <= b}
           old == Replay(snapshot, snapshotSeq, journal)
           new == Replay(snapshot, snapshotSeq, journal \cup W)
<1>1. \A l \in Lines : l \in Line /\ l.s \in Nat
  BY RInvIs DEF Line
<1>2. \A j \in journal : j.s < w.s /\ j.s <= b
  <2>1. \A j \in journal : j.s < w.s
    BY RInvIs DEF IInv, Ordered
  <2> QED BY <1>1, <2>1 DEF Lines
<1>3. ASSUME NEW k \in Key, {c \in W : c.k = k} = {} PROVE new[k] = old[k]
  <2>1. LinesOf(k, snapshotSeq, journal \cup W) = LinesOf(k, snapshotSeq, journal)
    BY <1>3 DEF LinesOf
  <2> QED BY <2>1 DEF Replay
<1>4. ASSUME NEW k \in Key, {c \in W : c.k = k} # {}
      PROVE  \E t \in W : t.k = k /\ t.v = new[k] /\ \A d \in W : d.k = k => d.s <= t.s
  <2> DEFINE U == UpTo(Lines, {k}, b)
  <2>1. PICK c \in W : c.k = k
    BY <1>4
  <2>2. c \in U
    BY <2>1 DEF UpTo, Lines
  <2>3. PICK t \in U : \A l \in U : l.s <= t.s
    <3>1. HasTop(U)
      BY RInvIs DEF IInv, Topped
    <3> QED BY <2>2, <3>1 DEF HasTop
  <2>4. t \in Lines /\ t.k = k /\ t.s <= b /\ t.s \in Nat /\ t \in Line
    BY <1>1, <2>3 DEF UpTo
  <2>5. t \in W
    <3>1. CASE t \in pending
      BY <2>4, <3>1
    <3>2. CASE t \in journal /\ t \notin pending
      <4>1. t.s < c.s
        BY <2>1, <3>2, RInvIs DEF Aged
      <4>2. c.s <= t.s /\ c.s \in Nat
        BY <1>1, <2>2, <2>3 DEF UpTo
      <4> QED BY <2>4, <4>1, <4>2
    <3> QED BY <2>4, <3>1, <3>2 DEF Lines
  <2>6. \A l \in journal \cup W : l \in Line /\ (l.k = k => l \in U /\ l.s <= t.s)
    <3>1. \A l \in journal \cup W : l \in Lines /\ l.s <= b
      BY <1>2 DEF Lines
    <3> QED BY <1>1, <2>3, <3>1 DEF UpTo
  <2>7. CASE t.s > snapshotSeq
    <3>1. t \in LinesOf(k, snapshotSeq, journal \cup W) /\ \A l \in LinesOf(k, snapshotSeq, journal \cup W) : l.s <= t.s
      BY <2>4, <2>5, <2>6, <2>7 DEF LinesOf
    <3>2. journal \cup W \subseteq Line /\ Unique(journal \cup W)
      <4>1. Unique(Lines) /\ journal \cup W \subseteq Lines
        BY RInvIs DEF IInv, Lines
      <4> QED BY <1>1, <4>1 DEF Unique
    <3>3. new[k] = t.v
      <4> DEFINE L == journal \cup W
      <4>1. L \subseteq Line /\ Unique(L) /\ t \in LinesOf(k, snapshotSeq, L) /\ \A l \in LinesOf(k, snapshotSeq, L) : l.s <= t.s
        BY <3>1, <3>2
      <4> HIDE DEF L
      <4>2. Replay(snapshot, snapshotSeq, L)[k] = t.v
        BY <4>1, ReplayTop
      <4> QED BY <4>2 DEF L
    <3> QED BY <2>4, <2>5, <2>6, <3>3
  <2>8. CASE ~(t.s > snapshotSeq)
    <3>1. \A l \in LinesOf(k, snapshotSeq, journal \cup W) : l \in journal \cup W /\ l.k = k /\ l.s > snapshotSeq
      BY DEF LinesOf
    <3>2. LinesOf(k, snapshotSeq, journal \cup W) = {}
      <4>1. \A l \in journal \cup W : l.k = k => l.s \in Nat /\ l.s <= t.s
        BY <1>1, <2>6 DEF UpTo
      <4> QED BY <2>4, <2>8, <3>1, <4>1, RInvIs
    <3>3. new[k] = snapshot[k]
      BY <3>2, ReplayNone
    <3>4. LastOwed(t, snapshotSeq)
      <4>1. snapshotSeq <= b /\ t.s <= snapshotSeq
        BY <1>1, <2>4, <2>8, RInvIs DEF Lines
      <4>2. \A q \in pending : q.s \in Nat /\ (q.s <= snapshotSeq => q \in W)
        BY <1>1, <4>1, RInvIs DEF Lines
      <4> QED BY <2>4, <2>5, <2>6, <4>1, <4>2 DEF LastOwed
    <3>5. snapshot[k] = t.v
      BY <2>4, <2>5, <3>4, RInvIs DEF Covered
    <3> QED BY <2>4, <2>5, <2>6, <3>3, <3>5
  <2> QED BY <2>7, <2>8
<1>5. ASSUME NEW k \in Key PROVE new[k] = Store!Forward(old, W)[k]
  <2> DEFINE mine == {c \in W : c.k = k}
  <2>1. Store!Forward(old, W)[k] = IF mine = {} THEN old[k] ELSE Store!Newest(mine).v
    BY DEF Store!Forward
  <2>2. CASE mine = {}
    BY <1>3, <2>1, <2>2
  <2>3. CASE mine # {}
    <3>1. PICK t \in W : t.k = k /\ t.v = new[k] /\ \A d \in W : d.k = k => d.s <= t.s
      <4> HIDE DEF new
      <4> QED BY <1>4, <2>3
    <3>2. t \in mine /\ mine \subseteq Line /\ Unique(mine) /\ \A d \in mine : d.s <= t.s
      <4>1. mine \subseteq Lines /\ Unique(Lines)
        BY RInvIs DEF IInv, Lines
      <4> QED BY <1>1, <3>1, <4>1 DEF Unique
    <3>3. Newest(mine) = t
      <4> HIDE DEF mine
      <4> QED BY <3>2, NewestIs
    <3>4. Store!Newest(mine) = Newest(mine)
      BY DEF Store!Newest, Newest
    <3> QED BY <2>1, <2>3, <3>1, <3>3, <3>4
  <2> QED BY <2>2, <2>3
<1>6. new = [k \in Key |-> new[k]]
  BY DEF Replay
<1>7. Store!Forward(old, W) = [k \in Key |-> Store!Forward(old, W)[k]]
  BY DEF Store!Forward
<1> HIDE DEF new, old, W
<1>8. new = Store!Forward(old, W)
  BY <1>5, <1>6, <1>7
<1> QED BY <1>8 DEF new, old, W

-----------------------------------------------------------------------------
\* The invariant of the refinement.
LEMMA InitRInv == Init => RInv
BY InitIInv DEF Init, RInv, Aged, Covered

\* A step that leaves the disk, what is owed and what is due alone.
LEMMA SameOwed ==
    ASSUME RInv, UNCHANGED <<snapshot, snapshotSeq, pending>>, journal' \subseteq journal \cup pending,
           running' => running, snapshotDue' = snapshotDue
    PROVE  Aged' /\ Covered'
BY DEF RInv, Aged, Covered, LastOwed

\* A step after which nothing is owed line by line.
LEMMA NothingOwed == ASSUME pending' = {} PROVE Aged' /\ Covered'
BY DEF Aged, Covered

\* A change's line is newer than all others.
LEMMA ChangeRInv == ASSUME RInv, NEW k \in Key, NEW v \in Val, Change(k, v) PROVE Aged' /\ Covered'
<1> DEFINE n == [s |-> journalSeq + 1, k |-> k, v |-> v]
<1>1. /\ running /\ running' = running /\ pending' = pending \cup {n} /\ snapshotDue' = snapshotDue
      /\ journal' = journal /\ snapshot' = snapshot /\ snapshotSeq' = snapshotSeq
  BY DEF Change, diskVars
<1>2. n.s = journalSeq + 1 /\ n.k = k
  OBVIOUS
<1> HIDE DEF n
<1>3. \A l \in Lines : l.s \in Nat /\ l.s < n.s
  BY <1>1, <1>2, RInvIs DEF Line
<1>4. Aged'
  BY <1>1, <1>3, RInvIs DEF Aged, Lines
<1>5. ~(n.s <= snapshotSeq)
  BY <1>1, <1>2, RInvIs
<1>6. Covered'
  BY <1>1, <1>5, RInvIs DEF Covered, LastOwed
<1> QED BY <1>4, <1>6

\* A snapshot holds what the lines it leaves owed say.
LEMMA FlushSnapshotRInv == ASSUME RInv, NEW o \in Outcome, FlushSnapshot(o) PROVE Aged' /\ Covered'
<1> USE DEF FlushSnapshot, WriteSnapshot, SaveOutcome, InstallSnapshot, diskVars
<1>1. CASE o = "ok"
  BY <1>1, NothingOwed
<1>2. CASE o = "failed"
  BY <1>2, SameOwed
<1>3. CASE o = "installed"
  <2>1. /\ snapshot' = entries /\ snapshotSeq' = journalSeq /\ journal' = journal /\ pending' = pending
        /\ running /\ snapshotDue' = snapshotDue
    BY <1>3
  <2>2. Aged'
    BY <2>1, RInvIs DEF Aged
  <2>3. \A p : LastOwed(p, snapshotSeq)' <=> LastOwed(p, journalSeq)
    BY <2>1 DEF LastOwed
  <2>4. Covered'
    BY <2>1, <2>3, LastIsInMemory DEF Covered
  <2> QED BY <2>2, <2>4
<1> QED BY <1>1, <1>2, <1>3 DEF Outcome

\* Every step keeps the invariant of the refinement.
LEMMA NextRInv == ASSUME ~TornWrites, RInv, [Next]_vars PROVE RInv'
<1>1. IInv'
  BY NextIInv, RInvIs
<1>2. CASE \E k \in Key, v \in Val : Change(k, v)
  BY <1>1, <1>2, ChangeRInv DEF RInv
<1>3. CASE \E o \in Outcome : FlushSnapshot(o)
  BY <1>1, <1>3, FlushSnapshotRInv DEF RInv
<1>4. CASE \E o \in Outcome : Shutdown(o)
  BY <1>1, <1>4, NothingOwed DEF RInv, Shutdown, Forget
<1>5. CASE \E m \in ApiState, o \in Outcome : RecoverEscrow(m, o)
  BY <1>1, <1>5, RInvIs, NothingOwed DEF RInv, RecoverEscrow, memVars
<1>6. CASE \E n \in 0..MaxSeq : FlushJournalCut(n)
  <2>1. UNCHANGED <<snapshot, snapshotSeq, pending, running, snapshotDue>> /\ journal' \subseteq journal \cup pending
    BY <1>6 DEF FlushJournalCut, Applied, memVars
  <2> QED BY <1>1, <2>1, SameOwed DEF RInv
<1>7. CASE Compact
  BY <1>1, <1>7, RInvIs DEF RInv, Compact, diskVars, Aged, Covered
<1>8. CASE FlushJournal
  BY <1>1, <1>8, NothingOwed DEF RInv, FlushJournal
<1>9. CASE Crash
  BY <1>1, <1>9, NothingOwed DEF RInv, Crash, Forget
<1>10. CASE Start
  BY <1>1, <1>10, RInvIs, NothingOwed DEF RInv, Start
<1>11. CASE UNCHANGED vars
  BY <1>1, <1>11, SameOwed DEF RInv, vars, memVars, diskVars
<1> QED BY <1>2, <1>3, <1>4, <1>5, <1>6, <1>7, <1>8, <1>9, <1>10, <1>11 DEF Next

-----------------------------------------------------------------------------
\* Every step of the store is a step of the durable map, or none.

\* A change is a put.
LEMMA ChangeIsPut == ASSUME RInv, NEW k \in Key, NEW v \in Val, Change(k, v) PROVE Store!Next
<1>1. journalSeq + 1 \in 0..MaxSeq
  BY RInvIs DEF Change
<1>2. Recovered' = Recovered
  BY DEF Change, diskVars, Recovered, Readable
<1>3. \A c \in pending : c.s < journalSeq + 1
  BY RInvIs DEF Change, Lines, Line
<1>4. Store!Put(k, v, journalSeq + 1)
  BY <1>2, <1>3 DEF Change, Store!Put
<1> QED BY <1>1, <1>4 DEF Store!Next

\* Compaction drops done keys from the map and nothing from the disk.
LEMMA CompactIsDrop == ASSUME Compact PROVE Store!Next
<1>1. Recovered' = Recovered
  BY DEF Compact, diskVars, Recovered, Readable
<1> QED BY <1>1 DEF Compact, Store!Drop, Store!Next

\* What a save makes of what a restart loads.
LEMMA SaveOutcomes ==
    ASSUME RInv, running, NEW o \in Outcome, SaveOutcome(entries, journalSeq, o)
    PROVE  /\ o # "failed" => Recovered' = entries
           /\ o = "failed" => Recovered' = Recovered
<1> USE DEF SaveOutcome, InstallSnapshot
<1>1. CASE o = "failed"
  BY <1>1 DEF diskVars, Recovered, Readable
<1>2. CASE o # "failed"
  <2>1. snapshot' = entries /\ snapshotSeq' = journalSeq /\ Readable' \subseteq journal
    BY <1>2, RInvIs DEF Readable
  <2>2. Readable' \subseteq Lines
    BY <2>1 DEF Lines
  <2>3. Replay(entries, journalSeq, Readable') = entries
    BY <2>2, SavedIsLoaded
  <2> QED BY <1>2, <2>1, <2>3 DEF Recovered
<1> QED BY <1>1, <1>2

\* A snapshot makes the whole map durable, or nothing.
LEMMA FlushSnapshotIsSave ==
    ASSUME RInv, NEW o \in Outcome, FlushSnapshot(o) PROVE Store!Next \/ UNCHANGED Store!vars
<1>1. /\ running /\ running' = running /\ entries' = entries
      /\ SaveOutcome(entries, journalSeq, o) /\ pending' \in {pending, {}} /\ (o # "ok" => pending' = pending)
  BY DEF FlushSnapshot, WriteSnapshot
<1>2. CASE o = "failed"
  BY <1>1, <1>2, SaveOutcomes DEF Store!vars
<1>3. CASE o # "failed"
  <2>1. Store!Save
    BY <1>1, <1>3, SaveOutcomes DEF Store!Save
  <2> QED BY <2>1 DEF Store!Next
<1> QED BY <1>2, <1>3

\* A complete append makes the whole map durable.
LEMMA FlushJournalIsSave == ASSUME RInv, FlushJournal PROVE Store!Next
<1>1. running /\ ~snapshotDue /\ Readable' = journal \cup Applied(pending)
      /\ snapshot' = snapshot /\ snapshotSeq' = snapshotSeq
      /\ entries' = entries /\ running' = running /\ pending' = {}
  BY DEF FlushJournal, Readable
<1>2. Recovered' = entries
  BY <1>1, RInvIs, IInvOwed DEF OwedIsRecoverable, Recovered
<1>3. Store!Save
  BY <1>1, <1>2 DEF Store!Save
<1> QED BY <1>3 DEF Store!Next

\* A cut append makes a prefix of the changes durable, unless all it wrote was
\* in the journal, or in the snapshot, before.
LEMMA CutIsSavePrefix ==
    ASSUME ~TornWrites, RInv, NEW b \in 0..MaxSeq, FlushJournalCut(b) PROVE Store!Next \/ UNCHANGED Store!vars
<1> DEFINE W == {l \in pending : l.s <= b}
<1>1. /\ running /\ ~snapshotDue /\ journal' = journal \cup Applied(W) /\ bare' = {}
      /\ snapshot' = snapshot /\ snapshotSeq' = snapshotSeq
      /\ entries' = entries /\ running' = running /\ pending' = pending
  BY DEF FlushJournalCut, memVars
<1>2. b \in Nat
  BY RInvIs
<1>3. journal' = journal \cup W
  BY <1>1, <1>2, RInvIs, CleanAppend
<1>4. Recovered = Replay(snapshot, snapshotSeq, journal) /\ Recovered' = Replay(snapshot, snapshotSeq, journal \cup W)
  BY <1>1, <1>3, RInvIs DEF Recovered, Readable
<1>5. CASE \E w \in W : w \notin journal /\ w.s > snapshotSeq
  <2>1. Recovered' = Store!Forward(Recovered, W)
    BY <1>1, <1>2, <1>4, <1>5, PrefixBringsForward
  <2>2. Store!SavePrefix(b)
    BY <1>1, <2>1 DEF Store!SavePrefix
  <2> QED BY <2>2 DEF Store!Next
<1>6. CASE ~ \E w \in W : w \notin journal /\ w.s > snapshotSeq
  <2>1. \A k : LinesOf(k, snapshotSeq, journal \cup W) = LinesOf(k, snapshotSeq, journal)
    BY <1>6 DEF LinesOf
  <2>2. Recovered' = Recovered
    BY <1>4, <2>1 DEF Replay
  <2> QED BY <1>1, <2>2 DEF Store!vars
<1> QED BY <1>5, <1>6

\* The last snapshot makes the map durable before it is forgotten, or does not.
LEMMA ShutdownIsStop == ASSUME RInv, NEW o \in Outcome, Shutdown(o) PROVE Store!Next
<1>1. /\ running /\ running' = FALSE /\ entries' = Empty /\ pending' = {}
      /\ SaveOutcome(entries, journalSeq, o) \/ UNCHANGED diskVars
  BY DEF Shutdown, Forget
<1>2. Recovered' \in {Recovered, entries}
  <2>1. CASE SaveOutcome(entries, journalSeq, o)
    BY <1>1, <2>1, SaveOutcomes
  <2>2. CASE UNCHANGED diskVars
    BY <2>2 DEF diskVars, Recovered, Readable
  <2> QED BY <1>1, <2>1, <2>2
<1>3. Store!Stop
  BY <1>1, <1>2 DEF Store!Stop, Store!Empty, Empty
<1> QED BY <1>3 DEF Store!Next

\* A crash forgets the map in memory.
LEMMA CrashIsCrash == ASSUME Crash PROVE Store!Next
<1>1. Recovered' = Recovered
  BY DEF Crash, diskVars, Recovered, Readable
<1> QED BY <1>1 DEF Crash, Forget, Store!Crash, Store!Empty, Empty, Store!Next

\* A start brings back the durable map.
LEMMA StartIsLoad == ASSUME Start PROVE Store!Next
<1>1. Recovered' = Recovered
  BY DEF Start, diskVars, Recovered, Readable
<1> QED BY <1>1 DEF Start, Store!Load, Store!Next

\* The recovered state, or what the old lines make of it, replaces the map.
LEMMA RecoverIsReplace ==
    ASSUME ~TornWrites, RInv, NEW m \in ApiState, NEW o \in Outcome, RecoverEscrow(m, o) PROVE Store!Next
<1>1. RInv'
  <2>1. Next
    BY DEF Next
  <2> QED BY <2>1, NextRInv
<1>2. Recovered' \in Map
  <2>1. /\ Readable' = journal' /\ journal' \subseteq Line /\ snapshot' \in Map /\ snapshotSeq' \in Nat
        /\ Topped(journal') /\ Unique(journal') /\ \A l \in journal' : l.s <= MaxSeq
    BY <1>1, RInvIs DEF RInv, IInv, TypeOK, Bounded, Quiet, Lines, Readable, Unique
  <2> QED BY <2>1, ReplayType DEF Recovered
<1>3. ~running /\ UNCHANGED <<entries, pending, running>>
  BY DEF RecoverEscrow, memVars
<1>4. Store!Replace(Recovered')
  BY <1>3 DEF Store!Replace
<1> QED BY <1>2, <1>4 DEF Store!Next, Store!Map, Map

\* Every action maps to a step of the durable map or to none.
LEMMA StepIsStoreStep == ASSUME ~TornWrites, RInv, [Next]_vars PROVE [Store!Next]_(Store!vars)
<1>1. CASE \E k \in Key, v \in Val : Change(k, v)
  BY <1>1, ChangeIsPut
<1>2. CASE \E o \in Outcome : FlushSnapshot(o)
  BY <1>2, FlushSnapshotIsSave
<1>3. CASE \E o \in Outcome : Shutdown(o)
  BY <1>3, ShutdownIsStop
<1>4. CASE \E m \in ApiState, o \in Outcome : RecoverEscrow(m, o)
  BY <1>4, RecoverIsReplace
<1>5. CASE \E n \in 0..MaxSeq : FlushJournalCut(n)
  BY <1>5, CutIsSavePrefix
<1>6. CASE Compact \/ FlushJournal \/ Crash \/ Start
  BY <1>6, CompactIsDrop, FlushJournalIsSave, CrashIsCrash, StartIsLoad
<1>7. CASE UNCHANGED vars
  <2>1. Recovered' = Recovered
    BY <1>7 DEF vars, diskVars, Recovered, Readable
  <2> QED BY <1>7, <2>1 DEF vars, memVars, Store!vars
<1> QED BY <1>1, <1>2, <1>3, <1>4, <1>5, <1>6, <1>7 DEF Next

\* The store is what DurableMap says: a map that is changed in memory, made
\* durable in prefixes of its changes, and brought back by a restart; through
\* snapshots that are cut short, appends that are repeated and any crash, for
\* appends that stop at line ends.
THEOREM StoreIsDurableMap == ASSUME ~TornWrites PROVE Spec => StoreSpec
<1>1. Init => Store!Init
  <2>1. ASSUME Init PROVE Recovered = Empty
    <3>1. \A k \in Key : Replay(Empty, 0, {})[k] = Empty[k]
      BY DEF Replay, LinesOf
    <3>2. Empty \in Map
      BY DEF Empty, Map
    <3>3. Replay(Empty, 0, {}) = Empty
      BY <3>1, <3>2, SameMap
    <3> QED BY <2>1, <3>3 DEF Init, Recovered, Readable
  <2> QED BY <2>1 DEF Init, Store!Init, Store!Empty, Empty
<1>2. RInv /\ [Next]_vars => RInv' /\ [Store!Next]_(Store!vars)
  BY NextRInv, StepIsStoreStep
<1> QED BY InitRInv, <1>1, <1>2, PTL DEF Spec, StoreSpec, Store!Spec
=============================================================================
