---------------------------- MODULE EscrowJournal ----------------------------
(***************************************************************************)
(* The persistence protocol of src/escrow.rs: a snapshot file              *)
(* (escrow_state.json) installed atomically, and an append-only journal    *)
(* (escrow_state.journal) of the changes since, folded together at start.  *)
(*                                                                         *)
(* The journal is the set of lines that replay applies: every line carries *)
(* a sequence number and replay skips one it has passed, so file order is  *)
(* number order and repeated lines do not matter.  How the file ends does: *)
(* an append that finds an unterminated line glues its first line to it,   *)
(* and neither parses.                                                     *)
(* Every I/O step may fail; a crash in the middle of a write is that       *)
(* failure followed by Crash.                                              *)
(***************************************************************************)
EXTENDS Integers

CONSTANTS Key, Val, Done, None,
          TornWrites,   \* an interrupted append may stop inside a line
          Recovery,     \* the operator may run --recover-escrow
          MaxSeq        \* bound on journal_seq

ASSUME JournalAssumption ==
    /\ Done \subseteq Val
    /\ None \notin Val
    /\ TornWrites \in BOOLEAN
    /\ Recovery \in BOOLEAN
    /\ MaxSeq \in Nat

VARIABLES
    entries,        \* state.entries by outpoint
    journalSeq,     \* journal_seq
    pending,        \* journal_pending
    sinceSnapshot,  \* journal_bytes_since_snapshot > 0
    snapshotDue,    \* snapshot_due
    running,        \* the watcher exists
    snapshot,       \* escrow_state.json: its entries
    snapshotSeq,    \* escrow_state.json: its journal_seq
    journal,        \* escrow_state.journal: its terminated lines, as replay applies them
    bare,           \* the complete last line whose newline is missing, if any
    torn            \* the file ends inside a line that does not parse

memVars  == <<entries, journalSeq, pending, sinceSnapshot, snapshotDue, running>>
diskVars == <<snapshot, snapshotSeq, journal, bare, torn>>
vars     == <<memVars, diskVars>>

Map  == [Key -> Val \cup {None}]
Line == [s : Nat, k : Key, v : Val]

TypeOK ==
    /\ entries \in Map
    /\ journalSeq \in Nat
    /\ pending \subseteq Line
    /\ sinceSnapshot \in BOOLEAN
    /\ snapshotDue \in BOOLEAN
    /\ running \in BOOLEAN
    /\ snapshot \in Map
    /\ snapshotSeq \in Nat
    /\ journal \subseteq Line
    /\ bare \subseteq Line
    /\ torn \in BOOLEAN

-----------------------------------------------------------------------------
\* load_state and replay_journal: the newest line past the snapshot wins.
Newest(L) == CHOOSE l \in L : \A m \in L : m.s <= l.s

LinesOf(k, base, L) == {l \in L : l.k = k /\ l.s > base}

Replay(snap, base, L) ==
    [k \in Key |-> LET mine == LinesOf(k, base, L)
                   IN IF mine = {} THEN snap[k] ELSE Newest(mine).v]

ReplaySeq(base, L) ==
    LET new == {l \in L : l.s > base} IN IF new = {} THEN base ELSE Newest(new).s

Readable == journal \cup bare

Recovered == Replay(snapshot, snapshotSeq, Readable)

Empty == [k \in Key |-> None]

Init ==
    /\ entries = Empty /\ snapshot = Empty
    /\ journalSeq = 0 /\ snapshotSeq = 0
    /\ pending = {} /\ journal = {}
    /\ sinceSnapshot = FALSE /\ snapshotDue = FALSE
    /\ running = TRUE /\ bare = {} /\ torn = FALSE

\* Any handler that adds or changes an entry: append_journal_line.
Change(k, v) ==
    /\ running
    /\ journalSeq < MaxSeq
    /\ entries' = [entries EXCEPT ![k] = v]
    /\ journalSeq' = journalSeq + 1
    /\ pending' = pending \cup {[s |-> journalSeq + 1, k |-> k, v |-> v]}
    /\ UNCHANGED <<sinceSnapshot, snapshotDue, running, diskVars>>

\* compact: done entries are dropped, which only a snapshot can record.
Compact ==
    /\ running
    /\ \E k \in Key : entries[k] \in Done
    /\ entries' = [k \in Key |-> IF entries[k] \in Done THEN None ELSE entries[k]]
    /\ snapshotDue' = TRUE
    /\ UNCHANGED <<journalSeq, pending, sinceSnapshot, running, diskVars>>

-----------------------------------------------------------------------------
\* Faulty: write_snapshot does not carry the sequence into the state.
InstallWithOldSeq(snap, seq) == snapshot' = snap /\ UNCHANGED snapshotSeq

\* Faulty: the journal is emptied before the snapshot is installed.
TruncateFirst(snap, seq, outcome) ==
    \/ /\ outcome = "ok"
       /\ snapshot' = snap /\ snapshotSeq' = seq
       /\ journal' = {} /\ bare' = {} /\ torn' = FALSE
    \/ /\ outcome = "installed"
       /\ journal' = {} /\ bare' = {} /\ torn' = FALSE
       /\ UNCHANGED <<snapshot, snapshotSeq>>
    \/ /\ outcome = "failed"
       /\ UNCHANGED diskVars

\* save_state_atomic: the rename installs all of it, then the journal is emptied.
InstallSnapshot(snap, seq) == snapshot' = snap /\ snapshotSeq' = seq

SaveOutcome(snap, seq, outcome) ==
    \/ /\ outcome = "ok"
       /\ InstallSnapshot(snap, seq)
       /\ journal' = {} /\ bare' = {} /\ torn' = FALSE
    \/ /\ outcome = "installed"       \* stopped between the rename and the truncation
       /\ InstallSnapshot(snap, seq)
       /\ UNCHANGED <<journal, bare, torn>>
    \/ /\ outcome = "failed"
       /\ UNCHANGED diskVars

Outcome == {"ok", "installed", "failed"}

\* Faulty: what is owed is cleared whatever the outcome.
WriteSnapshotForgets(outcome) ==
    /\ SaveOutcome(entries, journalSeq, outcome)
    /\ pending' = {} /\ sinceSnapshot' = FALSE /\ snapshotDue' = FALSE

\* write_snapshot: only success clears what is owed to the disk.
WriteSnapshot(outcome) ==
    /\ SaveOutcome(entries, journalSeq, outcome)
    /\ IF outcome = "ok"
         THEN pending' = {} /\ sinceSnapshot' = FALSE /\ snapshotDue' = FALSE
         ELSE UNCHANGED <<pending, sinceSnapshot, snapshotDue>>

\* flush_state's condition, and maybe_flush's once its timers are due.
SnapshotOwed == snapshotDue \/ sinceSnapshot \/ pending /= {}

\* The lines of an append that replay will apply.  An unterminated end of file
\* takes the first of them with it, and replay has passed the repeated ones.
Applied(lines) ==
    {l \in lines : /\ torn \/ bare /= {} => \E m \in lines : m.s < l.s
                   /\ \A m \in journal : m.s < l.s}

\* maybe_flush, snapshot branch (compaction, size or SNAPSHOT_INTERVAL).
FlushSnapshot(outcome) ==
    /\ running /\ SnapshotOwed
    /\ WriteSnapshot(outcome)
    /\ UNCHANGED <<entries, journalSeq, running>>

\* maybe_flush, journal branch: write_journal appends and syncs every line.
FlushJournal ==
    /\ running /\ ~snapshotDue /\ pending /= {}
    /\ journal' = journal \cup Applied(pending)
    /\ bare' = {} /\ torn' = FALSE
    /\ pending' = {}
    /\ sinceSnapshot' = TRUE
    /\ UNCHANGED <<entries, journalSeq, snapshotDue, running, snapshot, snapshotSeq>>

\* write_journal cut short after the lines up to upTo: pending is kept and
\* appended again later.
FlushJournalCut(upTo) ==
    /\ running /\ ~snapshotDue
    /\ LET wrote == {l \in pending : l.s <= upTo}
           final == {l \in wrote : l.s = upTo}
       IN \/ /\ wrote /= {}                     \* cut after a newline
             /\ journal' = journal \cup Applied(wrote)
             /\ bare' = {} /\ torn' = FALSE
          \/ /\ TornWrites /\ wrote /= pending  \* cut inside the next line
             /\ journal' = journal \cup Applied(wrote)
             /\ bare' = {} /\ torn' = TRUE
          \/ /\ TornWrites /\ final /= {}       \* cut before the newline of line upTo
             /\ journal' = journal \cup Applied(wrote \ final)
             /\ bare' = Applied(wrote) \cap final
             /\ torn' = (bare' = {})
    /\ UNCHANGED <<memVars, snapshot, snapshotSeq>>

-----------------------------------------------------------------------------
Forget ==
    /\ running' = FALSE /\ entries' = Empty /\ pending' = {} /\ journalSeq' = 0
    /\ sinceSnapshot' = FALSE /\ snapshotDue' = FALSE

\* Shutdown or reconnect: flush_state, then the watcher is dropped.
Shutdown(outcome) ==
    /\ running
    /\ IF SnapshotOwed THEN SaveOutcome(entries, journalSeq, outcome)
                       ELSE outcome = "ok" /\ UNCHANGED diskVars
    /\ Forget

Crash == running /\ Forget /\ UNCHANGED diskVars

\* Faulty: numbering resumes below the last replayed line.
StartBelow ==
    /\ ~running
    /\ running' = TRUE
    /\ entries' = Recovered
    /\ journalSeq' = ReplaySeq(snapshotSeq, Readable) - 1
    /\ UNCHANGED <<pending, sinceSnapshot, snapshotDue, diskVars>>

\* Faulty: numbering resumes at the snapshot, not at the last replayed line.
StartAtSnapshot ==
    /\ ~running
    /\ running' = TRUE
    /\ entries' = Recovered
    /\ journalSeq' = snapshotSeq
    /\ UNCHANGED <<pending, sinceSnapshot, snapshotDue, diskVars>>

\* EscrowWatcher::new: load_state; the journal file itself is left as it is.
Start ==
    /\ ~running
    /\ running' = TRUE
    /\ entries' = Recovered
    /\ journalSeq' = ReplaySeq(snapshotSeq, Readable)
    /\ UNCHANGED <<pending, sinceSnapshot, snapshotDue, diskVars>>

\* --recover-escrow, in a process of its own: a state with journal_seq 0.
RecoverEscrow(m, outcome) ==
    /\ Recovery /\ ~running
    /\ SaveOutcome(m, 0, outcome)
    /\ UNCHANGED memVars

\* The index reports only outputs that can still be claimed.
ApiState == [Key -> (Val \ Done) \cup {None}]

Next ==
    \/ \E k \in Key, v \in Val : Change(k, v)
    \/ \E o \in Outcome : FlushSnapshot(o) \/ Shutdown(o)
    \/ \E m \in ApiState, o \in Outcome : RecoverEscrow(m, o)
    \/ \E n \in 0..MaxSeq : FlushJournalCut(n)
    \/ Compact \/ FlushJournal \/ Crash \/ Start

Spec == Init /\ [][Next]_vars

-----------------------------------------------------------------------------
\* What the journal is for: once nothing is owed to the disk, a crash loses
\* nothing.  This is the promise behind "a crash loses at most the last 2
\* seconds of claims": maybe_flush reports the lines as written.
FlushedIsDurable ==
    running /\ ~snapshotDue /\ pending = {} => Recovered = entries

\* A flush that fails keeps every line it owes: whatever part of the append
\* reached the file, the next complete append still yields the state in memory.
OwedIsRecoverable ==
    running /\ ~snapshotDue =>
        Replay(snapshot, snapshotSeq, journal \cup Applied(pending)) = entries

\* save_state_atomic: the snapshot a watcher installs is what a restart loads,
\* even if the journal could not be emptied ("every line it held is folded
\* into this snapshot") and whatever an earlier --recover-escrow left in it.
InstalledIsWhole ==
    [][running /\ snapshot' /= snapshot => Recovered' = snapshot']_vars

\* The store is a durable map: every step is a change in memory, a durable
\* prefix of the changes, or a restart from the durable map.
Store == INSTANCE DurableMap WITH
    vol <- entries, dur <- Recovered, unsaved <- pending, up <- running,
    Stamp <- 0..MaxSeq

StoreSpec == Store!Spec
=============================================================================
