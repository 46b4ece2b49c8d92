----------------------------- MODULE DurableMap -----------------------------
(***************************************************************************)
(* What the escrow state store promises its caller: a map from outpoints   *)
(* to entries, changed in memory and made durable in prefixes of the       *)
(* changes.  A crash brings back the durable map; a successful flush makes *)
(* the whole in-memory map durable.                                        *)
(***************************************************************************)
EXTENDS Integers

CONSTANTS Key,      \* outpoints "{txid}:{index}"
          Val,      \* entry contents
          Done,     \* contents of a claimed or slashed entry, dropped by compaction
          None,     \* no entry
          Stamp     \* natural numbers, the order of changes

VARIABLES vol,      \* the map in memory
          dur,      \* the map a restart would load
          unsaved,  \* changes of this run that no flush has reported as saved
          up        \* the process runs

vars == <<vol, dur, unsaved, up>>

Map    == [Key -> Val \cup {None}]
Change == [s : Stamp, k : Key, v : Val]

\* The newest of a set of changes to one key.
Newest(C) == CHOOSE c \in C : \A d \in C : d.s <= c.s

\* Map m brought forward by the changes in C.
Forward(m, C) ==
    [k \in Key |-> LET mine == {c \in C : c.k = k}
                   IN IF mine = {} THEN m[k] ELSE Newest(mine).v]

Empty == [k \in Key |-> None]

Init == vol = Empty /\ dur = Empty /\ unsaved = {} /\ up = TRUE

Put(k, v, s) ==
    /\ up
    /\ \A c \in unsaved : c.s < s
    /\ vol' = [vol EXCEPT ![k] = v]
    /\ unsaved' = unsaved \cup {[s |-> s, k |-> k, v |-> v]}
    /\ UNCHANGED <<dur, up>>

\* Entries that are done may be dropped from memory.
Drop ==
    /\ up
    /\ vol' = [k \in Key |-> IF vol[k] \in Done THEN None ELSE vol[k]]
    /\ UNCHANGED <<dur, unsaved, up>>

\* The whole map becomes durable; whether the caller learns of it is open.
Save ==
    /\ up
    /\ dur' = vol
    /\ unsaved' \in {unsaved, {}}
    /\ UNCHANGED <<vol, up>>

\* An interrupted flush makes a prefix of the unsaved changes durable.
SavePrefix(n) ==
    /\ up
    /\ dur' = Forward(dur, {c \in unsaved : c.s <= n})
    /\ UNCHANGED <<vol, unsaved, up>>

\* Shutdown: the last flush either made everything durable or nothing.
Stop ==
    /\ up
    /\ dur' \in {dur, vol}
    /\ up' = FALSE
    /\ unsaved' = {}
    /\ vol' = Empty

Crash == up /\ up' = FALSE /\ unsaved' = {} /\ vol' = Empty /\ UNCHANGED dur

\* The operator replaces the durable map while the miner is stopped.
Replace(m) == ~up /\ dur' = m /\ UNCHANGED <<vol, unsaved, up>>

Load == ~up /\ up' = TRUE /\ vol' = dur /\ UNCHANGED <<dur, unsaved>>

Next ==
    \/ \E k \in Key, v \in Val, s \in Stamp : Put(k, v, s)
    \/ \E n \in Stamp : SavePrefix(n)
    \/ \E m \in Map : Replace(m)
    \/ Drop \/ Save \/ Stop \/ Crash \/ Load

Spec == Init /\ [][Next]_vars
=============================================================================
