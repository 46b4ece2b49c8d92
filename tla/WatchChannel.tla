----------------------------- MODULE WatchChannel -----------------------------
(***************************************************************************)
(* The channel of src/watch.rs: one sender replaces a value, receivers see *)
(* the last one.  The value lies behind a lock; its number is read without *)
(* one; a condition variable wakes who waits.                              *)
(*                                                                         *)
(* A step is what one lock makes atomic: the value and its number change   *)
(* under the write lock, receivers recheck and begin to wait under the     *)
(* mutex, and the sender notifies under it.  A receiver reads the number   *)
(* in one step and clones the value in a later one.                        *)
(***************************************************************************)
EXTENDS Integers

CONSTANTS
    Receiver,   \* who holds a receiver
    Value,      \* what may be sent
    FirstValue  \* what the channel is made with

ASSUME ChannelAssumption == FirstValue \in Value

VARIABLES
    value,   \* the value
    id,      \* its number
    sender,  \* "wake" between replacing the value and notifying
    recv     \* each receiver

channelVars == <<value, id, sender, recv>>

\* last: last_observed.  seen: the value it cloned last (history).
ReceiverState ==
    [at : {"out", "clone", "lock", "wait", "woken"}, last : Nat, seen : Value]

\* A receiver has seen nothing: last_observed is 0, and the first number is 1.
ChannelInit ==
    /\ value = FirstValue
    /\ id = 1
    /\ sender = "idle"
    /\ recv = [r \in Receiver |-> [at |-> "out", last |-> 0, seen |-> FirstValue]]

-----------------------------------------------------------------------------
\* The sender.

\* Mutant: taking the value back is not numbered.
ReplaceValueUnnumbered(v) ==
    /\ sender = "idle"
    /\ value' = v
    /\ id' = IF v = FirstValue THEN id ELSE id + 1
    /\ sender' = "wake"
    /\ UNCHANGED recv

ReplaceValue(v) ==
    /\ sender = "idle"
    /\ value' = v
    /\ id' = id + 1
    /\ sender' = "wake"
    /\ UNCHANGED recv

\* The notification reaches who waits by now, whichever value it waits past.
WakeUpThreads ==
    /\ sender = "wake"
    /\ sender' = "idle"
    /\ recv' = [r \in Receiver |->
                  IF recv[r].at = "wait" THEN [recv[r] EXCEPT !.at = "woken"] ELSE recv[r]]
    /\ UNCHANGED <<value, id>>

-----------------------------------------------------------------------------
\* A receiver.

Changed(r) == recv[r].last # id

\* The number is noted before the value is cloned.
Observed(r) == [recv EXCEPT ![r] = [@ EXCEPT !.at = "clone", !.last = id]]

GetChanged(r) ==
    /\ recv[r].at = "out"
    /\ Changed(r)
    /\ recv' = Observed(r)
    /\ UNCHANGED <<value, id, sender>>

WaitForChange(r) ==
    /\ recv[r].at = "out"
    /\ recv' = IF Changed(r) THEN Observed(r) ELSE [recv EXCEPT ![r].at = "lock"]
    /\ UNCHANGED <<value, id, sender>>

\* Mutant: what changed while the mutex was taken is not looked at.
RecheckNothing(r) ==
    /\ recv[r].at = "lock"
    /\ recv' = [recv EXCEPT ![r].at = "wait"]
    /\ UNCHANGED <<value, id, sender>>

\* Under the mutex: check again, or begin to wait.
Recheck(r) ==
    /\ recv[r].at = "lock"
    /\ recv' = IF Changed(r) THEN Observed(r) ELSE [recv EXCEPT ![r].at = "wait"]
    /\ UNCHANGED <<value, id, sender>>

\* Notified: the number is taken as it is, changed or not.
Resume(r) ==
    /\ recv[r].at = "woken"
    /\ recv' = Observed(r)
    /\ UNCHANGED <<value, id, sender>>

CloneValue(r) ==
    /\ recv[r].at = "clone"
    /\ recv' = [recv EXCEPT ![r].at = "out", ![r].seen = value]
    /\ UNCHANGED <<value, id, sender>>

-----------------------------------------------------------------------------
ReceiverStep(r) ==
    GetChanged(r) \/ WaitForChange(r) \/ Recheck(r) \/ Resume(r) \/ CloneValue(r)

ChannelNext ==
    \/ \E v \in Value : ReplaceValue(v)
    \/ WakeUpThreads
    \/ \E r \in Receiver : ReceiverStep(r)

ChannelSpec == ChannelInit /\ [][ChannelNext]_channelVars

ChannelTypeOK ==
    /\ value \in Value
    /\ id \in Nat
    /\ sender \in {"idle", "wake"}
    /\ recv \in [Receiver -> ReceiverState]

\* A receiver that has noted the number of the present value has that value: no
\* interleaving of the lock-free number with the locked value hides an update.
SeenIsCurrent ==
    \A r \in Receiver : recv[r].at # "clone" /\ ~Changed(r) => recv[r].seen = value

\* Who waits for the value's replacement will be notified of it: a receiver that
\* sleeps past a replaced value has the notification still before it.
NoLostWakeUp ==
    \A r \in Receiver : recv[r].at = "wait" /\ Changed(r) => sender = "wake"

=============================================================================
