----------------------------- MODULE ChainTree -----------------------------
(***************************************************************************)
(* The blocks of the network as the miner's client sees them: a tree of    *)
(* selected parents with DAA scores.  A tip names a selected chain, and the*)
(* node's notifications and its answers about the chain are differences of *)
(* two such chains.  The tree is fixed; which part of it exists, and which *)
(* block is the tip, is the business of the modules that extend this one.  *)
(***************************************************************************)
EXTENDS Integers, Sequences

CONSTANTS
    Block,        \* blocks of the network
    NoBlock,      \* absence of a block
    Parent,       \* selected parent of each block, NoBlock for the first
    Daa,          \* DAA score of each block
    Delay         \* TRACE_SEED_DELAY_DAA

ASSUME TreeAssumption ==
    /\ NoBlock \notin Block
    /\ Parent \in [Block -> Block \cup {NoBlock}]
    /\ Daa \in [Block -> Nat]
    /\ \A b \in Block : Parent[b] /= NoBlock => Daa[Parent[b]] < Daa[b]
    /\ Delay \in Nat \ {0}

MaybeBlock == Block \cup {NoBlock}

Closed(S) == \A b \in S : Parent[b] /= NoBlock => Parent[b] \in S

\* The selected chain of t: the least set with t and the parent of each of its
\* blocks.
Chain == [t \in Block |-> {b \in Block : \A S \in SUBSET Block : t \in S /\ Closed(S) => b \in S}]

OnChain(b, t) == b \in Chain[t]

Earliest(S) == IF S = {} THEN NoBlock ELSE CHOOSE b \in S : \A x \in S : Daa[b] <= Daa[x]

\* The first block of the chain of t that is Delay or more after b.
FirstAfter(b, t) == Earliest({x \in Chain[t] : Daa[x] >= Daa[b] + Delay})
=============================================================================
