-------------------------------- MODULE Chain --------------------------------
(***************************************************************************)
(* The blockchain behind the Dex clients of eisen-exchange, as far as they *)
(* observe it: for every block the logs the pool contracts emitted, in     *)
(* their order, and the state each pool was left in.  A pool's state is    *)
(* abstracted to a version number that grows with every event that changes *)
(* it.  Blocks are appended and never replaced: the code handles no        *)
(* reorganisation, and the clients are assumed to name final blocks.       *)
(***************************************************************************)
EXTENDS Integers, Sequences, FiniteSets

CONSTANTS
  Pools,       \* the pool contracts
  Genesis,     \* the states a pool may have at block 0; 0 is "not initialised"
  FirstKinds,  \* the events a pool in state 0 may emit
  LaterKinds,  \* the events any other pool may emit
  StateKinds,  \* the kinds of events that change the state of the pool
  MaxHead,     \* bound: the chain stops at this block
  MaxPerBlock  \* bound: logs in one block

ASSUME ChainAssumption ==
  /\ Genesis \subseteq Nat
  /\ FirstKinds \subseteq StateKinds
  /\ MaxHead \in Nat /\ MaxPerBlock \in Nat

VARIABLES
  logs,    \* logs[b]: the logs of block b, of all the pools, in their order
  states   \* states[b][p]: the state of p after block b

chainVars == <<logs, states>>

Height == Len(logs)
Kinds == FirstKinds \cup LaterKinds
Log == [address : Pools, kind : Kinds, post : Nat]

ChainTypeOK ==
  /\ logs \in Seq(Seq(Log))
  /\ states \in [0..Height -> [Pools -> Nat]]

ChainInit ==
  /\ logs = <<>>
  /\ \E g \in [Pools -> Genesis] : states = [b \in {0} |-> g]

(* What the pools of a block emit, one after the other. *)
Blocks == UNION {[1..n -> [address : Pools, kind : Kinds]] : n \in 0..MaxPerBlock}

(* The state of p after the first n events of a block that finds the pools *)
(* in the states pre.                                                      *)
Version(pre, block, p, n) ==
  pre[p] + Cardinality({j \in 1..n : block[j].address = p /\ block[j].kind \in StateKinds})

(* Only a pool in state 0 can be initialised, and it can do nothing else. *)
Legal(pre, block) ==
  \A i \in DOMAIN block :
    block[i].kind \in IF Version(pre, block, block[i].address, i - 1) = 0
                      THEN FirstKinds ELSE LaterKinds

(* The logs themselves: each carries the state it leaves its pool in. *)
Emit(pre, block) ==
  [i \in DOMAIN block |->
     [address |-> block[i].address, kind |-> block[i].kind,
      post |-> Version(pre, block, block[i].address, i)]]

Mine ==
  /\ Height < MaxHead
  /\ \E block \in Blocks :
       /\ Legal(states[Height], block)
       /\ logs' = Append(logs, Emit(states[Height], block))
       /\ states' = [b \in 0..(Height + 1) |->
                       IF b <= Height THEN states[b]
                       ELSE [p \in Pools |-> Version(states[Height], block, p, Len(block))]]

-----------------------------------------------------------------------------
(* The blocks of lo+1..hi in which p emitted an event of the given kinds. *)
Logged(p, lo, hi, kinds) ==
  {b \in (lo + 1)..hi :
     \E j \in DOMAIN logs[b] : logs[b][j].address = p /\ logs[b][j].kind \in kinds}
=============================================================================
