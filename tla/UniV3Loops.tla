----------------------------- MODULE UniV3Loops -----------------------------
(***************************************************************************)
(* The two loops of the v3 facet over data that the caller hands in or the *)
(* pool keeps in bits: the view uniV3GetTicks, and the path of a trade as  *)
(* uniV3SwapExactInput consumes it.  A call runs one of them.              *)
(***************************************************************************)
EXTENDS Integers, Sequences

CONSTANTS
  PoolStates, Ranges, MinTick, MaxTick,  \* of TickScan
  Lengths, Junk                          \* of UniV3Path

Int24 == (-(2^23))..(2^23 - 1)

ASSUME TickAssumption ==
  /\ MinTick \in Int24 /\ MaxTick \in Int24 /\ MinTick < MaxTick
  /\ \A s \in DOMAIN Ranges : Ranges[s] \subseteq Int24
  /\ \A p \in PoolStates :
       /\ p.spacing \in DOMAIN Ranges
       /\ p.spacing \in Nat /\ 0 < p.spacing /\ p.spacing < 16384
       /\ p.tick \in MinTick..MaxTick
       /\ \A t \in p.initialized : t \in MinTick..MaxTick /\ t % p.spacing = 0

ASSUME PathAssumption == Lengths \subseteq Nat /\ Junk \notin Nat

VARIABLES
  called,                                    \* the function of the facet
  pool, range, scanPc, pos, bm, initTicks,   \* of TickScan
  given, length, mem, dest, hopPc, hops, output   \* of UniV3Path

scanVars == <<pool, range, scanPc, pos, bm, initTicks>>
pathVars == <<given, length, mem, dest, hopPc, hops, output>>

Scan == INSTANCE TickScan WITH pc <- scanPc
Path == INSTANCE UniV3Path WITH pc <- hopPc

(* The loop that is not called stays where it starts. *)
CallInit ==
  /\ \/ called = "uniV3GetTicks" /\ given = CHOOSE n \in Lengths : TRUE
     \/ /\ called = "uniV3SwapExactInput"
        /\ pool = CHOOSE p \in PoolStates : TRUE
        /\ range = CHOOSE r \in Ranges[pool.spacing] : TRUE
  /\ Scan!Init /\ Path!Init

CallNext ==
  /\ UNCHANGED called
  /\ \/ called = "uniV3GetTicks" /\ Scan!Next /\ UNCHANGED pathVars
     \/ called = "uniV3SwapExactInput" /\ Path!Next /\ UNCHANGED scanVars

CallSpec == CallInit /\ [][CallNext]_<<called, scanVars, pathVars>>

(* The ticks that are returned are the initialised ones in range. *)
ScanExact == Scan!ScanExact

(* Every pool that is traded with is the next one of the path as given. *)
HopsFollowPath == Path!HopsFollowPath
=============================================================================
