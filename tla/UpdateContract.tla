---------------------------- MODULE UpdateContract ----------------------------
(***************************************************************************)
(* What a caller of Dex::fetch_pools and Dex::update_pools_mut relies on:  *)
(* after Ok(()) the slice of pools is exactly the state of those pools at  *)
(* the block that was asked for; after an error nothing is promised about  *)
(* it; and the block the slice stands for never moves back.                *)
(***************************************************************************)
EXTENDS Chain

CONSTANTS
  Tracked,  \* the addresses of the slice of pools, in order
  Unknown,  \* the contents of the slice when nothing is promised
  Entry(_)  \* the entry of the slice that stands for a state of a pool

VARIABLES
  synced,   \* the block of the last call that returned Ok
  view      \* the slice the caller may use: a snapshot, or Unknown

Slots == DOMAIN Tracked

(* The slice as it should be at block b. *)
Snapshot(b) == [i \in Slots |-> Entry(states[b][Tracked[i]])]

contractVars == <<logs, states, synced, view>>

Init ==
  /\ ChainInit
  /\ synced = 0
  /\ view = Snapshot(0)

(* A call is made, or fails. *)
Withdraw ==
  /\ view' = Unknown
  /\ UNCHANGED <<logs, states, synced>>

(* A call for block b returns Ok. *)
Publish(b) ==
  /\ b >= synced
  /\ synced' = b
  /\ view' = Snapshot(b)
  /\ UNCHANGED chainVars

Next ==
  \/ Mine /\ UNCHANGED <<synced, view>>
  \/ Withdraw
  \/ \E b \in 0..Height : Publish(b)

Spec == Init /\ [][Next]_contractVars
=============================================================================
