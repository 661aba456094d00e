-------------------------- MODULE GenerationLedger --------------------------
(***************************************************************************)
(* What the file watcher promises to the owner of the index, with all of   *)
(* its mechanism (paths, timers, batches, retries) left out.               *)
(*                                                                         *)
(* Every accepted filesystem event gets the next generation number and is  *)
(* owed a reconciliation that starts after it.  When the watcher reports   *)
(* that generation b is complete, no event up to b is owed any more and no *)
(* event after b has been forgotten.  Only a complete stop, which drops    *)
(* every watch, may forget what is owed.                                   *)
(***************************************************************************)
EXTENDS Naturals

VARIABLES
  accepted,   \* the generation of the latest accepted event
  completed,  \* the generation reported as reconciled
  owed        \* the generations whose events no reconciliation has absorbed

ledger == <<accepted, completed, owed>>

Init ==
  /\ accepted = 0
  /\ completed = 0
  /\ owed = {}

(* An event is accepted: it is owed a reconciliation. *)
Accept ==
  /\ accepted' = accepted + 1
  /\ owed' = owed \cup {accepted + 1}
  /\ UNCHANGED completed

(* A reconciliation of everything accepted up to b has succeeded. *)
Complete(b) ==
  /\ completed <= b
  /\ completed' = b
  /\ owed' = {g \in owed : g > b}
  /\ UNCHANGED accepted

(* The watcher was stopped and joined: it starts again from nothing. *)
Reset ==
  /\ accepted' = 0
  /\ completed' = 0
  /\ owed' = {}

Next ==
  \/ Accept
  \/ \E b \in 0..accepted : Complete(b)
  \/ Reset

Spec == Init /\ [][Next]_ledger
=============================================================================
