------------------------------ MODULE Handoff ------------------------------
(***************************************************************************)
(* What a hand-over through a durable work queue promises, with no broker, *)
(* no connection and no worker in sight.  A message that was promised is   *)
(* settled only after its effect took place at least once; the effect may  *)
(* take place again (at-least-once), even after the message was settled,   *)
(* but never for a message nobody promised.                                *)
(*                                                                         *)
(* WorkQueue implements this specification.                                *)
(***************************************************************************)
EXTENDS Naturals

CONSTANT Items  \* the messages that can ever be promised

VARIABLES
  promised,     \* the items the queue has taken responsibility for
  settled,      \* the items the queue has forgotten again
  done          \* how often the effect of an item took place

vars == <<promised, settled, done>>

TypeOK ==
  /\ promised \subseteq Items
  /\ settled \subseteq Items
  /\ done \in [Items -> Nat]

Init ==
  /\ promised = {}
  /\ settled = {}
  /\ done = [m \in Items |-> 0]

Promise(m) ==
  /\ m \notin promised
  /\ promised' = promised \cup {m}
  /\ UNCHANGED <<settled, done>>

Perform(m) ==
  /\ m \in promised
  /\ done' = [done EXCEPT ![m] = @ + 1]
  /\ UNCHANGED <<promised, settled>>

Settle(m) ==
  /\ m \in promised \ settled
  /\ done[m] > 0
  /\ settled' = settled \cup {m}
  /\ UNCHANGED <<promised, done>>

Next == \E m \in Items : Promise(m) \/ Perform(m) \/ Settle(m)

(* A promised item is performed, and a performed item is settled. *)
Fairness ==
  \A m \in Items :
    /\ WF_vars(done[m] = 0 /\ Perform(m))
    /\ WF_vars(Settle(m))

SafetySpec == Init /\ [][Next]_vars

Spec == SafetySpec /\ Fairness
=============================================================================
