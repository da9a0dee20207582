------------------------------ MODULE DecideOnce ------------------------------
(***************************************************************************)
(* What the approval gateway promises of each (incident, action) pair while *)
(* its process lives: one decision, at most one mutation, and no mutation   *)
(* after the decision.  A restart forgets everything.                       *)
(***************************************************************************)
CONSTANT Keys

VARIABLES
  decision, \* what was decided of each key
  ran       \* the keys a mutation reached its target for

vars == <<decision, ran>>

TypeOK ==
  /\ decision \in [Keys -> {"none", "approved", "rejected"}]
  /\ ran \subseteq Keys

Init == decision = [k \in Keys |-> "none"] /\ ran = {}

(* Only an undecided key is mutated, and once. *)
Mutate(k) ==
  /\ decision[k] = "none" /\ k \notin ran
  /\ ran' = ran \cup {k}
  /\ UNCHANGED decision

(* An approval is recorded whether or not its mutation landed. *)
Approve(k) ==
  /\ decision[k] = "none"
  /\ decision' = [decision EXCEPT ![k] = "approved"]
  /\ UNCHANGED ran

(* A key whose mutation landed cannot be rejected any more. *)
Reject(k) ==
  /\ decision[k] = "none" /\ k \notin ran
  /\ decision' = [decision EXCEPT ![k] = "rejected"]
  /\ UNCHANGED ran

Forget ==
  /\ decision' = [k \in Keys |-> "none"]
  /\ ran' = {}

Next ==
  \/ \E k \in Keys : Mutate(k) \/ Approve(k) \/ Reject(k)
  \/ Forget

Spec == Init /\ [][Next]_vars
=============================================================================
