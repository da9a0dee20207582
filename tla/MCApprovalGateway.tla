--------------------------- MODULE MCApprovalGateway ---------------------------
(* Instances of ApprovalGateway for TLC: one catalog action or one one-shot,  *)
(* and a catalog action beside a one-shot.                                    *)
EXTENDS ApprovalGateway, TLC

CONSTANTS revert, oneshot

RevertOnly == {revert}
OneShotOnly == {oneshot}
NoActions == {}

\* revert_configmap_key of actions.yaml: tier 1, an engineer clears it.
EngineerTier == [k \in {revert} |->
  [tier |-> 1, retired |-> FALSE, provisional |-> FALSE, aws |-> FALSE]]
\* restore_db_parameter: tier 2, calls AWS.
ManagerTier == [k \in {revert} |->
  [tier |-> 2, retired |-> FALSE, provisional |-> FALSE, aws |-> TRUE]]
NoneDeclared == [k \in {} |->
  [tier |-> 1, retired |-> FALSE, provisional |-> FALSE, aws |-> FALSE]]

Symmetry == Permutations(Deciders) \cup Permutations(Digests)
=============================================================================
