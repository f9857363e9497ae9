------------------------ MODULE MCProposalExperiment ------------------------
(* ProposalExperiment on small instances.                                  *)
EXTENDS ProposalExperiment, TLC

CONSTANTS t1, t2, a, b, player, peer

\* The hooks that differ: the two that may write, and the branch that must not,
\* which stands for the other hooks too.
MCKinds == {"local_copy", "participant_copy", "rule_submit"}

OwnProposal == [matches |-> TRUE, slot |-> 0, team |-> 0, origin |-> TRUE]

\* A local proposal, and for each condition on the call one that fails it.
MCArguments ==
  {OwnProposal,
   [OwnProposal EXCEPT !.matches = FALSE],
   [OwnProposal EXCEPT !.slot = 1],
   [OwnProposal EXCEPT !.team = 1],
   [OwnProposal EXCEPT !.origin = FALSE]}

\* The local player's identity is in the slot of its proposal, or in the other.
Alone == [w \in Words |-> IF w = 2 THEN NoIdentity ELSE player]

BesidePeer == [w \in Words |-> IF w = 1 THEN peer ELSE player]

OneTable == {Alone}

TwoTables == {Alone, BesidePeer}

OneArgument == {OwnProposal}

MutatingKinds == {"local_copy", "rule_submit"}

Symmetry == Permutations({t1, t2})
=============================================================================
