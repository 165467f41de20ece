-------------------------- MODULE MCConsensusEngine --------------------------
(* ConsensusEngine with five agents: up to five voters, so that a majority
   can be lost by a tie, and every policy with a minimum of up to three votes. *)
EXTENDS ConsensusEngine, TLC

CONSTANTS a1, a2, a3, a4, a5

MCAgents == {a1, a2, a3, a4, a5}

MCApprovals ==
  [mode : Modes \ {"participating_unanimous"}, minVotes : {1}] \cup
  [mode : {"participating_unanimous"}, minVotes : 1..3]

(* The agents are interchangeable up to the arbitrary proposer of NewEngine,
   which no operator reads. *)
=============================================================================
