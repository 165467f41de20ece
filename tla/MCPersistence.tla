---------------------------- MODULE MCPersistence ----------------------------
(* Models of Persistence for TLC. *)
EXTENDS Persistence

CONSTANTS a, b, c

MCAgents    == {a, b, c}
MCProposers == {a}
MCVoters    == {a, b, c}

(* One of the two voters may abstain. *)
MCParticipating == [mode |-> "participating_unanimous", minVotes |-> 1]
=============================================================================
