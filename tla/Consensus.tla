------------------------------ MODULE Consensus ------------------------------
(***************************************************************************)
(* The deliberation rules of consensus.py and of VoteTally / decide in     *)
(* contracts.py, as operators over an engine record.  Every method of      *)
(* ConsensusEngine is synchronous, so each is a function from the engine's *)
(* state to its next state.  ConsensusEngine.tla drives these operators on *)
(* their own, Session.tla inside the handlers of SessionManager.           *)
(*                                                                         *)
(* Abstractions: a proposal is named by its version (its id is fresh, so   *)
(* ids and versions correspond one to one); contents, reasons and times    *)
(* are dropped, except whether a content or a reason is empty.             *)
(***************************************************************************)
EXTENDS Integers, FiniteSets

CONSTANT Agents

(* TeamConfig: at least one agent. *)
ASSUME AgentsAssumption == IsFiniteSet(Agents) /\ Agents # {}

Modes    == {"unanimous", "majority", "participating_unanimous", "first"}
Outcomes == {"pending", "approved", "rejected", "no_quorum"}
Decisions == {"approve", "reject"}

(* ApprovalConfig.  minVotes is `minimum_votes or 1`. *)
ApprovalConfig == [mode : Modes, minVotes : Nat \ {0}]

(* VoteTally: the snapshot of the voters and the three ways to have answered. *)
Tally == [voters     : SUBSET Agents,
          approvals  : SUBSET Agents,
          rejections : SUBSET Agents,
          abstained  : SUBSET Agents]

NewTally(voters) ==
  [voters |-> voters, approvals |-> {}, rejections |-> {}, abstained |-> {}]

Responded(t) == t.approvals \cup t.rejections \cup t.abstained
Pending(t)   == t.voters \ Responded(t)

(* What VoteTally.__post_init__ demands; a violation raises ContractError. *)
TallyOK(t) ==
  /\ Responded(t) \subseteq t.voters
  /\ t.approvals \cap t.rejections = {}
  /\ t.approvals \cap t.abstained = {}
  /\ t.rejections \cap t.abstained = {}

WithVote(t, voter, decision) ==
  IF decision = "approve"
  THEN [t EXCEPT !.approvals = @ \cup {voter}]
  ELSE [t EXCEPT !.rejections = @ \cup {voter}]

WithAbstained(t, agents) ==
  [t EXCEPT !.abstained = @ \cup ((agents \cap t.voters) \ Responded(t))]

-----------------------------------------------------------------------------
(* VoteTally.decide, one operator for each approval policy. *)

DecideUnanimous(t) ==
  IF t.rejections # {} THEN "rejected"
  ELSE IF t.approvals = t.voters THEN "approved"
  ELSE IF Pending(t) = {} THEN "no_quorum" ELSE "pending"

(* Mutant: an exact half already counts as a majority out of reach only
   when it is strictly below the half. *)
MutDecideMajority(t) ==
  LET n == Cardinality(t.voters)
      approvals == Cardinality(t.approvals)
  IN  IF approvals * 2 > n THEN "approved"
      ELSE IF (approvals + Cardinality(Pending(t))) * 2 < n
           THEN IF t.rejections # {} THEN "rejected" ELSE "no_quorum"
           ELSE "pending"

DecideMajority(t) ==
  LET n == Cardinality(t.voters)
      approvals == Cardinality(t.approvals)
  IN  IF approvals * 2 > n THEN "approved"
      ELSE IF (approvals + Cardinality(Pending(t))) * 2 <= n
           THEN IF t.rejections # {} THEN "rejected" ELSE "no_quorum"
           ELSE "pending"

(* Mutant: approved as soon as the minimum is met, the others still out. *)
MutDecideParticipating(t, minVotes) ==
  IF t.rejections # {} THEN "rejected"
  ELSE IF Cardinality(t.approvals) >= minVotes THEN "approved"
  ELSE IF Pending(t) = {} THEN "no_quorum" ELSE "pending"

DecideParticipating(t, minVotes) ==
  IF t.rejections # {} THEN "rejected"
  ELSE IF Pending(t) # {} THEN "pending"
  ELSE IF Cardinality(t.approvals) >= minVotes THEN "approved" ELSE "no_quorum"

Decide(t, approval) ==
  IF approval.mode = "first" THEN "approved"
  ELSE IF t.voters = {} THEN "no_quorum"
  ELSE IF approval.mode = "unanimous" THEN DecideUnanimous(t)
  ELSE IF approval.mode = "majority" THEN DecideMajority(t)
  ELSE DecideParticipating(t, approval.minVotes)

-----------------------------------------------------------------------------
(* ConsensusEngine: the fields of the Python object.                       *)
(*   open      _state is not None: a proposal is under vote                *)
(*   proposer, tally, outcome                                              *)
(*             the fields of _state.  resolve() drops them (_state = None);*)
(*             here they keep the resolved proposal while open is FALSE,   *)
(*             and no operator reads them then.                            *)
(*   waiting   version of _pending_supersede, 0 for None                   *)
(*   replaced  version of _last_superseded, 0 for None                     *)

Engine == [version  : Nat,
           open     : BOOLEAN,
           proposer : Agents,
           tally    : Tally,
           outcome  : Outcomes,
           waiting  : Nat,
           replaced : Nat]

NewEngine ==
  [version  |-> 0, open |-> FALSE, proposer |-> CHOOSE a \in Agents : TRUE,
   tally    |-> NewTally({}), outcome |-> "pending",
   waiting  |-> 0, replaced |-> 0]

(* open_proposal up to the construction of ResultProposal.  An empty content
   makes that construction raise ContractError, and this much has then
   already happened: the version is used up and _pending_supersede is gone. *)
NextVersion(e) ==
  [e EXCEPT !.replaced = e.waiting, !.waiting = 0, !.version = @ + 1]

OpenProposal(e, proposer, alive, approval) ==
  LET ballot == NewTally(alive \ {proposer})
  IN  [NextVersion(e) EXCEPT
         !.open = TRUE, !.proposer = proposer, !.tally = ballot,
         !.outcome = Decide(ballot, approval)]

Retally(e, t, approval) ==
  [e EXCEPT !.tally = t, !.outcome = Decide(t, approval)]

(* _apply_vote raises unless the Vote record is valid (a rejection needs a
   reason), validate_vote and VoteTally.with_vote accept it. *)
VoteAccepted(e, voter, decision, reasoned) ==
  /\ decision = "reject" => reasoned
  /\ voter # e.proposer
  /\ voter \in e.tally.voters
  /\ voter \notin Responded(e.tally)

ApplyVote(e, voter, decision, approval) ==
  Retally(e, WithVote(e.tally, voter, decision), approval)

ExpirePending(e, approval) ==
  Retally(e, WithAbstained(e.tally, Pending(e.tally)), approval)

RegisterAbstention(e, voter, approval) ==
  Retally(e, WithAbstained(e.tally, {voter}), approval)

(* resolve: an approved proposal is closed, any other verdict closes it as
   rejected and leaves it waiting to be superseded. *)
Resolve(e) ==
  [e EXCEPT !.open = FALSE,
            !.waiting = IF e.outcome = "approved" THEN @ ELSE e.version]
=============================================================================
