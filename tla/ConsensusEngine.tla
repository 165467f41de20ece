--------------------------- MODULE ConsensusEngine ---------------------------
(***************************************************************************)
(* The ConsensusEngine of consensus.py on its own: any caller may call any *)
(* method in any order the class accepts.  SessionManager resolves a       *)
(* decided proposal in the very handler that decided it; here the votes    *)
(* that were still out may arrive before resolve(), which is what the      *)
(* early decisions of VoteTally.decide have to be right about.             *)
(***************************************************************************)
EXTENDS Consensus

CONSTANTS Approvals,     \* the ApprovalConfigs a team may have
          MaxVersion     \* bound on the number of proposals opened

ASSUME ApprovalsAssumption == Approvals \subseteq ApprovalConfig
ASSUME MaxVersionAssumption == MaxVersion \in Nat

VARIABLES approval,   \* the team's ApprovalConfig, fixed for the session
          engine      \* the state of the ConsensusEngine object

vars == <<approval, engine>>

Init ==
  /\ approval \in Approvals
  /\ engine = NewEngine

(* open_proposal; alive is whatever SessionManager computes at that moment. *)
Open(proposer, alive) ==
  /\ ~engine.open
  /\ engine.version < MaxVersion
  /\ engine' = OpenProposal(engine, proposer, alive, approval)
  /\ UNCHANGED approval

(* open_proposal with an empty content: it raises half way. *)
OpenEmpty ==
  /\ ~engine.open
  /\ engine.version < MaxVersion
  /\ engine' = NextVersion(engine)
  /\ UNCHANGED approval

(* register_vote and register_vote_for on the active proposal.  The calls
   that raise or return None leave the engine as it is. *)
CastVote(voter, decision, reasoned) ==
  /\ engine.open
  /\ VoteAccepted(engine, voter, decision, reasoned)
  /\ engine' = ApplyVote(engine, voter, decision, approval)
  /\ UNCHANGED approval

Abstain(voter) ==
  /\ engine.open
  /\ voter \in Pending(engine.tally)
  /\ engine' = RegisterAbstention(engine, voter, approval)
  /\ UNCHANGED approval

Expire ==
  /\ engine.open
  /\ engine' = ExpirePending(engine, approval)
  /\ UNCHANGED approval

Close ==
  /\ engine.open
  /\ engine.outcome # "pending"
  /\ engine' = Resolve(engine)
  /\ UNCHANGED approval

Next ==
  \/ \E proposer \in Agents, alive \in SUBSET Agents : Open(proposer, alive)
  \/ OpenEmpty
  \/ \E voter \in Agents, decision \in Decisions, reasoned \in BOOLEAN :
       CastVote(voter, decision, reasoned)
  \/ \E voter \in Agents : Abstain(voter)
  \/ Expire
  \/ Close

Spec == Init /\ [][Next]_vars

-----------------------------------------------------------------------------
(* Types, and the chain of versions: the proposal that waits to be superseded
   is the last version, and a new proposal supersedes the one right before it
   or none. *)
TypeOK ==
  /\ approval \in ApprovalConfig
  /\ engine \in Engine
  /\ engine.waiting \in {0, engine.version}
  /\ engine.replaced # 0 => engine.replaced + 1 = engine.version

(* Nobody answers twice, nobody outside the snapshot answers, and the
   proposer is not in it: VoteTally.__post_init__ and validate_vote never
   find the tally they are given to be inconsistent (D-018, D-020). *)
ElectorateSound ==
  engine.open =>
    /\ TallyOK(engine.tally)
    /\ engine.proposer \notin engine.tally.voters

(* The assertion at the end of expire_pending: once everybody who is still
   out counts as abstaining, no policy may leave the proposal pending, or
   the session would stay in voting without a deadline. *)
ExpiryDecides ==
  engine.open =>
    Decide(WithAbstained(engine.tally, Pending(engine.tally)), approval) # "pending"

(* The verdict of a ballot on which everybody has answered, written from the
   description of ApprovalPolicy: abstentions are never approvals. *)
FullBallotApproves(t) ==
  LET approvals == Cardinality(t.approvals)
  IN  \/ approval.mode = "first"
      \/ /\ approval.mode = "unanimous"
         /\ t.voters # {}
         /\ t.approvals = t.voters
      \/ /\ approval.mode = "majority"
         /\ 2 * approvals > Cardinality(t.voters)
      \/ /\ approval.mode = "participating_unanimous"
         /\ t.rejections = {}
         /\ approvals >= approval.minVotes

(* The ballots t can still become: everybody who is out answers somehow, or
   abstains. *)
Completed(t, answer) ==
  LET Those(a) == {v \in Pending(t) : answer[v] = a}
  IN  [t EXCEPT !.approvals  = @ \cup Those("approve"),
                !.rejections = @ \cup Those("reject"),
                !.abstained  = @ \cup Those("abstain")]

Completions(t) ==
  {Completed(t, answer) : answer \in [Pending(t) -> Decisions \cup {"abstain"}]}

(* Early decisions are right: a proposal is approved early only when every
   way to complete the ballot approves it, closed as rejected or without
   quorum only when none does, and kept pending only when the answers still
   out really make a difference (VoteTally.decide: do not wait for an answer
   that cannot change the verdict, do wait for one that can). *)
DecisionExact ==
  engine.open =>
    LET ends == Completions(engine.tally)
    IN  CASE engine.outcome = "approved" -> \A t \in ends : FullBallotApproves(t)
          [] engine.outcome = "pending"  ->
               \E t, u \in ends : Decide(t, approval) # Decide(u, approval)
          [] OTHER -> \A t \in ends : ~FullBallotApproves(t)

(* A verdict is never taken back by the votes that arrive after it: an
   approval stays an approval, a failure never becomes one and never goes
   back to pending. *)
VerdictFinal ==
  [][engine.open /\ engine'.open /\ engine.outcome # "pending" =>
       /\ engine'.outcome # "pending"
       /\ (engine.outcome = "approved") = (engine'.outcome = "approved")]_vars

(* The electorate is a snapshot (D-018) and an answer is final: while a
   version is under vote nobody joins or leaves its voters and no approval,
   rejection or abstention is withdrawn or changed into another. *)
BallotMonotone ==
  [][engine.open /\ engine'.open =>
       /\ engine'.version = engine.version
       /\ engine'.tally.voters = engine.tally.voters
       /\ engine.tally.approvals  \subseteq engine'.tally.approvals
       /\ engine.tally.rejections \subseteq engine'.tally.rejections
       /\ engine.tally.abstained  \subseteq engine'.tally.abstained]_vars

=============================================================================
