--------------------------- MODULE ConsensusProofs ---------------------------
(***************************************************************************)
(* Facts about the operators of Consensus.tla, for every set of agents and *)
(* every approval policy: what a ballot may look like, and that the early  *)
(* decisions of VoteTally.decide are never revised.                        *)
(***************************************************************************)
EXTENDS Consensus, FiniteSetTheorems, TLAPS

(* u is a later ballot than t: same voters, no answer withdrawn. *)
Later(t, u) ==
  /\ u.voters = t.voters
  /\ t.approvals  \subseteq u.approvals
  /\ t.rejections \subseteq u.rejections
  /\ t.abstained  \subseteq u.abstained

(* The sets of a ballot are finite, so that their sizes can be compared. *)
LEMMA BallotSizes ==
  ASSUME NEW t \in Tally
  PROVE  /\ IsFiniteSet(t.voters) /\ IsFiniteSet(t.approvals) /\ IsFiniteSet(Pending(t))
         /\ Cardinality(t.voters) \in Nat
         /\ Cardinality(t.approvals) \in Nat
         /\ Cardinality(Pending(t)) \in Nat
<1>1. IsFiniteSet(Agents)
  BY AgentsAssumption
<1>2. t.voters \in SUBSET Agents /\ t.approvals \in SUBSET Agents
      /\ Pending(t) \in SUBSET Agents
  BY DEF Tally, Pending
<1>3. IsFiniteSet(t.voters) /\ IsFiniteSet(t.approvals) /\ IsFiniteSet(Pending(t))
  BY <1>1, <1>2, FS_Subset
<1>. QED
  BY <1>3, FS_CardinalityType

(* with_vote keeps the ballot well formed and only adds to it. *)
LEMMA WithVoteSound ==
  ASSUME NEW t \in Tally, TallyOK(t), NEW v \in Pending(t), NEW d \in Decisions
  PROVE  /\ WithVote(t, v, d) \in Tally
         /\ TallyOK(WithVote(t, v, d))
         /\ Later(t, WithVote(t, v, d))
<1>1. v \in t.voters /\ v \in Agents /\ v \notin Responded(t)
  BY DEF Pending, Tally
<1>2. CASE d = "approve"
  BY <1>1, <1>2 DEF WithVote, Tally, TallyOK, Responded, Later
<1>3. CASE d # "approve"
  BY <1>1, <1>3 DEF WithVote, Tally, TallyOK, Responded, Later
<1>. QED
  BY <1>2, <1>3

(* with_abstained, the same. *)
LEMMA WithAbstainedSound ==
  ASSUME NEW t \in Tally, TallyOK(t), NEW S \in SUBSET Agents
  PROVE  /\ WithAbstained(t, S) \in Tally
         /\ TallyOK(WithAbstained(t, S))
         /\ Later(t, WithAbstained(t, S))
  BY DEF WithAbstained, Tally, TallyOK, Responded, Later

(* decide returns one of the four outcomes. *)
LEMMA DecideType ==
  ASSUME NEW t, NEW approval
  PROVE  Decide(t, approval) \in Outcomes
  BY DEF Decide, DecideUnanimous, DecideMajority, DecideParticipating, Outcomes

(* The assertion of expire_pending, for a ballot on which everybody has
   answered: no policy leaves it pending. *)
LEMMA FullBallotDecided ==
  ASSUME NEW t \in Tally, Pending(t) = {}, NEW approval \in ApprovalConfig
  PROVE  Decide(t, approval) # "pending"
<1>1. Cardinality(Pending(t)) = 0
  BY FS_EmptySet
<1>2. DecideMajority(t) # "pending"
  BY <1>1, BallotSizes DEF DecideMajority
<1>. QED
  BY <1>2 DEF Decide, DecideUnanimous, DecideParticipating

LEMMA ExpiredBallotFull ==
  ASSUME NEW t \in Tally
  PROVE  Pending(WithAbstained(t, Pending(t))) = {}
  BY DEF Pending, WithAbstained, Responded, Tally

(* Once everybody has answered nothing can be added to a ballot. *)
LEMMA FullBallotFixed ==
  ASSUME NEW t \in Tally, NEW u \in Tally, TallyOK(u), Later(t, u), Pending(t) = {}
  PROVE  /\ u.approvals = t.approvals
         /\ u.rejections = t.rejections
         /\ u.abstained = t.abstained
         /\ Pending(u) = {}
  BY DEF Tally, TallyOK, Later, Pending, Responded

(* The approvals a ballot can still reach: those it has and those out. *)
LEMMA ReachableApprovals ==
  ASSUME NEW t \in Tally, TallyOK(t), NEW u \in Tally, TallyOK(u), Later(t, u)
  PROVE  /\ Cardinality(t.approvals) <= Cardinality(u.approvals)
         /\ Cardinality(u.approvals) + Cardinality(Pending(u))
              <= Cardinality(t.approvals) + Cardinality(Pending(t))
<1>1. \A w \in Tally : TallyOK(w) =>
        /\ IsFiniteSet(w.approvals \cup Pending(w))
        /\ Cardinality(w.approvals \cup Pending(w))
             = Cardinality(w.approvals) + Cardinality(Pending(w))
  <2> TAKE w \in Tally
  <2> HAVE TallyOK(w)
  <2>1. w.approvals \cap Pending(w) = {}
    BY DEF Pending, Responded
  <2>2. Cardinality(w.approvals \cap Pending(w)) = 0
    BY <2>1, FS_EmptySet
  <2>3. /\ IsFiniteSet(w.approvals \cup Pending(w))
        /\ Cardinality(w.approvals \cup Pending(w)) =
             Cardinality(w.approvals) + Cardinality(Pending(w))
               - Cardinality(w.approvals \cap Pending(w))
    BY BallotSizes, FS_Union
  <2>. QED
    BY <2>2, <2>3, BallotSizes
<1>2. u.approvals \cup Pending(u) \subseteq t.approvals \cup Pending(t)
  BY DEF Tally, TallyOK, Later, Pending, Responded
<1>3. Cardinality(u.approvals \cup Pending(u)) <= Cardinality(t.approvals \cup Pending(t))
  BY <1>1, <1>2, FS_Subset
<1>4. Cardinality(t.approvals) <= Cardinality(u.approvals)
  BY BallotSizes, FS_Subset DEF Later
<1>. QED
  BY <1>1, <1>3, <1>4

(* An early decision is never revised: whatever is answered after it, an
   approval stays an approval and a failure stays a failure. *)
THEOREM VerdictStable ==
  ASSUME NEW t \in Tally, TallyOK(t), NEW u \in Tally, TallyOK(u), Later(t, u),
         NEW approval \in ApprovalConfig,
         Decide(t, approval) # "pending"
  PROVE  /\ Decide(u, approval) # "pending"
         /\ Decide(t, approval) = "approved" <=> Decide(u, approval) = "approved"
<1>1. CASE approval.mode = "first" \/ t.voters = {}
  BY <1>1 DEF Decide, Later
<1>2. CASE approval.mode = "unanimous" /\ t.voters # {}
  <2>1. Decide(t, approval) = DecideUnanimous(t) /\ Decide(u, approval) = DecideUnanimous(u)
    BY <1>2 DEF Decide, Later
  <2>2. CASE t.rejections # {}
    BY <2>1, <2>2 DEF DecideUnanimous, Later
  <2>3. CASE t.rejections = {} /\ t.approvals = t.voters
    <3>1. u.approvals = u.voters /\ u.rejections = {}
      BY <2>3 DEF Later, TallyOK, Responded, Tally
    <3>. QED
      BY <2>1, <2>3, <3>1 DEF DecideUnanimous
  <2>4. CASE t.rejections = {} /\ t.approvals # t.voters
    <3>1. Pending(t) = {}
      BY <2>1, <2>4 DEF DecideUnanimous
    <3>. QED
      BY <2>1, <2>4, <3>1, FullBallotFixed DEF DecideUnanimous, Later
  <2>. QED
    BY <2>2, <2>3, <2>4
<1>3. CASE approval.mode = "majority" /\ t.voters # {}
  <2>1. Decide(t, approval) = DecideMajority(t) /\ Decide(u, approval) = DecideMajority(u)
    BY <1>3 DEF Decide, Later
  <2>2. u.voters = t.voters
    BY DEF Later
  <2>. QED
    BY <2>1, <2>2, ReachableApprovals, BallotSizes DEF DecideMajority
<1>4. CASE approval.mode = "participating_unanimous" /\ t.voters # {}
  <2>1. /\ Decide(t, approval) = DecideParticipating(t, approval.minVotes)
        /\ Decide(u, approval) = DecideParticipating(u, approval.minVotes)
    BY <1>4 DEF Decide, Later
  <2>2. CASE t.rejections # {}
    BY <2>1, <2>2 DEF DecideParticipating, Later
  <2>3. CASE t.rejections = {}
    <3>1. Pending(t) = {}
      BY <2>1, <2>3 DEF DecideParticipating
    <3>. QED
      BY <2>1, <2>3, <3>1, FullBallotFixed DEF DecideParticipating
  <2>. QED
    BY <2>2, <2>3
<1>. QED
  BY <1>1, <1>2, <1>3, <1>4 DEF ApprovalConfig, Modes

-----------------------------------------------------------------------------
(* The operators on the engine, one by one. *)

LEMMA NewTallySound ==
  ASSUME NEW S \in SUBSET Agents
  PROVE  NewTally(S) \in Tally /\ TallyOK(NewTally(S))
  BY DEF NewTally, Tally, TallyOK, Responded

LEMMA NewEngineType == NewEngine \in Engine
<1>1. \E a \in Agents : TRUE
  BY AgentsAssumption
<1>2. (CHOOSE a \in Agents : TRUE) \in Agents
  BY <1>1
<1>3. NewTally({}) \in Tally
  BY NewTallySound
<1>. QED
  BY <1>2, <1>3 DEF NewEngine, Engine, Outcomes

LEMMA NextVersionType ==
  ASSUME NEW e \in Engine
  PROVE  /\ NextVersion(e) \in Engine
         /\ NextVersion(e).version = e.version + 1
         /\ NextVersion(e).waiting = 0
         /\ NextVersion(e).replaced = e.waiting
         /\ NextVersion(e).open = e.open
<1>1. e.version + 1 \in Nat /\ e.waiting \in Nat /\ 0 \in Nat
  BY DEF Engine
<1>2. NextVersion(e) \in Engine
  BY <1>1 DEF NextVersion, Engine
<1>. QED
  BY <1>1, <1>2 DEF NextVersion, Engine

LEMMA OpenProposalType ==
  ASSUME NEW e \in Engine, NEW p \in Agents, NEW alive \in SUBSET Agents,
         NEW policy
  PROVE  LET f == OpenProposal(e, p, alive, policy)
         IN  /\ f \in Engine
             /\ f.version = e.version + 1
             /\ f.waiting = 0
             /\ f.replaced = e.waiting
             /\ f.proposer = p
             /\ f.tally = NewTally(alive \ {p})
             /\ f.outcome = Decide(f.tally, policy)
<1>1. NewTally(alive \ {p}) \in Tally
  BY NewTallySound
<1>2. Decide(NewTally(alive \ {p}), policy) \in Outcomes
  BY DecideType
<1> DEFINE n == NextVersion(e)
           t == NewTally(alive \ {p})
           o == Decide(t, policy)
           f == [n EXCEPT !.open = TRUE, !.proposer = p, !.tally = t, !.outcome = o]
<1>3. f = OpenProposal(e, p, alive, policy)
  BY DEF OpenProposal
<1>4. /\ n \in Engine
      /\ n.version = e.version + 1 /\ n.waiting = 0 /\ n.replaced = e.waiting
  BY NextVersionType
<1>5. t \in Tally /\ o \in Outcomes
  BY <1>1, <1>2
<1>6. o = Decide(t, policy)
  OBVIOUS
<1> HIDE DEF n, t, o
<1>7. /\ f \in Engine /\ f.proposer = p /\ f.tally = t /\ f.outcome = o
      /\ f.version = n.version /\ f.waiting = n.waiting /\ f.replaced = n.replaced
  BY <1>4, <1>5 DEF Engine
<1> HIDE DEF f
<1>8. /\ f \in Engine /\ f.version = e.version + 1 /\ f.waiting = 0
      /\ f.replaced = e.waiting /\ f.proposer = p /\ f.tally = t
      /\ f.outcome = Decide(f.tally, policy)
  BY <1>4, <1>6, <1>7
<1>. QED
  BY <1>3, <1>8 DEF t

LEMMA RetallyType ==
  ASSUME NEW e \in Engine, NEW t \in Tally, NEW policy
  PROVE  LET f == Retally(e, t, policy)
         IN  /\ f \in Engine
             /\ f.tally = t
             /\ f.outcome = Decide(t, policy)
             /\ f.version = e.version /\ f.open = e.open /\ f.proposer = e.proposer
             /\ f.waiting = e.waiting /\ f.replaced = e.replaced
<1>1. Decide(t, policy) \in Outcomes
  BY DecideType
<1>. QED
  BY <1>1 DEF Retally, Engine

LEMMA ResolveType ==
  ASSUME NEW e \in Engine
  PROVE  /\ Resolve(e) \in Engine
         /\ ~Resolve(e).open
         /\ Resolve(e).version = e.version
         /\ Resolve(e).waiting \in {e.waiting, e.version}
         /\ Resolve(e).replaced = e.replaced
  BY DEF Resolve, Engine
=============================================================================
