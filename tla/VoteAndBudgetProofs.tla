------------------------- MODULE VoteAndBudgetProofs -------------------------
(***************************************************************************)
(* The two rules a session goes by: the invariants and action properties   *)
(* of ConsensusEngine.tla, for every set of agents, every approval policy  *)
(* and every number of proposals, and of Budget.tla, for every set of      *)
(* policies, with the effective thresholds of every policy.                *)
(***************************************************************************)
EXTENDS ConsensusEngine, Budget, ConsensusProofs

-----------------------------------------------------------------------------
(* The vote *)

(* The verdict of the record is the one of its ballot: open_proposal and every
   handler that changes the ballot decide again. *)
OutcomeCurrent == engine.open => engine.outcome = Decide(engine.tally, approval)

(* The inductive invariant.  ElectorateSound needs the types, VerdictFinal and
   DecisionExact need OutcomeCurrent. *)
IInv == TypeOK /\ ElectorateSound /\ OutcomeCurrent

-----------------------------------------------------------------------------
(* The three kinds of answer are one kind of step: the ballot grows. *)

Answered == \E t \in Tally :
  /\ TallyOK(t)
  /\ Later(engine.tally, t)
  /\ engine' = Retally(engine, t, approval)
  /\ UNCHANGED approval

LEMMA AnswersAddToBallot ==
  ASSUME IInv,
         \/ \E v \in Agents, d \in Decisions, r \in BOOLEAN : CastVote(v, d, r)
         \/ \E v \in Agents : Abstain(v)
         \/ Expire
  PROVE  engine.open /\ Answered
<1>1. engine.open
  BY DEF CastVote, Abstain, Expire
<1>2. engine.tally \in Tally /\ TallyOK(engine.tally) /\ Pending(engine.tally) \in SUBSET Agents
  BY <1>1 DEF IInv, TypeOK, ElectorateSound, Engine, Tally, Pending
<1>3. ASSUME NEW v \in Agents, NEW d \in Decisions, NEW r \in BOOLEAN, CastVote(v, d, r)
      PROVE  Answered
  <2>1. v \in Pending(engine.tally)
    BY <1>3 DEF CastVote, VoteAccepted, Pending
  <2>. QED
    BY <1>2, <1>3, <2>1, WithVoteSound DEF Answered, CastVote, ApplyVote
<1>4. ASSUME NEW v \in Agents, Abstain(v)
      PROVE  Answered
  BY <1>2, <1>4, WithAbstainedSound DEF Answered, Abstain, RegisterAbstention
<1>5. CASE Expire
  BY <1>2, <1>5, WithAbstainedSound DEF Answered, Expire, ExpirePending
<1>. QED
  BY <1>1, <1>3, <1>4, <1>5

-----------------------------------------------------------------------------
LEMMA InitIInv == Init => IInv
<1> SUFFICES ASSUME Init PROVE IInv
  OBVIOUS
<1>1. engine \in Engine
  BY NewEngineType DEF Init
<1>2. ~engine.open /\ engine.version = 0 /\ engine.waiting = 0 /\ engine.replaced = 0
  BY DEF Init, NewEngine
<1>3. approval \in ApprovalConfig
  BY ApprovalsAssumption DEF Init
<1>. QED
  BY <1>1, <1>2, <1>3 DEF IInv, TypeOK, ElectorateSound, OutcomeCurrent

LEMMA NextIInv == IInv /\ [Next]_vars => IInv'
<1> SUFFICES ASSUME IInv, [Next]_vars PROVE IInv'
  OBVIOUS
<1> USE DEF IInv
<1>1. ASSUME NEW p \in Agents, NEW alive \in SUBSET Agents, Open(p, alive)
      PROVE  IInv'
  <2>0. engine' = OpenProposal(engine, p, alive, approval) /\ approval' = approval
    BY <1>1 DEF Open
  <2>1. /\ engine' \in Engine
        /\ engine'.version = engine.version + 1
        /\ engine'.waiting = 0
        /\ engine'.replaced = engine.waiting
        /\ engine'.proposer = p
        /\ engine'.tally = NewTally(alive \ {p})
        /\ engine'.outcome = Decide(engine'.tally, approval')
    BY <2>0, OpenProposalType, engine \in Engine DEF TypeOK
  <2>2. TypeOK'
    <3>1. engine.version \in Nat /\ engine.waiting \in {0, engine.version}
      BY DEF TypeOK, Engine
    <3>. QED
      BY <2>0, <2>1, <3>1 DEF TypeOK
  <2>3. ElectorateSound'
    <3>1. TallyOK(NewTally(alive \ {p})) /\ p \notin NewTally(alive \ {p}).voters
      BY NewTallySound DEF NewTally
    <3>. QED
      BY <2>1, <3>1 DEF ElectorateSound
  <2>4. OutcomeCurrent'
    BY <2>1 DEF OutcomeCurrent
  <2>. QED
    BY <2>2, <2>3, <2>4
<1>2. CASE OpenEmpty
  <2>1. engine' = NextVersion(engine) /\ approval' = approval /\ ~engine'.open
    BY <1>2, NextVersionType DEF OpenEmpty, TypeOK
  <2>2. TypeOK'
    BY <2>1, NextVersionType DEF TypeOK, Engine
  <2>. QED
    BY <2>1, <2>2 DEF ElectorateSound, OutcomeCurrent
<1>3. CASE engine.open /\ Answered
  <2>1. PICK t \in Tally : /\ TallyOK(t)
                           /\ Later(engine.tally, t)
                           /\ engine' = Retally(engine, t, approval)
                           /\ approval' = approval
    BY <1>3 DEF Answered
  <2>2. TypeOK'
    BY <2>1, RetallyType DEF TypeOK
  <2>3. ElectorateSound'
    BY <1>3, <2>1, RetallyType DEF ElectorateSound, TypeOK, Later
  <2>4. OutcomeCurrent'
    BY <2>1, RetallyType DEF OutcomeCurrent, TypeOK
  <2>. QED
    BY <2>2, <2>3, <2>4
<1>4. CASE Close
  <2>1. engine' = Resolve(engine) /\ approval' = approval /\ ~engine'.open
    BY <1>4, ResolveType DEF Close, TypeOK
  <2>2. TypeOK'
    BY <2>1, ResolveType DEF TypeOK, Engine
  <2>. QED
    BY <2>1, <2>2 DEF ElectorateSound, OutcomeCurrent
<1>5. CASE UNCHANGED vars
  BY <1>5 DEF vars, TypeOK, ElectorateSound, OutcomeCurrent
<1>. QED
  BY <1>1, <1>2, <1>3, <1>4, <1>5, AnswersAddToBallot DEF Next

THEOREM InductiveInvariant == Spec => []IInv
  BY InitIInv, NextIInv, PTL DEF Spec

(* Type correctness, and the chain of versions (consensus.py, open_proposal
   and resolve). *)
THEOREM TypeCorrect == Spec => []TypeOK
  BY InductiveInvariant, PTL DEF IInv

(* Nobody answers twice or from outside the snapshot, and the proposer is
   never one of the voters (D-018, D-020). *)
THEOREM ElectorateCorrect == Spec => []ElectorateSound
  BY InductiveInvariant, PTL DEF IInv

(* expire_pending never leaves a proposal pending, under any policy. *)
THEOREM ExpiryCorrect == Spec => []ExpiryDecides
<1>1. IInv => ExpiryDecides
  <2> SUFFICES ASSUME IInv, engine.open
      PROVE  Decide(WithAbstained(engine.tally, Pending(engine.tally)), approval) # "pending"
    BY DEF ExpiryDecides
  <2>1. engine.tally \in Tally /\ TallyOK(engine.tally) /\ approval \in ApprovalConfig
        /\ Pending(engine.tally) \in SUBSET Agents
    BY DEF IInv, TypeOK, ElectorateSound, Engine, Tally, Pending
  <2>. QED
    BY <2>1, WithAbstainedSound, ExpiredBallotFull, FullBallotDecided
<1>. QED
  BY <1>1, InductiveInvariant, PTL

-----------------------------------------------------------------------------
(* A proposal that is under vote before and after a step got an answer in it,
   or nothing happened to it. *)
LEMMA BallotStep ==
  ASSUME IInv, [Next]_vars, engine.open, engine'.open
  PROVE  Answered \/ UNCHANGED vars
<1>1. ASSUME NEW p \in Agents, NEW alive \in SUBSET Agents
      PROVE  ~Open(p, alive)
  BY DEF Open
<1>2. ~OpenEmpty
  BY DEF OpenEmpty
<1>3. ~Close
  BY ResolveType DEF Close, IInv, TypeOK
<1>. QED
  BY <1>1, <1>2, <1>3, AnswersAddToBallot DEF Next

(* The electorate of a proposal is fixed and its answers are final (D-018). *)
THEOREM BallotsOnlyGrow == Spec => BallotMonotone
<1>1. ASSUME IInv, [Next]_vars, engine.open, engine'.open
      PROVE  engine'.version = engine.version /\ Later(engine.tally, engine'.tally)
  <2>1. CASE Answered
    <3>1. PICK t \in Tally : Later(engine.tally, t) /\ engine' = Retally(engine, t, approval)
      BY <2>1 DEF Answered
    <3>. QED
      BY <1>1, <3>1, RetallyType DEF IInv, TypeOK
  <2>2. CASE UNCHANGED vars
    BY <2>2 DEF vars, Later
  <2>. QED
    BY <1>1, <2>1, <2>2, BallotStep
<1>2. IInv /\ [Next]_vars =>
        [engine.open /\ engine'.open =>
           /\ engine'.version = engine.version
           /\ engine'.tally.voters = engine.tally.voters
           /\ engine.tally.approvals  \subseteq engine'.tally.approvals
           /\ engine.tally.rejections \subseteq engine'.tally.rejections
           /\ engine.tally.abstained  \subseteq engine'.tally.abstained]_vars
  BY <1>1 DEF Later
<1>. QED
  BY <1>2, InductiveInvariant, PTL DEF Spec, BallotMonotone

(* A verdict reached early is not taken back by the answers that follow. *)
THEOREM VerdictsAreFinal == Spec => VerdictFinal
<1>1. ASSUME IInv, [Next]_vars, engine.open, engine'.open, engine.outcome # "pending"
      PROVE  /\ engine'.outcome # "pending"
             /\ (engine.outcome = "approved") = (engine'.outcome = "approved")
  <2>1. CASE Answered
    <3>1. PICK t \in Tally : /\ TallyOK(t)
                             /\ Later(engine.tally, t)
                             /\ engine' = Retally(engine, t, approval)
      BY <2>1 DEF Answered
    <3>2. /\ engine.tally \in Tally /\ TallyOK(engine.tally)
          /\ approval \in ApprovalConfig
          /\ engine.outcome = Decide(engine.tally, approval)
      BY <1>1 DEF IInv, TypeOK, ElectorateSound, OutcomeCurrent, Engine
    <3>3. engine'.outcome = Decide(t, approval)
      BY <1>1, <3>1, RetallyType DEF IInv, TypeOK
    <3>4. /\ Decide(t, approval) # "pending"
          /\ Decide(engine.tally, approval) = "approved" <=> Decide(t, approval) = "approved"
      BY <1>1, <3>1, <3>2, VerdictStable
    <3>. QED
      BY <3>2, <3>3, <3>4
  <2>2. CASE UNCHANGED vars
    BY <1>1, <2>2 DEF vars
  <2>. QED
    BY <1>1, <2>1, <2>2, BallotStep
<1>2. IInv /\ [Next]_vars =>
        [engine.open /\ engine'.open /\ engine.outcome # "pending" =>
           /\ engine'.outcome # "pending"
           /\ (engine.outcome = "approved") = (engine'.outcome = "approved")]_vars
  BY <1>1
<1>. QED
  BY <1>2, InductiveInvariant, PTL DEF Spec, VerdictFinal
-----------------------------------------------------------------------------
(* The ballots a ballot can still become are well formed and complete. *)
LEMMA CompletionsSound ==
  ASSUME NEW t \in Tally, TallyOK(t), NEW u \in Completions(t)
  PROVE  u \in Tally /\ TallyOK(u) /\ Later(t, u) /\ Pending(u) = {}
<1>1. PICK answer \in [Pending(t) -> Decisions \cup {"abstain"}] : u = Completed(t, answer)
  BY DEF Completions
<1>2. /\ u.voters = t.voters
      /\ u.approvals = t.approvals \cup {v \in Pending(t) : answer[v] = "approve"}
      /\ u.rejections = t.rejections \cup {v \in Pending(t) : answer[v] = "reject"}
      /\ u.abstained = t.abstained \cup {v \in Pending(t) : answer[v] = "abstain"}
      /\ u \in Tally
  BY <1>1 DEF Completed, Tally, Pending
<1>3. \A v \in Pending(t) : answer[v] \in {"approve", "reject", "abstain"}
  BY DEF Decisions
<1>. QED
  BY <1>2, <1>3 DEF TallyOK, Later, Pending, Responded

(* On a complete ballot decide gives the verdict the policies describe. *)
LEMMA FullVerdict ==
  ASSUME NEW u \in Tally, TallyOK(u), Pending(u) = {}, approval \in ApprovalConfig
  PROVE  Decide(u, approval) = "approved" <=> FullBallotApproves(u)
<1>1. approval.minVotes \in Nat /\ approval.minVotes > 0
  BY DEF ApprovalConfig
<1>2. CASE u.voters = {}
  <2>1. u.approvals = {} /\ Cardinality(u.approvals) = 0 /\ Cardinality(u.voters) = 0
    BY <1>2, FS_EmptySet DEF Tally, TallyOK, Responded
  <2>. QED
    BY <1>1, <1>2, <2>1 DEF Decide, FullBallotApproves, ApprovalConfig, Modes
<1>3. CASE u.voters # {} /\ approval.mode = "unanimous"
  BY <1>3 DEF Decide, DecideUnanimous, FullBallotApproves, Tally, TallyOK, Responded
<1>4. CASE u.voters # {} /\ approval.mode = "majority"
  BY <1>4, BallotSizes DEF Decide, DecideMajority, FullBallotApproves
<1>5. CASE u.voters # {} /\ approval.mode = "participating_unanimous"
  BY <1>5 DEF Decide, DecideParticipating, FullBallotApproves
<1>6. CASE u.voters # {} /\ approval.mode = "first"
  BY <1>6 DEF Decide, FullBallotApproves
<1>. QED
  BY <1>2, <1>3, <1>4, <1>5, <1>6 DEF ApprovalConfig, Modes

(* A pending ballot can still go either way: if everybody who is out rejects
   and if everybody approves, the verdicts differ. *)
LEMMA PendingIsOpen ==
  ASSUME NEW t \in Tally, TallyOK(t), approval \in ApprovalConfig,
         Decide(t, approval) = "pending"
  PROVE  \E u, w \in Completions(t) : Decide(u, approval) # Decide(w, approval)
<1> DEFINE P == Pending(t)
           yes == Completed(t, [v \in P |-> "approve"])
           no  == Completed(t, [v \in P |-> "reject"])
<1>1. yes \in Completions(t) /\ no \in Completions(t)
  <2>1. /\ [v \in P |-> "approve"] \in [P -> Decisions \cup {"abstain"}]
        /\ [v \in P |-> "reject"] \in [P -> Decisions \cup {"abstain"}]
    BY DEF Decisions
  <2>. QED
    BY <2>1 DEF Completions
<1>2. /\ yes.voters = t.voters /\ yes.approvals = t.approvals \cup P
      /\ yes.rejections = t.rejections
      /\ no.voters = t.voters /\ no.approvals = t.approvals
      /\ no.rejections = t.rejections \cup P
  BY DEF Completed, Tally
<1>3. /\ yes \in Tally /\ TallyOK(yes) /\ Later(t, yes) /\ Pending(yes) = {}
      /\ no \in Tally /\ TallyOK(no) /\ Pending(no) = {}
  BY <1>1, CompletionsSound
<1> HIDE DEF yes, no
<1>4. t.voters # {} /\ approval.mode # "first"
  BY DEF Decide
<1>5. CASE approval.mode \in {"unanimous", "participating_unanimous"}
  <2>1. P # {} /\ t.rejections = {}
    BY <1>4, <1>5 DEF Decide, DecideUnanimous, DecideParticipating
  <2>2. Decide(no, approval) = "rejected"
    BY <1>2, <1>4, <1>5, <2>1 DEF Decide, DecideUnanimous, DecideParticipating
  <2>3. Decide(yes, approval) # "rejected"
    BY <1>2, <1>4, <1>5, <2>1 DEF Decide, DecideUnanimous, DecideParticipating
  <2>. QED
    BY <1>1, <2>2, <2>3
<1>6. CASE approval.mode = "majority"
  <2>1. /\ ~(Cardinality(t.approvals) * 2 > Cardinality(t.voters))
        /\ (Cardinality(t.approvals) + Cardinality(P)) * 2 > Cardinality(t.voters)
    BY <1>4, <1>6, BallotSizes DEF Decide, DecideMajority
  <2>2. Cardinality(yes.approvals) = Cardinality(t.approvals) + Cardinality(P)
    <3>1. t.approvals \cap P = {} /\ Cardinality(t.approvals \cap P) = 0
      BY FS_EmptySet DEF Pending, Responded
    <3>2. Cardinality(t.approvals \cup P) =
            Cardinality(t.approvals) + Cardinality(P) - Cardinality(t.approvals \cap P)
      BY BallotSizes, FS_Union
    <3>. QED
      BY <1>2, <3>1, <3>2, BallotSizes
  <2>3. Decide(yes, approval) = "approved"
    BY <1>2, <1>4, <1>6, <2>1, <2>2 DEF Decide, DecideMajority
  <2>4. Decide(no, approval) # "approved"
    BY <1>2, <1>4, <1>6, <2>1 DEF Decide, DecideMajority
  <2>. QED
    BY <1>1, <2>3, <2>4
<1>. QED
  BY <1>4, <1>5, <1>6 DEF ApprovalConfig, Modes

(* VoteTally.decide does not wait for an answer that cannot change the verdict
   and waits for every answer that can. *)
THEOREM DecisionsAreExact == Spec => []DecisionExact
<1>1. IInv => DecisionExact
  <2> SUFFICES ASSUME IInv, engine.open PROVE DecisionExact
    BY DEF DecisionExact
  <2> DEFINE t == engine.tally
  <2>1. /\ t \in Tally /\ TallyOK(t) /\ approval \in ApprovalConfig
        /\ engine.outcome = Decide(t, approval)
    BY DEF IInv, TypeOK, ElectorateSound, OutcomeCurrent, Engine
  <2> HIDE DEF t
  <2>2. ASSUME NEW u \in Completions(t), Decide(t, approval) # "pending"
        PROVE  Decide(t, approval) = "approved" <=> FullBallotApproves(u)
    BY <2>1, <2>2, CompletionsSound, VerdictStable, FullVerdict
  <2>3. Decide(t, approval) = "pending" =>
          \E u, w \in Completions(t) : Decide(u, approval) # Decide(w, approval)
    BY <2>1, PendingIsOpen
  <2>4. \/ engine.outcome = "approved" /\ \A u \in Completions(t) : FullBallotApproves(u)
        \/ /\ engine.outcome = "pending"
           /\ \E u, w \in Completions(t) : Decide(u, approval) # Decide(w, approval)
        \/ /\ engine.outcome # "approved" /\ engine.outcome # "pending"
           /\ \A u \in Completions(t) : ~FullBallotApproves(u)
    BY <2>1, <2>2, <2>3
  <2>. QED
    BY <2>4 DEF DecisionExact, t
<1>. QED
  BY <1>1, InductiveInvariant, PTL

-----------------------------------------------------------------------------
(* The budget *)

(* The effective values that Session takes as constants are what its
   PolicyAssumption asks for, for every policy that validation lets pass. *)
EffectiveValid(p) ==
  /\ {ProcessedLimit(p), SynthesisAt(p), ProposalBy(p), CallReserve(p),
      MaxProposals(p)} \subseteq Nat \ {0}
  /\ SynthesisAt(p) < ProposalBy(p)
  /\ ProposalBy(p) < p.token_budget
  /\ CallReserve(p) < p.token_budget
  /\ p.token_budget <= ProcessedLimit(p)

LEMMA EffectiveTypes ==
  ASSUME NEW p \in TerminationPolicy, p.token_budget >= 3
  PROVE  /\ ProcessedLimit(p) \in Nat \ {0}
         /\ SynthesisAt(p) \in Nat \ {0}
         /\ ProposalBy(p) \in Nat \ {0}
         /\ CallReserve(p) \in Nat \ {0}
         /\ MaxProposals(p) \in Nat \ {0}
         /\ p.processed_token_limit = 0 => p.token_budget <= ProcessedLimit(p)
<1> DEFINE b == p.token_budget
<1>1. /\ b \in Nat /\ b >= 3
      /\ p.processed_token_limit \in Nat /\ p.synthesis_at \in Nat
      /\ p.proposal_by \in Nat /\ p.call_reserve_tokens \in Nat
      /\ p.max_proposals \in Nat
  BY DEF TerminationPolicy
<1>2. (b * 5) \div 2 \in Nat /\ b <= (b * 5) \div 2
  BY <1>1, SMT
<1>3. (b * 5) \div 12 \in Nat /\ (b * 2) \div 3 \in Nat /\ b \div 10 \in Nat
  BY <1>1, SMT
<1> HIDE DEF b
<1>4. ProcessedLimit(p) \in Nat \ {0}
      /\ (p.processed_token_limit = 0 => b <= ProcessedLimit(p))
  BY <1>1, <1>2 DEF ProcessedLimit, Explicit, b
<1>5. SynthesisAt(p) \in Nat \ {0}
  BY <1>1, <1>3 DEF SynthesisAt, Explicit, Larger, b
<1>6. ProposalBy(p) \in Nat \ {0}
  BY <1>1, <1>3, <1>5 DEF ProposalBy, Explicit, Larger, b
<1>7. CallReserve(p) \in Nat \ {0}
  BY <1>1, <1>3 DEF CallReserve, Explicit, Larger, Smaller, b
<1>8. MaxProposals(p) \in Nat \ {0}
  BY <1>1 DEF MaxProposals, Explicit
<1> QED BY <1>4, <1>5, <1>6, <1>7, <1>8 DEF b

(* Validation (TerminationPolicy.__post_init__) establishes what the coordinator
   relies on. *)
THEOREM AcceptedIsValid ==
  ASSUME NEW p \in TerminationPolicy, Accepted(p)
  PROVE  EffectiveValid(p)
<1>1. p.token_budget \in Nat /\ p.token_budget >= 3 /\ p.processed_token_limit \in Nat
  BY DEF TerminationPolicy, Accepted
<1>2. p.token_budget <= ProcessedLimit(p)
  <2>1. CASE p.processed_token_limit = 0
    BY <1>1, <2>1, EffectiveTypes
  <2>2. CASE p.processed_token_limit # 0
    BY <1>1, <2>2 DEF ProcessedLimit, Explicit, Accepted
  <2> QED BY <2>1, <2>2
<1>3. {ProcessedLimit(p), SynthesisAt(p), ProposalBy(p), CallReserve(p),
       MaxProposals(p)} \subseteq Nat \ {0}
  BY <1>1, EffectiveTypes
<1> QED BY <1>2, <1>3 DEF EffectiveValid, Accepted

(* The default thresholds of a budget: a call fits into the discussion and into
   the synthesis, and after them a proposal and a vote fit into the budget. *)
LEMMA DerivedRoom ==
  ASSUME NEW p \in TerminationPolicy, p.token_budget >= 3, Derived(p)
  PROVE  /\ CallReserve(p) <= SynthesisAt(p)
         /\ SynthesisAt(p) + CallReserve(p) <= ProposalBy(p)
         /\ ProposalBy(p) + CallReserve(p) <= p.token_budget
         /\ p.token_budget > 3 => ProposalBy(p) + 2 * CallReserve(p) <= p.token_budget
<1> DEFINE b == p.token_budget
           s == (b * 5) \div 12
           q == (b * 2) \div 3
           r == b \div 10
<1>1. b \in Nat /\ b >= 3
  BY DEF TerminationPolicy
<1>2. s \in Int /\ 12 * s <= 5 * b /\ 5 * b <= 12 * s + 11
  BY <1>1, SMT
<1>3. q \in Int /\ 3 * q <= 2 * b /\ 2 * b <= 3 * q + 2
  BY <1>1, SMT
<1>4. r \in Int /\ 10 * r <= b /\ b <= 10 * r + 9
  BY <1>1, SMT
<1>5. /\ SynthesisAt(p) = IF 1 < s THEN s ELSE 1
      /\ CallReserve(p) = Smaller(6000, IF 1 < r THEN r ELSE 1)
  BY DEF SynthesisAt, CallReserve, Explicit, Larger, Derived
<1>6. ProposalBy(p) = IF SynthesisAt(p) + 1 < q THEN q ELSE SynthesisAt(p) + 1
  BY DEF ProposalBy, Explicit, Larger, Derived
<1> HIDE DEF b, s, q, r
<1>7. /\ CallReserve(p) \in Int /\ CallReserve(p) >= 1
      /\ CallReserve(p) <= IF 1 < r THEN r ELSE 1
  BY <1>4, <1>5 DEF Smaller
<1>8. SynthesisAt(p) \in Int
  BY <1>2, <1>5
<1>9. CallReserve(p) <= SynthesisAt(p)
  BY <1>1, <1>2, <1>4, <1>5, <1>7
<1>10. SynthesisAt(p) + CallReserve(p) <= ProposalBy(p)
  BY <1>1, <1>2, <1>3, <1>4, <1>5, <1>6, <1>7
<1>11. ProposalBy(p) + CallReserve(p) <= b
  BY <1>1, <1>2, <1>3, <1>4, <1>5, <1>6, <1>7
<1>12. b > 3 => ProposalBy(p) + 2 * CallReserve(p) <= b
  BY <1>1, <1>2, <1>3, <1>4, <1>5, <1>6, <1>7
<1> QED BY <1>9, <1>10, <1>11, <1>12 DEF b

(* The default thresholds of every budget of at least 3 pass validation: no budget
   is too small or awkward for them. *)
THEOREM DerivedIsAccepted ==
  ASSUME NEW p \in TerminationPolicy, p.token_budget >= 3, Derived(p),
         p.processed_token_limit = 0
  PROVE  Accepted(p)
<1>1. p.token_budget \in Nat
  BY DEF TerminationPolicy
<1>2. /\ SynthesisAt(p) \in Nat \ {0}
      /\ ProposalBy(p) \in Nat \ {0}
      /\ CallReserve(p) \in Nat \ {0}
  BY EffectiveTypes
<1>3. /\ CallReserve(p) <= SynthesisAt(p)
      /\ SynthesisAt(p) + CallReserve(p) <= ProposalBy(p)
      /\ ProposalBy(p) + CallReserve(p) <= p.token_budget
  BY DerivedRoom
<1> QED BY <1>1, <1>2, <1>3 DEF Accepted

-----------------------------------------------------------------------------
InPhase == within => work <= Boundary(policy, phase)

(* Where a phase without a call of its own has begun. *)
Entered ==
  within =>
    /\ phase = "discussion" /\ "discussion" \notin called => work = 0
    /\ phase = "synthesis" /\ "synthesis" \notin called => work <= SynthesisAt(policy)
    /\ phase = "proposal" /\ "proposal" \notin called => work <= ProposalBy(policy)

BudgetIInv == BudgetTypeOK /\ Accepted(policy) /\ InPhase /\ NoPhaseSkipped /\ Entered

LEMMA Thresholds ==
  ASSUME NEW p \in TerminationPolicy, Accepted(p)
  PROVE  /\ p.token_budget \in Nat
         /\ SynthesisAt(p) \in Nat \ {0}
         /\ ProposalBy(p) \in Nat \ {0}
         /\ CallReserve(p) \in Nat \ {0}
         /\ SynthesisAt(p) < ProposalBy(p)
         /\ ProposalBy(p) < p.token_budget
         /\ Derived(p) => CallReserve(p) <= SynthesisAt(p)
         /\ Derived(p) => SynthesisAt(p) + CallReserve(p) <= ProposalBy(p)
<1>1. p.token_budget \in Nat /\ p.token_budget >= 3
  BY DEF TerminationPolicy, Accepted
<1>2. EffectiveValid(p)
  BY AcceptedIsValid
<1>3. /\ Derived(p) => CallReserve(p) <= SynthesisAt(p)
      /\ Derived(p) => SynthesisAt(p) + CallReserve(p) <= ProposalBy(p)
  BY <1>1, DerivedRoom
<1> QED BY <1>1, <1>2, <1>3 DEF EffectiveValid

LEMMA InitBudget == BudgetInit => BudgetIInv
<1> SUFFICES ASSUME BudgetInit PROVE BudgetIInv
  OBVIOUS
<1>1. policy \in TerminationPolicy /\ Accepted(policy)
  BY PoliciesAssumption DEF BudgetInit
<1>2. SynthesisAt(policy) \in Nat /\ CallReserve(policy) \in Nat \ {0}
  BY <1>1, Thresholds
<1>3. BudgetTypeOK
  <2>1. within \in BOOLEAN /\ failed \in BOOLEAN
    BY DEF BudgetInit
  <2>2. CallReserve(policy) > 0
    BY <1>2
  <2>3. work \in Nat /\ processed \in Nat
    BY DEF BudgetInit
  <2>4. phase \in Phases /\ called \subseteq Phases
    BY DEF BudgetInit, Phases
  <2> QED BY <1>1, <2>1, <2>2, <2>3, <2>4 DEF BudgetTypeOK
<1>4. InPhase
  BY <1>2 DEF BudgetInit, InPhase, Boundary
<1>5. NoPhaseSkipped /\ Entered
  BY DEF BudgetInit, NoPhaseSkipped, Entered
<1> QED BY <1>1, <1>3, <1>4, <1>5 DEF BudgetIInv

LEMMA AdvanceInv == ASSUME BudgetIInv, Advance PROVE BudgetIInv'
<1>1. /\ BudgetTypeOK /\ Accepted(policy) /\ policy \in TerminationPolicy
      /\ policy' = policy /\ work' = work /\ called' = called /\ within' = within
      /\ processed' = processed /\ failed' = failed
      /\ work \in Nat
  BY DEF BudgetIInv, BudgetTypeOK, Advance
<1>2. phase' = Following(phase) /\ ~Fits(policy, phase, work) /\ phase \in Phases
      /\ phase # "proposal"
  BY DEF BudgetIInv, BudgetTypeOK, Advance, Fits
<1>3. BudgetTypeOK'
  BY <1>1, <1>2 DEF BudgetTypeOK, Following, Phases
<1>4. ASSUME within
      PROVE  /\ work <= Boundary(policy, phase')
             /\ NoPhaseSkipped'
             /\ phase' = "synthesis" => work <= SynthesisAt(policy)
             /\ phase' = "proposal" => work <= ProposalBy(policy)
  <2>1. work <= Boundary(policy, phase)
    BY <1>4 DEF BudgetIInv, InPhase
  <2>2. CASE phase = "discussion"
    <3>1. phase' = "synthesis"
      BY <1>2, <2>2 DEF Following
    <3>2. work <= SynthesisAt(policy) /\ work + CallReserve(policy) > SynthesisAt(policy)
      BY <1>1, <1>2, <2>1, <2>2, Thresholds DEF Boundary, Fits
    <3>3. Derived(policy) => "discussion" \in called
      <4>1. SUFFICES ASSUME Derived(policy), "discussion" \notin called PROVE FALSE
        OBVIOUS
      <4>2. work = 0
        BY <1>4, <2>2, <4>1 DEF BudgetIInv, Entered
      <4> QED BY <1>1, <3>2, <4>1, <4>2, Thresholds
    <3>4. work <= Boundary(policy, phase')
      BY <1>1, <3>1, <3>2, Thresholds DEF Boundary
    <3> QED BY <1>1, <3>1, <3>2, <3>3, <3>4 DEF NoPhaseSkipped
  <2>3. CASE phase = "synthesis"
    <3>1. phase' = "proposal"
      BY <1>2, <2>3 DEF Following
    <3>2. work <= ProposalBy(policy) /\ work + CallReserve(policy) > ProposalBy(policy)
      BY <1>1, <1>2, <2>1, <2>3, Thresholds DEF Boundary, Fits
    <3>3. Derived(policy) => "synthesis" \in called
      <4>1. SUFFICES ASSUME Derived(policy), "synthesis" \notin called PROVE FALSE
        OBVIOUS
      <4>2. work <= SynthesisAt(policy)
        BY <1>4, <2>3, <4>1 DEF BudgetIInv, Entered
      <4> QED BY <1>1, <3>2, <4>1, <4>2, Thresholds
    <3>4. Derived(policy) => "discussion" \in called
      BY <1>4, <2>3 DEF BudgetIInv, NoPhaseSkipped
    <3>5. work <= Boundary(policy, phase')
      BY <1>1, <3>1, <3>2, Thresholds DEF Boundary
    <3> QED BY <1>1, <3>1, <3>2, <3>3, <3>4, <3>5 DEF NoPhaseSkipped
  <2> QED BY <1>2, <2>2, <2>3 DEF Phases
<1>5. InPhase'
  BY <1>1, <1>4 DEF InPhase
<1>6. NoPhaseSkipped'
  <2>1. CASE within
    BY <1>4, <2>1
  <2>2. CASE ~within
    BY <1>1, <2>2 DEF NoPhaseSkipped
  <2> QED BY <2>1, <2>2
<1>7. Entered'
  <2>1. phase' # "discussion"
    BY <1>2 DEF Following
  <2> QED BY <1>1, <1>4, <2>1 DEF Entered
<1> QED BY <1>1, <1>3, <1>5, <1>6, <1>7 DEF BudgetIInv

LEMMA CallInv ==
  ASSUME BudgetIInv, NEW cost \in Nat, NEW cached \in Nat, Call(cost, cached)
  PROVE  BudgetIInv'
<1>1. /\ BudgetTypeOK /\ Accepted(policy) /\ policy \in TerminationPolicy /\ policy' = policy
      /\ work \in Nat /\ processed \in Nat /\ phase \in Phases /\ called \subseteq Phases
  BY DEF BudgetIInv, BudgetTypeOK, Call
<1>2. /\ work' = work + cost
      /\ processed' = processed + cost + cached
      /\ phase' = Synced(policy, phase, work')
      /\ called' = called \cup {phase}
      /\ Fits(policy, phase, work)
  BY DEF Call
<1>3. within' => within /\ cost <= CallReserve(policy)
  BY DEF Call
<1>4. BudgetTypeOK'
  <2>1. work' \in Nat /\ processed' \in Nat
    BY <1>1, <1>2
  <2>2. phase' \in Phases
    BY <1>1, <1>2 DEF Synced, Phases
  <2>3. called' \subseteq Phases
    BY <1>1, <1>2
  <2>4. within' \in BOOLEAN /\ failed' \in BOOLEAN
    BY DEF Call
  <2> QED BY <1>1, <2>1, <2>2, <2>3, <2>4 DEF BudgetTypeOK
<1>5. ASSUME within'
      PROVE  work' <= Boundary(policy, phase)
  <2>1. cost <= CallReserve(policy) /\ CallReserve(policy) \in Nat
    BY <1>1, <1>3, <1>5, Thresholds
  <2>2. work + CallReserve(policy) <= Boundary(policy, phase)
    BY <1>1, <1>2 DEF Call, Fits, Affordable, Boundary
  <2>3. Boundary(policy, phase) \in Nat
    BY <1>1, Thresholds DEF Boundary
  <2> QED BY <1>1, <1>2, <2>1, <2>2, <2>3
<1>6. ASSUME within'
      PROVE  /\ work' <= Boundary(policy, phase')
             /\ phase' = phase
                \/ /\ phase = "discussion" /\ phase' = "synthesis"
                   /\ work' <= SynthesisAt(policy)
                \/ /\ phase = "synthesis" /\ phase' = "proposal"
                   /\ work' <= ProposalBy(policy)
  <2>1. work' \in Nat /\ work' <= Boundary(policy, phase)
    BY <1>4, <1>5, <1>6 DEF BudgetTypeOK
  <2>2. CASE phase = "discussion"
    BY <1>1, <1>2, <2>1, <2>2, Thresholds DEF Boundary, Synced
  <2>3. CASE phase = "synthesis"
    BY <1>1, <1>2, <2>1, <2>3, Thresholds DEF Boundary, Synced
  <2>4. CASE phase = "proposal"
    BY <1>1, <1>2, <2>1, <2>4 DEF Boundary, Synced
  <2> QED BY <1>1, <2>2, <2>3, <2>4 DEF Phases
<1>7. InPhase'
  BY <1>1, <1>6 DEF InPhase
<1>8. NoPhaseSkipped'
  <2>1. SUFFICES ASSUME within', Derived(policy)
                 PROVE  /\ phase' # "discussion" => "discussion" \in called'
                        /\ phase' = "proposal" => "synthesis" \in called'
    BY <1>1 DEF NoPhaseSkipped
  <2>2. /\ phase # "discussion" => "discussion" \in called
        /\ phase = "proposal" => "synthesis" \in called
    BY <1>3, <2>1 DEF BudgetIInv, NoPhaseSkipped
  <2> QED BY <1>2, <1>6, <2>1, <2>2
<1>9. Entered'
  <2>1. SUFFICES ASSUME within'
                 PROVE  /\ phase' = "discussion" => "discussion" \in called'
                        /\ phase' = "synthesis" /\ "synthesis" \notin called' =>
                             work' <= SynthesisAt(policy)
                        /\ phase' = "proposal" /\ "proposal" \notin called' =>
                             work' <= ProposalBy(policy)
    BY <1>1 DEF Entered
  <2> QED BY <1>2, <1>6, <2>1
<1> QED BY <1>1, <1>4, <1>7, <1>8, <1>9 DEF BudgetIInv

LEMMA NextBudget == BudgetIInv /\ [BudgetNext]_budgetVars => BudgetIInv'
<1> SUFFICES ASSUME BudgetIInv, [BudgetNext]_budgetVars PROVE BudgetIInv'
  OBVIOUS
<1>1. CASE Advance
  BY <1>1, AdvanceInv
<1>2. ASSUME NEW cost \in 0..(CallReserve(policy) + MaxExcess), NEW cached \in 0..MaxCached,
             Call(cost, cached)
      PROVE  BudgetIInv'
  <2>1. CallReserve(policy) \in Nat
    BY Thresholds DEF BudgetIInv, BudgetTypeOK
  <2>2. cost \in Nat /\ cached \in Nat
    BY <2>1, BoundsAssumption
  <2> QED BY <1>2, <2>2, CallInv
<1>3. CASE Refuse
  BY <1>3 DEF Refuse, BudgetIInv, BudgetTypeOK, InPhase, NoPhaseSkipped, Entered
<1>4. CASE UNCHANGED budgetVars
  BY <1>4 DEF budgetVars, BudgetIInv, BudgetTypeOK, InPhase, NoPhaseSkipped, Entered
<1> QED BY <1>1, <1>2, <1>3, <1>4 DEF BudgetNext

(* Inductive invariant of every session, under every accepted policy. *)
THEOREM BudgetInvariant == BudgetSpec => []BudgetIInv
BY InitBudget, NextBudget, PTL DEF BudgetSpec

(* The usage and the phase keep their types, and a call always reserves something. *)
THEOREM BudgetTypeCorrect == BudgetSpec => []BudgetTypeOK
<1>1. BudgetIInv => BudgetTypeOK
  BY DEF BudgetIInv
<1> QED BY <1>1, BudgetInvariant, PTL

(* Calls that keep to their reserve cross no boundary and never exceed the token
   budget, whatever the policy (_before_agent_call). *)
THEOREM BoundariesHold == BudgetSpec => []WithinBoundary
<1>1. BudgetIInv => WithinBoundary
  BY DEF BudgetIInv, InPhase, Entered, WithinBoundary
<1> QED BY <1>1, BudgetInvariant, PTL

(* Under the default thresholds of any budget no phase is skipped. *)
THEOREM EveryPhaseHasACall == BudgetSpec => []NoPhaseSkipped
<1>1. BudgetIInv => NoPhaseSkipped
  BY DEF BudgetIInv
<1> QED BY <1>1, BudgetInvariant, PTL

(* Under the default thresholds of any budget above 3 the discussion leaves a
   proposal and a vote. *)
THEOREM DecisionFits == BudgetSpec => []DecisionAffordable
<1>1. BudgetIInv => DecisionAffordable
  <2> SUFFICES ASSUME BudgetIInv, within, Derived(policy), policy.token_budget > 3,
                      phase = "proposal", "proposal" \notin called
               PROVE  work + 2 * CallReserve(policy) <= policy.token_budget
    BY DEF DecisionAffordable
  <2>1. policy \in TerminationPolicy /\ work \in Nat /\ Accepted(policy)
    BY DEF BudgetIInv, BudgetTypeOK
  <2>2. policy.token_budget \in Nat /\ policy.token_budget >= 3
    BY <2>1 DEF TerminationPolicy, Accepted
  <2>3. work <= ProposalBy(policy)
    BY DEF BudgetIInv, Entered
  <2>4. ProposalBy(policy) + 2 * CallReserve(policy) <= policy.token_budget
    BY <2>1, <2>2, DerivedRoom
  <2>5. ProposalBy(policy) \in Nat /\ CallReserve(policy) \in Nat
    BY <2>1, Thresholds
  <2> QED BY <2>1, <2>2, <2>3, <2>4, <2>5
<1> QED BY <1>1, BudgetInvariant, PTL
=============================================================================
