-------------------------------- MODULE Budget --------------------------------
(***************************************************************************)
(* The thresholds of a TerminationPolicy (contracts.py) and what they mean *)
(* for a session (session.py): its calls, one at a time, until the team    *)
(* has to propose.  Calls in flight together, and a team that submits or   *)
(* reaches its limit of messages earlier, are in Session, which takes the  *)
(* effective values as constants.                                          *)
(*                                                                         *)
(* Abstractions.  An optional field that is null is 0, which validation    *)
(* refuses as an explicit value.  The timeouts and max_messages play no    *)
(* part.                                                                   *)
(***************************************************************************)
EXTENDS Integers

CONSTANTS
  Policies,   \* the policies that are configured
  MaxExcess,  \* bound: by how much a call may cost more than its reserve
  MaxCached   \* bound: how many tokens of a call the provider may have cached

TerminationPolicy ==
  [token_budget : Nat, processed_token_limit : Nat, synthesis_at : Nat,
   proposal_by : Nat, call_reserve_tokens : Nat, max_proposals : Nat]

ASSUME PoliciesAssumption == Policies \subseteq TerminationPolicy
ASSUME BoundsAssumption == MaxExcess \in Nat /\ MaxCached \in Nat

VARIABLES
  policy,
  work, processed,   \* the usage settled so far
  phase,             \* _budget_phase
  called,            \* the phases in which a call was admitted
  within,            \* no call has cost more than its reserve
  failed             \* failed(budget)

budgetVars == <<policy, work, processed, phase, called, within, failed>>

Phases == {"discussion", "synthesis", "proposal"}

-----------------------------------------------------------------------------
(* The effective values *)

Larger(m, n)  == IF m < n THEN n ELSE m
Smaller(m, n) == IF m < n THEN m ELSE n

Explicit(value, default) == IF value # 0 THEN value ELSE default

ProcessedLimit(p) == Explicit(p.processed_token_limit, (p.token_budget * 5) \div 2)

SynthesisAt(p) == Explicit(p.synthesis_at, Larger(1, (p.token_budget * 5) \div 12))

(* Mutant of ProposalBy: only kept apart from the synthesis. *)
MutProposalBy(p) == Explicit(p.proposal_by, SynthesisAt(p) + 1)

ProposalBy(p) ==
  Explicit(p.proposal_by, Larger(SynthesisAt(p) + 1, (p.token_budget * 2) \div 3))

(* Mutant of CallReserve: a quarter of the budget. *)
MutCallReserve(p) ==
  Explicit(p.call_reserve_tokens, Smaller(6000, Larger(1, p.token_budget \div 4)))

CallReserve(p) ==
  Explicit(p.call_reserve_tokens, Smaller(6000, Larger(1, p.token_budget \div 10)))

MaxProposals(p) == Explicit(p.max_proposals, 2)

(* What __post_init__ lets pass. *)
Accepted(p) ==
  /\ p.token_budget >= 3
  /\ p.processed_token_limit # 0 => p.processed_token_limit >= p.token_budget
  /\ SynthesisAt(p) < ProposalBy(p)
  /\ SynthesisAt(p) < p.token_budget
  /\ ProposalBy(p) < p.token_budget
  /\ CallReserve(p) < p.token_budget

(* A policy that leaves the thresholds to the defaults. *)
Derived(p) == p.synthesis_at = 0 /\ p.proposal_by = 0 /\ p.call_reserve_tokens = 0

-----------------------------------------------------------------------------
(* A session *)

(* The work at which a phase gives way to the next one. *)
Boundary(p, ph) ==
  CASE ph = "discussion" -> SynthesisAt(p)
    [] ph = "synthesis"  -> ProposalBy(p)
    [] OTHER             -> p.token_budget

Following(ph) == IF ph = "discussion" THEN "synthesis" ELSE "proposal"

(* _sync_budget_phase: never back. *)
Synced(p, ph, w) ==
  CASE ph = "proposal" \/ w >= ProposalBy(p) -> "proposal"
    [] ph # "proposal" /\ w < ProposalBy(p) /\ w >= SynthesisAt(p) -> "synthesis"
    [] OTHER -> ph

(* Mutant of Fits: a phase gives way when its boundary has been passed. *)
MutFits(p, ph, w) == ph = "proposal" \/ w < Boundary(p, ph)

(* The admission gate, without other calls in flight: the next call stays below
   the boundary of the phase. *)
Fits(p, ph, w) == ph = "proposal" \/ w + CallReserve(p) <= Boundary(p, ph)

BudgetInit ==
  /\ policy \in {p \in Policies : Accepted(p)}
  /\ work = 0
  /\ processed = 0
  /\ phase = "discussion"
  /\ called = {}
  /\ within = TRUE
  /\ failed = FALSE

(* The next call does not fit into the phase. *)
Advance ==
  /\ ~failed
  /\ ~Fits(policy, phase, work)
  /\ phase' = Following(phase)
  /\ UNCHANGED <<policy, work, processed, called, within, failed>>

Affordable ==
  /\ work + CallReserve(policy) <= policy.token_budget
  /\ processed + CallReserve(policy) <= ProcessedLimit(policy)

(* A call is admitted, answered and settled.  It may read `cached` tokens from
   the provider's cache, which are processed and no work. *)
Call(cost, cached) ==
  /\ ~failed
  /\ Fits(policy, phase, work)
  /\ Affordable
  /\ work' = work + cost
  /\ processed' = processed + cost + cached
  /\ called' = called \cup {phase}
  /\ within' = (within /\ cost <= CallReserve(policy))
  /\ phase' = Synced(policy, phase, work')
  /\ failed' = (work' > policy.token_budget \/ processed' > ProcessedLimit(policy))
  /\ UNCHANGED policy

(* The next call does not fit into the budget. *)
Refuse ==
  /\ ~failed
  /\ Fits(policy, phase, work)
  /\ ~Affordable
  /\ failed' = TRUE
  /\ UNCHANGED <<policy, work, processed, phase, called, within>>

BudgetNext ==
  \/ Advance
  \/ \E cost \in 0..(CallReserve(policy) + MaxExcess), cached \in 0..MaxCached :
       Call(cost, cached)
  \/ Refuse

BudgetSpec == BudgetInit /\ [][BudgetNext]_budgetVars

-----------------------------------------------------------------------------
BudgetTypeOK ==
  /\ policy \in TerminationPolicy
  /\ work \in Nat
  /\ processed \in Nat
  /\ phase \in Phases
  /\ called \subseteq Phases
  /\ within \in BOOLEAN
  /\ failed \in BOOLEAN
  /\ CallReserve(policy) > 0

(* Calls that keep to their reserve never cross a boundary, whatever the policy:
   a phase begins before the one before it has used more than its share, and the
   token budget is not exceeded (_before_agent_call). *)
WithinBoundary ==
  within =>
    /\ work <= Boundary(policy, phase)
    /\ phase = "synthesis" /\ "synthesis" \notin called => work <= SynthesisAt(policy)
    /\ phase = "proposal" /\ "proposal" \notin called => work <= ProposalBy(policy)

(* Under the default thresholds, however small the budget, each phase gets a
   call before the next one begins. *)
NoPhaseSkipped ==
  within /\ Derived(policy) =>
    /\ phase # "discussion" => "discussion" \in called
    /\ phase = "proposal"   => "synthesis" \in called

(* Under the default thresholds the discussion leaves a proposal and the vote of
   one colleague within the budget.  A budget of 3 is too small for that. *)
DecisionAffordable ==
  within /\ Derived(policy) /\ policy.token_budget > 3
    /\ phase = "proposal" /\ "proposal" \notin called =>
      work + 2 * CallReserve(policy) <= policy.token_budget
=============================================================================
