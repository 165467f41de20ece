------------------------------- MODULE Session -------------------------------
(***************************************************************************)
(* One session: the SessionManager of session.py, the AgentLoops of        *)
(* agent.py that it runs, and the engine of Consensus.tla.                 *)
(*                                                                         *)
(* Everything runs on one asyncio event loop, so the code between two      *)
(* awaits is atomic.  The awaits are: the condition _budget_condition in   *)
(* _before_agent_call, the completion of an LLM call, and the inbox of the *)
(* bus.  An action is the whole stretch of code from one of them to the    *)
(* next one, with every call it makes; the calls are operators from a      *)
(* session record to a session record, composed as the methods are.        *)
(*                                                                         *)
(* Abstractions.  Tokens are small numbers.  A proposal is its version.    *)
(* The bus is the set of agents with undelivered mail (Bus.tla has the     *)
(* queues).  The time that passed is not modelled: a timer may fire        *)
(* whenever its handler would act.  Events, the log of rejected commands,  *)
(* and the writes to the store are observations of these steps.  An agent  *)
(* that finishes a turn with mail already in its inbox goes through the    *)
(* "idle" state, where the code returns from wait_for_messages at once:    *)
(* the model allows more interleavings there than the code.                *)
(***************************************************************************)
EXTENDS Consensus, Sequences

CONSTANTS
  Capabilities,     \* AgentSpec.capabilities, a set of commands per agent
  MaxTurns,         \* AgentSpec.max_turns, per agent
  Approval,         \* TerminationPolicy.approval
  TokenBudget, ProcessedLimit, SynthesisAt, ProposalBy, CallReserve,
  MaxProposals, MaxMessages,
                    \* the effective_* values of TerminationPolicy
  Replies,          \* what a model may answer: sequences of tool calls
  MayBeSilent,      \* it may also answer with neither text nor tool calls
  Usages            \* what a completed call may have cost

Commands == {"send_message", "submit_result", "vote_result"}

(* A tool call.  target is the proposal_id: 0 when it is omitted.  recipients
   that name the sender itself are refused by the Message contract; to is
   empty when a recipient is a list or an object, which no dictionary of the
   bus can look up (the tools are not offered in strict mode). *)
ToolCall ==
  [name : {"send_message"}, to : SUBSET Agents] \cup
  [name : {"submit_result"}, empty : BOOLEAN] \cup
  [name : {"vote_result"}, decision : Decisions, reasoned : BOOLEAN,
   target : 0..MaxProposals]

Proposers == {a \in Agents : "submit_result" \in Capabilities[a]}

(* What AgentSpec, TerminationPolicy and TeamConfig check of a configuration. *)
ValidTeam ==
  /\ Capabilities \in [Agents -> SUBSET Commands]
  /\ MaxTurns \in [Agents -> Nat \ {0}]
  /\ Approval \in ApprovalConfig
  /\ Proposers # {}
  /\ Approval.mode # "first" =>
       \A p \in Proposers : \E v \in Agents \ {p} : "vote_result" \in Capabilities[v]

ValidPolicy ==
  /\ {TokenBudget, ProcessedLimit, SynthesisAt, ProposalBy, CallReserve,
      MaxProposals, MaxMessages} \subseteq Nat \ {0}
  /\ SynthesisAt < ProposalBy
  /\ ProposalBy < TokenBudget
  /\ CallReserve < TokenBudget
  /\ TokenBudget <= ProcessedLimit

ASSUME TeamAssumption == ValidTeam

ASSUME PolicyAssumption == ValidPolicy

(* Bound: a model answers with at most two tool calls, and with one if its
   recipients cannot be looked up. *)
ASSUME ModelAssumption ==
  /\ \A r \in Replies :
       /\ r \in Seq(ToolCall) /\ Len(r) <= 2
       /\ Len(r) = 2 =>
            \A i \in DOMAIN r : r[i].name = "send_message" => r[i].to # {}
  /\ MayBeSilent \in BOOLEAN
  /\ Usages \subseteq [work : Nat, processed : Nat]

VARIABLES
  session,   \* the SessionManager, its engine, and the completion tasks
  pc,        \* where each AgentLoop is suspended
  calls      \* _calls_made of each AgentLoop

vars == <<session, pc, calls>>

Statuses    == {"running", "voting", "completed", "failed", "cancelled"}
FailReasons == {"none", "budget", "idle", "agent_error", "no_quorum", "interrupted"}
Phases      == {"discussion", "synthesis", "proposal", "voting", "revision"}

(* The state of the SessionManager:
     draft, result    the version kept as draft_result / result, 0 for None
     work, processed  the usage settled so far
     reserved         the keys of _call_reservations
     callPhase, callProposal
                      _call_phases ("none") and _call_proposals (0 for none)
     voteTries        _voting_attempts of the last proposal opened
     decisionTries    _decision_attempts of the current phase and count.  The
                      keys of the two dictionaries are never used again
                      after a proposal is resolved or a phase is left.
     reviser          _revision_proposer, as a set of at most one agent
     deadline         _vote_deadline is not None
     mail             the agents whose inbox or notices are not empty
     llm              the completion task of each agent                   *)
SessionState ==
  [status : Statuses, failReason : FailReasons, draft : Nat, result : Nat,
   phase : Phases, work : Nat, processed : Nat,
   reserved : SUBSET Agents,
   callPhase : [Agents -> Phases \cup {"none"}], callProposal : [Agents -> Nat],
   voteTries : [Agents -> Nat], decisionTries : [Agents -> Nat],
   unresponsive : SUBSET Agents, exhausted : SUBSET Agents,
   proposalCount : Nat, chats : Nat, reviser : SUBSET Agents,
   agentState : [Agents -> {"idle", "thinking", "dead"}],
   deadline : BOOLEAN, engine : Engine, mail : SUBSET Agents,
   llm : [Agents -> {"none", "running", "answered", "failed", "cancelled"}]]

NewSession ==
  [status |-> "running", failReason |-> "none", draft |-> 0, result |-> 0,
   phase |-> "discussion", work |-> 0, processed |-> 0, reserved |-> {},
   callPhase |-> [a \in Agents |-> "none"],
   callProposal |-> [a \in Agents |-> 0],
   voteTries |-> [a \in Agents |-> 0],
   decisionTries |-> [a \in Agents |-> 0],
   unresponsive |-> {}, exhausted |-> {}, proposalCount |-> 0, chats |-> 0,
   reviser |-> {}, agentState |-> [a \in Agents |-> "idle"],
   deadline |-> FALSE, engine |-> NewEngine, mail |-> {},
   llm |-> [a \in Agents |-> "none"]]

Terminal(s) == s.status \in {"completed", "failed", "cancelled"}

-----------------------------------------------------------------------------
(* Termination, notices and budget phases *)

(* Mutant of Finalize: no test whether the session has ended already. *)
MutFinalize(s, status, reason, result, draft) ==
  [s EXCEPT !.status = status, !.failReason = reason, !.result = result,
            !.draft = draft]

(* _finalize: the first reason wins.  A failing session keeps the proposal
   under vote as its draft unless the caller names one. *)
Finalize(s, status, reason, result, draft) ==
  IF Terminal(s) THEN s
  ELSE [s EXCEPT
         !.status = status, !.failReason = reason, !.result = result,
         !.draft = IF draft = 0 /\ status = "failed" /\ s.engine.open
                   THEN s.engine.version ELSE draft]

Fail(s, reason, draft) == Finalize(s, "failed", reason, 0, draft)

(* Deliveries and notices skip the agents deactivated on the bus, which are
   the exhausted ones. *)
Deliver(s, agents) == [s EXCEPT !.mail = @ \cup (agents \ s.exhausted)]

Decisive(phase) == phase \in {"proposal", "revision"}

(* Mutant of SetPhase: the notice is not posted. *)
MutSetPhase(s, phase) ==
  IF phase = s.phase THEN s
  ELSE [s EXCEPT !.phase = phase, !.unresponsive = {},
                 !.decisionTries = [a \in Agents |-> 0]]

SetPhase(s, phase) ==
  IF phase = s.phase THEN s
  ELSE LET entered ==
             IF Decisive(phase)
             THEN [s EXCEPT !.phase = phase, !.unresponsive = {},
                            !.decisionTries = [a \in Agents |-> 0]]
             ELSE [s EXCEPT !.phase = phase]
           recipients ==
             (IF phase = "revision" /\ s.reviser # {} THEN s.reviser ELSE Proposers)
               \ s.exhausted
       IN  IF phase = "voting" THEN entered
           ELSE IF recipients = {} THEN Fail(entered, "budget", 0)
           ELSE Deliver(entered, recipients)

SyncPhase(s) ==
  IF s.status = "voting" THEN SetPhase(s, "voting")
  ELSE IF Decisive(s.phase) THEN s
  ELSE IF s.work >= ProposalBy THEN SetPhase(s, "proposal")
  ELSE IF s.work >= SynthesisAt THEN SetPhase(s, "synthesis")
  ELSE s

PhaseAllows(s, a) ==
  /\ a \notin s.exhausted
  /\ s.phase = "revision" => a \in s.reviser \ s.unresponsive
  /\ s.phase = "proposal" => a \in Proposers \ s.unresponsive
  /\ s.phase = "voting"   => s.engine.open /\ a \in Pending(s.engine.tally)

-----------------------------------------------------------------------------
(* Verdicts *)

(* Mutant of CancelVotingCalls: the calls go on. *)
MutCancelVotingCalls(s) == s

(* _cancel_voting_calls: only a completion that is still running can be
   cancelled; an answer that has arrived is still handled. *)
CancelVotingCalls(s) ==
  [s EXCEPT !.llm = [a \in Agents |->
     IF s.callProposal[a] = s.engine.version /\ @[a] = "running"
     THEN "cancelled" ELSE @[a]]]

Complete(s) ==
  Finalize([s EXCEPT !.engine = Resolve(@)], "completed", "none", s.engine.version, 0)

(* Mutant of SendBack: the version is not compared with the limit. *)
MutSendBackAgain(s) ==
  SetPhase([s EXCEPT !.engine = Resolve(@), !.reviser = {s.engine.proposer},
                     !.deadline = FALSE, !.status = "running"], "revision")

(* Mutant of SendBack: the deadline of the vote stays armed. *)
MutSendBack(s) ==
  LET back == [s EXCEPT !.engine = Resolve(@), !.reviser = {s.engine.proposer}]
  IN  IF s.engine.version >= MaxProposals
      THEN Fail(back, "no_quorum", s.engine.version)
      ELSE SetPhase([back EXCEPT !.status = "running"], "revision")

SendBack(s) ==
  LET back == [s EXCEPT !.engine = Resolve(@), !.reviser = {s.engine.proposer},
                        !.deadline = FALSE]
  IN  IF s.engine.version >= MaxProposals
      THEN Fail(back, "no_quorum", s.engine.version)
      ELSE SetPhase([back EXCEPT !.status = "running"], "revision")

GiveUp(s) ==
  Fail([s EXCEPT !.engine = Resolve(@)], "no_quorum", s.engine.version)

ApplyOutcome(s) ==
  IF Terminal(s) \/ s.engine.outcome = "pending" THEN s
  ELSE LET cut == CancelVotingCalls(s)
       IN  CASE s.engine.outcome = "approved" -> Complete(cut)
             [] s.engine.outcome = "rejected" -> SendBack(cut)
             [] OTHER -> GiveUp(cut)

AbstainVoter(s, a) ==
  IF s.engine.open /\ a \in Pending(s.engine.tally)
  THEN ApplyOutcome([s EXCEPT !.engine = RegisterAbstention(@, a, Approval)])
  ELSE s

MarkUnresponsive(s, a) ==
  LET marked    == [s EXCEPT !.unresponsive = @ \cup {a}]
      remaining == (IF s.phase = "revision" THEN s.reviser ELSE Proposers)
                     \ (s.exhausted \cup marked.unresponsive)
  IN  IF remaining = {} THEN Fail(marked, "budget", 0) ELSE marked

-----------------------------------------------------------------------------
(* Agent states and turn limits *)

OnState(s, a, state) ==
  IF Terminal(s) \/ s.agentState[a] = "dead" THEN s
  ELSE [s EXCEPT !.agentState[a] = state]

OnFatal(s, a) ==
  LET dead  == OnState(s, a, "dead")
      alive == {b \in Agents : dead.agentState[b] # "dead"}
  IN  IF Cardinality(alive) <= 1 THEN Fail(dead, "agent_error", 0) ELSE dead

OnExhausted(s, a) ==
  LET out == [s EXCEPT !.exhausted = @ \cup {a}, !.mail = @ \ {a}]
  IN  IF a \in s.exhausted THEN s
      ELSE IF Terminal(s) THEN out
      ELSE IF s.status = "voting" THEN AbstainVoter(out, a)
      ELSE IF Decisive(s.phase) /\ Proposers \subseteq out.exhausted
           THEN Fail(out, "budget", 0)
      ELSE out

(* _preserve_after_turn_limit: whether the loop of a goes on waiting, and
   the phase change that comes with a proposer running out of turns. *)
Preserved(s, a) ==
  ~Terminal(s) /\ Capabilities[a] \cap {"submit_result", "vote_result"} # {}

CloseDiscussion(s, a) ==
  IF a \in Proposers /\ s.phase \in {"discussion", "synthesis"}
  THEN SetPhase(s, "proposal") ELSE s

AllowExtraCall(s, a) ==
  s.phase \in {"proposal", "voting", "revision"} /\ PhaseAllows(s, a)

-----------------------------------------------------------------------------
(* The admission gate, _before_agent_call *)

InFlight(s) == CallReserve * Cardinality(s.reserved)

PhaseDeadline(phase) == IF phase = "discussion" THEN SynthesisAt ELSE ProposalBy

NextPhase(phase) == IF phase = "discussion" THEN "synthesis" ELSE "proposal"

AtBoundary(s) ==
  /\ s.phase \in {"discussion", "synthesis"}
  /\ s.work + InFlight(s) + CallReserve > PhaseDeadline(s.phase)

(* One turn of the loop up to the boundary of the phase. *)
AdvancePhase(s) ==
  IF Terminal(s) THEN s
  ELSE LET synced == SyncPhase(s)
       IN  IF AtBoundary(synced) /\ s.reserved = {}
           THEN SetPhase(synced, NextPhase(synced.phase)) ELSE synced

(* There are two boundaries to cross. *)
Advanced(s) == AdvancePhase(AdvancePhase(s))

Fits(s) ==
  /\ s.work + InFlight(s) + CallReserve <= TokenBudget
  /\ s.processed + InFlight(s) + CallReserve <= ProcessedLimit

(* The outcomes of the gate, for a state whose phase has been advanced. *)
MustWait(s, a) ==
  /\ ~Terminal(s)
  /\ s.reserved # {}
  /\ AtBoundary(s) \/ (PhaseAllows(s, a) /\ ~Fits(s))

TriesLeft(s, a) ==
  /\ s.phase = "voting" => s.voteTries[a] < 2
  /\ Decisive(s.phase)  => s.decisionTries[a] < 2

Admitted(s, a) ==
  /\ ~Terminal(s)
  /\ ~AtBoundary(s)
  /\ PhaseAllows(s, a)
  /\ Fits(s)
  /\ TriesLeft(s, a)

Refused(s, a) == ~MustWait(s, a) /\ ~Admitted(s, a)

(* What a refusal does besides returning False. *)
Refuse(s, a) ==
  IF Terminal(s) \/ ~PhaseAllows(s, a) THEN s
  ELSE IF ~Fits(s) THEN Fail(s, "budget", 0)
  ELSE IF s.phase = "voting" THEN AbstainVoter(s, a)
  ELSE MarkUnresponsive(s, a)

(* Mutant of CountAttempt: the attempts of decision calls are not counted. *)
MutCountAttempt(s, a) ==
  [s EXCEPT !.voteTries[a] = IF s.phase = "voting" THEN @ + 1 ELSE @]

CountAttempt(s, a) ==
  [s EXCEPT !.voteTries[a] = IF s.phase = "voting" THEN @ + 1 ELSE @,
            !.decisionTries[a] = IF Decisive(s.phase) THEN @ + 1 ELSE @]

(* What an admission records before it returns True. *)
Reserve(s, a) ==
  [CountAttempt(s, a) EXCEPT
    !.reserved = @ \cup {a},
    !.callPhase[a] = s.phase,
    !.callProposal[a] = IF s.phase = "voting" THEN s.engine.version ELSE 0]

(* An admission, and what _think_and_act does up to the await of the answer:
   it drains the inbox, reports THINKING and starts the completion task. *)
BeginCall(s, a) ==
  OnState([Reserve(s, a) EXCEPT !.mail = @ \ {a}, !.llm[a] = "running"], a, "thinking")

-----------------------------------------------------------------------------
(* Settling a call, and asking for another answer *)

(* Mutant of Released: the reservation leaks. *)
MutReleased(s, a) == [s EXCEPT !.llm[a] = "none"]

Released(s, a) == [s EXCEPT !.reserved = @ \ {a}, !.llm[a] = "none"]

(* _after_agent_call with _on_agent_usage. *)
Settle(s, a, usage) ==
  LET released == Released(s, a)
      used     == [released EXCEPT !.work = @ + usage.work,
                                   !.processed = @ + usage.processed]
      synced   == SyncPhase(used)
  IN  IF Terminal(s) THEN released
      ELSE IF synced.work > TokenBudget \/ synced.processed > ProcessedLimit
           THEN Fail(synced, "budget", 0) ELSE synced

(* _retry_instruction_for_agent: whether there is one, and what else it does. *)
InVote(s, a) == s.phase = "voting" /\ s.engine.open /\ a \in Pending(s.engine.tally)

Retries(s, a) ==
  \/ InVote(s, a) /\ s.voteTries[a] < 2
  \/ Decisive(s.phase) /\ s.decisionTries[a] < 2

AfterRetry(s, a) ==
  IF Retries(s, a) THEN s
  ELSE IF InVote(s, a) THEN AbstainVoter(s, a)
  ELSE IF Decisive(s.phase) THEN MarkUnresponsive(s, a)
  ELSE s

-----------------------------------------------------------------------------
(* Commands.  A turn is [s, erred]: the session and whether a tool failed. *)

AllowedCommands(status) ==
  CASE status = "running" -> {"send_message", "submit_result"}
    [] status = "voting"  -> {"vote_result"}
    [] OTHER -> {}

OfferedTools(s, a) ==
  LET phase == s.callPhase[a]
  IN  Capabilities[a] \cap
        (IF phase = "voting" THEN {"vote_result"}
         ELSE IF Decisive(phase) THEN {"submit_result"} ELSE Commands)

(* Mutant of Permitted: any proposer may revise. *)
MutPermitted(s, a, command) ==
  /\ s.status = "voting" /\ command = "vote_result" => s.callPhase[a] = "voting"
  /\ Decisive(s.phase) => command # "send_message"
  /\ command \in AllowedCommands(s.status)
  /\ command \in Capabilities[a]

(* _guard lets the command through. *)
Permitted(s, a, command) ==
  /\ s.status = "voting" /\ command = "vote_result" => s.callPhase[a] = "voting"
  /\ s.phase = "revision" /\ command = "submit_result" => a \in s.reviser
  /\ Decisive(s.phase) => command # "send_message"
  /\ command \in AllowedCommands(s.status)
  /\ command \in Capabilities[a]

Done(s)      == [s |-> s, erred |-> FALSE]
ToolError(s, a) == [s |-> OnState(s, a, "thinking"), erred |-> TRUE]

SendMessage(s, a, to) ==
  IF a \in to THEN ToolError(s, a)
  ELSE LET sent == Deliver([s EXCEPT !.chats = IF @ < MaxMessages THEN @ + 1 ELSE @], to)
       IN  IF sent.chats >= MaxMessages /\ s.phase \in {"discussion", "synthesis"}
           THEN Done(SetPhase(sent, "proposal")) ELSE Done(sent)

(* The agents that can still vote. *)
Electorate(s) ==
  {b \in Agents : /\ s.agentState[b] # "dead"
                  /\ b \notin s.exhausted
                  /\ "vote_result" \in Capabilities[b]}

SubmitResult(s, a, empty) ==
  IF s.proposalCount >= MaxProposals \/ s.engine.open THEN ToolError(s, a)
  ELSE IF empty THEN ToolError([s EXCEPT !.engine = NextVersion(@)], a)
  ELSE LET opened ==
             [s EXCEPT !.engine = OpenProposal(@, a, Electorate(s), Approval),
                       !.proposalCount = @ + 1,
                       !.voteTries = [b \in Agents |-> 0],
                       !.status = "voting"]
           voting == SetPhase(Deliver(opened, Agents \ {a}), "voting")
       IN  Done(ApplyOutcome([voting EXCEPT !.deadline = TRUE]))

(* Mutant of VoteResult: an omitted proposal_id means the active proposal. *)
MutVoteResult(s, a, call) ==
  IF ~s.engine.open \/ (call.target # 0 /\ call.target # s.engine.version)
  THEN Done(s)
  ELSE IF ~VoteAccepted(s.engine, a, call.decision, call.reasoned)
  THEN ToolError(s, a)
  ELSE LET voted == [s EXCEPT !.engine = ApplyVote(@, a, call.decision, Approval)]
       IN  Done(ApplyOutcome(Deliver(voted, Agents \ {a})))

VoteResult(s, a, call) ==
  LET addressed == IF call.target # 0 THEN call.target ELSE s.callProposal[a]
  IN  IF ~s.engine.open \/ (addressed # 0 /\ addressed # s.engine.version)
      THEN Done(s)
      ELSE IF ~VoteAccepted(s.engine, a, call.decision, call.reasoned)
      THEN ToolError(s, a)
      ELSE LET voted == [s EXCEPT !.engine = ApplyVote(@, a, call.decision, Approval)]
           IN  Done(ApplyOutcome(Deliver(voted, Agents \ {a})))

Execute(s, a, call) ==
  IF call.name \notin OfferedTools(s, a) \/ ~Permitted(s, a, call.name)
  THEN ToolError(s, a)
  ELSE CASE call.name = "send_message"  -> SendMessage(s, a, call.to)
         [] call.name = "submit_result" -> SubmitResult(s, a, call.empty)
         [] call.name = "vote_result"   -> VoteResult(s, a, call)

(* The tool calls of one answer, in order; of two messages only the first
   is sent. *)
RunTools(s, a, reply) ==
  IF reply = <<>> THEN Done(s)
  ELSE LET first == Execute(s, a, reply[1])
           second == IF reply[1].name = "send_message" /\ reply[2].name = "send_message"
                     THEN ToolError(first.s, a)
                     ELSE Execute(first.s, a, reply[2])
       IN  IF Len(reply) = 1 THEN first
           ELSE [s |-> second.s, erred |-> first.erred \/ second.erred]

(* Whether the answer makes _execute_tool raise something else than an error
   for the model: the call passes the guard and the bus looks up what cannot
   be looked up. *)
Raises(s, a, reply) ==
  /\ Len(reply) = 1
  /\ reply[1].name = "send_message"
  /\ reply[1].to = {}
  /\ "send_message" \in OfferedTools(s, a)
  /\ Permitted(s, a, "send_message")

-----------------------------------------------------------------------------
(* The agent loop.  The last conjuncts of a step of agent a: where it is
   suspended next, after n completed calls, if it starts from s.  settled
   says that the step returned a reservation and so notified the condition:
   every agent waiting in the gate is then about to look again. *)

(* Mutant of Moves: the condition is not notified. *)
MutMoves(a, place, settled) == pc' = [pc EXCEPT ![a] = place]

Moves(a, place, settled) ==
  pc' = [b \in Agents |->
           IF b = a THEN place
           ELSE IF settled /\ pc[b] = "gate" THEN "woken" ELSE pc[b]]

(* _think_and_act returns to run(). *)
LeaveTurn(s, a, n, settled) ==
  IF n < MaxTurns[a] \/ Preserved(s, a)
  THEN /\ session' = OnState(IF n < MaxTurns[a] THEN s ELSE CloseDiscussion(s, a),
                             a, "idle")
       /\ Moves(a, "idle", settled)
  ELSE /\ session' = OnExhausted(OnState(s, a, "idle"), a)
       /\ Moves(a, "gone", settled)

(* What before_call makes of the agent: it waits for the condition, it starts
   its call, or it is refused. *)
EnterGate(s, a, n, settled) ==
  LET g == Advanced(s)
  IN  \/ /\ MustWait(g, a)
         /\ session' = g
         /\ Moves(a, "gate", settled)
      \/ /\ Admitted(g, a)
         /\ session' = BeginCall(g, a)
         /\ Moves(a, "calling", settled)
      \/ /\ Refused(g, a)
         /\ LeaveTurn(Refuse(g, a), a, n, settled)

(* The head of the loop of _think_and_act. *)
ThinkAgain(s, a, n, settled) ==
  IF n >= MaxTurns[a] /\ ~AllowExtraCall(s, a)
  THEN LeaveTurn(s, a, n, settled)
  ELSE EnterGate(s, a, n, settled)

Start(a) ==
  /\ pc[a] = "start"
  /\ ThinkAgain(session, a, calls[a], FALSE)
  /\ UNCHANGED calls

(* wait_for_messages returns and the inbox is drained. *)
Wake(a) ==
  /\ pc[a] = "idle"
  /\ a \in session.mail
  /\ ThinkAgain([session EXCEPT !.mail = @ \ {a}], a, calls[a], FALSE)
  /\ UNCHANGED calls

(* An agent that was notified looks at the gate again. *)
Recheck(a) ==
  /\ pc[a] = "woken"
  /\ EnterGate(session, a, calls[a], FALSE)
  /\ UNCHANGED calls

(* The completion task ends by itself, with an answer or an LLMError. *)
CompletionEnds(a, how) ==
  /\ session.llm[a] = "running"
  /\ session' = [session EXCEPT !.llm[a] = how]
  /\ UNCHANGED <<pc, calls>>

(* An id quoted in an answer was shown to the model before the call began. *)
Quotable(a, reply) ==
  \A i \in DOMAIN reply :
    reply[i].name = "vote_result" => reply[i].target <= session.callProposal[a]

Answer(a, reply, usage) ==
  /\ session.llm[a] = "answered"
  /\ Quotable(a, reply)
  /\ LET settled == Settle(session, a, usage)
         turn == RunTools(settled, a, reply)
         next == AfterRetry(turn.s, a)
         n    == calls[a] + 1
     IN  /\ ~Raises(settled, a, reply)
         /\ calls' = [calls EXCEPT ![a] = n]
         /\ IF turn.erred \/ Retries(turn.s, a)
            THEN ThinkAgain(next, a, n, TRUE)
            ELSE LeaveTurn(next, a, n, TRUE)

(* The answer makes the loop raise what nothing in it catches: its task ends, and
   nobody reads the exception.  The state of the agent stays "thinking". *)
LoopDies(a, usage) ==
  /\ session.llm[a] = "answered"
  /\ session' = Settle(session, a, usage)
  /\ calls' = [calls EXCEPT ![a] = @ + 1]
  /\ Moves(a, "gone", TRUE)

(* The TypeError of the look-up: _execute_tool catches ToolError and
   ContractError only. *)
ToolRaises(a, reply, usage) ==
  /\ Raises(Settle(session, a, usage), a, reply)
  /\ LoopDies(a, usage)

(* The ContractError of the turn an empty answer would make: a refusal (its words
   are no text), or one cut off before its first word or in its first tool call. *)
EmptyAnswer(a, usage) ==
  /\ MayBeSilent
  /\ LoopDies(a, usage)

CallFails(a) ==
  /\ session.llm[a] = "failed"
  /\ session' = Released(OnFatal(session, a), a)
  /\ Moves(a, "gone", TRUE)
  /\ UNCHANGED calls

CallCancelled(a) ==
  /\ session.llm[a] = "cancelled"
  /\ LeaveTurn(Released(session, a), a, calls[a], TRUE)
  /\ UNCHANGED calls

-----------------------------------------------------------------------------
(* The watcher, and the calls from outside *)

VotingTimeout ==
  /\ session.status = "voting"
  /\ session.deadline
  /\ session' = LET expired == [session EXCEPT !.deadline = FALSE]
                IN  IF session.engine.open
                    THEN ApplyOutcome([expired EXCEPT !.engine = ExpirePending(@, Approval)])
                    ELSE expired
  /\ UNCHANGED <<pc, calls>>

AllIdle(s) ==
  \A a \in Agents :
    /\ s.agentState[a] # "thinking"
    /\ s.agentState[a] # "dead" => a \notin s.mail

(* Every agent has run up to its first await before the watcher's first tick. *)
IdleTimeout ==
  /\ session.status = "running"
  /\ \A a \in Agents : pc[a] # "start"
  /\ AllIdle(session)
  /\ session' = Fail(session, "idle", 0)
  /\ UNCHANGED <<pc, calls>>

Cancel ==
  /\ ~Terminal(session)
  /\ session' = Finalize(session, "cancelled", "none", 0, 0)
  /\ UNCHANGED <<pc, calls>>

Interrupt ==
  /\ ~Terminal(session)
  /\ session' = Fail(session, "interrupted", 0)
  /\ UNCHANGED <<pc, calls>>

(* run() fails before its first await, where it builds a client or a loop: no
   task has begun, and all of them are cancelled. *)
SetupFails ==
  /\ \A a \in Agents : pc[a] = "start"
  /\ session' = Fail(session, "agent_error", 0)
  /\ pc' = [a \in Agents |-> "gone"]
  /\ UNCHANGED calls

(* run() sees the session done and cancels every task; a call in flight
   returns its reservation on the way out. *)
Shutdown ==
  /\ Terminal(session)
  /\ \E a \in Agents : pc[a] # "gone"
  /\ session' = [session EXCEPT
       !.reserved = @ \ {a \in Agents : pc[a] = "calling"},
       !.llm = [a \in Agents |-> "none"]]
  /\ pc' = [a \in Agents |-> "gone"]
  /\ UNCHANGED calls

(* run() has returned: the session has stopped for good. *)
Stopped ==
  /\ Terminal(session)
  /\ \A a \in Agents : pc[a] = "gone"
  /\ UNCHANGED vars

-----------------------------------------------------------------------------
Init ==
  /\ session = NewSession
  /\ pc = [a \in Agents |-> "start"]
  /\ calls = [a \in Agents |-> 0]

Next ==
  \/ \E a \in Agents :
       \/ Start(a)
       \/ Wake(a)
       \/ Recheck(a)
       \/ CompletionEnds(a, "answered")
       \/ CompletionEnds(a, "failed")
       \/ \E reply \in Replies, usage \in Usages :
            Answer(a, reply, usage) \/ ToolRaises(a, reply, usage)
       \/ \E usage \in Usages : EmptyAnswer(a, usage)
       \/ CallFails(a)
       \/ CallCancelled(a)
  \/ SetupFails
  \/ VotingTimeout
  \/ IdleTimeout
  \/ Cancel
  \/ Interrupt
  \/ Shutdown
  \/ Stopped

Spec == Init /\ [][Next]_vars

(* Every task of the loop that is ready is eventually run, an LLM call ends
   (the client has a timeout and a bounded number of retries), and the
   watcher ticks for as long as the session is not terminal.  Nobody has to
   cancel or interrupt a session.  Ready(a) says when agent a has a step to
   take, so that the second conjunct of Fairness is weak fairness of
   AgentStep(a) without an ENABLED for TLC to evaluate. *)
AgentStep(a) ==
  \/ Start(a)
  \/ Wake(a)
  \/ Recheck(a)
  \/ \E reply \in Replies, usage \in Usages :
       Answer(a, reply, usage) \/ ToolRaises(a, reply, usage)
  \/ \E usage \in Usages : EmptyAnswer(a, usage)
  \/ CallFails(a)
  \/ CallCancelled(a)

CompletionStep(a) == CompletionEnds(a, "answered") \/ CompletionEnds(a, "failed")

Ready(a) ==
  \/ pc[a] \in {"start", "woken"}
  \/ pc[a] = "idle" /\ a \in session.mail
  \/ session.llm[a] \in {"answered", "failed", "cancelled"}

Fairness ==
  /\ \A a \in Agents : WF_vars(CompletionStep(a))
  /\ \A a \in Agents : []<>~Ready(a) \/ []<><<AgentStep(a)>>_vars
  /\ WF_vars(VotingTimeout)
  /\ WF_vars(IdleTimeout)
  /\ WF_vars(Shutdown)

FairSpec == Spec /\ Fairness

-----------------------------------------------------------------------------
TypeOK ==
  /\ session \in SessionState
  /\ pc \in [Agents -> {"start", "idle", "gate", "woken", "calling", "gone"}]
  /\ calls \in [Agents -> Nat]

(* A reservation is held exactly while its call is in flight: answered,
   failed, cancelled or torn down, a call returns what it reserved, and it
   does not return it early (_release_agent_call: "without a leak"). *)
ReservationsInFlight ==
  /\ session.reserved = {a \in Agents : pc[a] = "calling"}
  /\ \A a \in Agents : session.llm[a] # "none" <=> pc[a] = "calling"

(* An agent that waits in the gate without having been notified waits for
   somebody else's call: there is always a reservation whose return will
   notify it, so that no agent waits for ever. *)
WaitersHaveACall ==
  (\E a \in Agents : pc[a] = "gate") => session.reserved # {}

(* The status, the engine, the budget phase and the timer agree between any
   two steps: a session is in voting exactly while an undecided proposal
   with somebody left to answer is open, its deadline armed. *)
VotingIsArmed ==
  ~Terminal(session) =>
    /\ session.status = "voting" <=> session.engine.open
    /\ session.status = "voting" <=> session.phase = "voting"
    /\ session.status = "voting" <=> session.deadline
    /\ session.status = "voting" =>
         /\ session.engine.outcome = "pending"
         /\ Pending(session.engine.tally) # {}

(* In the phases that end a session nobody who is expected to act sleeps
   through it: an agent the phase allows to call is not parked on an empty
   inbox, or the session would only end by a timeout. *)
NobodyStranded ==
  ~Terminal(session) /\ session.phase \in {"proposal", "voting", "revision"} =>
    \A a \in Agents :
      PhaseAllows(session, a) /\ session.agentState[a] # "dead" /\ pc[a] = "idle"
        => a \in session.mail

(* Turn limits and the two attempts of each decision bound what an agent may
   call in a whole session, calls in flight included. *)
CallsBounded ==
  \A a \in Agents :
    calls[a] + (IF pc[a] = "calling" THEN 1 ELSE 0)
      <= MaxTurns[a] + 2 * (MaxProposals + 1)

-----------------------------------------------------------------------------
(* The first reason to end a session is the one that is recorded (D-021), and
   no call starts after it. *)
FirstReasonWins ==
  [][Terminal(session) =>
       /\ session'.status = session.status
       /\ session'.failReason = session.failReason
       /\ session'.draft = session.draft
       /\ session'.result = session.result
       /\ session'.reserved \subseteq session.reserved]_vars

Voted(engine) == engine.tally.approvals \cup engine.tally.rejections

(* A vote that counts was cast by a call that began in voting with the very
   proposal in front of it: neither an answer to a discussion prompt nor one
   about an earlier version is ever counted for the active proposal. *)
VotesAreInformed ==
  [][\A a \in Agents :
       /\ session'.engine.version = session.engine.version
       /\ a \in Voted(session'.engine) \ Voted(session.engine)
       => /\ pc[a] = "calling"
          /\ session.callPhase[a] = "voting"
          /\ session.callProposal[a] = session.engine.version]_vars

(* A rejected proposal is revised by nobody but its proposer, late answers of
   other proposers notwithstanding. *)
RevisedByItsProposer ==
  [][session'.proposalCount > session.proposalCount /\ session.proposalCount > 0
       => session'.engine.proposer = session.engine.proposer]_vars

(* A call in voting is about the proposal under vote: when a proposal is
   resolved the calls that still review it are cut, so that no reservation
   is spent on a version nobody can vote on any more. *)
ReviewsAreCurrent ==
  ~Terminal(session) =>
    \A a \in Agents :
      session.llm[a] = "running" /\ session.callPhase[a] = "voting" =>
        /\ session.engine.open
        /\ session.callProposal[a] = session.engine.version

-----------------------------------------------------------------------------
(* Every session ends, and run() returns with every agent stopped, whatever
   the models answer and even if nobody cancels, as long as no loop dies of an
   answer (LoopDies): the session may then wait for ever for an agent that is
   gone. *)
EventuallyStops == <>(Terminal(session) /\ \A a \in Agents : pc[a] = "gone")

(* docs/Plan.md:70: a running session is idle, and so ended by the idle timeout,
   once every agent has an empty inbox and no call in flight. *)
QuietIsIdle ==
  session.status = "running" /\ (\A a \in Agents : pc[a] \in {"idle", "gone"}
                                                   /\ a \notin session.mail)
    => AllIdle(session)

(* Handlers nested in one another (a vote that ends the deliberation that
   fails the session that has no proposer left, ...) together make only the
   transitions of the lifecycle, one at a time, within MaxProposals rounds. *)
Lifecycle == INSTANCE SessionLifecycle
  WITH MaxRounds <- MaxProposals,
       status <- session.status,
       rounds <- session.proposalCount

ImplementsLifecycle == Lifecycle!Spec

=============================================================================
