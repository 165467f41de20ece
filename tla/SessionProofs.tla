---------------------------- MODULE SessionProofs ----------------------------
(***************************************************************************)
(* The invariants and action properties of Session.tla, proved for every   *)
(* team and every policy, and that each of its steps is one of the         *)
(* lifecycle.  The handlers of SessionManager are nested in one another:   *)
(* what they do is said by relations between the session before and after, *)
(* which are transitive, and proved once for each operator in the order in *)
(* which the operators are built on each other.                            *)
(*                                                                         *)
(* First part: Quiet.  No handler touches a reservation or a completion    *)
(* task, except that calls may be cut, and none changes the end of a       *)
(* session that has ended.  With it the reservations, the waiters of the   *)
(* gate and the end of the session are accounted for (IInv).               *)
(*                                                                         *)
(* Second part: Step.  A handler leaves a session whose parts agree        *)
(* (Coherent), moves along the lifecycle, counts informed votes only, puts *)
(* nobody to sleep who is waited for, and does not give back an attempt.   *)
(* With it everything else a run checks follows (CInv).                    *)
(***************************************************************************)
EXTENDS Session, ConsensusProofs

SameEnd(s, u) ==
  /\ u.status = s.status
  /\ u.failReason = s.failReason
  /\ u.draft = s.draft
  /\ u.result = s.result

Quiet(s, u) ==
  /\ u \in SessionState
  /\ u.reserved = s.reserved
  /\ \A a \in Agents :
       u.llm[a] = s.llm[a] \/ (s.llm[a] = "running" /\ u.llm[a] = "cancelled")
  /\ Terminal(s) => SameEnd(s, u)

LEMMA QuietRefl ==
  ASSUME NEW s \in SessionState
  PROVE  Quiet(s, s)
  BY DEF Quiet, SameEnd

LEMMA QuietTrans ==
  ASSUME NEW s, NEW u, NEW v, Quiet(s, u), Quiet(u, v)
  PROVE  Quiet(s, v)
  BY DEF Quiet, SameEnd, Terminal

LEMMA QuietState ==
  ASSUME NEW s, NEW u, Quiet(s, u)
  PROVE  u \in SessionState /\ (Terminal(s) => Terminal(u))
  BY DEF Quiet, SameEnd, Terminal

(* What the fields of a session are. *)
LEMMA SessionFields ==
  ASSUME NEW s \in SessionState
  PROVE  /\ s.engine \in Engine /\ s.engine.version \in Nat
         /\ s.engine.proposer \in Agents /\ s.engine.tally \in Tally
         /\ s.phase \in Phases /\ s.reviser \in SUBSET Agents
         /\ s.work \in Nat /\ s.processed \in Nat /\ s.chats \in Nat
         /\ s.proposalCount \in Nat
  BY DEF SessionState, Engine

LEMMA ProposersType == Proposers \in SUBSET Agents
  BY DEF Proposers

-----------------------------------------------------------------------------
(* Termination, notices and budget phases *)

LEMMA FinalizeQuiet ==
  ASSUME NEW s \in SessionState, NEW st \in Statuses, NEW r \in FailReasons,
         NEW res \in Nat, NEW d \in Nat
  PROVE  Quiet(s, Finalize(s, st, r, res, d))
<1>1. CASE Terminal(s)
  BY <1>1, QuietRefl DEF Finalize
<1>2. CASE ~Terminal(s)
  <2>1. Finalize(s, st, r, res, d) \in SessionState
    BY SessionFields DEF Finalize, SessionState
  <2>. QED
    BY <1>2, <2>1 DEF Finalize, Quiet, SessionState
<1>. QED
  BY <1>1, <1>2

LEMMA FailQuiet ==
  ASSUME NEW s \in SessionState, NEW r \in FailReasons, NEW d \in Nat
  PROVE  Quiet(s, Fail(s, r, d))
  BY FinalizeQuiet DEF Fail, Statuses

LEMMA DeliverQuiet ==
  ASSUME NEW s \in SessionState, NEW S \in SUBSET Agents
  PROVE  Quiet(s, Deliver(s, S))
  BY DEF Deliver, Quiet, SameEnd, SessionState

LEMMA SetPhaseQuiet ==
  ASSUME NEW s \in SessionState, NEW p \in Phases
  PROVE  Quiet(s, SetPhase(s, p))
<1> DEFINE entered == IF Decisive(p)
                      THEN [s EXCEPT !.phase = p, !.unresponsive = {},
                                     !.decisionTries = [a \in Agents |-> 0]]
                      ELSE [s EXCEPT !.phase = p]
           recipients == (IF p = "revision" /\ s.reviser # {} THEN s.reviser ELSE Proposers)
                           \ s.exhausted
<1>1. Quiet(s, entered)
  <2>1. [a \in Agents |-> 0] \in [Agents -> Nat]
    OBVIOUS
  <2>. QED
    BY <2>1 DEF Quiet, SameEnd, SessionState
<1>2. recipients \in SUBSET Agents
  BY SessionFields, ProposersType
<1> HIDE DEF entered, recipients
<1>3. Quiet(entered, Fail(entered, "budget", 0))
  BY <1>1, FailQuiet, QuietState DEF FailReasons
<1>4. Quiet(entered, Deliver(entered, recipients))
  BY <1>1, <1>2, DeliverQuiet, QuietState
<1>5. SetPhase(s, p) \in {s, entered, Fail(entered, "budget", 0), Deliver(entered, recipients)}
  BY DEF SetPhase, entered, recipients
<1>. QED
  BY <1>1, <1>3, <1>4, <1>5, QuietRefl, QuietTrans

LEMMA SyncPhaseQuiet ==
  ASSUME NEW s \in SessionState
  PROVE  Quiet(s, SyncPhase(s))
  BY SetPhaseQuiet, QuietRefl DEF SyncPhase, Phases

-----------------------------------------------------------------------------
(* Verdicts *)

LEMMA CancelVotingCallsQuiet ==
  ASSUME NEW s \in SessionState
  PROVE  /\ Quiet(s, CancelVotingCalls(s))
         /\ CancelVotingCalls(s).status = s.status
         /\ CancelVotingCalls(s).engine = s.engine
  BY DEF CancelVotingCalls, Quiet, SameEnd, SessionState

(* A handler that leaves everything to the engine. *)
LEMMA EngineQuiet ==
  ASSUME NEW s \in SessionState, NEW e \in Engine
  PROVE  /\ Quiet(s, [s EXCEPT !.engine = e])
         /\ [s EXCEPT !.engine = e].status = s.status
  BY DEF Quiet, SameEnd, SessionState

LEMMA CompleteQuiet ==
  ASSUME NEW s \in SessionState
  PROVE  Quiet(s, Complete(s))
<1> DEFINE u == [s EXCEPT !.engine = Resolve(s.engine)]
<1>1. Quiet(s, u)
  BY EngineQuiet, ResolveType, SessionFields
<1> HIDE DEF u
<1>2. Quiet(u, Finalize(u, "completed", "none", s.engine.version, 0))
  BY <1>1, FinalizeQuiet, QuietState, SessionFields DEF Statuses, FailReasons
<1>3. Complete(s) = Finalize(u, "completed", "none", s.engine.version, 0)
  BY DEF Complete, u
<1>. QED
  BY <1>1, <1>2, <1>3, QuietTrans

LEMMA SendBackQuiet ==
  ASSUME NEW s \in SessionState, ~Terminal(s)
  PROVE  Quiet(s, SendBack(s))
<1> DEFINE back == [s EXCEPT !.engine = Resolve(s.engine), !.reviser = {s.engine.proposer},
                             !.deadline = FALSE]
           again == [back EXCEPT !.status = "running"]
<1>1. Quiet(s, back) /\ Quiet(s, again)
  <2>1. Resolve(s.engine) \in Engine /\ {s.engine.proposer} \in SUBSET Agents
    BY ResolveType, SessionFields
  <2>2. "running" \in Statuses
    BY DEF Statuses
  <2>. QED
    BY <2>1, <2>2 DEF Quiet, SessionState
<1>2. SendBack(s) = IF s.engine.version >= MaxProposals
                    THEN Fail(back, "no_quorum", s.engine.version)
                    ELSE SetPhase(again, "revision")
  BY DEF SendBack
<1> HIDE DEF back, again
<1>3. Quiet(back, Fail(back, "no_quorum", s.engine.version))
  BY <1>1, FailQuiet, QuietState, SessionFields DEF FailReasons
<1>4. Quiet(again, SetPhase(again, "revision"))
  BY <1>1, SetPhaseQuiet, QuietState DEF Phases
<1>. QED
  BY <1>1, <1>2, <1>3, <1>4, QuietTrans

LEMMA GiveUpQuiet ==
  ASSUME NEW s \in SessionState
  PROVE  Quiet(s, GiveUp(s))
<1> DEFINE u == [s EXCEPT !.engine = Resolve(s.engine)]
<1>1. Quiet(s, u)
  BY EngineQuiet, ResolveType, SessionFields
<1>2. GiveUp(s) = Fail(u, "no_quorum", s.engine.version)
  BY DEF GiveUp
<1> HIDE DEF u
<1>3. Quiet(u, Fail(u, "no_quorum", s.engine.version))
  BY <1>1, FailQuiet, QuietState, SessionFields DEF FailReasons
<1>. QED
  BY <1>1, <1>2, <1>3, QuietTrans

LEMMA ApplyOutcomeQuiet ==
  ASSUME NEW s \in SessionState
  PROVE  Quiet(s, ApplyOutcome(s))
<1>1. CASE Terminal(s) \/ s.engine.outcome = "pending"
  BY <1>1, QuietRefl DEF ApplyOutcome
<1>2. CASE ~(Terminal(s) \/ s.engine.outcome = "pending")
  <2> DEFINE cut == CancelVotingCalls(s)
  <2>1. Quiet(s, cut) /\ cut \in SessionState /\ ~Terminal(cut)
    BY <1>2, CancelVotingCallsQuiet, QuietState DEF Terminal
  <2>2. ApplyOutcome(s) \in {Complete(cut), SendBack(cut), GiveUp(cut)}
    BY <1>2 DEF ApplyOutcome
  <2> HIDE DEF cut
  <2>. QED
    BY <2>1, <2>2, CompleteQuiet, SendBackQuiet, GiveUpQuiet, QuietTrans
<1>. QED
  BY <1>1, <1>2

LEMMA AbstentionType ==
  ASSUME NEW e \in Engine, NEW a \in Agents, NEW policy
  PROVE  RegisterAbstention(e, a, policy) \in Engine
<1>1. WithAbstained(e.tally, {a}) \in Tally
  BY DEF WithAbstained, Tally, Engine
<1>. QED
  BY <1>1, RetallyType DEF RegisterAbstention

LEMMA VoteType ==
  ASSUME NEW e \in Engine, NEW a \in Agents, NEW d, NEW policy
  PROVE  ApplyVote(e, a, d, policy) \in Engine
<1>1. WithVote(e.tally, a, d) \in Tally
  BY DEF WithVote, Tally, Engine
<1>. QED
  BY <1>1, RetallyType DEF ApplyVote

LEMMA ExpiryType ==
  ASSUME NEW e \in Engine, NEW policy
  PROVE  ExpirePending(e, policy) \in Engine
<1>1. WithAbstained(e.tally, Pending(e.tally)) \in Tally
  BY DEF WithAbstained, Pending, Tally, Engine
<1>. QED
  BY <1>1, RetallyType DEF ExpirePending

LEMMA AbstainVoterQuiet ==
  ASSUME NEW s \in SessionState, NEW a \in Agents
  PROVE  Quiet(s, AbstainVoter(s, a))
<1> DEFINE e == RegisterAbstention(s.engine, a, Approval)
           u == [s EXCEPT !.engine = e]
<1>1. e \in Engine
  BY AbstentionType, SessionFields
<1>2. Quiet(s, u)
  BY <1>1, EngineQuiet
<1>3. AbstainVoter(s, a) \in {s, ApplyOutcome(u)}
  BY DEF AbstainVoter
<1> HIDE DEF u
<1>4. Quiet(u, ApplyOutcome(u))
  BY <1>2, ApplyOutcomeQuiet, QuietState
<1>. QED
  BY <1>2, <1>3, <1>4, QuietRefl, QuietTrans

LEMMA MarkUnresponsiveQuiet ==
  ASSUME NEW s \in SessionState, NEW a \in Agents
  PROVE  Quiet(s, MarkUnresponsive(s, a))
<1> DEFINE marked == [s EXCEPT !.unresponsive = s.unresponsive \cup {a}]
<1>1. Quiet(s, marked)
  BY DEF Quiet, SameEnd, SessionState
<1>2. MarkUnresponsive(s, a) \in {marked, Fail(marked, "budget", 0)}
  BY DEF MarkUnresponsive
<1> HIDE DEF marked
<1>3. Quiet(marked, Fail(marked, "budget", 0))
  BY <1>1, FailQuiet, QuietState DEF FailReasons
<1>. QED
  BY <1>1, <1>2, <1>3, QuietTrans

-----------------------------------------------------------------------------
(* Agent states, turn limits, the gate *)

LEMMA OnStateQuiet ==
  ASSUME NEW s \in SessionState, NEW a \in Agents, NEW st \in {"idle", "thinking", "dead"}
  PROVE  Quiet(s, OnState(s, a, st))
  BY DEF OnState, Quiet, SameEnd, SessionState

LEMMA OnFatalQuiet ==
  ASSUME NEW s \in SessionState, NEW a \in Agents
  PROVE  Quiet(s, OnFatal(s, a))
<1> DEFINE dead == OnState(s, a, "dead")
<1>1. Quiet(s, dead)
  BY OnStateQuiet
<1>2. OnFatal(s, a) \in {dead, Fail(dead, "agent_error", 0)}
  BY DEF OnFatal
<1> HIDE DEF dead
<1>3. Quiet(dead, Fail(dead, "agent_error", 0))
  BY <1>1, FailQuiet, QuietState DEF FailReasons
<1>. QED
  BY <1>1, <1>2, <1>3, QuietTrans

LEMMA OnExhaustedQuiet ==
  ASSUME NEW s \in SessionState, NEW a \in Agents
  PROVE  Quiet(s, OnExhausted(s, a))
<1> DEFINE out == [s EXCEPT !.exhausted = s.exhausted \cup {a}, !.mail = s.mail \ {a}]
<1>1. Quiet(s, out)
  BY ZenonT(40) DEF Quiet, SameEnd, SessionState
<1>2. OnExhausted(s, a) \in {s, out, AbstainVoter(out, a), Fail(out, "budget", 0)}
  BY DEF OnExhausted
<1> HIDE DEF out
<1>3. Quiet(out, AbstainVoter(out, a)) /\ Quiet(out, Fail(out, "budget", 0))
  BY <1>1, FailQuiet, AbstainVoterQuiet, QuietState DEF FailReasons
<1>. QED
  BY <1>1, <1>2, <1>3, QuietRefl, QuietTrans

LEMMA CloseDiscussionQuiet ==
  ASSUME NEW s \in SessionState, NEW a \in Agents
  PROVE  Quiet(s, CloseDiscussion(s, a))
  BY SetPhaseQuiet, QuietRefl DEF CloseDiscussion, Phases

LEMMA AdvancePhaseQuiet ==
  ASSUME NEW s \in SessionState
  PROVE  Quiet(s, AdvancePhase(s))
<1> DEFINE synced == SyncPhase(s)
           next   == NextPhase(synced.phase)
<1>1. Quiet(s, synced)
  BY SyncPhaseQuiet
<1>2. next \in Phases
  BY DEF NextPhase, Phases
<1>3. AdvancePhase(s) \in {s, synced, SetPhase(synced, next)}
  BY DEF AdvancePhase
<1> HIDE DEF synced, next
<1>4. Quiet(synced, SetPhase(synced, next))
  BY <1>1, <1>2, SetPhaseQuiet, QuietState
<1>. QED
  BY <1>1, <1>3, <1>4, QuietRefl, QuietTrans

LEMMA AdvancedQuiet ==
  ASSUME NEW s \in SessionState
  PROVE  Quiet(s, Advanced(s))
  BY AdvancePhaseQuiet, QuietState, QuietTrans DEF Advanced

LEMMA RefuseQuiet ==
  ASSUME NEW s \in SessionState, NEW a \in Agents
  PROVE  Quiet(s, Refuse(s, a))
  BY QuietRefl, FailQuiet, AbstainVoterQuiet, MarkUnresponsiveQuiet DEF Refuse, FailReasons

LEMMA CountAttemptEffect ==
  ASSUME NEW s \in SessionState, NEW a \in Agents
  PROVE  /\ CountAttempt(s, a) \in SessionState
         /\ CountAttempt(s, a).reserved = s.reserved
         /\ CountAttempt(s, a).llm = s.llm
<1> DEFINE vote == IF s.phase = "voting" THEN s.voteTries[a] + 1 ELSE s.voteTries[a]
           dec  == IF Decisive(s.phase) THEN s.decisionTries[a] + 1 ELSE s.decisionTries[a]
<1>1. vote \in Nat /\ dec \in Nat
  <2>1. s.voteTries[a] \in Nat /\ s.decisionTries[a] \in Nat
    BY DEF SessionState
  <2>. QED
    BY <2>1
<1> DEFINE votes == [s.voteTries EXCEPT ![a] = vote]
           decs  == [s.decisionTries EXCEPT ![a] = dec]
<1>2. CountAttempt(s, a) = [s EXCEPT !.voteTries = votes, !.decisionTries = decs]
  BY DEF CountAttempt
<1> HIDE DEF vote, dec
<1>3. votes \in [Agents -> Nat] /\ decs \in [Agents -> Nat]
  BY <1>1 DEF SessionState
<1> HIDE DEF votes, decs
<1>. QED
  BY ZenonT(40), <1>2, <1>3 DEF SessionState

LEMMA ReserveEffect ==
  ASSUME NEW s \in SessionState, NEW a \in Agents
  PROVE  /\ Reserve(s, a) \in SessionState
         /\ Reserve(s, a).reserved = s.reserved \cup {a}
         /\ Reserve(s, a).llm = s.llm
<1> DEFINE c == CountAttempt(s, a)
           prop == IF s.phase = "voting" THEN s.engine.version ELSE 0
<1>1. prop \in Nat /\ s.phase \in Phases
  BY SessionFields
<1>2. c \in SessionState /\ c.reserved = s.reserved /\ c.llm = s.llm
  BY CountAttemptEffect
<1> DEFINE phases == [c.callPhase EXCEPT ![a] = s.phase]
           props  == [c.callProposal EXCEPT ![a] = prop]
           holders == c.reserved \cup {a}
           kept == [c EXCEPT !.reserved = holders, !.callPhase = phases,
                             !.callProposal = props]
<1>3. Reserve(s, a) = kept /\ holders = c.reserved \cup {a}
  BY DEF Reserve
<1> HIDE DEF c, prop
<1>4. /\ phases \in [Agents -> Phases \cup {"none"}]
      /\ props \in [Agents -> Nat]
      /\ holders \in SUBSET Agents
  BY <1>1, <1>2 DEF SessionState
<1> HIDE DEF phases, props, holders
<1>5. kept \in SessionState /\ kept.reserved = holders /\ kept.llm = c.llm
  BY <1>2, <1>4 DEF SessionState
<1> HIDE DEF kept
<1>. QED
  BY <1>2, <1>3, <1>5

(* An admission adds one reservation and starts one completion. *)
LEMMA BeginCallEffect ==
  ASSUME NEW s \in SessionState, NEW a \in Agents
  PROVE  /\ BeginCall(s, a) \in SessionState
         /\ BeginCall(s, a).reserved = s.reserved \cup {a}
         /\ BeginCall(s, a).llm = [s.llm EXCEPT ![a] = "running"]
<1> DEFINE r == Reserve(s, a)
           begun == [r EXCEPT !.mail = r.mail \ {a}, !.llm[a] = "running"]
<1>1. BeginCall(s, a) = OnState(begun, a, "thinking")
  BY DEF BeginCall
<1>2. r \in SessionState /\ r.reserved = s.reserved \cup {a} /\ r.llm = s.llm
  BY ReserveEffect
<1> HIDE DEF r
<1>3. /\ begun \in SessionState
      /\ begun.reserved = s.reserved \cup {a}
      /\ begun.llm = [s.llm EXCEPT ![a] = "running"]
  BY <1>2 DEF SessionState
<1> HIDE DEF begun
<1>4. /\ OnState(begun, a, "thinking") \in SessionState
      /\ OnState(begun, a, "thinking").reserved = begun.reserved
      /\ OnState(begun, a, "thinking").llm = begun.llm
  BY <1>3 DEF OnState, SessionState
<1>. QED
  BY <1>1, <1>3, <1>4

-----------------------------------------------------------------------------
(* Settling and commands *)

LEMMA ReleasedEffect ==
  ASSUME NEW s \in SessionState, NEW a \in Agents
  PROVE  /\ Released(s, a) \in SessionState
         /\ Released(s, a).reserved = s.reserved \ {a}
         /\ Released(s, a).llm = [s.llm EXCEPT ![a] = "none"]
         /\ SameEnd(s, Released(s, a))
  BY DEF Released, SameEnd, SessionState

LEMMA SettleQuiet ==
  ASSUME NEW s \in SessionState, NEW a \in Agents, NEW usage \in Usages
  PROVE  Quiet(Released(s, a), Settle(s, a, usage))
<1> DEFINE r == Released(s, a)
           w == r.work + usage.work
           p == r.processed + usage.processed
           used == [r EXCEPT !.work = w, !.processed = p]
           synced == SyncPhase(used)
<1>1. r \in SessionState
  BY ReleasedEffect
<1>2. w \in Nat /\ p \in Nat
  BY <1>1, SessionFields, ModelAssumption
<1>3. Settle(s, a, usage) \in {r, synced, Fail(synced, "budget", 0)}
  BY DEF Settle
<1> HIDE DEF r, w, p
<1>4. Quiet(r, used)
  BY <1>1, <1>2 DEF Quiet, SameEnd, SessionState
<1> HIDE DEF used
<1>5. Quiet(used, synced)
  BY <1>4, SyncPhaseQuiet, QuietState
<1> HIDE DEF synced
<1>6. Quiet(synced, Fail(synced, "budget", 0))
  BY <1>5, FailQuiet, QuietState DEF FailReasons
<1>7. Quiet(r, Settle(s, a, usage))
  BY <1>1, <1>3, <1>4, <1>5, <1>6, QuietRefl, QuietTrans
<1>. QED
  BY <1>7 DEF r

LEMMA AfterRetryQuiet ==
  ASSUME NEW s \in SessionState, NEW a \in Agents
  PROVE  Quiet(s, AfterRetry(s, a))
  BY QuietRefl, AbstainVoterQuiet, MarkUnresponsiveQuiet DEF AfterRetry

LEMMA ToolErrorQuiet ==
  ASSUME NEW s \in SessionState, NEW a \in Agents
  PROVE  Quiet(s, ToolError(s, a).s)
  BY OnStateQuiet DEF ToolError

LEMMA SendMessageQuiet ==
  ASSUME NEW s \in SessionState, NEW a \in Agents, NEW to \in SUBSET Agents
  PROVE  Quiet(s, SendMessage(s, a, to).s)
<1> DEFINE n == IF s.chats < MaxMessages THEN s.chats + 1 ELSE s.chats
           counted == [s EXCEPT !.chats = n]
           sent == Deliver(counted, to)
<1>1. n \in Nat
  BY SessionFields
<1> HIDE DEF n
<1>2. Quiet(s, counted)
  BY <1>1 DEF Quiet, SameEnd, SessionState
<1> HIDE DEF counted
<1>3. Quiet(counted, sent)
  BY <1>2, DeliverQuiet, QuietState
<1>4. SendMessage(s, a, to).s \in {ToolError(s, a).s, sent, SetPhase(sent, "proposal")}
  BY DEF SendMessage, Done, sent, counted, n
<1> HIDE DEF sent
<1>5. Quiet(sent, SetPhase(sent, "proposal"))
  BY <1>3, SetPhaseQuiet, QuietState DEF Phases
<1>. QED
  BY <1>2, <1>3, <1>4, <1>5, ToolErrorQuiet, QuietTrans

LEMMA SubmitResultQuiet ==
  ASSUME NEW s \in SessionState, NEW a \in Agents, NEW empty \in BOOLEAN, ~Terminal(s)
  PROVE  Quiet(s, SubmitResult(s, a, empty).s)
<1> DEFINE burnt == [s EXCEPT !.engine = NextVersion(s.engine)]
           e == OpenProposal(s.engine, a, Electorate(s), Approval)
           n == s.proposalCount + 1
           tries == [b \in Agents |-> 0]
           opened == [s EXCEPT !.engine = e, !.proposalCount = n, !.voteTries = tries,
                               !.status = "voting"]
           posted == Deliver(opened, Agents \ {a})
           voting == SetPhase(posted, "voting")
           armed  == [voting EXCEPT !.deadline = TRUE]
<1>1. Quiet(s, burnt)
  BY EngineQuiet, NextVersionType, SessionFields
<1>2. SubmitResult(s, a, empty).s \in
        {ToolError(s, a).s, ToolError(burnt, a).s, ApplyOutcome(armed)}
  BY DEF SubmitResult, Done
<1>3. Quiet(s, opened)
  <2>1. Electorate(s) \in SUBSET Agents
    BY DEF Electorate
  <2>2. e \in Engine
    BY <2>1, OpenProposalType, SessionFields
  <2>3. n \in Nat /\ tries \in [Agents -> Nat] /\ "voting" \in Statuses
    BY SessionFields DEF Statuses
  <2> HIDE DEF e, n, tries
  <2>4. opened \in SessionState /\ opened.reserved = s.reserved /\ opened.llm = s.llm
    BY <2>2, <2>3 DEF SessionState
  <2> HIDE DEF opened
  <2>. QED
    BY <2>4 DEF Quiet
<1> HIDE DEF burnt, opened
<1>4. Quiet(opened, posted)
  BY <1>3, DeliverQuiet, QuietState
<1> HIDE DEF posted
<1>5. Quiet(posted, voting)
  BY <1>4, SetPhaseQuiet, QuietState DEF Phases
<1> HIDE DEF voting
<1>6. Quiet(voting, armed)
  <2>1. voting \in SessionState
    BY <1>5, QuietState
  <2>. QED
    BY <2>1 DEF Quiet, SameEnd, SessionState
<1> HIDE DEF armed
<1>7. Quiet(armed, ApplyOutcome(armed))
  BY <1>6, ApplyOutcomeQuiet, QuietState
<1>8. Quiet(s, ApplyOutcome(armed))
  BY <1>3, <1>4, <1>5, <1>6, <1>7, QuietTrans
<1>9. Quiet(s, ToolError(burnt, a).s) /\ Quiet(s, ToolError(s, a).s)
  BY <1>1, ToolErrorQuiet, QuietState, QuietTrans
<1>. QED
  BY <1>2, <1>8, <1>9

LEMMA VoteResultQuiet ==
  ASSUME NEW s \in SessionState, NEW a \in Agents, NEW call
  PROVE  Quiet(s, VoteResult(s, a, call).s)
<1> DEFINE e == ApplyVote(s.engine, a, call.decision, Approval)
           voted == [s EXCEPT !.engine = e]
           posted == Deliver(voted, Agents \ {a})
<1>1. VoteResult(s, a, call).s \in {s, ToolError(s, a).s, ApplyOutcome(posted)}
  BY DEF VoteResult, Done
<1>2. e \in Engine
  BY VoteType, SessionFields
<1> HIDE DEF e
<1>3. Quiet(s, voted)
  BY <1>2, EngineQuiet
<1> HIDE DEF voted
<1>4. Quiet(voted, posted)
  BY <1>3, DeliverQuiet, QuietState
<1> HIDE DEF posted
<1>5. Quiet(posted, ApplyOutcome(posted))
  BY <1>4, ApplyOutcomeQuiet, QuietState
<1>. QED
  BY <1>1, <1>3, <1>4, <1>5, QuietRefl, ToolErrorQuiet, QuietTrans

LEMMA ExecuteQuiet ==
  ASSUME NEW s \in SessionState, NEW a \in Agents, NEW call \in ToolCall
  PROVE  Quiet(s, Execute(s, a, call).s)
<1>1. CASE call.name \notin OfferedTools(s, a) \/ ~Permitted(s, a, call.name)
  BY <1>1, ToolErrorQuiet DEF Execute
<1>2. CASE Permitted(s, a, call.name) /\ call.name \in OfferedTools(s, a)
  <2>1. ~Terminal(s)
    BY <1>2 DEF Permitted, AllowedCommands, Terminal
  <2>2. \/ call.name = "send_message" /\ call.to \in SUBSET Agents
        \/ call.name = "submit_result" /\ call.empty \in BOOLEAN
        \/ call.name = "vote_result"
    BY DEF ToolCall
  <2>3. \/ call.name = "send_message" /\ Execute(s, a, call) = SendMessage(s, a, call.to)
        \/ call.name = "submit_result" /\ Execute(s, a, call) = SubmitResult(s, a, call.empty)
        \/ call.name = "vote_result" /\ Execute(s, a, call) = VoteResult(s, a, call)
    BY <1>2, <2>2 DEF Execute
  <2>. QED
    BY <2>1, <2>2, <2>3, SendMessageQuiet, SubmitResultQuiet, VoteResultQuiet
<1>. QED
  BY <1>1, <1>2

LEMMA RunToolsQuiet ==
  ASSUME NEW s \in SessionState, NEW a \in Agents, NEW reply \in Replies
  PROVE  Quiet(s, RunTools(s, a, reply).s)
<1>1. reply \in Seq(ToolCall) /\ Len(reply) <= 2
  BY ModelAssumption
<1>2. CASE reply = <<>>
  BY <1>2, QuietRefl DEF RunTools, Done
<1>3. CASE reply # <<>>
  <2> DEFINE first == Execute(s, a, reply[1])
             second == IF reply[1].name = "send_message" /\ reply[2].name = "send_message"
                       THEN ToolError(first.s, a)
                       ELSE Execute(first.s, a, reply[2])
  <2>1. reply[1] \in ToolCall
    BY <1>1, <1>3
  <2>2. Quiet(s, first.s)
    BY <2>1, ExecuteQuiet
  <2>3. RunTools(s, a, reply).s = IF Len(reply) = 1 THEN first.s ELSE second.s
    BY <1>3 DEF RunTools
  <2>4. CASE Len(reply) = 1
    BY <2>2, <2>3, <2>4
  <2>5. CASE Len(reply) # 1
    <3>0. Len(reply) = 2
      <4>1. Len(reply) \in Nat
        BY <1>1
      <4>2. Len(reply) # 0
        BY <1>1, <1>3
      <4>3. \A n \in Nat : n <= 2 /\ n # 0 /\ n # 1 => n = 2
        OBVIOUS
      <4>. QED
        BY <1>1, <2>5, <4>1, <4>2, <4>3
    <3>1. reply[2] \in ToolCall
      BY SMTT(20), <1>1, <3>0
    <3> HIDE DEF first
    <3>2. Quiet(first.s, second.s)
      BY <2>2, <3>1, ExecuteQuiet, ToolErrorQuiet, QuietState
    <3>. QED
      BY <2>2, <2>3, <2>5, <3>2, QuietTrans
  <2>. QED
    BY <2>4, <2>5
<1>. QED
  BY <1>2, <1>3

-----------------------------------------------------------------------------
(* The inductive invariant. *)

IInv == TypeOK /\ ReservationsInFlight /\ WaitersHaveACall

(* What a step may do to the end of a session, see FirstReasonWins. *)
EndKept ==
  Terminal(session) =>
    SameEnd(session, session') /\ session'.reserved \subseteq session.reserved

(* What the rest of a step of agent a does from the session s on: it goes to
   another place and is quiet, or it is admitted and starts a call. *)
Outcome(s, a, settled) ==
  \/ \E place \in {"idle", "gate", "gone"} :
       /\ Moves(a, place, settled)
       /\ Quiet(s, session')
       /\ place = "gate" => session'.reserved # {}
  \/ /\ Moves(a, "calling", settled)
     /\ \E g \in SessionState :
          /\ Quiet(s, g)
          /\ ~Terminal(g)
          /\ session' = BeginCall(g, a)

LEMMA LeaveTurnOutcome ==
  ASSUME NEW s \in SessionState, NEW a \in Agents, NEW n, NEW settled,
         LeaveTurn(s, a, n, settled)
  PROVE  Outcome(s, a, settled)
<1>1. "idle" \in {"idle", "thinking", "dead"}
  OBVIOUS
<1>2. CASE n < MaxTurns[a] \/ Preserved(s, a)
  <2> DEFINE closed == IF n < MaxTurns[a] THEN s ELSE CloseDiscussion(s, a)
  <2>1. session' = OnState(closed, a, "idle") /\ Moves(a, "idle", settled)
    BY <1>2 DEF LeaveTurn
  <2>2. Quiet(s, closed)
    BY CloseDiscussionQuiet, QuietRefl
  <2> HIDE DEF closed
  <2>3. Quiet(closed, OnState(closed, a, "idle"))
    BY <1>1, <2>2, OnStateQuiet, QuietState
  <2>. QED
    BY <2>1, <2>2, <2>3, QuietTrans DEF Outcome
<1>3. CASE ~(n < MaxTurns[a] \/ Preserved(s, a))
  <2> DEFINE u == OnState(s, a, "idle")
  <2>1. session' = OnExhausted(u, a) /\ Moves(a, "gone", settled)
    BY <1>3 DEF LeaveTurn
  <2>2. Quiet(s, u)
    BY <1>1, OnStateQuiet
  <2> HIDE DEF u
  <2>3. Quiet(u, OnExhausted(u, a))
    BY <2>2, OnExhaustedQuiet, QuietState
  <2>. QED
    BY <2>1, <2>2, <2>3, QuietTrans DEF Outcome
<1>. QED
  BY <1>2, <1>3

LEMMA OutcomeTrans ==
  ASSUME NEW s, NEW u, Quiet(s, u), NEW a, NEW settled, Outcome(u, a, settled)
  PROVE  Outcome(s, a, settled)
<1>1. CASE \E place \in {"idle", "gate", "gone"} :
             /\ Moves(a, place, settled)
             /\ Quiet(u, session')
             /\ place = "gate" => session'.reserved # {}
  <2>1. PICK place \in {"idle", "gate", "gone"} :
          /\ Moves(a, place, settled)
          /\ Quiet(u, session')
          /\ place = "gate" => session'.reserved # {}
    BY <1>1
  <2>2. Quiet(s, session')
    BY <2>1, QuietTrans
  <2>. QED
    BY <2>1, <2>2 DEF Outcome
<1>2. CASE /\ Moves(a, "calling", settled)
           /\ \E g \in SessionState :
                Quiet(u, g) /\ ~Terminal(g) /\ session' = BeginCall(g, a)
  <2>1. PICK g \in SessionState : Quiet(u, g) /\ ~Terminal(g) /\ session' = BeginCall(g, a)
    BY <1>2
  <2>2. Quiet(s, g)
    BY <2>1, QuietTrans
  <2>. QED
    BY <1>2, <2>1, <2>2 DEF Outcome
<1>. QED
  BY <1>1, <1>2 DEF Outcome

LEMMA EnterGateOutcome ==
  ASSUME NEW s \in SessionState, NEW a \in Agents, NEW n, NEW settled,
         EnterGate(s, a, n, settled)
  PROVE  Outcome(s, a, settled)
<1> DEFINE g == Advanced(s)
<1>1. Quiet(s, g) /\ g \in SessionState
  BY AdvancedQuiet, QuietState
<1>2. CASE MustWait(g, a) /\ session' = g /\ Moves(a, "gate", settled)
  <2>1. session'.reserved # {}
    BY <1>2 DEF MustWait
  <2>. QED
    BY <1>1, <1>2, <2>1 DEF Outcome
<1>3. CASE Admitted(g, a) /\ session' = BeginCall(g, a) /\ Moves(a, "calling", settled)
  <2>1. ~Terminal(g)
    BY <1>3 DEF Admitted
  <2>. QED
    BY <1>1, <1>3, <2>1 DEF Outcome
<1>4. CASE LeaveTurn(Refuse(g, a), a, n, settled)
  <2>1. Quiet(g, Refuse(g, a)) /\ Refuse(g, a) \in SessionState
    BY <1>1, RefuseQuiet, QuietState
  <2>2. Outcome(Refuse(g, a), a, settled)
    BY <1>4, <2>1, LeaveTurnOutcome
  <2>3. Quiet(s, Refuse(g, a))
    BY <1>1, <2>1, QuietTrans
  <2>. QED
    BY <2>2, <2>3, OutcomeTrans
<1>. QED
  BY <1>2, <1>3, <1>4 DEF EnterGate

LEMMA ThinkAgainOutcome ==
  ASSUME NEW s \in SessionState, NEW a \in Agents, NEW n, NEW settled,
         ThinkAgain(s, a, n, settled)
  PROVE  Outcome(s, a, settled)
  BY LeaveTurnOutcome, EnterGateOutcome DEF ThinkAgain

-----------------------------------------------------------------------------
(* From the outcome of an agent's step to the invariant after it.  The step
   starts from the session as it is, with a outside of a call, or with the
   reservation of a returned and the condition notified. *)

Calling == {a \in Agents : pc[a] = "calling"}

LEMMA Invariant ==
  ASSUME IInv
  PROVE  /\ session \in SessionState
         /\ session.reserved = Calling
         /\ \A a \in Agents : session.llm[a] # "none" <=> a \in Calling
         /\ pc \in [Agents -> {"start", "idle", "gate", "woken", "calling", "gone"}]
         /\ calls \in [Agents -> Nat]
  BY DEF IInv, TypeOK, ReservationsInFlight, Calling

(* The parts of the invariant after a step, from what they are about. *)
LEMMA InvariantAfter ==
  ASSUME session' \in SessionState,
         pc' \in [Agents -> {"start", "idle", "gate", "woken", "calling", "gone"}],
         calls' \in [Agents -> Nat],
         session'.reserved = Calling',
         \A a \in Agents : session'.llm[a] # "none" <=> a \in Calling',
         (\E a \in Agents : pc'[a] = "gate") => session'.reserved # {}
  PROVE  IInv'
  BY DEF IInv, TypeOK, ReservationsInFlight, WaitersHaveACall, Calling

LEMMA OutcomeKeeps ==
  ASSUME IInv, NEW a \in Agents, NEW settled \in BOOLEAN, NEW s \in SessionState,
         s.reserved = Calling \ {a},
         \A b \in Agents : s.llm[b] # "none" <=> b \in Calling \ {a},
         SameEnd(session, s),
         settled \/ a \notin Calling,
         Outcome(s, a, settled),
         calls' \in [Agents -> Nat]
  PROVE  IInv' /\ EndKept
<1>1. ASSUME NEW place \in {"idle", "gate", "gone", "calling"}, Moves(a, place, settled)
      PROVE  /\ pc' \in [Agents -> {"start", "idle", "gate", "woken", "calling", "gone"}]
             /\ pc'[a] = place
             /\ \A b \in Agents \ {a} :
                  /\ pc'[b] = "calling" <=> pc[b] = "calling"
                  /\ pc'[b] = "gate" => ~settled /\ pc[b] = "gate"
  BY <1>1, Invariant DEF Moves
<1>2. ASSUME NEW place \in {"idle", "gate", "gone"}, Moves(a, place, settled),
             Quiet(s, session'), place = "gate" => session'.reserved # {}
      PROVE  IInv' /\ EndKept
  <2>1. Calling' = Calling \ {a}
    BY <1>1, <1>2 DEF Calling
  <2>2. /\ session' \in SessionState
        /\ session'.reserved = Calling'
        /\ \A b \in Agents : session'.llm[b] # "none" <=> b \in Calling'
    BY <1>2, <2>1 DEF Quiet
  <2>3. ASSUME NEW b \in Agents, pc'[b] = "gate"
        PROVE  session'.reserved # {}
    <3>1. CASE b = a
      BY <1>1, <1>2, <2>3, <3>1
    <3>2. CASE b # a
      <4>1. ~settled /\ pc[b] = "gate"
        BY <1>1, <1>2, <2>3, <3>2
      <4>2. session.reserved # {} /\ a \notin Calling
        BY <4>1 DEF IInv, WaitersHaveACall
      <4>. QED
        BY <2>1, <2>2, <4>2, Invariant
    <3>. QED
      BY <3>1, <3>2
  <2>4. EndKept
    BY <1>2, <2>1, <2>2, Invariant DEF EndKept, Quiet, SameEnd, Terminal
  <2>. QED
    BY <1>1, <1>2, <2>2, <2>3, <2>4, InvariantAfter
<1>3. ASSUME Moves(a, "calling", settled),
             NEW g \in SessionState, Quiet(s, g), ~Terminal(g), session' = BeginCall(g, a)
      PROVE  IInv' /\ EndKept
  <2>1. Calling' = Calling \cup {a}
    BY <1>1, <1>3 DEF Calling
  <2>2. /\ session' \in SessionState
        /\ session'.reserved = g.reserved \cup {a}
        /\ session'.llm = [g.llm EXCEPT ![a] = "running"]
    BY <1>3, BeginCallEffect
  <2>3. session'.reserved = Calling'
    BY <1>3, <2>1, <2>2 DEF Quiet
  <2>4. ASSUME NEW b \in Agents
        PROVE  session'.llm[b] # "none" <=> b \in Calling'
    <3>1. session'.llm[b] = IF b = a THEN "running" ELSE g.llm[b]
      BY <1>3, <2>2 DEF SessionState
    <3>. QED
      BY <1>3, <2>1, <3>1 DEF Quiet
  <2>5. session'.reserved # {}
    BY <2>2
  <2>6. ~Terminal(session)
    BY <1>3 DEF Quiet, SameEnd, Terminal
  <2>7. IInv'
    BY <1>1, <1>3, <2>2, <2>3, <2>4, <2>5, InvariantAfter
  <2>. QED
    BY <2>6, <2>7 DEF EndKept
<1>. QED
  BY <1>2, <1>3 DEF Outcome

(* A step that leaves the agents where they are. *)
LEMMA HandlerKeeps ==
  ASSUME IInv, Quiet(session, session'), UNCHANGED <<pc, calls>>
  PROVE  IInv' /\ EndKept
<1>1. Calling' = Calling
  BY DEF Calling
<1>2. /\ session' \in SessionState
      /\ session'.reserved = Calling'
      /\ \A a \in Agents : session'.llm[a] # "none" <=> a \in Calling'
  BY <1>1, Invariant DEF Quiet
<1>3. (\E a \in Agents : pc'[a] = "gate") => session'.reserved # {}
  BY Invariant DEF Quiet, IInv, WaitersHaveACall
<1>4. EndKept
  BY <1>1, <1>2, Invariant DEF EndKept, Quiet
<1>. QED
  BY <1>2, <1>3, <1>4, Invariant, InvariantAfter

-----------------------------------------------------------------------------
LEMMA InitIInv == Init => IInv
<1> SUFFICES ASSUME Init PROVE IInv
  OBVIOUS
<1>1. NewSession \in SessionState
  BY NewEngineType DEF NewSession, SessionState, Statuses, FailReasons, Phases
<1>2. NewSession.reserved = {} /\ NewSession.llm = [a \in Agents |-> "none"]
  BY DEF NewSession
<1>. QED
  BY <1>1, <1>2 DEF Init, IInv, TypeOK, ReservationsInFlight, WaitersHaveACall

(* The steps of an agent that is not in a call. *)
LEMMA OutsideCall ==
  ASSUME IInv, NEW a \in Agents, pc[a] # "calling", NEW s, Quiet(session, s),
         s.llm = session.llm,
         Outcome(s, a, FALSE), UNCHANGED calls
  PROVE  IInv' /\ EndKept
<1>1. Quiet(session, session) /\ Outcome(session, a, FALSE)
  BY Invariant, QuietRefl, OutcomeTrans
<1>2. Calling = Calling \ {a} /\ a \notin Calling
  BY DEF Calling
<1>. QED
  BY <1>1, <1>2, Invariant, OutcomeKeeps DEF SameEnd

(* The steps that end the call of an agent. *)
LEMMA CallOver ==
  ASSUME IInv, NEW a \in Agents, NEW s, Quiet(Released(session, a), s),
         Outcome(s, a, TRUE), calls' \in [Agents -> Nat]
  PROVE  IInv' /\ EndKept
<1> DEFINE r == Released(session, a)
<1>1. /\ r \in SessionState
      /\ r.reserved = session.reserved \ {a}
      /\ r.llm = [session.llm EXCEPT ![a] = "none"]
      /\ SameEnd(session, r)
  BY Invariant, ReleasedEffect
<1>2. Outcome(r, a, TRUE)
  BY OutcomeTrans
<1> HIDE DEF r
<1>3. \A b \in Agents : r.llm[b] = IF b = a THEN "none" ELSE session.llm[b]
  BY <1>1, Invariant DEF SessionState
<1>4. \A b \in Agents : r.llm[b] # "none" <=> b \in Calling \ {a}
  BY <1>3, Invariant
<1>5. r.reserved = Calling \ {a}
  BY <1>1, Invariant
<1>. QED
  BY <1>1, <1>2, <1>4, <1>5, OutcomeKeeps

LEMMA StartKeeps ==
  ASSUME IInv, NEW a \in Agents, Start(a)
  PROVE  IInv' /\ EndKept
<1>1. pc[a] # "calling" /\ ThinkAgain(session, a, calls[a], FALSE) /\ UNCHANGED calls
  BY DEF Start
<1>. QED
  BY <1>1, Invariant, ThinkAgainOutcome, OutsideCall, QuietRefl

LEMMA WakeKeeps ==
  ASSUME IInv, NEW a \in Agents, Wake(a)
  PROVE  IInv' /\ EndKept
<1> DEFINE s == [session EXCEPT !.mail = session.mail \ {a}]
<1>1. pc[a] # "calling" /\ ThinkAgain(s, a, calls[a], FALSE) /\ UNCHANGED calls
  BY DEF Wake
<1>2. Quiet(session, s) /\ s.llm = session.llm /\ s \in SessionState
  BY Invariant DEF Quiet, SameEnd, SessionState
<1> HIDE DEF s
<1>. QED
  BY <1>1, <1>2, ThinkAgainOutcome, OutsideCall

LEMMA RecheckKeeps ==
  ASSUME IInv, NEW a \in Agents, Recheck(a)
  PROVE  IInv' /\ EndKept
<1>1. pc[a] # "calling" /\ EnterGate(session, a, calls[a], FALSE) /\ UNCHANGED calls
  BY DEF Recheck
<1>. QED
  BY <1>1, Invariant, EnterGateOutcome, OutsideCall, QuietRefl

LEMMA CompletionKeeps ==
  ASSUME IInv, NEW a \in Agents, NEW how \in {"answered", "failed"}, CompletionEnds(a, how)
  PROVE  IInv' /\ EndKept
<1>1. /\ session.llm[a] = "running"
      /\ session' = [session EXCEPT !.llm[a] = how]
      /\ UNCHANGED <<pc, calls>>
  BY DEF CompletionEnds
<1>2. /\ session' \in SessionState
      /\ session'.reserved = session.reserved
      /\ session'.llm = [session.llm EXCEPT ![a] = how]
      /\ SameEnd(session, session')
  BY <1>1, Invariant DEF SessionState, SameEnd
<1>3. \A b \in Agents : session'.llm[b] = IF b = a THEN how ELSE session.llm[b]
  BY <1>2, Invariant DEF SessionState
<1>4. Calling' = Calling
  BY <1>1 DEF Calling
<1>5. \A b \in Agents : session'.llm[b] # "none" <=> b \in Calling'
  BY <1>1, <1>3, <1>4, Invariant
<1>6. (\E b \in Agents : pc'[b] = "gate") => session'.reserved # {}
  BY <1>1, <1>2 DEF IInv, WaitersHaveACall
<1>. QED
  BY <1>1, <1>2, <1>4, <1>5, <1>6, Invariant, InvariantAfter DEF EndKept

LEMMA AnswerKeeps ==
  ASSUME IInv, NEW a \in Agents, NEW reply \in Replies, NEW usage \in Usages,
         Answer(a, reply, usage)
  PROVE  IInv' /\ EndKept
<1> DEFINE r == Released(session, a)
           settled == Settle(session, a, usage)
           turn == RunTools(settled, a, reply)
           next == AfterRetry(turn.s, a)
           n    == calls[a] + 1
<1>1. /\ calls' = [calls EXCEPT ![a] = n]
      /\ ThinkAgain(next, a, n, TRUE) \/ LeaveTurn(next, a, n, TRUE)
  BY DEF Answer
<1>2. calls' \in [Agents -> Nat]
  BY <1>1, Invariant
<1>3. Quiet(r, settled)
  BY Invariant, SettleQuiet
<1> HIDE DEF r, settled, n
<1>4. Quiet(settled, turn.s)
  BY <1>3, RunToolsQuiet, QuietState
<1> HIDE DEF turn
<1>5. Quiet(turn.s, next)
  BY <1>4, AfterRetryQuiet, QuietState
<1> HIDE DEF next
<1>6. Quiet(r, next) /\ next \in SessionState
  BY <1>3, <1>4, <1>5, QuietState, QuietTrans
<1>7. Outcome(next, a, TRUE)
  BY <1>1, <1>6, ThinkAgainOutcome, LeaveTurnOutcome
<1>. QED
  BY <1>2, <1>6, <1>7, CallOver DEF r

LEMMA LoopDiesKeeps ==
  ASSUME IInv, NEW a \in Agents, NEW usage \in Usages, LoopDies(a, usage)
  PROVE  IInv' /\ EndKept
<1> DEFINE r == Released(session, a)
           settled == Settle(session, a, usage)
<1>1. /\ session' = settled
      /\ Moves(a, "gone", TRUE)
      /\ calls' = [calls EXCEPT ![a] = @ + 1]
  BY DEF LoopDies
<1>2. calls' \in [Agents -> Nat]
  BY <1>1, Invariant
<1>3. Quiet(r, settled)
  BY Invariant, SettleQuiet
<1> HIDE DEF r, settled
<1>4. Quiet(settled, settled)
  BY <1>3, QuietState, QuietRefl
<1>5. Outcome(settled, a, TRUE)
  BY <1>1, <1>4 DEF Outcome
<1>. QED
  BY <1>2, <1>3, <1>5, CallOver DEF r

LEMMA CallFailsKeeps ==
  ASSUME IInv, NEW a \in Agents, CallFails(a)
  PROVE  IInv' /\ EndKept
<1> DEFINE f == OnFatal(session, a)
<1>1. session' = Released(f, a) /\ Moves(a, "gone", TRUE) /\ UNCHANGED calls
  BY DEF CallFails
<1>2. Quiet(session, f) /\ f \in SessionState
  BY Invariant, OnFatalQuiet, QuietState
<1> HIDE DEF f
<1>3. /\ session' \in SessionState
      /\ session'.reserved = f.reserved \ {a}
      /\ session'.llm = [f.llm EXCEPT ![a] = "none"]
      /\ SameEnd(f, session')
  BY <1>1, <1>2, ReleasedEffect
<1>4. \A b \in Agents : session'.llm[b] = IF b = a THEN "none" ELSE f.llm[b]
  BY <1>2, <1>3 DEF SessionState
<1>5. /\ pc' \in [Agents -> {"start", "idle", "gate", "woken", "calling", "gone"}]
      /\ \A b \in Agents : pc'[b] # "gate"
      /\ Calling' = Calling \ {a}
  BY <1>1, Invariant DEF Moves, Calling
<1>6. session'.reserved = Calling'
  BY <1>2, <1>3, <1>5, Invariant DEF Quiet
<1>7. \A b \in Agents : session'.llm[b] # "none" <=> b \in Calling'
  BY <1>2, <1>4, <1>5, Invariant DEF Quiet
<1>8. EndKept
  BY <1>2, <1>3 DEF EndKept, Quiet, SameEnd
<1>. QED
  BY <1>1, <1>3, <1>5, <1>6, <1>7, <1>8, Invariant, InvariantAfter

LEMMA CallCancelledKeeps ==
  ASSUME IInv, NEW a \in Agents, CallCancelled(a)
  PROVE  IInv' /\ EndKept
<1> DEFINE r == Released(session, a)
<1>1. LeaveTurn(r, a, calls[a], TRUE) /\ UNCHANGED calls
  BY DEF CallCancelled
<1>2. r \in SessionState /\ Quiet(r, r)
  BY Invariant, ReleasedEffect, QuietRefl
<1>3. Outcome(r, a, TRUE)
  BY <1>1, <1>2, LeaveTurnOutcome
<1>. QED
  BY <1>1, <1>2, <1>3, Invariant, CallOver

LEMMA TimersKeep ==
  ASSUME IInv, VotingTimeout \/ IdleTimeout \/ Cancel \/ Interrupt
  PROVE  IInv' /\ EndKept
<1>1. session \in SessionState
  BY Invariant
<1>2. CASE VotingTimeout
  <2> DEFINE expired == [session EXCEPT !.deadline = FALSE]
             e == ExpirePending(expired.engine, Approval)
             counted == [expired EXCEPT !.engine = e]
  <2>1. session' \in {expired, ApplyOutcome(counted)} /\ UNCHANGED <<pc, calls>>
    BY <1>2 DEF VotingTimeout
  <2>2. Quiet(session, expired)
    BY <1>1 DEF Quiet, SameEnd, SessionState
  <2> HIDE DEF expired
  <2>3. e \in Engine
    BY <2>2, ExpiryType, QuietState, SessionFields
  <2> HIDE DEF e
  <2>4. Quiet(expired, counted)
    BY <2>2, <2>3, EngineQuiet, QuietState
  <2> HIDE DEF counted
  <2>5. Quiet(counted, ApplyOutcome(counted))
    BY <2>4, ApplyOutcomeQuiet, QuietState
  <2>6. Quiet(session, session')
    BY <2>1, <2>2, <2>4, <2>5, QuietTrans
  <2>. QED
    BY <2>1, <2>6, HandlerKeeps
<1>3. CASE IdleTimeout \/ Interrupt
  <2>1. /\ session' \in {Fail(session, "idle", 0), Fail(session, "interrupted", 0)}
        /\ UNCHANGED <<pc, calls>>
    BY <1>3 DEF IdleTimeout, Interrupt
  <2>2. Quiet(session, session')
    BY <1>1, <2>1, FailQuiet DEF FailReasons
  <2>. QED
    BY <2>1, <2>2, HandlerKeeps
<1>4. CASE Cancel
  <2>1. /\ session' = Finalize(session, "cancelled", "none", 0, 0)
        /\ UNCHANGED <<pc, calls>>
    BY <1>4 DEF Cancel
  <2>2. Quiet(session, session')
    BY <1>1, <2>1, FinalizeQuiet DEF Statuses, FailReasons
  <2>. QED
    BY <2>1, <2>2, HandlerKeeps
<1>. QED
  BY <1>2, <1>3, <1>4

LEMMA ShutdownKeeps ==
  ASSUME IInv, Shutdown
  PROVE  IInv' /\ EndKept
<1>1. /\ session' = [session EXCEPT !.reserved = session.reserved \ Calling,
                                    !.llm = [a \in Agents |-> "none"]]
      /\ pc' = [a \in Agents |-> "gone"]
      /\ UNCHANGED calls
  BY DEF Shutdown, Calling
<1>2. /\ session' \in SessionState
      /\ session'.reserved = {}
      /\ session'.llm = [a \in Agents |-> "none"]
      /\ SameEnd(session, session')
  BY <1>1, Invariant DEF SessionState, SameEnd
<1>3. Calling' = {} /\ \A a \in Agents : pc'[a] = "gone"
  BY <1>1 DEF Calling
<1>. QED
  BY <1>1, <1>2, <1>3, Invariant, InvariantAfter DEF EndKept

LEMMA SetupFailsKeeps ==
  ASSUME IInv, SetupFails
  PROVE  IInv' /\ EndKept
<1>1. /\ \A a \in Agents : pc[a] = "start"
      /\ session' = Fail(session, "agent_error", 0)
      /\ pc' = [a \in Agents |-> "gone"]
      /\ UNCHANGED calls
  BY DEF SetupFails
<1>2. Quiet(session, session')
  BY <1>1, Invariant, FailQuiet DEF FailReasons
<1>3. Calling = {} /\ Calling' = {} /\ \A a \in Agents : pc'[a] = "gone"
  BY <1>1 DEF Calling
<1>4. /\ session' \in SessionState
      /\ session'.reserved = Calling'
      /\ \A a \in Agents : session'.llm[a] # "none" <=> a \in Calling'
  BY <1>2, <1>3, Invariant DEF Quiet
<1>5. EndKept
  BY <1>2, <1>3, <1>4, Invariant DEF EndKept, Quiet
<1>. QED
  BY <1>1, <1>3, <1>4, <1>5, Invariant, InvariantAfter

LEMMA NextKeeps == IInv /\ [Next]_vars => IInv' /\ EndKept
<1> SUFFICES ASSUME IInv, [Next]_vars PROVE IInv' /\ EndKept
  OBVIOUS
<1>1. ASSUME NEW a \in Agents,
             \/ Start(a) \/ Wake(a) \/ Recheck(a)
             \/ CompletionEnds(a, "answered") \/ CompletionEnds(a, "failed")
             \/ \E reply \in Replies, usage \in Usages :
                  Answer(a, reply, usage) \/ ToolRaises(a, reply, usage)
             \/ \E usage \in Usages : EmptyAnswer(a, usage)
             \/ CallFails(a) \/ CallCancelled(a)
      PROVE  IInv' /\ EndKept
  BY <1>1, StartKeeps, WakeKeeps, RecheckKeeps, CompletionKeeps, AnswerKeeps,
     LoopDiesKeeps, CallFailsKeeps, CallCancelledKeeps DEF ToolRaises, EmptyAnswer
<1>2. CASE Stopped \/ UNCHANGED vars
  <2>1. session' = session /\ UNCHANGED <<pc, calls>>
    BY <1>2 DEF Stopped, vars
  <2>2. Quiet(session, session')
    BY <2>1, Invariant, QuietRefl
  <2>. QED
    BY <2>1, <2>2, HandlerKeeps
<1>. QED
  BY <1>1, <1>2, SetupFailsKeeps, TimersKeep, ShutdownKeeps DEF Next

THEOREM InductiveInvariant == Spec => []IInv
<1>1. IInv /\ [Next]_vars => IInv'
  BY NextKeeps
<1>. QED
  BY <1>1, InitIInv, PTL DEF Spec

(* Every field of the session keeps its type, for every team and policy. *)
THEOREM TypeCorrect == Spec => []TypeOK
  BY InductiveInvariant, PTL DEF IInv

(* _before_agent_call, _after_agent_call and _release_agent_call: a
   reservation is held exactly while its call is in flight. *)
THEOREM NoReservationLeaks == Spec => []ReservationsInFlight
  BY InductiveInvariant, PTL DEF IInv

(* Nobody waits on the budget condition without a call in flight whose return
   will notify it. *)
THEOREM NoLostWakeup == Spec => []WaitersHaveACall
  BY InductiveInvariant, PTL DEF IInv

(* _finalize: what ended the session stays on record, and no call is admitted
   after it (D-021). *)
THEOREM FirstReasonIsKept == Spec => FirstReasonWins
<1>1. IInv /\ [Next]_vars =>
        [Terminal(session) =>
           /\ session'.status = session.status
           /\ session'.failReason = session.failReason
           /\ session'.draft = session.draft
           /\ session'.result = session.result
           /\ session'.reserved \subseteq session.reserved]_vars
  BY NextKeeps DEF EndKept, SameEnd
<1>. QED
  BY <1>1, InductiveInvariant, PTL DEF Spec, FirstReasonWins

-----------------------------------------------------------------------------
(* Second part.  What the parts of a session agree on between any two       *)
(* handlers.                                                                *)

(* The phases that end a session; there is no way back from them. *)
Late(s) == s.phase \in {"proposal", "voting", "revision"}

(* Rounds, versions and attempts. *)
Numbered(s) ==
  /\ s.proposalCount <= s.engine.version
  /\ \A a \in Agents :
       /\ s.callProposal[a] <= s.engine.version
       /\ s.callPhase[a] = "voting" => s.callProposal[a] # 0
       /\ s.voteTries[a] <= 2
       /\ s.decisionTries[a] <= 2

(* ReviewsAreCurrent, of a record. *)
Current(s) ==
  \A a \in Agents :
    s.llm[a] = "running" /\ s.callPhase[a] = "voting" =>
      s.engine.open /\ s.callProposal[a] = s.engine.version

(* A proposal is under vote, its outcome counted and not yet applied. *)
Ballot(s) ==
  /\ s.status = "voting" /\ s.phase = "voting" /\ s.engine.open
  /\ s.proposalCount # 0
  /\ s.engine.proposer \notin s.engine.tally.voters
  /\ s.engine.outcome = Decide(s.engine.tally, Approval)

Armed(s) == s.deadline /\ s.engine.outcome = "pending"

(* No proposal is under vote.  After the first round the proposer is the
   only one who may go on. *)
Between(s) ==
  /\ s.status = "running" /\ s.phase # "voting" /\ ~s.engine.open /\ ~s.deadline
  /\ s.phase = "revision" <=> s.proposalCount # 0
  /\ s.phase = "revision" => s.reviser = {s.engine.proposer}

Live(s) ==
  /\ s.proposalCount <= MaxProposals
  /\ Current(s)
  /\ Between(s) \/ (Ballot(s) /\ Armed(s))

Coherent(s) ==
  /\ s \in SessionState
  /\ Numbered(s)
  /\ ~Terminal(s) => Live(s)

(* The state in which _apply_outcome is called. *)
Counted(s) ==
  /\ s \in SessionState
  /\ Numbered(s)
  /\ ~Terminal(s) =>
       /\ s.proposalCount <= MaxProposals
       /\ Current(s)
       /\ Ballot(s)
       /\ s.engine.outcome = "pending" => s.deadline

-----------------------------------------------------------------------------
(* What a handler in a step of agent a may do to a session.                 *)

(* Somebody the session cannot go on without, see NobodyStranded. *)
Expected(s, a) ==
  /\ ~Terminal(s) /\ Late(s)
  /\ PhaseAllows(s, a) /\ s.agentState[a] # "dead"

(* How many of the calls beyond its turn limit agent a may have made: two in
   the proposal phase, and two in each round, as a voter or as the reviser. *)
Used(s, a) ==
  CASE s.phase = "proposal" -> s.decisionTries[a]
    [] s.phase = "voting" ->
         2 * s.proposalCount + (IF a = s.engine.proposer THEN 0 ELSE s.voteTries[a])
    [] s.phase = "revision" ->
         2 * s.proposalCount + (IF a = s.engine.proposer THEN s.decisionTries[a] ELSE 2)
    [] OTHER -> 0

(* The transition of the lifecycle.  Only a itself opens a proposal in a step
   of a, and only its own vote or abstention sends one back, which is not
   its own: this is why one step never makes both transitions. *)
Stayed(s, u) ==
  /\ u.status = s.status
  /\ u.proposalCount = s.proposalCount
  /\ u.engine.proposer = s.engine.proposer

Opened(s, u, a) ==
  /\ s.status = "running"
  /\ u.status \in {"voting", "completed", "failed"}
  /\ s.proposalCount < MaxProposals
  /\ u.proposalCount = s.proposalCount + 1
  /\ u.engine.proposer = a
  /\ s.proposalCount # 0 => s.engine.proposer = a

SentBack(s, u, a) ==
  /\ s.status = "voting" /\ u.status = "running"
  /\ s.proposalCount < MaxProposals /\ s.proposalCount # 0
  /\ u.proposalCount = s.proposalCount
  /\ u.engine.proposer = s.engine.proposer
  /\ s.engine.proposer # a

Ended(s, u) ==
  /\ ~Terminal(s)
  /\ u.status = "failed" \/ (u.status = "completed" /\ s.status = "voting")
  /\ u.proposalCount = s.proposalCount
  /\ u.engine.proposer = s.engine.proposer

Path(s, u, a) == Stayed(s, u) \/ Opened(s, u, a) \/ SentBack(s, u, a) \/ Ended(s, u)

(* Calls are what they were when they began. *)
SameCalls(s, u) == u.callPhase = s.callPhase /\ u.callProposal = s.callProposal

(* A vote is counted only for a call that was about the proposal under vote.
   W is whose votes may be counted: in the step of an answer its agent, in any
   other step nobody. *)
Informed(s, u, W) ==
  /\ s.engine.version <= u.engine.version
  /\ u.engine.version = s.engine.version =>
       \A b \in Voted(u.engine) \ Voted(s.engine) :
         /\ b \in W
         /\ s.callPhase[b] = "voting"
         /\ s.callProposal[b] = s.engine.version

(* Nobody becomes expected without mail, and a call that is cut leaves no one
   expected without mail. *)
Fed(s, u) ==
  \A b \in Agents :
    Expected(u, b) /\ b \notin u.mail =>
      /\ Expected(s, b) /\ b \notin s.mail
      /\ u.llm[b] = "cancelled" => s.llm[b] = "cancelled"

Onward(s, u) ==
  ~Terminal(u) =>
    /\ Late(s) => Late(u)
    /\ \A b \in Agents : Used(s, b) <= Used(u, b)

Change(s, u, a, W) ==
  /\ SameCalls(s, u)
  /\ Path(s, u, a)
  /\ Informed(s, u, W)
  /\ Fed(s, u)
  /\ Onward(s, u)

Step(s, u, a, W) == Coherent(u) /\ Change(s, u, a, W)

LEMMA UsedType ==
  ASSUME NEW s \in SessionState, NEW a \in Agents
  PROVE  Used(s, a) \in Nat
<1>1. s.decisionTries[a] \in Nat /\ s.voteTries[a] \in Nat /\ s.proposalCount \in Nat
  BY DEF SessionState
<1>. QED
  BY <1>1 DEF Used

LEMMA PathTrans ==
  ASSUME NEW s, NEW u, NEW v, NEW a, Path(s, u, a), Path(u, v, a)
  PROVE  Path(s, v, a)
<1>1. CASE Stayed(s, u)
  BY <1>1 DEF Path, Stayed, Opened, SentBack, Ended, Terminal
<1>2. CASE Opened(s, u, a)
  <2>1. ~SentBack(u, v, a) /\ ~Opened(u, v, a)
    BY <1>2 DEF Opened, SentBack
  <2>. QED
    BY <1>2, <2>1 DEF Path, Stayed, Opened, Ended, Terminal
<1>3. CASE SentBack(s, u, a)
  <2>1. ~SentBack(u, v, a) /\ ~Opened(u, v, a)
    BY <1>3 DEF Opened, SentBack
  <2>. QED
    BY <1>3, <2>1 DEF Path, Stayed, SentBack, Ended, Terminal
<1>4. CASE Ended(s, u)
  <2>1. Stayed(u, v)
    BY <1>4 DEF Path, Stayed, Opened, SentBack, Ended, Terminal
  <2>. QED
    BY <1>4, <2>1 DEF Path, Stayed, Ended
<1>. QED
  BY <1>1, <1>2, <1>3, <1>4 DEF Path

LEMMA TerminalAlong ==
  ASSUME NEW s, NEW u, NEW a, Path(s, u, a), Terminal(s)
  PROVE  Terminal(u)
  BY DEF Path, Stayed, Opened, SentBack, Ended, Terminal

LEMMA ChangeTrans ==
  ASSUME NEW W, NEW s \in SessionState, NEW u \in SessionState, NEW v \in SessionState, NEW a,
         Change(s, u, a, W), Change(u, v, a, W)
  PROVE  Change(s, v, a, W)
<1>1. SameCalls(s, v) /\ Path(s, v, a)
  BY PathTrans DEF Change, SameCalls
<1>2. Informed(s, v, W)
  <2>1. /\ s.engine.version \in Nat /\ u.engine.version \in Nat /\ v.engine.version \in Nat
    BY SessionFields
  <2>2. s.engine.version <= u.engine.version /\ u.engine.version <= v.engine.version
    BY DEF Change, Informed
  <2>3. s.engine.version <= v.engine.version
    BY <2>1, <2>2
  <2>4. ASSUME v.engine.version = s.engine.version
        PROVE  u.engine.version = s.engine.version /\ v.engine.version = u.engine.version
    BY <2>1, <2>2, <2>4
  <2>. QED
    BY <2>3, <2>4 DEF Change, Informed, SameCalls
<1>3. Fed(s, v)
  BY DEF Change, Fed
<1>4. Onward(s, v)
  <2>1. ~Terminal(v) => ~Terminal(u)
    BY TerminalAlong DEF Change
  <2>2. ASSUME NEW b \in Agents, Used(s, b) <= Used(u, b), Used(u, b) <= Used(v, b)
        PROVE  Used(s, b) <= Used(v, b)
    BY <2>2, UsedType
  <2>. QED
    BY <2>1, <2>2 DEF Change, Onward
<1>. QED
  BY <1>1, <1>2, <1>3, <1>4 DEF Change

LEMMA StepTrans ==
  ASSUME NEW W, NEW s, NEW u, NEW v, NEW a, Coherent(s), Step(s, u, a, W), Step(u, v, a, W)
  PROVE  Step(s, v, a, W)
  BY ChangeTrans DEF Step, Coherent

LEMMA ChangeRefl ==
  ASSUME NEW W, NEW s \in SessionState, NEW a
  PROVE  Change(s, s, a, W)
<1>1. s.engine.version <= s.engine.version
  BY SessionFields
<1>2. \A b \in Agents : Used(s, b) <= Used(s, b)
  BY UsedType
<1>. QED
  BY <1>1, <1>2 DEF Change, SameCalls, Path, Stayed, Informed, Fed, Onward

LEMMA StepRefl ==
  ASSUME NEW W, NEW s, NEW a, Coherent(s)
  PROVE  Step(s, s, a, W)
  BY ChangeRefl DEF Step, Coherent

-----------------------------------------------------------------------------
(* A handler that neither votes, nor moves a phase, nor ends the session.   *)

Minor(s, u) ==
  /\ u \in SessionState
  /\ u.status = s.status /\ u.phase = s.phase /\ u.engine = s.engine
  /\ u.proposalCount = s.proposalCount /\ u.deadline = s.deadline
  /\ u.reviser = s.reviser
  /\ SameCalls(s, u)
  /\ u.voteTries = s.voteTries /\ u.decisionTries = s.decisionTries
  /\ s.exhausted \subseteq u.exhausted /\ s.unresponsive \subseteq u.unresponsive
  /\ \A b \in Agents :
       /\ u.llm[b] = "running" => s.llm[b] = "running"
       /\ u.llm[b] = "cancelled" => s.llm[b] = "cancelled"
       /\ s.agentState[b] = "dead" => u.agentState[b] = "dead"
       /\ b \in s.mail => b \in u.mail \cup u.exhausted

LEMMA MinorExpected ==
  ASSUME NEW s, NEW u, NEW b \in Agents, Minor(s, u), Expected(u, b)
  PROVE  Expected(s, b)
  BY DEF Minor, Expected, Late, PhaseAllows, Terminal

LEMMA MinorStep ==
  ASSUME NEW W, NEW s, Coherent(s), NEW u, Minor(s, u), NEW a
  PROVE  Step(s, u, a, W)
<1>0. s \in SessionState /\ u \in SessionState
  BY DEF Coherent, Minor
<1>1. Numbered(u)
  BY DEF Coherent, Numbered, Minor, SameCalls
<1>2. Live(s) => Live(u)
  <2>1. Current(s) => Current(u)
    BY DEF Current, Minor, SameCalls
  <2>2. Between(s) => Between(u)
    BY DEF Between, Minor
  <2>3. Ballot(s) /\ Armed(s) => Ballot(u) /\ Armed(u)
    BY DEF Ballot, Armed, Minor
  <2>. QED
    BY <2>1, <2>2, <2>3 DEF Live, Minor
<1>3. Coherent(u)
  BY <1>0, <1>1, <1>2 DEF Coherent, Terminal, Minor
<1>4. SameCalls(s, u) /\ Path(s, u, a)
  BY DEF Minor, Path, Stayed
<1>5. Informed(s, u, W)
  <2>1. s.engine.version <= s.engine.version
    BY <1>0, SessionFields
  <2>. QED
    BY <2>1 DEF Minor, Informed
<1>6. Fed(s, u)
  <2>1. ASSUME NEW b \in Agents, Expected(u, b)
        PROVE  b \notin u.exhausted
    BY <2>1 DEF Expected, PhaseAllows
  <2>. QED
    BY <2>1, MinorExpected DEF Fed, Minor
<1>7. Onward(s, u)
  <2>1. \A b \in Agents : Used(u, b) = Used(s, b)
    BY DEF Used, Minor
  <2>. QED
    BY <1>0, <2>1, UsedType DEF Onward, Late, Minor
<1>. QED
  BY <1>3, <1>4, <1>5, <1>6, <1>7 DEF Step, Change

LEMMA FailStep ==
  ASSUME NEW W, NEW s, Coherent(s), NEW a, NEW r \in FailReasons, NEW d \in Nat
  PROVE  Step(s, Fail(s, r, d), a, W)
<1> DEFINE u == Fail(s, r, d)
<1>0. s \in SessionState /\ u \in SessionState
  BY FailQuiet, QuietState DEF Coherent
<1>1. CASE Terminal(s)
  BY <1>1, StepRefl DEF Fail, Finalize
<1>2. CASE ~Terminal(s)
  <2>1. /\ u.status = "failed" /\ u.engine = s.engine
        /\ u.proposalCount = s.proposalCount
        /\ u.voteTries = s.voteTries /\ u.decisionTries = s.decisionTries
        /\ u.callPhase = s.callPhase /\ u.callProposal = s.callProposal
    BY <1>0, <1>2 DEF Fail, Finalize, SessionState
  <2> HIDE DEF u
  <2>2. Terminal(u)
    BY <2>1 DEF Terminal
  <2>3. Numbered(u)
    BY <2>1 DEF Coherent, Numbered
  <2>4. Path(s, u, a) /\ SameCalls(s, u)
    BY <1>2, <2>1 DEF Path, Ended, SameCalls
  <2>5. Informed(s, u, W)
    BY <1>0, <2>1, SessionFields DEF Informed
  <2>6. Fed(s, u) /\ Onward(s, u)
    BY <2>2 DEF Fed, Expected, Onward
  <2>7. Step(s, u, a, W)
    BY <1>0, <2>2, <2>3, <2>4, <2>5, <2>6 DEF Step, Change, Coherent
  <2>. QED
    BY <2>7 DEF u
<1>. QED
  BY <1>1, <1>2

(* Where a session ends less has to be shown. *)
LEMMA EndedChange ==
  ASSUME NEW W, NEW s, NEW u, NEW a, Terminal(u),
         SameCalls(s, u), Path(s, u, a), Informed(s, u, W)
  PROVE  Change(s, u, a, W)
  BY DEF Change, Fed, Expected, Onward

LEMMA DeliverStep ==
  ASSUME NEW W, NEW s, Coherent(s), NEW a, NEW S \in SUBSET Agents
  PROVE  Step(s, Deliver(s, S), a, W)
<1>1. s \in SessionState /\ Deliver(s, S) \in SessionState
  BY DeliverQuiet, QuietState DEF Coherent
<1>2. Minor(s, Deliver(s, S))
  BY <1>1 DEF Minor, SameCalls, Deliver, SessionState
<1>. QED
  BY <1>2, MinorStep

LEMMA OnStateStep ==
  ASSUME NEW W, NEW s, Coherent(s), NEW b, NEW a \in Agents, NEW st \in {"idle", "thinking", "dead"}
  PROVE  Step(s, OnState(s, a, st), b, W)
<1>1. s \in SessionState /\ OnState(s, a, st) \in SessionState
  BY OnStateQuiet, QuietState DEF Coherent
<1>2. Minor(s, OnState(s, a, st))
  BY ZenonT(40), <1>1 DEF Minor, SameCalls, OnState, SessionState
<1>. QED
  BY <1>2, MinorStep

LEMMA ToolErrorStep ==
  ASSUME NEW W, NEW s, Coherent(s), NEW a \in Agents
  PROVE  Step(s, ToolError(s, a).s, a, W)
  BY OnStateStep DEF ToolError

(* The phases before a decision. *)
LEMMA SetPhaseStep ==
  ASSUME NEW W, NEW s, Coherent(s), NEW a, NEW p \in {"synthesis", "proposal"},
         Terminal(s) \/ s.phase \in {"discussion", "synthesis"}
  PROVE  Step(s, SetPhase(s, p), a, W)
<1> DEFINE entered == IF Decisive(p)
                      THEN [s EXCEPT !.phase = p, !.unresponsive = {},
                                     !.decisionTries = [b \in Agents |-> 0]]
                      ELSE [s EXCEPT !.phase = p]
           recipients == Proposers \ s.exhausted
           posted == Deliver(entered, recipients)
<1>0. s \in SessionState /\ recipients \in SUBSET Agents
  BY ProposersType DEF Coherent
<1>1. entered \in SessionState
  BY ZenonT(40), <1>0 DEF SessionState, Phases
<1>2. SetPhase(s, p) \in {s, Fail(entered, "budget", 0), posted}
  BY DEF SetPhase
<1>3. SetPhase(s, p) = s \/ p # s.phase
  BY DEF SetPhase
<1>4. /\ entered.status = s.status /\ entered.phase = p /\ entered.engine = s.engine
      /\ entered.proposalCount = s.proposalCount /\ entered.deadline = s.deadline
      /\ entered.llm = s.llm /\ entered.mail = s.mail /\ entered.reviser = s.reviser
      /\ entered.exhausted = s.exhausted /\ entered.agentState = s.agentState
      /\ entered.voteTries = s.voteTries /\ SameCalls(s, entered)
      /\ entered.decisionTries = s.decisionTries \/ entered.decisionTries = [b \in Agents |-> 0]
  BY <1>0 DEF SessionState, SameCalls
<1> HIDE DEF entered, recipients
<1>5. Coherent(entered)
  <2>1. \A b \in Agents : entered.decisionTries[b] <= 2
    BY <1>4 DEF Coherent, Numbered
  <2>2. Numbered(entered)
    BY <1>4, <2>1 DEF Coherent, Numbered, SameCalls
  <2>3. ASSUME ~Terminal(s)
        PROVE  Live(entered)
    <3>1. Live(s) /\ s.phase \in {"discussion", "synthesis"}
      BY <2>3 DEF Coherent
    <3>2. Current(entered)
      BY <1>4, <3>1 DEF Live, Current, SameCalls
    <3>3. Between(s)
      BY <3>1 DEF Live, Ballot
    <3>4. Between(entered)
      BY <1>4, <3>1, <3>3 DEF Between
    <3>. QED
      BY <1>4, <3>1, <3>2, <3>4 DEF Live
  <2>. QED
    BY <1>1, <1>4, <2>2, <2>3 DEF Coherent, Terminal
<1>6. CASE SetPhase(s, p) = s
  BY <1>6, StepRefl
<1>7. SameCalls(s, entered) /\ Path(s, entered, a) /\ Informed(s, entered, W)
  BY <1>0, <1>4, SessionFields DEF Path, Stayed, Informed
<1>8. ASSUME ~Terminal(entered)
      PROVE  /\ ~Late(s)
             /\ \A b \in Agents : Used(s, b) <= Used(entered, b)
  <2>1. s.phase \in {"discussion", "synthesis"}
    BY <1>4, <1>8 DEF Terminal
  <2>2. \A b \in Agents : Used(s, b) = 0
    BY <2>1 DEF Used
  <2>. QED
    BY <1>1, <2>1, <2>2, UsedType DEF Late
<1>9. CASE SetPhase(s, p) = Fail(entered, "budget", 0)
  <2> DEFINE u == Fail(entered, "budget", 0)
  <2>1. Step(entered, u, a, W)
    BY <1>5, FailStep DEF FailReasons
  <2>2. Terminal(u)
    BY <1>1 DEF Fail, Finalize, Terminal, SessionState
  <2> HIDE DEF u
  <2>3. Change(s, u, a, W)
    <3>1. SameCalls(s, u) /\ Path(s, u, a)
      BY <1>7, <2>1, PathTrans DEF Step, Change, SameCalls
    <3>2. Informed(s, u, W)
      BY <1>4, <2>1 DEF Step, Change, Informed, SameCalls
    <3>. QED
      BY <2>2, <3>1, <3>2, EndedChange
  <2>4. Step(s, u, a, W)
    BY <2>1, <2>3 DEF Step
  <2>. QED
    BY <1>9, <2>4 DEF u
<1>10. CASE SetPhase(s, p) = posted
  <2>1. /\ posted \in SessionState /\ posted.mail = s.mail \cup (recipients \ s.exhausted)
        /\ posted.engine = s.engine /\ posted.exhausted = s.exhausted
        /\ posted.phase = p /\ posted.status = s.status
    BY <1>0, <1>1, <1>4 DEF Deliver, SessionState
  <2>2. Step(entered, posted, a, W)
    BY <1>0, <1>5, DeliverStep
  <2>3. SameCalls(s, posted) /\ Path(s, posted, a)
    BY <1>7, <2>2, PathTrans DEF Step, Change, SameCalls
  <2>4. Informed(s, posted, W)
    BY <1>4, <2>2 DEF Step, Change, Informed, SameCalls
  <2> HIDE DEF posted
  <2>5. Fed(s, posted)
    <3>1. ASSUME NEW b \in Agents, Expected(posted, b)
          PROVE  b \in posted.mail
      <4>1. p = "proposal" /\ b \in Proposers \ s.exhausted
        BY <2>1, <3>1 DEF Expected, Late, PhaseAllows
      <4>. QED
        BY <2>1, <4>1 DEF recipients
    <3>. QED
      BY <3>1 DEF Fed
  <2>6. Onward(s, posted)
    <3>1. \A b \in Agents : Used(s, b) \in Nat /\ Used(entered, b) \in Nat /\ Used(posted, b) \in Nat
      BY <1>0, <1>1, <2>1, UsedType
    <3>2. ~Terminal(posted) => ~Terminal(entered)
      BY <1>4, <2>1 DEF Terminal
    <3>. QED
      BY <1>8, <2>2, <3>1, <3>2 DEF Step, Change, Onward
  <2>7. Step(s, posted, a, W)
    BY <2>2, <2>3, <2>4, <2>5, <2>6 DEF Step, Change
  <2>. QED
    BY <1>10, <2>7
<1>. QED
  BY <1>2, <1>6, <1>9, <1>10

LEMMA SyncPhaseStep ==
  ASSUME NEW W, NEW s, Coherent(s), NEW a
  PROVE  Step(s, SyncPhase(s), a, W)
<1>1. CASE s.status = "voting"
  <2>1. s.phase = "voting"
    BY <1>1 DEF Coherent, Live, Ballot, Between, Terminal
  <2>. QED
    BY <1>1, <2>1, StepRefl DEF SyncPhase, SetPhase
<1>2. CASE s.status # "voting" /\ Decisive(s.phase)
  BY <1>2, StepRefl DEF SyncPhase
<1>3. CASE s.status # "voting" /\ ~Decisive(s.phase)
  <2>1. Terminal(s) \/ s.phase \in {"discussion", "synthesis"}
    BY <1>3, SessionFields DEF Coherent, Live, Ballot, Between, Decisive, Phases
  <2>2. SyncPhase(s) \in {s, SetPhase(s, "proposal"), SetPhase(s, "synthesis")}
    BY <1>3 DEF SyncPhase
  <2>. QED
    BY <2>1, <2>2, SetPhaseStep, StepRefl
<1>. QED
  BY <1>1, <1>2, <1>3

LEMMA CloseDiscussionStep ==
  ASSUME NEW W, NEW s, Coherent(s), NEW a
  PROVE  Step(s, CloseDiscussion(s, a), a, W)
  BY SetPhaseStep, StepRefl DEF CloseDiscussion

LEMMA AdvancePhaseStep ==
  ASSUME NEW W, NEW s, Coherent(s), NEW a
  PROVE  Step(s, AdvancePhase(s), a, W)
<1> DEFINE synced == SyncPhase(s)
           next   == NextPhase(synced.phase)
<1>1. Step(s, synced, a, W)
  BY SyncPhaseStep
<1>2. AdvancePhase(s) \in {s, synced} \/ (AtBoundary(synced) /\ AdvancePhase(s) = SetPhase(synced, next))
  BY DEF AdvancePhase
<1>3. AtBoundary(synced) => synced.phase \in {"discussion", "synthesis"}
  BY DEF AtBoundary
<1>4. next \in {"synthesis", "proposal"}
  BY DEF NextPhase
<1> HIDE DEF synced, next
<1>5. AtBoundary(synced) => Step(synced, SetPhase(synced, next), a, W)
  BY <1>1, <1>3, <1>4, SetPhaseStep DEF Step
<1>. QED
  BY <1>1, <1>2, <1>5, StepRefl, StepTrans

LEMMA AdvancedStep ==
  ASSUME NEW W, NEW s, Coherent(s), NEW a
  PROVE  Step(s, Advanced(s), a, W)
<1>1. Step(s, AdvancePhase(s), a, W) /\ Coherent(AdvancePhase(s))
  BY AdvancePhaseStep DEF Step
<1>2. Step(AdvancePhase(s), AdvancePhase(AdvancePhase(s)), a, W)
  BY <1>1, AdvancePhaseStep
<1>. QED
  BY <1>1, <1>2, StepTrans DEF Advanced

-----------------------------------------------------------------------------
(* Verdicts *)

(* A ballot without a rejection is not rejected. *)
LEMMA RejectedByAVoter ==
  ASSUME NEW t, NEW policy, t.rejections = {}
  PROVE  Decide(t, policy) # "rejected"
  BY DEF Decide, DecideUnanimous, DecideMajority, DecideParticipating

LEMMA CancelVotingCallsEffect ==
  ASSUME NEW s, Counted(s), ~Terminal(s)
  PROVE  LET cut == CancelVotingCalls(s)
         IN  /\ cut \in SessionState
             /\ cut = [s EXCEPT !.llm = cut.llm]
             /\ \A b \in Agents : cut.llm[b] = "running" => s.callPhase[b] # "voting"
<1> DEFINE llm == [b \in Agents |->
                     IF s.callProposal[b] = s.engine.version /\ s.llm[b] = "running"
                     THEN "cancelled" ELSE s.llm[b]]
<1>1. s \in SessionState
  BY DEF Counted
<1>2. CancelVotingCalls(s) = [s EXCEPT !.llm = llm]
  BY DEF CancelVotingCalls
<1>3. CancelVotingCalls(s) \in SessionState
  BY <1>1, CancelVotingCallsQuiet, QuietState
<1>4. CancelVotingCalls(s).llm = llm
  BY <1>1, <1>2 DEF SessionState
<1>5. \A b \in Agents : llm[b] = "running" => s.callPhase[b] # "voting"
  BY DEF Counted, Current
<1>. QED
  BY <1>2, <1>3, <1>4, <1>5

(* A verdict that ends the session. *)
LEMMA VerdictEnds ==
  ASSUME NEW W, NEW s, Counted(s), ~Terminal(s), NEW a, NEW u \in SessionState,
         u.status \in {"completed", "failed"},
         u.engine.version = s.engine.version, u.engine.proposer = s.engine.proposer,
         u.engine.tally = s.engine.tally, u.proposalCount = s.proposalCount,
         u.voteTries = s.voteTries,
         \A b \in Agents : u.decisionTries[b] \in {0, s.decisionTries[b]},
         SameCalls(s, u)
  PROVE  Step(s, u, a, W)
<1>1. Terminal(u)
  BY DEF Terminal
<1>2. Numbered(u)
  <2>1. \A b \in Agents : u.decisionTries[b] <= 2
    BY DEF Counted, Numbered
  <2>. QED
    BY <2>1 DEF Counted, Numbered, SameCalls
<1>3. Path(s, u, a)
  BY DEF Path, Ended, Counted, Ballot
<1>4. Informed(s, u, W)
  BY SessionFields DEF Informed, Voted, Counted
<1>5. Change(s, u, a, W)
  BY <1>1, <1>3, <1>4, EndedChange
<1>. QED
  BY <1>1, <1>2, <1>5 DEF Step, Coherent

LEMMA CompleteStep ==
  ASSUME NEW W, NEW s, Counted(s), ~Terminal(s), NEW a
  PROVE  Step(s, Complete(CancelVotingCalls(s)), a, W)
<1> DEFINE cut == CancelVotingCalls(s)
           u   == Complete(cut)
<1>1. s \in SessionState /\ cut \in SessionState /\ cut = [s EXCEPT !.llm = cut.llm]
  BY CancelVotingCallsEffect DEF Counted
<1> HIDE DEF cut
<1>2. u \in SessionState
  BY <1>1, CompleteQuiet, QuietState
<1>3. /\ u.status = "completed" /\ u.engine = Resolve(s.engine)
      /\ u.proposalCount = s.proposalCount /\ u.voteTries = s.voteTries
      /\ u.decisionTries = s.decisionTries /\ SameCalls(s, u)
  BY <1>1 DEF Complete, Finalize, Terminal, SessionState, SameCalls
<1>4. /\ u.engine.version = s.engine.version /\ u.engine.proposer = s.engine.proposer
      /\ u.engine.tally = s.engine.tally
  BY <1>1, <1>3, SessionFields DEF Resolve, Engine
<1> HIDE DEF u
<1>5. Step(s, u, a, W)
  BY <1>2, <1>3, <1>4, VerdictEnds
<1>. QED
  BY <1>5 DEF u, cut

LEMMA GiveUpStep ==
  ASSUME NEW W, NEW s, Counted(s), ~Terminal(s), NEW a
  PROVE  Step(s, GiveUp(CancelVotingCalls(s)), a, W)
<1> DEFINE cut == CancelVotingCalls(s)
           u   == GiveUp(cut)
<1>1. s \in SessionState /\ cut \in SessionState /\ cut = [s EXCEPT !.llm = cut.llm]
  BY CancelVotingCallsEffect DEF Counted
<1> HIDE DEF cut
<1>2. u \in SessionState
  BY <1>1, GiveUpQuiet, QuietState
<1>3. /\ u.status = "failed" /\ u.engine = Resolve(s.engine)
      /\ u.proposalCount = s.proposalCount /\ u.voteTries = s.voteTries
      /\ u.decisionTries = s.decisionTries /\ SameCalls(s, u)
  BY <1>1 DEF GiveUp, Fail, Finalize, Terminal, SessionState, SameCalls
<1>4. /\ u.engine.version = s.engine.version /\ u.engine.proposer = s.engine.proposer
      /\ u.engine.tally = s.engine.tally
  BY <1>1, <1>3, SessionFields DEF Resolve, Engine
<1> HIDE DEF u
<1>5. Step(s, u, a, W)
  BY <1>2, <1>3, <1>4, VerdictEnds
<1>. QED
  BY <1>5 DEF u, cut

LEMMA SendBackStep ==
  ASSUME NEW W, NEW s, Counted(s), ~Terminal(s), NEW a, s.engine.proposer # a
  PROVE  Step(s, SendBack(CancelVotingCalls(s)), a, W)
<1> DEFINE cut == CancelVotingCalls(s)
           u   == SendBack(cut)
           back == [cut EXCEPT !.engine = Resolve(cut.engine),
                               !.reviser = {cut.engine.proposer}, !.deadline = FALSE]
           entered == [back EXCEPT !.status = "running", !.phase = "revision",
                                   !.unresponsive = {},
                                   !.decisionTries = [b \in Agents |-> 0]]
           recipients == {s.engine.proposer} \ s.exhausted
           posted == Deliver(entered, recipients)
<1>1. /\ s \in SessionState /\ cut \in SessionState /\ cut = [s EXCEPT !.llm = cut.llm]
      /\ \A b \in Agents : cut.llm[b] = "running" => s.callPhase[b] # "voting"
  BY CancelVotingCallsEffect DEF Counted
<1>2. s.phase = "voting" /\ s.status = "voting"
  BY DEF Counted, Ballot
<1> HIDE DEF cut
<1>3. u \in SessionState
  BY <1>1, SendBackQuiet, QuietState DEF Terminal, SessionState
<1>4. /\ Resolve(s.engine).version = s.engine.version /\ ~Resolve(s.engine).open
      /\ Resolve(s.engine).proposer = s.engine.proposer
      /\ Resolve(s.engine).tally = s.engine.tally
      /\ s.engine.proposer \in Agents
  BY <1>1, SessionFields DEF Resolve, Engine
<1>5. cut.engine = s.engine /\ cut.phase = "voting" /\ cut.exhausted = s.exhausted
  BY <1>1, <1>2 DEF SessionState
<1>6. u = IF s.engine.version >= MaxProposals
          THEN Fail(back, "no_quorum", s.engine.version)
          ELSE IF recipients = {} THEN Fail(entered, "budget", 0)
          ELSE posted
  <2>1. SetPhase([back EXCEPT !.status = "running"], "revision") =
          IF recipients = {} THEN Fail(entered, "budget", 0) ELSE posted
    BY <1>1, <1>5 DEF SetPhase, Decisive, SessionState
  <2>. QED
    BY <1>5, <2>1 DEF SendBack
<1>7. /\ back.status = "voting" /\ back.engine = Resolve(s.engine)
      /\ back.proposalCount = s.proposalCount /\ back.voteTries = s.voteTries
      /\ back.decisionTries = s.decisionTries /\ SameCalls(s, back)
  BY <1>1, <1>2, <1>5 DEF SessionState, SameCalls
<1>8. /\ entered.status = "running" /\ entered.engine = Resolve(s.engine)
      /\ entered.phase = "revision" /\ ~entered.deadline
      /\ entered.reviser = {s.engine.proposer} /\ entered.llm = cut.llm
      /\ entered.exhausted = s.exhausted
      /\ entered.proposalCount = s.proposalCount /\ entered.voteTries = s.voteTries
      /\ entered.decisionTries = [b \in Agents |-> 0] /\ SameCalls(s, entered)
  BY <1>1, <1>5 DEF SessionState, SameCalls
<1>81. back \in SessionState /\ entered \in SessionState
  <2>1. Resolve(cut.engine) \in Engine /\ {cut.engine.proposer} \in SUBSET Agents
    BY <1>1, ResolveType, SessionFields
  <2>2. "running" \in Statuses /\ "revision" \in Phases /\ [b \in Agents |-> 0] \in [Agents -> Nat]
    BY DEF Statuses, Phases
  <2>3. back \in SessionState
    BY <1>1, <2>1 DEF SessionState
  <2> HIDE DEF back
  <2>. QED
    BY <2>2, <2>3 DEF SessionState
<1>9. ASSUME NEW x \in {back, entered}, NEW r, NEW d, u = Fail(x, r, d)
      PROVE  Step(s, u, a, W)
  <2>0. ~Terminal(x) /\ x \in SessionState
    BY <1>7, <1>8, <1>81 DEF Terminal
  <2> HIDE DEF u, back, entered
  <2>1. /\ u.status = "failed" /\ u.engine = x.engine
        /\ u.proposalCount = x.proposalCount /\ u.voteTries = x.voteTries
        /\ u.decisionTries = x.decisionTries /\ SameCalls(x, u)
    BY <1>9, <2>0 DEF Fail, Finalize, SessionState, SameCalls
  <2>2. /\ u.engine = Resolve(s.engine)
        /\ u.proposalCount = s.proposalCount /\ u.voteTries = s.voteTries
        /\ u.decisionTries \in {s.decisionTries, [b \in Agents |-> 0]} /\ SameCalls(s, u)
    BY <1>7, <1>8, <2>1 DEF SameCalls
  <2>. QED
    BY <1>3, <1>4, <2>1, <2>2, VerdictEnds
<1>10. ASSUME u = posted, ~(s.engine.version >= MaxProposals)
       PROVE  Step(s, u, a, W)
  <2>1. /\ u.status = "running" /\ u.engine = Resolve(s.engine)
        /\ u.phase = "revision" /\ ~u.deadline
        /\ u.reviser = {s.engine.proposer} /\ u.llm = cut.llm
        /\ u.exhausted = s.exhausted
        /\ u.proposalCount = s.proposalCount /\ u.voteTries = s.voteTries
        /\ u.decisionTries = [b \in Agents |-> 0] /\ SameCalls(s, u)
        /\ recipients \subseteq u.mail
    <3>1. entered.mail = cut.mail
      BY <1>1 DEF SessionState
    <3> HIDE DEF entered
    <3>2. /\ posted.mail = entered.mail \cup (recipients \ entered.exhausted)
          /\ posted = [entered EXCEPT !.mail = posted.mail]
      BY <1>81 DEF Deliver, SessionState
    <3>3. recipients \subseteq posted.mail
      BY <1>8, <3>2
    <3> HIDE DEF posted
    <3>. QED
      BY <1>8, <1>81, <1>10, <3>2, <3>3 DEF SameCalls, SessionState
  <2> HIDE DEF u, posted, entered, back
  <2>2. s.proposalCount < MaxProposals /\ s.proposalCount <= MaxProposals
    <3>1. s.proposalCount \in Nat /\ s.engine.version \in Nat /\ MaxProposals \in Nat
      BY <1>1, SessionFields, PolicyAssumption DEF ValidPolicy
    <3>2. s.proposalCount <= s.engine.version
      BY DEF Counted, Numbered
    <3>. QED
      BY <1>10, <3>1, <3>2
  <2>3. Coherent(u)
    <3>1. Numbered(u)
      BY <1>4, <2>1 DEF Counted, Numbered, SameCalls
    <3>2. Current(u)
      BY <1>1, <2>1 DEF Current, SameCalls
    <3>3. Between(u)
      BY <1>4, <2>1 DEF Between, Counted, Ballot
    <3>. QED
      BY <1>3, <2>1, <2>2, <3>1, <3>2, <3>3 DEF Coherent, Live
  <2>4. Path(s, u, a)
    BY <1>4, <2>1, <2>2 DEF Path, SentBack, Counted, Ballot
  <2>5. Informed(s, u, W)
    BY <1>1, <1>4, <2>1, SessionFields DEF Informed, Voted
  <2>6. Fed(s, u)
    <3>1. ASSUME NEW b \in Agents, Expected(u, b)
          PROVE  b \in recipients
      BY <2>1, <3>1 DEF Expected, PhaseAllows
    <3>. QED
      BY <2>1, <3>1 DEF Fed
  <2>7. Onward(s, u)
    <3>1. Late(u)
      BY <2>1 DEF Late
    <3>2. ASSUME NEW b \in Agents
          PROVE  Used(s, b) <= Used(u, b)
      <4>1. s.voteTries[b] \in Nat /\ s.voteTries[b] <= 2 /\ s.proposalCount \in Nat
        BY <1>1 DEF Counted, Numbered, SessionState
      <4>2. Used(s, b) = 2 * s.proposalCount
                           + (IF b = s.engine.proposer THEN 0 ELSE s.voteTries[b])
        BY <1>2 DEF Used
      <4>3. Used(u, b) = 2 * s.proposalCount + (IF b = s.engine.proposer THEN 0 ELSE 2)
        BY <1>4, <2>1 DEF Used
      <4>. QED
        BY <4>1, <4>2, <4>3
    <3>. QED
      BY <3>1, <3>2 DEF Onward
  <2>. QED
    BY <2>1, <2>3, <2>4, <2>5, <2>6, <2>7 DEF Step, Change
<1>11. Step(s, u, a, W)
  BY <1>6, <1>9, <1>10
<1>. QED
  BY <1>11 DEF u, cut

LEMMA ApplyOutcomeStep ==
  ASSUME NEW W, NEW s, Counted(s), NEW a,
         Terminal(s) \/ s.engine.proposer # a \/ s.engine.tally.rejections = {}
  PROVE  Step(s, ApplyOutcome(s), a, W)
<1>1. CASE Terminal(s)
  <2>1. Coherent(s)
    BY <1>1 DEF Counted, Coherent
  <2>. QED
    BY <1>1, <2>1, StepRefl DEF ApplyOutcome
<1>2. CASE ~Terminal(s) /\ s.engine.outcome = "pending"
  <2>1. Coherent(s)
    BY <1>2 DEF Counted, Coherent, Live, Armed
  <2>. QED
    BY <1>2, <2>1, StepRefl DEF ApplyOutcome
<1>3. CASE ~Terminal(s) /\ s.engine.outcome = "rejected"
  <2>1. s.engine.tally.rejections # {}
    BY <1>3, RejectedByAVoter DEF Counted, Ballot
  <2>. QED
    BY <1>3, <2>1, SendBackStep DEF ApplyOutcome
<1>4. CASE ~Terminal(s) /\ s.engine.outcome \notin {"pending", "rejected"}
  BY <1>4, CompleteStep, GiveUpStep DEF ApplyOutcome
<1>. QED
  BY <1>1, <1>2, <1>3, <1>4

(* The ballot t takes the place of the one that is open, and nothing else
   changes but mail. *)
Retallied(s, u, t) ==
  /\ u \in SessionState
  /\ u.engine = Retally(s.engine, t, Approval)
  /\ u.status = s.status /\ u.phase = s.phase /\ u.reviser = s.reviser
  /\ u.proposalCount = s.proposalCount
  /\ SameCalls(s, u)
  /\ u.voteTries = s.voteTries /\ u.decisionTries = s.decisionTries
  /\ u.exhausted = s.exhausted /\ u.unresponsive = s.unresponsive
  /\ u.agentState = s.agentState /\ u.llm = s.llm
  /\ s.mail \subseteq u.mail

LEMMA RetalliedStep ==
  ASSUME NEW W, NEW s, Coherent(s), s.engine.open, NEW a, NEW t \in Tally, NEW u,
         Retallied(s, u, t),
         t.voters = s.engine.tally.voters,
         Responded(s.engine.tally) \subseteq Responded(t),
         \A b \in (t.approvals \cup t.rejections) \ Voted(s.engine) :
           b \in W /\ s.callPhase[b] = "voting" /\ s.callProposal[b] = s.engine.version,
         u.engine.outcome = "pending" => u.deadline,
         Terminal(s) \/ s.engine.proposer # a \/ t.rejections = {}
  PROVE  Step(s, ApplyOutcome(u), a, W) /\ Fed(u, ApplyOutcome(u))
<1>0. s \in SessionState /\ u \in SessionState
  BY DEF Coherent, Retallied
<1>1. /\ u.engine.version = s.engine.version /\ u.engine.open
      /\ u.engine.proposer = s.engine.proposer /\ u.engine.tally = t
      /\ u.engine.outcome = Decide(t, Approval)
  BY <1>0, RetallyType, SessionFields DEF Retallied
<1>2. Counted(u)
  <2>1. Numbered(u)
    BY <1>1 DEF Coherent, Numbered, Retallied, SameCalls
  <2>2. ASSUME ~Terminal(u)
        PROVE  /\ u.proposalCount <= MaxProposals /\ Current(u) /\ Ballot(u)
    <3>1. ~Terminal(s)
      BY <2>2 DEF Retallied, Terminal
    <3>2. s.proposalCount <= MaxProposals /\ Current(s) /\ Ballot(s)
      BY <3>1 DEF Coherent, Live, Between
    <3>3. Current(u)
      BY <1>1, <3>2 DEF Current, Retallied, SameCalls
    <3>4. Ballot(u)
      BY <1>1, <3>2 DEF Ballot, Retallied
    <3>. QED
      BY <3>2, <3>3, <3>4 DEF Retallied
  <2>. QED
    BY <1>0, <2>1, <2>2 DEF Counted
<1>3. Change(s, u, a, W)
  <2>1. SameCalls(s, u) /\ Path(s, u, a)
    BY <1>1 DEF Retallied, Path, Stayed
  <2>2. Informed(s, u, W)
    BY <1>0, <1>1, SessionFields DEF Informed, Voted
  <2>3. Fed(s, u)
    <3>1. Pending(t) \subseteq Pending(s.engine.tally)
      BY DEF Pending
    <3>2. ASSUME NEW b \in Agents, Expected(u, b)
          PROVE  Expected(s, b)
      BY <1>1, <3>1, <3>2 DEF Expected, PhaseAllows, Late, Terminal, Retallied
    <3>. QED
      BY <3>2 DEF Fed, Retallied
  <2>4. Onward(s, u)
    <3>1. \A b \in Agents : Used(u, b) = Used(s, b)
      BY <1>1 DEF Used, Retallied
    <3>. QED
      BY <1>0, <3>1, UsedType DEF Onward, Late, Retallied
  <2>. QED
    BY <2>1, <2>2, <2>3, <2>4 DEF Change
<1>4. Step(u, ApplyOutcome(u), a, W)
  <2>1. Terminal(u) \/ u.engine.proposer # a \/ u.engine.tally.rejections = {}
    BY <1>1 DEF Retallied, Terminal
  <2>. QED
    BY <1>2, <2>1, ApplyOutcomeStep
<1>5. Step(s, ApplyOutcome(u), a, W)
  BY <1>0, <1>3, <1>4, ChangeTrans DEF Step, Coherent
<1>. QED
  BY <1>4, <1>5 DEF Step, Change

LEMMA AbstainVoterStep ==
  ASSUME NEW W, NEW s, Coherent(s), NEW a \in Agents
  PROVE  /\ Step(s, AbstainVoter(s, a), a, W)
         /\ InVote(s, a) /\ Expected(AbstainVoter(s, a), a) => a \in AbstainVoter(s, a).mail
<1>1. CASE ~(s.engine.open /\ a \in Pending(s.engine.tally))
  BY <1>1, StepRefl DEF AbstainVoter, InVote
<1>2. CASE s.engine.open /\ a \in Pending(s.engine.tally)
  <2> DEFINE t == WithAbstained(s.engine.tally, {a})
             u == [s EXCEPT !.engine = Retally(s.engine, t, Approval)]
  <2>0. s \in SessionState /\ s.engine \in Engine /\ s.engine.tally \in Tally
    BY SessionFields DEF Coherent
  <2>1. AbstainVoter(s, a) = ApplyOutcome(u)
    BY <1>2 DEF AbstainVoter, RegisterAbstention
  <2>2. /\ t \in Tally /\ t.voters = s.engine.tally.voters
        /\ t.approvals = s.engine.tally.approvals
        /\ t.rejections = s.engine.tally.rejections
        /\ Responded(s.engine.tally) \subseteq Responded(t)
        /\ a \notin Pending(t)
    BY <1>2, <2>0 DEF WithAbstained, Tally, Responded, Pending
  <2> HIDE DEF t
  <2>3. Retally(s.engine, t, Approval) \in Engine
    BY <2>0, <2>2, RetallyType
  <2>4. Retallied(s, u, t) /\ u.deadline = s.deadline /\ u.status = s.status
    BY <2>0, <2>3 DEF Retallied, SameCalls, SessionState
  <2> HIDE DEF u
  <2>5. Terminal(s) \/ (s.deadline /\ s.engine.proposer # a)
    BY <1>2 DEF Coherent, Live, Between, Ballot, Armed, Pending
  <2>6. /\ Step(s, ApplyOutcome(u), a, W)
        /\ InVote(s, a) /\ Expected(ApplyOutcome(u), a) => a \in ApplyOutcome(u).mail
    <3>1. CASE Terminal(s)
      <4>1. ApplyOutcome(u) = u
        BY <2>4, <3>1 DEF ApplyOutcome, Terminal
      <4>2. /\ u.engine.version = s.engine.version /\ u.engine.tally = t
            /\ u.engine.proposer = s.engine.proposer
        BY <2>0, <2>2, <2>4, RetallyType DEF Retallied
      <4>3. Coherent(u) /\ Terminal(u)
        BY <2>4, <3>1, <4>2 DEF Coherent, Numbered, Retallied, SameCalls, Terminal
      <4>4. Path(s, u, a) /\ SameCalls(s, u)
        BY <2>4, <4>2 DEF Path, Stayed, Retallied
      <4>5. Informed(s, u, W)
        BY <2>0, <2>2, <4>2, SessionFields DEF Informed, Voted
      <4>. QED
        BY <4>1, <4>3, <4>4, <4>5, EndedChange DEF Step, Expected
    <3>2. CASE ~Terminal(s)
      <4>1. Step(s, ApplyOutcome(u), a, W) /\ Fed(u, ApplyOutcome(u))
        BY <1>2, <2>2, <2>4, <2>5, <3>2, RetalliedStep DEF Voted
      <4>2. u.engine.tally = t
        BY <2>0, <2>2, <2>4, RetallyType DEF Retallied
      <4>3. InVote(s, a) => ~Expected(u, a)
        BY <2>2, <2>4, <4>2 DEF InVote, Expected, PhaseAllows, Retallied
      <4>. QED
        BY <4>1, <4>3 DEF Fed
    <3>. QED
      BY <3>1, <3>2
  <2>. QED
    BY <2>1, <2>6
<1>. QED
  BY <1>1, <1>2

LEMMA FailEnds ==
  ASSUME NEW s \in SessionState, NEW r, NEW d
  PROVE  Terminal(Fail(s, r, d))
  BY DEF Fail, Finalize, Terminal, SessionState

LEMMA MarkUnresponsiveStep ==
  ASSUME NEW W, NEW s, Coherent(s), NEW a \in Agents
  PROVE  /\ Step(s, MarkUnresponsive(s, a), a, W)
         /\ s.phase # "voting" => ~Expected(MarkUnresponsive(s, a), a)
<1> DEFINE marked == [s EXCEPT !.unresponsive = s.unresponsive \cup {a}]
<1>0. s \in SessionState
  BY DEF Coherent
<1>1. Minor(s, marked)
  BY <1>0 DEF Minor, SameCalls, SessionState
<1>2. MarkUnresponsive(s, a) \in {marked, Fail(marked, "budget", 0)}
  BY DEF MarkUnresponsive
<1>25. marked.phase = s.phase /\ a \in marked.unresponsive
  BY <1>0 DEF SessionState
<1>26. s.phase # "voting" => ~Expected(marked, a)
  BY <1>25 DEF Expected, Late, PhaseAllows
<1> HIDE DEF marked
<1>27. ~Expected(Fail(marked, "budget", 0), a)
  BY <1>1, FailEnds DEF Expected, Minor
<1>3. Step(s, marked, a, W) /\ Coherent(marked)
  BY <1>1, MinorStep DEF Step
<1>4. Step(marked, Fail(marked, "budget", 0), a, W)
  BY <1>3, FailStep DEF FailReasons
<1>5. Step(s, Fail(marked, "budget", 0), a, W)
  BY <1>3, <1>4, StepTrans
<1>. QED
  BY <1>2, <1>26, <1>27, <1>3, <1>5

LEMMA OnFatalStep ==
  ASSUME NEW W, NEW s, Coherent(s), NEW a \in Agents
  PROVE  Step(s, OnFatal(s, a), a, W)
<1> DEFINE dead == OnState(s, a, "dead")
<1>1. Step(s, dead, a, W)
  BY OnStateStep
<1>2. OnFatal(s, a) \in {dead, Fail(dead, "agent_error", 0)}
  BY DEF OnFatal
<1> HIDE DEF dead
<1>3. Step(dead, Fail(dead, "agent_error", 0), a, W)
  BY <1>1, FailStep DEF Step, FailReasons
<1>. QED
  BY <1>1, <1>2, <1>3, StepTrans

LEMMA OnExhaustedStep ==
  ASSUME NEW W, NEW s, Coherent(s), NEW a \in Agents
  PROVE  Step(s, OnExhausted(s, a), a, W)
<1> DEFINE out == [s EXCEPT !.exhausted = s.exhausted \cup {a}, !.mail = s.mail \ {a}]
<1>0. s \in SessionState
  BY DEF Coherent
<1>1. Minor(s, out)
  BY ZenonT(40), <1>0 DEF Minor, SameCalls, SessionState
<1>2. OnExhausted(s, a) \in {s, out, AbstainVoter(out, a), Fail(out, "budget", 0)}
  BY DEF OnExhausted
<1> HIDE DEF out
<1>3. Step(s, out, a, W) /\ Coherent(out)
  BY <1>1, MinorStep DEF Step
<1>4. Step(out, AbstainVoter(out, a), a, W) /\ Step(out, Fail(out, "budget", 0), a, W)
  BY <1>3, FailStep, AbstainVoterStep DEF FailReasons
<1>. QED
  BY <1>2, <1>3, <1>4, StepRefl, StepTrans

LEMMA RefuseStep ==
  ASSUME NEW W, NEW s, Coherent(s), NEW a \in Agents
  PROVE  Step(s, Refuse(s, a), a, W)
  BY StepRefl, FailStep, AbstainVoterStep, MarkUnresponsiveStep DEF Refuse, FailReasons

LEMMA ReleasedMinor ==
  ASSUME NEW s \in SessionState, NEW a \in Agents
  PROVE  Minor(s, Released(s, a))
<1> DEFINE u == Released(s, a)
<1>1. u \in SessionState /\ u.llm = [s.llm EXCEPT ![a] = "none"]
  BY ReleasedEffect
<1>2. \A b \in Agents : u.llm[b] = IF b = a THEN "none" ELSE s.llm[b]
  BY <1>1 DEF SessionState
<1>3. /\ u.status = s.status /\ u.phase = s.phase /\ u.engine = s.engine
      /\ u.proposalCount = s.proposalCount /\ u.deadline = s.deadline
      /\ u.reviser = s.reviser /\ SameCalls(s, u)
      /\ u.voteTries = s.voteTries /\ u.decisionTries = s.decisionTries
      /\ u.exhausted = s.exhausted /\ u.unresponsive = s.unresponsive
      /\ u.agentState = s.agentState /\ u.mail = s.mail
  BY DEF Released, SessionState, SameCalls
<1> HIDE DEF u
<1>4. Minor(s, u)
  BY <1>1, <1>2, <1>3 DEF Minor
<1>. QED
  BY <1>4 DEF u

LEMMA SettleStep ==
  ASSUME NEW W, NEW s, Coherent(s), NEW a \in Agents, NEW usage \in Usages
  PROVE  Step(s, Settle(s, a, usage), a, W)
<1> DEFINE r == Released(s, a)
           w == r.work + usage.work
           p == r.processed + usage.processed
           used == [r EXCEPT !.work = w, !.processed = p]
           synced == SyncPhase(used)
<1>0. s \in SessionState /\ r \in SessionState
  BY ReleasedEffect DEF Coherent
<1>1. w \in Nat /\ p \in Nat
  BY <1>0, SessionFields, ModelAssumption
<1>2. Settle(s, a, usage) \in {r, synced, Fail(synced, "budget", 0)}
  BY DEF Settle
<1>3. Step(s, r, a, W) /\ Coherent(r)
  BY <1>0, ReleasedMinor, MinorStep DEF Step
<1> HIDE DEF r, w, p
<1>4. Minor(r, used)
  BY <1>0, <1>1 DEF Minor, SameCalls, SessionState
<1>5. Step(r, used, a, W) /\ Coherent(used)
  BY <1>3, <1>4, MinorStep DEF Step
<1> HIDE DEF used
<1>6. Step(used, synced, a, W) /\ Coherent(synced)
  BY <1>5, SyncPhaseStep DEF Step
<1> HIDE DEF synced
<1>7. Step(synced, Fail(synced, "budget", 0), a, W)
  BY <1>6, FailStep DEF FailReasons
<1>. QED
  BY <1>2, <1>3, <1>5, <1>6, <1>7, StepTrans

LEMMA AfterRetryStep ==
  ASSUME NEW W, NEW s, Coherent(s), NEW a \in Agents
  PROVE  Step(s, AfterRetry(s, a), a, W)
  BY StepRefl, AbstainVoterStep, MarkUnresponsiveStep DEF AfterRetry

(* What is asked of agents that have nothing more to say: they are not waited
   for, or they have mail. *)
LEMMA RefuseSettles ==
  ASSUME NEW s, Coherent(s), NEW a \in Agents, Expected(Refuse(s, a), a)
  PROVE  a \in Refuse(s, a).mail
<1>1. CASE Terminal(s) \/ ~PhaseAllows(s, a)
  BY <1>1 DEF Refuse, Expected
<1>2. CASE ~(Terminal(s) \/ ~PhaseAllows(s, a)) /\ ~Fits(s)
  <2>1. Terminal(Refuse(s, a))
    BY <1>2, FailEnds DEF Refuse, Coherent
  <2>. QED
    BY <2>1 DEF Expected
<1>3. CASE ~(Terminal(s) \/ ~PhaseAllows(s, a)) /\ Fits(s) /\ s.phase = "voting"
  <2>1. InVote(s, a) /\ Refuse(s, a) = AbstainVoter(s, a)
    BY <1>3 DEF Refuse, PhaseAllows, InVote
  <2>. QED
    BY <2>1, AbstainVoterStep
<1>4. CASE ~(Terminal(s) \/ ~PhaseAllows(s, a)) /\ Fits(s) /\ s.phase # "voting"
  BY <1>4, MarkUnresponsiveStep DEF Refuse
<1>. QED
  BY <1>1, <1>2, <1>3, <1>4

LEMMA AfterRetrySettles ==
  ASSUME NEW s, Coherent(s), NEW a \in Agents, ~Retries(s, a), Expected(AfterRetry(s, a), a)
  PROVE  a \in AfterRetry(s, a).mail
<1>1. CASE InVote(s, a)
  <2>1. AfterRetry(s, a) = AbstainVoter(s, a)
    BY <1>1 DEF AfterRetry
  <2>. QED
    BY <1>1, <2>1, AbstainVoterStep
<1>2. CASE ~InVote(s, a) /\ Decisive(s.phase)
  BY <1>2, MarkUnresponsiveStep DEF AfterRetry, Decisive
<1>3. CASE ~InVote(s, a) /\ ~Decisive(s.phase)
  BY <1>3 DEF AfterRetry, Expected, Late, PhaseAllows, InVote, Decisive
<1>. QED
  BY <1>1, <1>2, <1>3

-----------------------------------------------------------------------------
(* Commands *)

LEMMA SendMessageStep ==
  ASSUME NEW W, NEW s, Coherent(s), NEW a \in Agents, NEW to \in SUBSET Agents
  PROVE  Step(s, SendMessage(s, a, to).s, a, W)
<1> DEFINE n == IF s.chats < MaxMessages THEN s.chats + 1 ELSE s.chats
           counted == [s EXCEPT !.chats = n]
           sent == Deliver(counted, to)
<1>0. s \in SessionState
  BY DEF Coherent
<1>1. n \in Nat
  BY <1>0, SessionFields
<1>2. \/ SendMessage(s, a, to).s \in {ToolError(s, a).s, sent}
      \/ /\ SendMessage(s, a, to).s = SetPhase(sent, "proposal")
         /\ s.phase \in {"discussion", "synthesis"}
  BY DEF SendMessage, Done, sent, counted, n
<1> HIDE DEF n
<1>3. Minor(s, counted) /\ counted \in SessionState /\ counted.phase = s.phase
  BY <1>0, <1>1 DEF Minor, SameCalls, SessionState
<1>4. Step(s, counted, a, W) /\ Coherent(counted)
  BY <1>3, MinorStep DEF Step
<1> HIDE DEF counted
<1>5. Step(counted, sent, a, W) /\ Coherent(sent) /\ sent.phase = s.phase
  BY <1>3, <1>4, DeliverStep DEF Step, Deliver, SessionState
<1> HIDE DEF sent
<1>6. s.phase \in {"discussion", "synthesis"} => Step(sent, SetPhase(sent, "proposal"), a, W)
  BY <1>5, SetPhaseStep
<1>7. Step(s, sent, a, W)
  BY <1>4, <1>5, StepTrans
<1>8. s.phase \in {"discussion", "synthesis"} => Step(s, SetPhase(sent, "proposal"), a, W)
  BY <1>6, <1>7, StepTrans
<1>. QED
  BY <1>2, <1>7, <1>8, ToolErrorStep

(* A submission with an empty content uses up a version. *)
LEMMA BurntStep ==
  ASSUME NEW W, NEW s, Coherent(s), NEW a \in Agents, ~Terminal(s), ~s.engine.open
  PROVE  Step(s, [s EXCEPT !.engine = NextVersion(s.engine)], a, W)
<1> DEFINE e == NextVersion(s.engine)
           u == [s EXCEPT !.engine = e]
<1>0. s \in SessionState /\ s.engine \in Engine /\ s.engine.version \in Nat
      /\ s.proposalCount \in Nat /\ \A b \in Agents : s.callProposal[b] \in Nat
  BY SessionFields DEF Coherent, SessionState
<1>1. /\ e \in Engine /\ e.version = s.engine.version + 1 /\ ~e.open
      /\ e.proposer = s.engine.proposer /\ e.tally = s.engine.tally
  <2>1. e.proposer = s.engine.proposer /\ e.tally = s.engine.tally
    BY <1>0 DEF NextVersion, Engine
  <2>. QED
    BY <1>0, <2>1, NextVersionType
<1> HIDE DEF e
<1>2. /\ u \in SessionState /\ u.engine = e /\ u.status = s.status /\ u.phase = s.phase
      /\ u.proposalCount = s.proposalCount /\ u.deadline = s.deadline
      /\ u.reviser = s.reviser /\ SameCalls(s, u) /\ u.llm = s.llm
      /\ u.voteTries = s.voteTries /\ u.decisionTries = s.decisionTries
      /\ u.exhausted = s.exhausted /\ u.unresponsive = s.unresponsive
      /\ u.agentState = s.agentState /\ u.mail = s.mail
  BY <1>0, <1>1 DEF SessionState, SameCalls
<1> HIDE DEF u
<1>3. Live(s) /\ Between(s)
  BY DEF Coherent, Live, Ballot
<1>4. Coherent(u)
  <2>1. Numbered(u)
    <3>1. s.proposalCount <= s.engine.version
          /\ \A b \in Agents : s.callProposal[b] <= s.engine.version
      BY DEF Coherent, Numbered
    <3>2. s.proposalCount <= e.version /\ \A b \in Agents : s.callProposal[b] <= e.version
      BY <1>0, <1>1, <3>1
    <3>. QED
      BY <1>2, <3>2 DEF Coherent, Numbered, SameCalls
  <2>2. Current(u)
    BY <1>2, <1>3 DEF Live, Current, SameCalls
  <2>3. Between(u)
    BY <1>1, <1>2, <1>3 DEF Between
  <2>. QED
    BY <1>2, <1>3, <2>1, <2>2, <2>3 DEF Coherent, Live
<1>5. Path(s, u, a)
  BY <1>1, <1>2 DEF Path, Stayed
<1>6. Informed(s, u, W)
  BY <1>0, <1>1, <1>2 DEF Informed
<1>7. Fed(s, u)
  BY <1>2, <1>3 DEF Fed, Expected, PhaseAllows, Between, Terminal, Late
<1>8. Onward(s, u)
  <2>1. \A b \in Agents : Used(u, b) = Used(s, b)
    BY <1>1, <1>2 DEF Used
  <2>. QED
    BY <1>0, <1>2, <2>1, UsedType DEF Onward, Late
<1>9. Step(s, u, a, W)
  BY <1>2, <1>4, <1>5, <1>6, <1>7, <1>8 DEF Step, Change
<1>. QED
  BY <1>9 DEF u, e

(* From the submission to the verdict on it: the proposal is opened, announced,
   and its deadline armed. *)
LEMMA OpenedStep ==
  ASSUME NEW W, NEW s, Coherent(s), NEW a \in Agents, s.status = "running",
         s.phase = "revision" => a \in s.reviser,
         ~(s.proposalCount >= MaxProposals),
         NEW u \in SessionState,
         u.status = "voting", u.phase = "voting", u.deadline,
         u.engine = OpenProposal(s.engine, a, Electorate(s), Approval),
         u.proposalCount = s.proposalCount + 1,
         u.voteTries = [b \in Agents |-> 0], u.decisionTries = s.decisionTries,
         SameCalls(s, u), u.llm = s.llm, u.exhausted = s.exhausted,
         u.mail = s.mail \cup ((Agents \ {a}) \ s.exhausted)
  PROVE  Step(s, ApplyOutcome(u), a, W)
<1>0. /\ s \in SessionState /\ s.engine \in Engine /\ s.engine.version \in Nat
      /\ s.proposalCount \in Nat /\ \A b \in Agents : s.callProposal[b] \in Nat
      /\ MaxProposals \in Nat
  BY SessionFields, PolicyAssumption DEF Coherent, SessionState, ValidPolicy
<1>1. /\ u.engine.version = s.engine.version + 1 /\ u.engine.proposer = a
      /\ u.engine.open /\ u.engine.tally.voters \subseteq Agents \ {a}
      /\ u.engine.tally.rejections = {}
      /\ u.engine.outcome = Decide(u.engine.tally, Approval)
  <2>1. Electorate(s) \in SUBSET Agents
    BY DEF Electorate
  <2>2. ASSUME NEW e \in Engine, NEW alive \in SUBSET Agents, NEW f,
               f = OpenProposal(e, a, alive, Approval)
        PROVE  /\ f.version = e.version + 1
               /\ f.proposer = a /\ f.tally = NewTally(alive \ {a})
               /\ f.outcome = Decide(f.tally, Approval)
    BY <2>2, OpenProposalType
  <2>3. /\ u.engine.version = s.engine.version + 1
        /\ u.engine.proposer = a /\ u.engine.tally = NewTally(Electorate(s) \ {a})
        /\ u.engine.outcome = Decide(u.engine.tally, Approval)
    BY <1>0, <2>1, <2>2
  <2>4. u.engine.open
    BY <1>0, NextVersionType DEF OpenProposal, Engine
  <2>. QED
    BY <2>1, <2>3, <2>4 DEF NewTally
<1>2. Live(s) /\ Between(s)
  BY DEF Coherent, Live, Ballot, Terminal
<1>3. /\ s.proposalCount < MaxProposals /\ u.proposalCount <= MaxProposals
      /\ u.proposalCount # 0
  BY <1>0
<1>4. Counted(u)
  <2>1. Numbered(u)
    <3>1. s.proposalCount <= s.engine.version
          /\ \A b \in Agents : s.callProposal[b] <= s.engine.version
      BY DEF Coherent, Numbered
    <3>2. u.proposalCount <= u.engine.version
          /\ \A b \in Agents : s.callProposal[b] <= u.engine.version
      BY <1>0, <1>1, <3>1
    <3>. QED
      BY <3>2 DEF Coherent, Numbered, SameCalls
  <2>2. Current(u)
    BY <1>2 DEF Live, Current, SameCalls, Between
  <2>3. Ballot(u)
    BY <1>1, <1>3 DEF Ballot
  <2>. QED
    BY <1>3, <2>1, <2>2, <2>3 DEF Counted
<1>5. Path(s, u, a)
  <2>1. s.proposalCount # 0 => s.engine.proposer = a
    BY <1>2 DEF Between
  <2>. QED
    BY <1>1, <1>3, <2>1 DEF Path, Opened
<1>6. Informed(s, u, W)
  BY <1>0, <1>1 DEF Informed
<1>7. Fed(s, u)
  <2>1. ASSUME NEW b \in Agents, Expected(u, b)
        PROVE  b \in u.mail
    <3>1. b \notin u.exhausted /\ b \in u.engine.tally.voters
      BY <2>1 DEF Expected, PhaseAllows, Pending
    <3>. QED
      BY <1>1, <3>1
  <2>. QED
    BY <2>1 DEF Fed
<1>8. Onward(s, u)
  <2>1. ASSUME NEW b \in Agents
        PROVE  Used(s, b) <= Used(u, b)
    <3>1. s.decisionTries[b] \in Nat /\ s.decisionTries[b] <= 2
      BY <1>0 DEF Coherent, Numbered, SessionState
    <3>2. Used(u, b) = 2 * (s.proposalCount + 1)
      <4>1. Used(u, b) = 2 * (s.proposalCount + 1)
                           + (IF b = u.engine.proposer THEN 0 ELSE 0)
        BY DEF Used
      <4>. QED
        BY <1>0, <4>1
    <3>3. CASE s.phase = "proposal"
      <4>1. Used(s, b) = s.decisionTries[b]
        BY <3>3 DEF Used
      <4>. QED
        BY <1>0, <3>1, <3>2, <4>1
    <3>4. CASE s.phase = "revision"
      <4>1. Used(s, b) = 2 * s.proposalCount
                           + (IF b = s.engine.proposer THEN s.decisionTries[b] ELSE 2)
        BY <3>4 DEF Used
      <4>. QED
        BY <1>0, <3>1, <3>2, <4>1
    <3>5. CASE s.phase \in {"discussion", "synthesis"}
      <4>1. Used(s, b) = 0
        BY <3>5 DEF Used
      <4>. QED
        BY <1>0, <3>2, <4>1
    <3>. QED
      BY <1>0, <1>2, <3>3, <3>4, <3>5, SessionFields DEF Between, Phases
  <2>. QED
    BY <2>1 DEF Onward, Late
<1>9. Change(s, u, a, W)
  BY <1>5, <1>6, <1>7, <1>8 DEF Change
<1>10. Step(u, ApplyOutcome(u), a, W)
  BY <1>1, <1>4, ApplyOutcomeStep
<1>. QED
  BY <1>0, <1>9, <1>10, ChangeTrans DEF Step, Coherent

LEMMA SubmitResultStep ==
  ASSUME NEW W, NEW s, Coherent(s), NEW a \in Agents, NEW empty \in BOOLEAN,
         s.status = "running", s.phase = "revision" => a \in s.reviser
  PROVE  Step(s, SubmitResult(s, a, empty).s, a, W)
<1> DEFINE burnt == [s EXCEPT !.engine = NextVersion(s.engine)]
           e == OpenProposal(s.engine, a, Electorate(s), Approval)
           n == s.proposalCount + 1
           tries == [b \in Agents |-> 0]
           opened == [s EXCEPT !.engine = e, !.proposalCount = n, !.voteTries = tries,
                               !.status = "voting"]
           posted == Deliver(opened, Agents \ {a})
           voting == SetPhase(posted, "voting")
           armed  == [voting EXCEPT !.deadline = TRUE]
<1>0. s \in SessionState /\ ~Terminal(s)
  BY DEF Coherent, Terminal
<1>1. s.phase # "voting"
  BY <1>0 DEF Coherent, Live, Between, Ballot
<1>2. \/ SubmitResult(s, a, empty).s = ToolError(s, a).s
      \/ /\ ~(s.proposalCount >= MaxProposals) /\ ~s.engine.open
         /\ SubmitResult(s, a, empty).s \in {ToolError(burnt, a).s, ApplyOutcome(armed)}
  BY DEF SubmitResult, Done
<1>3. ASSUME ~s.engine.open
      PROVE  Step(s, ToolError(burnt, a).s, a, W)
  <2>1. Step(s, burnt, a, W)
    BY <1>0, <1>3, BurntStep
  <2> HIDE DEF burnt
  <2>. QED
    BY <2>1, ToolErrorStep, StepTrans DEF Step
<1>4. ASSUME ~(s.proposalCount >= MaxProposals)
      PROVE  Step(s, ApplyOutcome(armed), a, W)
  <2>1. e \in Engine /\ n \in Nat /\ tries \in [Agents -> Nat] /\ "voting" \in Statuses
    <3>1. Electorate(s) \in SUBSET Agents
      BY DEF Electorate
    <3>2. e \in Engine
      BY <1>0, <3>1, OpenProposalType, SessionFields
    <3>. QED
      BY <1>0, <3>2, SessionFields DEF Statuses
  <2> HIDE DEF e, n, tries
  <2>2. opened \in SessionState /\ opened.phase = s.phase /\ opened.exhausted = s.exhausted
    BY <1>0, <2>1 DEF SessionState
  <2>3. posted = [opened EXCEPT !.mail = opened.mail \cup ((Agents \ {a}) \ opened.exhausted)]
    BY DEF Deliver
  <2>4. voting = [posted EXCEPT !.phase = "voting"]
    <3>1. posted.phase # "voting"
      BY ZenonT(40), <1>1, <2>2, <2>3 DEF SessionState
    <3>. QED
      BY <3>1 DEF SetPhase, Decisive
  <2> DEFINE mail == s.mail \cup ((Agents \ {a}) \ s.exhausted)
  <2>5. /\ posted \in SessionState /\ posted.status = "voting"
        /\ posted.engine = e /\ posted.proposalCount = n /\ posted.voteTries = tries
        /\ posted.decisionTries = s.decisionTries /\ SameCalls(s, posted)
        /\ posted.llm = s.llm /\ posted.exhausted = s.exhausted
        /\ posted.mail = mail
    <3>1. /\ opened.mail = s.mail /\ opened.status = "voting" /\ opened.engine = e
          /\ opened.proposalCount = n /\ opened.voteTries = tries
          /\ opened.decisionTries = s.decisionTries /\ SameCalls(s, opened)
          /\ opened.llm = s.llm
      BY <1>0 DEF SessionState, SameCalls
    <3>2. posted \in SessionState
      BY <2>2, DeliverQuiet, QuietState
    <3> HIDE DEF opened
    <3>3. posted = [opened EXCEPT !.mail = mail]
      BY <2>2, <2>3, <3>1
    <3> HIDE DEF posted, mail
    <3>4. /\ posted.status = opened.status /\ posted.engine = opened.engine
          /\ posted.proposalCount = opened.proposalCount
          /\ posted.voteTries = opened.voteTries
          /\ posted.decisionTries = opened.decisionTries /\ SameCalls(opened, posted)
          /\ posted.llm = opened.llm /\ posted.exhausted = opened.exhausted
          /\ posted.mail = mail
      BY <2>2, <3>3 DEF SessionState, SameCalls
    <3>. QED
      BY <2>2, <3>1, <3>2, <3>4 DEF SameCalls
  <2> HIDE DEF mail, posted
  <2>6. /\ armed \in SessionState
        /\ armed.status = "voting" /\ armed.phase = "voting" /\ armed.deadline
        /\ armed.engine = e /\ armed.proposalCount = n /\ armed.voteTries = tries
        /\ armed.decisionTries = s.decisionTries /\ SameCalls(s, armed)
        /\ armed.llm = s.llm /\ armed.exhausted = s.exhausted
        /\ armed.mail = mail
    BY ZenonT(40), <2>4, <2>5 DEF SessionState, SameCalls, Phases
  <2> HIDE DEF armed
  <2>. QED
    BY <1>4, <2>6, OpenedStep DEF e, n, tries, mail
<1>. QED
  BY <1>2, <1>3, <1>4, ToolErrorStep

LEMMA VoteResultStep ==
  ASSUME NEW s, Coherent(s), NEW a \in Agents, NEW call,
         s.status = "voting", s.callPhase[a] = "voting",
         call.target \in Nat, call.target <= s.callProposal[a]
  PROVE  Step(s, VoteResult(s, a, call).s, a, {a})
<1> DEFINE t == WithVote(s.engine.tally, a, call.decision)
           e == ApplyVote(s.engine, a, call.decision, Approval)
           voted == [s EXCEPT !.engine = e]
           posted == Deliver(voted, Agents \ {a})
           addressed == IF call.target # 0 THEN call.target ELSE s.callProposal[a]
<1>0. /\ s \in SessionState /\ s.engine \in Engine /\ s.engine.tally \in Tally
      /\ s.engine.version \in Nat /\ s.callProposal[a] \in Nat /\ ~Terminal(s)
  BY SessionFields DEF Coherent, SessionState, Terminal
<1>1. \/ VoteResult(s, a, call).s \in {s, ToolError(s, a).s}
      \/ /\ VoteResult(s, a, call).s = ApplyOutcome(posted)
         /\ s.engine.open
         /\ addressed = 0 \/ addressed = s.engine.version
         /\ VoteAccepted(s.engine, a, call.decision, call.reasoned)
  BY DEF VoteResult, Done
<1>2. ASSUME s.engine.open,
             addressed = 0 \/ addressed = s.engine.version,
             VoteAccepted(s.engine, a, call.decision, call.reasoned)
      PROVE  Step(s, ApplyOutcome(posted), a, {a})
  <2>1. s.callProposal[a] = s.engine.version
    <3>1. s.callProposal[a] # 0 /\ s.callProposal[a] <= s.engine.version
      BY DEF Coherent, Numbered
    <3>2. CASE call.target = 0
      BY <1>2, <3>1, <3>2
    <3>3. CASE call.target # 0
      <4>1. call.target = s.engine.version
        BY <1>2, <3>3
      <4>. QED
        BY <1>0, <3>1, <4>1
    <3>. QED
      BY <3>2, <3>3
  <2>2. /\ t \in Tally /\ t.voters = s.engine.tally.voters
        /\ Responded(s.engine.tally) \subseteq Responded(t)
        /\ (t.approvals \cup t.rejections) \ Voted(s.engine) \subseteq {a}
    BY <1>0 DEF WithVote, Tally, Responded, Voted
  <2>3. e = Retally(s.engine, t, Approval) /\ e \in Engine
    BY <1>0, <2>2, RetallyType DEF ApplyVote
  <2> HIDE DEF t, e
  <2>4. /\ Retallied(s, posted, t)
        /\ posted.deadline = s.deadline
    <3>1. /\ voted \in SessionState /\ voted.engine = e /\ voted.status = s.status
          /\ voted.phase = s.phase /\ voted.reviser = s.reviser
          /\ voted.proposalCount = s.proposalCount /\ SameCalls(s, voted)
          /\ voted.voteTries = s.voteTries /\ voted.decisionTries = s.decisionTries
          /\ voted.exhausted = s.exhausted /\ voted.unresponsive = s.unresponsive
          /\ voted.agentState = s.agentState /\ voted.llm = s.llm
          /\ voted.mail = s.mail /\ voted.deadline = s.deadline
      BY <1>0, <2>3 DEF SessionState, SameCalls
    <3> HIDE DEF voted
    <3>2. /\ posted \in SessionState /\ posted.engine = voted.engine
          /\ posted.status = voted.status
          /\ posted.phase = voted.phase /\ posted.reviser = voted.reviser
          /\ posted.proposalCount = voted.proposalCount /\ SameCalls(voted, posted)
          /\ posted.voteTries = voted.voteTries /\ posted.decisionTries = voted.decisionTries
          /\ posted.exhausted = voted.exhausted /\ posted.unresponsive = voted.unresponsive
          /\ posted.agentState = voted.agentState /\ posted.llm = voted.llm
          /\ voted.mail \subseteq posted.mail /\ posted.deadline = voted.deadline
      BY <3>1 DEF Deliver, SessionState, SameCalls
    <3> HIDE DEF posted
    <3>. QED
      BY <2>3, <3>1, <3>2 DEF Retallied, SameCalls
  <2> HIDE DEF posted, voted
  <2>5. s.deadline /\ s.engine.proposer # a
    BY <1>0, <1>2 DEF Coherent, Live, Between, Armed, VoteAccepted
  <2>. QED
    BY <1>2, <2>1, <2>2, <2>4, <2>5, RetalliedStep
<1>. QED
  BY <1>1, <1>2, StepRefl, ToolErrorStep

LEMMA ExecuteStep ==
  ASSUME NEW s, Coherent(s), NEW a \in Agents, NEW call \in ToolCall,
         call.name = "vote_result" => call.target <= s.callProposal[a]
  PROVE  Step(s, Execute(s, a, call).s, a, {a})
<1>1. CASE call.name \notin OfferedTools(s, a) \/ ~Permitted(s, a, call.name)
  BY <1>1, ToolErrorStep DEF Execute
<1>2. CASE Permitted(s, a, call.name) /\ call.name \in OfferedTools(s, a)
  <2>1. CASE call.name = "send_message"
    <3>1. call.to \in SUBSET Agents /\ Execute(s, a, call) = SendMessage(s, a, call.to)
      BY <1>2, <2>1 DEF ToolCall, Execute
    <3>. QED
      BY <3>1, SendMessageStep
  <2>2. CASE call.name = "submit_result"
    <3>1. call.empty \in BOOLEAN /\ Execute(s, a, call) = SubmitResult(s, a, call.empty)
      BY <1>2, <2>2 DEF ToolCall, Execute
    <3>2. s.status = "running" /\ (s.phase = "revision" => a \in s.reviser)
      BY <1>2, <2>2 DEF Permitted, AllowedCommands
    <3>. QED
      BY <3>1, <3>2, SubmitResultStep
  <2>3. CASE call.name = "vote_result"
    <3>1. call.target \in Nat /\ Execute(s, a, call) = VoteResult(s, a, call)
      <4>1. call.target \in 0..MaxProposals
        BY <2>3 DEF ToolCall
      <4>2. \A n \in 0..MaxProposals : n \in Nat
        OBVIOUS
      <4>. QED
        BY <1>2, <2>3, <4>1, <4>2 DEF Execute
    <3>2. s.status = "voting" /\ s.callPhase[a] = "voting"
      BY <1>2, <2>3 DEF Permitted, AllowedCommands
    <3>. QED
      BY <2>3, <3>1, <3>2, VoteResultStep
  <2>. QED
    BY <2>1, <2>2, <2>3 DEF ToolCall
<1>. QED
  BY <1>1, <1>2

LEMMA RunToolsStep ==
  ASSUME NEW s, Coherent(s), NEW a \in Agents, NEW reply \in Replies,
         \A i \in DOMAIN reply :
           reply[i].name = "vote_result" => reply[i].target <= s.callProposal[a]
  PROVE  Step(s, RunTools(s, a, reply).s, a, {a})
<1>1. reply \in Seq(ToolCall) /\ Len(reply) <= 2
  BY ModelAssumption
<1>2. CASE reply = <<>>
  BY <1>2, StepRefl DEF RunTools, Done
<1>3. CASE reply # <<>>
  <2> DEFINE first == Execute(s, a, reply[1])
             second == IF reply[1].name = "send_message" /\ reply[2].name = "send_message"
                       THEN ToolError(first.s, a)
                       ELSE Execute(first.s, a, reply[2])
  <2>1. reply[1] \in ToolCall /\ 1 \in DOMAIN reply
    BY <1>1, <1>3
  <2>2. Step(s, first.s, a, {a})
    BY <2>1, ExecuteStep
  <2>3. RunTools(s, a, reply).s = IF Len(reply) = 1 THEN first.s ELSE second.s
    BY <1>3 DEF RunTools
  <2>4. CASE Len(reply) = 1
    BY <2>2, <2>3, <2>4
  <2>5. CASE Len(reply) # 1
    <3>0. Len(reply) = 2
      <4>1. Len(reply) \in Nat
        BY <1>1
      <4>2. Len(reply) # 0
        BY <1>1, <1>3
      <4>3. \A n \in Nat : n <= 2 /\ n # 0 /\ n # 1 => n = 2
        OBVIOUS
      <4>. QED
        BY <1>1, <2>5, <4>1, <4>2, <4>3
    <3>1. reply[2] \in ToolCall /\ 2 \in DOMAIN reply
      <4>1. DOMAIN reply = 1 .. 2
        BY <1>1, <3>0
      <4>2. \A i \in DOMAIN reply : reply[i] \in ToolCall
        BY <1>1
      <4>. QED
        BY <4>1, <4>2
    <3> HIDE DEF first
    <3>2. Coherent(first.s) /\ first.s.callProposal = s.callProposal
      BY <2>2 DEF Step, Change, SameCalls
    <3>3. reply[2].name = "vote_result" => reply[2].target <= first.s.callProposal[a]
      BY <3>1, <3>2
    <3>4. Step(first.s, second.s, a, {a})
      BY <3>1, <3>2, <3>3, ExecuteStep, ToolErrorStep
    <3>. QED
      BY <2>2, <2>3, <2>5, <3>4, StepTrans
  <2>. QED
    BY <2>4, <2>5
<1>. QED
  BY <1>2, <1>3

-----------------------------------------------------------------------------
(* An admission *)

(* What an admission leaves alone. *)
BeginsCall(s, u, a) ==
  /\ u \in SessionState
  /\ u.status = s.status /\ u.phase = s.phase /\ u.engine = s.engine
  /\ u.proposalCount = s.proposalCount /\ u.deadline = s.deadline
  /\ u.reviser = s.reviser
  /\ u.exhausted = s.exhausted /\ u.unresponsive = s.unresponsive
  /\ u.mail = s.mail \ {a}
  /\ \A b \in Agents :
       /\ u.voteTries[b] = s.voteTries[b]
                             + (IF b = a /\ s.phase = "voting" THEN 1 ELSE 0)
       /\ u.decisionTries[b] = s.decisionTries[b]
                                 + (IF b = a /\ Decisive(s.phase) THEN 1 ELSE 0)
       /\ u.callPhase[b] = IF b = a THEN s.phase ELSE s.callPhase[b]
       /\ u.callProposal[b] = IF b = a
                              THEN IF s.phase = "voting" THEN s.engine.version ELSE 0
                              ELSE s.callProposal[b]
       /\ u.llm[b] = IF b = a THEN "running" ELSE s.llm[b]
       /\ b # a => u.agentState[b] = s.agentState[b]

LEMMA CountAttemptFields ==
  ASSUME NEW s \in SessionState, NEW a \in Agents
  PROVE  LET c == CountAttempt(s, a)
         IN  /\ c = [s EXCEPT !.voteTries = c.voteTries, !.decisionTries = c.decisionTries]
             /\ \A b \in Agents :
                  /\ c.voteTries[b] = s.voteTries[b]
                                        + (IF b = a /\ s.phase = "voting" THEN 1 ELSE 0)
                  /\ c.decisionTries[b] = s.decisionTries[b]
                                            + (IF b = a /\ Decisive(s.phase) THEN 1 ELSE 0)
<1> DEFINE c == CountAttempt(s, a)
           vote == IF s.phase = "voting" THEN s.voteTries[a] + 1 ELSE s.voteTries[a]
           dec  == IF Decisive(s.phase) THEN s.decisionTries[a] + 1 ELSE s.decisionTries[a]
           votes == [s.voteTries EXCEPT ![a] = vote]
           decs  == [s.decisionTries EXCEPT ![a] = dec]
<1>1. \A b \in Agents : s.voteTries[b] \in Nat /\ s.decisionTries[b] \in Nat
  BY DEF SessionState
<1>2. c = [s EXCEPT !.voteTries = votes, !.decisionTries = decs]
  BY DEF CountAttempt
<1>3. \A b \in Agents : /\ votes[b] = IF b = a THEN vote ELSE s.voteTries[b]
                        /\ decs[b] = IF b = a THEN dec ELSE s.decisionTries[b]
  BY DEF SessionState
<1>4. /\ vote = s.voteTries[a] + (IF s.phase = "voting" THEN 1 ELSE 0)
      /\ dec = s.decisionTries[a] + (IF Decisive(s.phase) THEN 1 ELSE 0)
  BY <1>1
<1> HIDE DEF votes, decs, vote, dec
<1>5. c.voteTries = votes /\ c.decisionTries = decs
  BY <1>2 DEF SessionState
<1> HIDE DEF c
<1>6. c = [s EXCEPT !.voteTries = c.voteTries, !.decisionTries = c.decisionTries]
  BY <1>2, <1>5
<1>7. ASSUME NEW b \in Agents
      PROVE  /\ c.voteTries[b] = s.voteTries[b]
                                   + (IF b = a /\ s.phase = "voting" THEN 1 ELSE 0)
             /\ c.decisionTries[b] = s.decisionTries[b]
                                       + (IF b = a /\ Decisive(s.phase) THEN 1 ELSE 0)
  <2>1. c.voteTries[b] = votes[b] /\ c.decisionTries[b] = decs[b]
    BY <1>5
  <2>. QED
    BY <1>1, <1>3, <1>4, <2>1
<1>. QED
  BY <1>6, <1>7 DEF c

LEMMA BeginCallFields ==
  ASSUME NEW s \in SessionState, NEW a \in Agents
  PROVE  BeginsCall(s, BeginCall(s, a), a)
<1> DEFINE c == CountAttempt(s, a)
           r == Reserve(s, a)
           begun == [r EXCEPT !.mail = r.mail \ {a}, !.llm[a] = "running"]
           u == BeginCall(s, a)
           phases == [c.callPhase EXCEPT ![a] = s.phase]
           props  == [c.callProposal EXCEPT
                        ![a] = IF s.phase = "voting" THEN s.engine.version ELSE 0]
           holders == c.reserved \cup {a}
<1>1. /\ c \in SessionState
      /\ c = [s EXCEPT !.voteTries = c.voteTries, !.decisionTries = c.decisionTries]
      /\ \A b \in Agents :
           /\ c.voteTries[b] = s.voteTries[b]
                                 + (IF b = a /\ s.phase = "voting" THEN 1 ELSE 0)
           /\ c.decisionTries[b] = s.decisionTries[b]
                                     + (IF b = a /\ Decisive(s.phase) THEN 1 ELSE 0)
  BY CountAttemptEffect, CountAttemptFields
<1>2. r = [c EXCEPT !.reserved = holders, !.callPhase = phases, !.callProposal = props]
  BY DEF Reserve
<1> HIDE DEF c
<1>3. /\ c.callPhase = s.callPhase /\ c.callProposal = s.callProposal
      /\ c.status = s.status /\ c.phase = s.phase /\ c.engine = s.engine
      /\ c.proposalCount = s.proposalCount /\ c.deadline = s.deadline
      /\ c.reviser = s.reviser /\ c.exhausted = s.exhausted
      /\ c.unresponsive = s.unresponsive /\ c.mail = s.mail /\ c.llm = s.llm
      /\ c.agentState = s.agentState
  BY <1>1 DEF SessionState
<1>4. \A b \in Agents :
        /\ phases[b] = IF b = a THEN s.phase ELSE s.callPhase[b]
        /\ props[b] = IF b = a
                      THEN IF s.phase = "voting" THEN s.engine.version ELSE 0
                      ELSE s.callProposal[b]
  BY <1>3 DEF SessionState
<1> HIDE DEF phases, props, holders
<1>5. /\ r.callPhase = phases /\ r.callProposal = props
      /\ r.status = c.status /\ r.phase = c.phase /\ r.engine = c.engine
      /\ r.proposalCount = c.proposalCount /\ r.deadline = c.deadline
      /\ r.reviser = c.reviser /\ r.exhausted = c.exhausted
      /\ r.unresponsive = c.unresponsive /\ r.mail = c.mail /\ r.llm = c.llm
      /\ r.agentState = c.agentState
      /\ r.voteTries = c.voteTries /\ r.decisionTries = c.decisionTries
  BY <1>1, <1>2 DEF SessionState
<1>6. r \in SessionState
  BY ReserveEffect
<1> HIDE DEF r
<1>7. /\ begun \in SessionState
      /\ begun.callPhase = r.callPhase /\ begun.callProposal = r.callProposal
      /\ begun.status = r.status /\ begun.phase = r.phase /\ begun.engine = r.engine
      /\ begun.proposalCount = r.proposalCount /\ begun.deadline = r.deadline
      /\ begun.reviser = r.reviser /\ begun.exhausted = r.exhausted
      /\ begun.unresponsive = r.unresponsive /\ begun.mail = r.mail \ {a}
      /\ begun.agentState = r.agentState
      /\ begun.voteTries = r.voteTries /\ begun.decisionTries = r.decisionTries
  BY <1>6 DEF SessionState
<1>8. \A b \in Agents : begun.llm[b] = IF b = a THEN "running" ELSE r.llm[b]
  BY <1>6 DEF SessionState
<1>9. u = OnState(begun, a, "thinking")
  BY DEF BeginCall, r
<1> HIDE DEF begun, u
<1>10. /\ u.callPhase = begun.callPhase /\ u.callProposal = begun.callProposal
       /\ u.status = begun.status /\ u.phase = begun.phase /\ u.engine = begun.engine
       /\ u.proposalCount = begun.proposalCount /\ u.deadline = begun.deadline
       /\ u.reviser = begun.reviser /\ u.exhausted = begun.exhausted
       /\ u.unresponsive = begun.unresponsive /\ u.mail = begun.mail
       /\ u.llm = begun.llm
       /\ u.voteTries = begun.voteTries /\ u.decisionTries = begun.decisionTries
       /\ \A b \in Agents \ {a} : u.agentState[b] = begun.agentState[b]
  BY <1>7, <1>9 DEF OnState, SessionState
<1>11. u \in SessionState
  BY BeginCallEffect DEF u
<1>12. BeginsCall(s, u, a)
  BY <1>1, <1>3, <1>4, <1>5, <1>7, <1>8, <1>10, <1>11 DEF BeginsCall
<1>. QED
  BY <1>12 DEF u

(* An admitted call is within its attempts: the session stays coherent, and
   one more of the calls beyond the turn limit is used up. *)
LEMMA AdmissionKeeps ==
  ASSUME NEW s, Coherent(s), NEW a \in Agents, Admitted(s, a), NEW u, BeginsCall(s, u, a)
  PROVE  /\ Coherent(u) /\ ~Terminal(u) /\ ~Terminal(s)
         /\ \A b \in Agents : Used(u, b) = Used(s, b) + (IF b = a /\ Late(s) THEN 1 ELSE 0)
         /\ \A b \in Agents \ {a} : Expected(u, b) => Expected(s, b)
<1>0. /\ s \in SessionState /\ u \in SessionState /\ ~Terminal(s) /\ ~Terminal(u)
      /\ s.engine.version \in Nat /\ s.proposalCount \in Nat
      /\ \A b \in Agents : s.voteTries[b] \in Nat /\ s.decisionTries[b] \in Nat
  BY SessionFields DEF Coherent, BeginsCall, Admitted, Terminal, SessionState
<1>1. Live(s)
  BY <1>0 DEF Coherent
<1>2. s.phase = "voting" => /\ s.engine.open /\ s.proposalCount # 0 /\ a # s.engine.proposer
                            /\ s.voteTries[a] < 2
  <2>1. s.phase = "voting" => a \in s.engine.tally.voters /\ s.voteTries[a] < 2
    BY DEF Admitted, PhaseAllows, TriesLeft, Pending
  <2>. QED
    BY <1>1, <2>1 DEF Live, Between, Ballot
<1>3. Decisive(s.phase) => s.decisionTries[a] < 2
  BY DEF Admitted, TriesLeft
<1>4. s.phase = "revision" => a = s.engine.proposer
  BY <1>1 DEF Admitted, PhaseAllows, Live, Between, Ballot
<1>5. Numbered(u)
  <2>1. ASSUME NEW b \in Agents
        PROVE  u.voteTries[b] <= 2 /\ u.decisionTries[b] <= 2
    <3>1. s.voteTries[b] <= 2 /\ s.decisionTries[b] <= 2
      BY DEF Coherent, Numbered
    <3>2. CASE b = a
      <4>1. /\ u.voteTries[a] = s.voteTries[a] + (IF s.phase = "voting" THEN 1 ELSE 0)
            /\ u.decisionTries[a] = s.decisionTries[a] + (IF Decisive(s.phase) THEN 1 ELSE 0)
        BY DEF BeginsCall
      <4>. QED
        BY <1>0, <1>2, <1>3, <3>1, <3>2, <4>1
    <3>3. CASE b # a
      <4>1. u.voteTries[b] = s.voteTries[b] + 0 /\ u.decisionTries[b] = s.decisionTries[b] + 0
        BY <3>3 DEF BeginsCall
      <4>. QED
        BY <1>0, <3>1, <4>1
    <3>. QED
      BY <3>2, <3>3
  <2>2. s.proposalCount <= s.engine.version
    BY DEF Coherent, Numbered
  <2>3. ASSUME NEW b \in Agents
        PROVE  /\ u.callProposal[b] <= s.engine.version
               /\ u.callPhase[b] = "voting" => u.callProposal[b] # 0
    <3>1. CASE b = a
      <4>1. /\ u.callProposal[b] = IF s.phase = "voting" THEN s.engine.version ELSE 0
            /\ u.callPhase[b] = s.phase
        BY <3>1 DEF BeginsCall
      <4>2. s.phase = "voting" => s.engine.version # 0
        BY <1>0, <1>2, <2>2
      <4>. QED
        BY <1>0, <4>1, <4>2
    <3>2. CASE b # a
      BY <3>2 DEF BeginsCall, Coherent, Numbered
    <3>. QED
      BY <3>1, <3>2
  <2>. QED
    BY <2>1, <2>2, <2>3 DEF Numbered, BeginsCall
<1>6. Live(u)
  <2>1. Current(u)
    <3>1. ASSUME NEW b \in Agents, u.llm[b] = "running", u.callPhase[b] = "voting"
          PROVE  u.engine.open /\ u.callProposal[b] = u.engine.version
      <4>1. CASE b = a
        BY <1>2, <3>1, <4>1 DEF BeginsCall
      <4>2. CASE b # a
        BY <1>1, <3>1, <4>2 DEF BeginsCall, Live, Current
      <4>. QED
        BY <4>1, <4>2
    <3>. QED
      BY <3>1 DEF Current
  <2>2. Between(s) => Between(u)
    BY DEF Between, BeginsCall
  <2>3. Ballot(s) /\ Armed(s) => Ballot(u) /\ Armed(u)
    BY DEF Ballot, Armed, BeginsCall
  <2>. QED
    BY <1>1, <2>1, <2>2, <2>3 DEF Live, BeginsCall
<1>7. Coherent(u)
  BY <1>0, <1>5, <1>6 DEF Coherent
<1>8. ASSUME NEW b \in Agents
      PROVE  Used(u, b) = Used(s, b) + (IF b = a /\ Late(s) THEN 1 ELSE 0)
  <2>1. /\ u.voteTries[b] = s.voteTries[b] + (IF b = a /\ s.phase = "voting" THEN 1 ELSE 0)
        /\ u.decisionTries[b] = s.decisionTries[b] + (IF b = a /\ Decisive(s.phase) THEN 1 ELSE 0)
        /\ u.phase = s.phase /\ u.engine = s.engine /\ u.proposalCount = s.proposalCount
    BY DEF BeginsCall
  <2>2. s.voteTries[b] \in Nat /\ s.decisionTries[b] \in Nat
    BY <1>0
  <2>3. CASE s.phase = "proposal"
    <3>1. Used(s, b) = s.decisionTries[b] /\ Used(u, b) = u.decisionTries[b]
      BY <2>1, <2>3 DEF Used
    <3>. QED
      BY <2>1, <2>3, <3>1 DEF Late, Decisive
  <2>4. CASE s.phase = "voting"
    <3>1. /\ Used(s, b) = 2 * s.proposalCount + (IF b = s.engine.proposer THEN 0 ELSE s.voteTries[b])
          /\ Used(u, b) = 2 * s.proposalCount + (IF b = s.engine.proposer THEN 0 ELSE u.voteTries[b])
      BY <2>1, <2>4 DEF Used
    <3>2. b = a => b # s.engine.proposer
      BY <1>2, <2>4
    <3>3. u.voteTries[b] = s.voteTries[b] + (IF b = a THEN 1 ELSE 0) /\ Late(s)
      BY <2>1, <2>4 DEF Late
    <3>. QED
      BY <1>0, <2>2, <3>1, <3>2, <3>3
  <2>5. CASE s.phase = "revision"
    <3>1. /\ Used(s, b) = 2 * s.proposalCount + (IF b = s.engine.proposer THEN s.decisionTries[b] ELSE 2)
          /\ Used(u, b) = 2 * s.proposalCount + (IF b = s.engine.proposer THEN u.decisionTries[b] ELSE 2)
      BY <2>1, <2>5 DEF Used
    <3>2. u.decisionTries[b] = s.decisionTries[b] + (IF b = a THEN 1 ELSE 0) /\ Late(s)
      BY <2>1, <2>5 DEF Late, Decisive
    <3>. QED
      BY <1>0, <1>4, <2>2, <2>5, <3>1, <3>2
  <2>6. CASE ~Late(s)
    <3>1. Used(s, b) = 0 /\ Used(u, b) = 0
      BY <2>1, <2>6 DEF Used, Late
    <3>. QED
      BY <2>6, <3>1
  <2>. QED
    BY <2>3, <2>4, <2>5, <2>6 DEF Late
<1>9. ASSUME NEW b \in Agents \ {a}, Expected(u, b)
      PROVE  Expected(s, b)
  BY <1>9 DEF Expected, Terminal, Late, PhaseAllows, BeginsCall
<1>. QED
  BY <1>0, <1>7, <1>8, <1>9

-----------------------------------------------------------------------------
(* Where the step of an agent takes it from the session s on, after n
   completed calls.  It is idle only if it has mail or is not expected to go
   on, and beyond its turn limit it waits for a call, or makes one, only in
   the phases that end a session. *)
Reached(s, a, n, settled, W) ==
  \/ \E place \in {"idle", "gate", "gone"} :
       /\ Moves(a, place, settled)
       /\ Step(s, session', a, W)
       /\ place = "idle" => (Expected(session', a) => a \in session'.mail)
       /\ place = "gate" => n < MaxTurns[a] \/ Late(session')
  \/ /\ Moves(a, "calling", settled)
     /\ \E g :
          /\ Step(s, g, a, W)
          /\ Admitted(g, a)
          /\ BeginsCall(g, session', a)
          /\ n < MaxTurns[a] \/ Late(g)

LEMMA ReachedTrans ==
  ASSUME NEW W, NEW s, Coherent(s), NEW u, NEW a, Step(s, u, a, W),
         NEW n, NEW settled, Reached(u, a, n, settled, W)
  PROVE  Reached(s, a, n, settled, W)
<1>1. ASSUME NEW v, Step(u, v, a, W)
      PROVE  Step(s, v, a, W)
  BY <1>1, StepTrans
<1>2. CASE \E place \in {"idle", "gate", "gone"} :
             /\ Moves(a, place, settled)
             /\ Step(u, session', a, W)
             /\ place = "idle" => (Expected(session', a) => a \in session'.mail)
             /\ place = "gate" => n < MaxTurns[a] \/ Late(session')
  BY <1>1, <1>2 DEF Reached
<1>3. CASE /\ Moves(a, "calling", settled)
           /\ \E g :
                /\ Step(u, g, a, W)
                /\ Admitted(g, a)
                /\ BeginsCall(g, session', a)
                /\ n < MaxTurns[a] \/ Late(g)
  BY <1>1, <1>3 DEF Reached
<1>. QED
  BY <1>2, <1>3 DEF Reached

LEMMA LeaveTurnReached ==
  ASSUME NEW W, NEW s, Coherent(s), NEW a \in Agents, NEW n, NEW settled,
         Expected(s, a) => a \in s.mail, LeaveTurn(s, a, n, settled)
  PROVE  Reached(s, a, n, settled, W)
<1>1. "idle" \in {"idle", "thinking", "dead"}
  OBVIOUS
<1>2. CASE n < MaxTurns[a] \/ Preserved(s, a)
  <2> DEFINE closed == IF n < MaxTurns[a] THEN s ELSE CloseDiscussion(s, a)
  <2>1. session' = OnState(closed, a, "idle") /\ Moves(a, "idle", settled)
    BY <1>2 DEF LeaveTurn
  <2>2. Step(s, closed, a, W)
    BY CloseDiscussionStep, StepRefl
  <2> HIDE DEF closed
  <2>3. Step(closed, OnState(closed, a, "idle"), a, W)
    BY <1>1, <2>2, OnStateStep DEF Step
  <2>4. Step(s, session', a, W)
    BY <2>1, <2>2, <2>3, StepTrans
  <2>5. Expected(session', a) => a \in session'.mail
    BY <2>4 DEF Step, Change, Fed
  <2>. QED
    BY <2>1, <2>4, <2>5 DEF Reached
<1>3. CASE ~(n < MaxTurns[a] \/ Preserved(s, a))
  <2> DEFINE u == OnState(s, a, "idle")
  <2>1. session' = OnExhausted(u, a) /\ Moves(a, "gone", settled)
    BY <1>3 DEF LeaveTurn
  <2>2. Step(s, u, a, W)
    BY <1>1, OnStateStep
  <2> HIDE DEF u
  <2>3. Step(u, OnExhausted(u, a), a, W)
    BY <2>2, OnExhaustedStep DEF Step
  <2>4. Step(s, session', a, W)
    BY <2>1, <2>2, <2>3, StepTrans
  <2>. QED
    BY <2>1, <2>4 DEF Reached
<1>. QED
  BY <1>2, <1>3

LEMMA EnterGateReached ==
  ASSUME NEW W, NEW s, Coherent(s), NEW a \in Agents, NEW n, NEW settled,
         n < MaxTurns[a] \/ Late(s), EnterGate(s, a, n, settled)
  PROVE  Reached(s, a, n, settled, W)
<1> DEFINE g == Advanced(s)
<1>1. Step(s, g, a, W) /\ Coherent(g)
  BY AdvancedStep DEF Step
<1>2. ~Terminal(g) => n < MaxTurns[a] \/ Late(g)
  BY <1>1 DEF Step, Change, Onward
<1>3. \/ MustWait(g, a) /\ session' = g /\ Moves(a, "gate", settled)
      \/ Admitted(g, a) /\ session' = BeginCall(g, a) /\ Moves(a, "calling", settled)
      \/ LeaveTurn(Refuse(g, a), a, n, settled)
  BY DEF EnterGate
<1> HIDE DEF g
<1>4. CASE MustWait(g, a) /\ session' = g /\ Moves(a, "gate", settled)
  <2>1. ~Terminal(g)
    BY <1>4 DEF MustWait
  <2>. QED
    BY <1>1, <1>2, <1>4, <2>1 DEF Reached
<1>5. CASE Admitted(g, a) /\ session' = BeginCall(g, a) /\ Moves(a, "calling", settled)
  <2>1. ~Terminal(g)
    BY <1>5 DEF Admitted
  <2>2. BeginsCall(g, session', a)
    BY <1>1, <1>5, BeginCallFields DEF Coherent
  <2>. QED
    BY <1>1, <1>2, <1>5, <2>1, <2>2 DEF Reached
<1>6. CASE LeaveTurn(Refuse(g, a), a, n, settled)
  <2>1. Step(g, Refuse(g, a), a, W) /\ Coherent(Refuse(g, a))
    BY <1>1, RefuseStep DEF Step
  <2>2. Reached(Refuse(g, a), a, n, settled, W)
    BY <1>1, <1>6, <2>1, RefuseSettles, LeaveTurnReached
  <2>3. Step(s, Refuse(g, a), a, W)
    BY <1>1, <2>1, StepTrans
  <2>. QED
    BY <2>2, <2>3, ReachedTrans
<1>. QED
  BY <1>3, <1>4, <1>5, <1>6

LEMMA ThinkAgainReached ==
  ASSUME NEW W, NEW s, Coherent(s), NEW a \in Agents, NEW n \in Nat, NEW settled,
         ThinkAgain(s, a, n, settled)
  PROVE  Reached(s, a, n, settled, W)
<1>1. MaxTurns[a] \in Nat
  BY TeamAssumption DEF ValidTeam
<1>2. CASE n >= MaxTurns[a] /\ ~AllowExtraCall(s, a)
  <2>1. ~Expected(s, a)
    BY <1>2 DEF AllowExtraCall, Expected, Late
  <2>. QED
    BY <1>2, <2>1, LeaveTurnReached DEF ThinkAgain
<1>3. CASE ~(n >= MaxTurns[a] /\ ~AllowExtraCall(s, a))
  <2>1. n < MaxTurns[a] \/ Late(s)
    BY <1>1, <1>3 DEF AllowExtraCall, Late
  <2>. QED
    BY <1>3, <2>1, EnterGateReached DEF ThinkAgain
<1>. QED
  BY <1>2, <1>3

-----------------------------------------------------------------------------
(* The second inductive invariant, on top of IInv. *)

InCall(a) == IF pc[a] = "calling" THEN 1 ELSE 0

(* NobodyStranded, and what it takes: the agent whose call is cut is about
   to look into its inbox as well. *)
Attended ==
  \A a \in Agents :
    Expected(session, a) /\ (pc[a] = "idle" \/ session.llm[a] = "cancelled")
      => a \in session.mail

(* The calls beyond the turn limit are those used up; an agent in the gate
   was let in below its limit, or on the way to a decision. *)
Rationed ==
  ~Terminal(session) =>
    \A a \in Agents :
      /\ calls[a] + InCall(a) <= MaxTurns[a] + Used(session, a)
      /\ pc[a] \in {"gate", "woken"} /\ ~Late(session) => calls[a] < MaxTurns[a]

CInv == Coherent(session) /\ Attended /\ Rationed /\ CallsBounded

(* What the two action properties and the lifecycle say of a step. *)
Course ==
  \/ \E a \in Agents : Path(session, session', a)
  \/ /\ ~Terminal(session) /\ session'.status = "cancelled"
     /\ session'.proposalCount = session.proposalCount

Kept == CInv' /\ Course /\ Informed(session, session', Calling)

LEMMA CallNumbers ==
  ASSUME IInv, NEW a \in Agents
  PROVE  /\ calls[a] \in Nat /\ InCall(a) \in {0, 1} /\ InCall(a)' \in {0, 1}
         /\ MaxTurns[a] \in Nat /\ MaxProposals \in Nat
  BY Invariant, TeamAssumption, PolicyAssumption DEF InCall, ValidTeam, ValidPolicy

LEMMA UsedBound ==
  ASSUME NEW s, Coherent(s), ~Terminal(s), NEW a \in Agents
  PROVE  Used(s, a) <= 2 * (MaxProposals + 1)
<1>1. /\ s.proposalCount \in Nat /\ s.voteTries[a] \in Nat /\ s.decisionTries[a] \in Nat
      /\ MaxProposals \in Nat
  BY PolicyAssumption, SessionFields DEF Coherent, SessionState, ValidPolicy
<1>2. s.proposalCount <= MaxProposals /\ s.voteTries[a] <= 2 /\ s.decisionTries[a] <= 2
  BY DEF Coherent, Live, Numbered
<1>3. CASE s.phase = "proposal"
  <2>1. Used(s, a) = s.decisionTries[a]
    BY <1>3 DEF Used
  <2>. QED
    BY <1>1, <1>2, <2>1
<1>4. CASE s.phase = "voting"
  <2>1. Used(s, a) = 2 * s.proposalCount
                       + (IF a = s.engine.proposer THEN 0 ELSE s.voteTries[a])
    BY <1>4 DEF Used
  <2>. QED
    BY <1>1, <1>2, <2>1
<1>5. CASE s.phase = "revision"
  <2>1. Used(s, a) = 2 * s.proposalCount
                       + (IF a = s.engine.proposer THEN s.decisionTries[a] ELSE 2)
    BY <1>5 DEF Used
  <2>. QED
    BY <1>1, <1>2, <2>1
<1>6. CASE ~Late(s)
  <2>1. Used(s, a) = 0
    BY <1>6 DEF Used, Late
  <2>. QED
    BY <1>1, <2>1
<1>. QED
  BY <1>3, <1>4, <1>5, <1>6 DEF Late

(* CallsBounded is kept by a step that lets nobody call again, and otherwise
   follows from Rationed. *)
LEMMA BoundKept ==
  ASSUME IInv, IInv', CallsBounded, Coherent(session'), Rationed',
         Terminal(session') =>
           \A a \in Agents : calls'[a] + InCall(a)' <= calls[a] + InCall(a)
  PROVE  CallsBounded'
<1> SUFFICES ASSUME NEW a \in Agents
             PROVE  calls'[a] + InCall(a)' <= MaxTurns[a] + 2 * (MaxProposals + 1)
  BY DEF CallsBounded, InCall
<1>1. /\ calls[a] \in Nat /\ InCall(a) \in {0, 1} /\ InCall(a)' \in {0, 1}
      /\ MaxTurns[a] \in Nat /\ MaxProposals \in Nat
  BY CallNumbers
<1>2. calls'[a] \in Nat
  BY DEF IInv, TypeOK
<1>3. CASE Terminal(session')
  <2>1. calls'[a] + InCall(a)' <= calls[a] + InCall(a)
    BY <1>3
  <2>2. calls[a] + InCall(a) <= MaxTurns[a] + 2 * (MaxProposals + 1)
    BY DEF CallsBounded, InCall
  <2> DEFINE x == calls'[a] + InCall(a)'
             y == calls[a] + InCall(a)
             z == MaxTurns[a] + 2 * (MaxProposals + 1)
  <2>3. x \in Nat /\ y \in Nat /\ z \in Nat
    BY <1>1, <1>2
  <2> HIDE DEF x, y, z
  <2>4. x <= y /\ y <= z
    BY <2>1, <2>2 DEF x, y, z
  <2>5. x <= z
    BY <2>3, <2>4
  <2>. QED
    BY <2>5 DEF x, z
<1>4. CASE ~Terminal(session')
  <2>1. calls'[a] + InCall(a)' <= MaxTurns[a] + Used(session', a)
    BY <1>4 DEF Rationed, InCall, Used, Terminal
  <2>2. Used(session', a) <= 2 * (MaxProposals + 1)
    BY <1>4, UsedBound
  <2>3. Used(session', a) \in Nat
    BY UsedType DEF Coherent
  <2>. QED
    BY <1>1, <1>2, <2>1, <2>2, <2>3
<1>. QED
  BY <1>3, <1>4

(* A step that moves no agent. *)
LEMMA HandlerAttends ==
  ASSUME IInv, IInv', CInv, NEW a \in Agents, Step(session, session', a, {}),
         UNCHANGED <<pc, calls>>
  PROVE  Kept
<1>1. Coherent(session') /\ Change(session, session', a, {})
  BY DEF Step
<1>2. Attended'
  <2>1. ASSUME NEW b \in Agents, Expected(session', b), b \notin session'.mail,
               pc'[b] = "idle" \/ session'.llm[b] = "cancelled"
        PROVE  FALSE
    <3>1. /\ Expected(session, b) /\ b \notin session.mail
          /\ session'.llm[b] = "cancelled" => session.llm[b] = "cancelled"
      BY <1>1, <2>1 DEF Change, Fed
    <3>2. pc[b] = "idle" \/ session.llm[b] = "cancelled"
      BY <2>1, <3>1
    <3>. QED
      BY <3>1, <3>2 DEF CInv, Attended
  <2>. QED
    BY <2>1 DEF Attended, Expected, PhaseAllows, Late, Terminal
<1>3. Rationed'
  <2>1. ASSUME NEW b \in Agents, ~Terminal(session')
        PROVE  /\ calls'[b] + InCall(b)' <= MaxTurns[b] + Used(session', b)
               /\ pc'[b] \in {"gate", "woken"} /\ ~Late(session') => calls'[b] < MaxTurns[b]
    <3>1. ~Terminal(session)
      BY <1>1, <2>1, TerminalAlong DEF Change
    <3>2. Used(session, b) <= Used(session', b) /\ (Late(session) => Late(session'))
      BY <1>1, <2>1 DEF Change, Onward
    <3>3. /\ calls[b] + InCall(b) <= MaxTurns[b] + Used(session, b)
          /\ pc[b] \in {"gate", "woken"} /\ ~Late(session) => calls[b] < MaxTurns[b]
      BY <3>1 DEF CInv, Rationed
    <3>4. Used(session, b) \in Nat /\ Used(session', b) \in Nat
      BY <1>1, UsedType DEF CInv, Coherent
    <3>5. InCall(b)' = InCall(b)
      BY DEF InCall
    <3>6. calls'[b] + InCall(b)' <= MaxTurns[b] + Used(session', b)
      <4>1. calls'[b] = calls[b]
        OBVIOUS
      <4>2. calls[b] \in Nat /\ InCall(b) \in {0, 1} /\ MaxTurns[b] \in Nat
        BY CallNumbers
      <4>. HIDE DEF InCall
      <4>. QED
        BY <3>2, <3>3, <3>4, <3>5, <4>1, <4>2
    <3>. QED
      BY <3>2, <3>3, <3>6
  <2>. QED
    BY <2>1 DEF Rationed, Terminal, Late, Used, InCall
<1>4. CallsBounded'
  <2>1. \A b \in Agents : calls'[b] + InCall(b)' <= calls[b] + InCall(b)
    <3>1. TAKE b \in Agents
    <3>2. InCall(b)' = InCall(b) /\ calls'[b] = calls[b]
      BY DEF InCall
    <3>3. calls[b] \in Nat /\ InCall(b) \in {0, 1}
      BY CallNumbers
    <3>. QED
      BY <3>2, <3>3
  <2>. QED
    BY <1>1, <1>3, <2>1, BoundKept DEF CInv
<1>5. Course
  BY <1>1 DEF Change, Course
<1>6. Informed(session, session', Calling)
  BY <1>1 DEF Change, Informed
<1>7. Coherent(session)'
  BY <1>1 DEF Coherent, Numbered, Terminal, Live, Current, Between, Ballot, Armed
<1>. QED
  BY <1>2, <1>3, <1>4, <1>5, <1>6, <1>7 DEF Kept, CInv

(* The session as an agent's step finds it: at most its own mail is gone. *)
Found(s, a) ==
  /\ s \in SessionState
  /\ s = [session EXCEPT !.mail = s.mail]
  /\ session.mail \ {a} \subseteq s.mail

LEMMA FoundSame ==
  ASSUME session \in SessionState, NEW s, NEW a, Found(s, a)
  PROVE  /\ s.status = session.status /\ s.phase = session.phase /\ s.engine = session.engine
         /\ s.proposalCount = session.proposalCount /\ s.deadline = session.deadline
         /\ s.reviser = session.reviser /\ s.exhausted = session.exhausted
         /\ s.unresponsive = session.unresponsive /\ s.agentState = session.agentState
         /\ s.voteTries = session.voteTries /\ s.decisionTries = session.decisionTries
         /\ s.llm = session.llm
         /\ SameCalls(session, s)
         /\ \A b \in Agents : Expected(s, b) <=> Expected(session, b)
         /\ \A b \in Agents : Used(s, b) = Used(session, b)
         /\ Late(s) <=> Late(session)
         /\ Terminal(s) <=> Terminal(session)
<1>1. /\ s.status = session.status /\ s.phase = session.phase /\ s.engine = session.engine
      /\ s.proposalCount = session.proposalCount /\ s.deadline = session.deadline
      /\ s.reviser = session.reviser /\ s.exhausted = session.exhausted
      /\ s.unresponsive = session.unresponsive /\ s.agentState = session.agentState
      /\ s.voteTries = session.voteTries /\ s.decisionTries = session.decisionTries
      /\ s.llm = session.llm
      /\ s.callPhase = session.callPhase /\ s.callProposal = session.callProposal
  <2>1. s = [session EXCEPT !.mail = s.mail]
    BY DEF Found
  <2> DEFINE m == s.mail
  <2>2. s = [session EXCEPT !.mail = m]
    BY <2>1
  <2> HIDE DEF m
  <2>. QED
    BY <2>2 DEF SessionState
<1>2. SameCalls(session, s)
  BY <1>1 DEF SameCalls
<1>3. (Terminal(s) <=> Terminal(session)) /\ (Late(s) <=> Late(session))
  BY <1>1 DEF Terminal, Late
<1>4. \A b \in Agents : PhaseAllows(s, b) <=> PhaseAllows(session, b)
  BY <1>1 DEF PhaseAllows
<1>5. \A b \in Agents : Used(s, b) = Used(session, b)
  BY <1>1 DEF Used
<1>. QED
  BY <1>1, <1>2, <1>3, <1>4, <1>5 DEF Expected

LEMMA FoundCoherent ==
  ASSUME Coherent(session), NEW s, NEW a, Found(s, a)
  PROVE  Coherent(s)
<1>1. session \in SessionState /\ s \in SessionState
  BY DEF Coherent, Found
<1>2. Numbered(s)
  BY <1>1, FoundSame DEF Numbered, Coherent, SameCalls
<1>3. Live(session) => Live(s)
  <2>1. Current(session) => Current(s)
    BY <1>1, FoundSame DEF Current, SameCalls
  <2>2. Between(session) => Between(s)
    BY <1>1, FoundSame DEF Between
  <2>3. Ballot(session) /\ Armed(session) => Ballot(s) /\ Armed(s)
    BY <1>1, FoundSame DEF Ballot, Armed
  <2>4. s.proposalCount = session.proposalCount
    BY <1>1, FoundSame
  <2>. QED
    BY <2>1, <2>2, <2>3, <2>4 DEF Live
<1>. QED
  BY <1>1, <1>2, <1>3, FoundSame DEF Coherent

(* The step of agent a reaches the session u, from which the call of a may
   still begin. *)
LEMMA OthersAttended ==
  ASSUME IInv, CInv, NEW a \in Agents, NEW s, Found(s, a), NEW W, NEW u, Step(s, u, a, W),
         NEW b \in Agents \ {a}, Expected(u, b), b \notin u.mail,
         pc[b] = "idle" \/ u.llm[b] = "cancelled"
  PROVE  FALSE
<1>1. session \in SessionState
  BY Invariant
<1>2. /\ Expected(s, b) /\ b \notin s.mail
      /\ u.llm[b] = "cancelled" => s.llm[b] = "cancelled"
  BY DEF Step, Change, Fed
<1>3. Expected(session, b) /\ b \notin session.mail /\ s.llm = session.llm
  BY <1>1, <1>2, FoundSame DEF Found
<1>. QED
  BY <1>2, <1>3 DEF CInv, Attended

LEMMA OthersRationed ==
  ASSUME IInv, CInv, NEW a \in Agents, NEW s, Found(s, a), NEW W, NEW u, Step(s, u, a, W),
         ~Terminal(u), NEW b \in Agents
  PROVE  /\ ~Terminal(session)
         /\ calls[b] + InCall(b) <= MaxTurns[b] + Used(u, b)
         /\ pc[b] \in {"gate", "woken"} /\ ~Late(u) => calls[b] < MaxTurns[b]
<1>1. session \in SessionState /\ u \in SessionState /\ s \in SessionState
  BY Invariant DEF Step, Coherent, Found
<1>2. ~Terminal(s) /\ ~Terminal(session)
  BY <1>1, TerminalAlong, FoundSame DEF Step, Change
<1>3. Used(s, b) <= Used(u, b) /\ (Late(s) => Late(u))
  BY DEF Step, Change, Onward
<1>4. Used(s, b) = Used(session, b) /\ (Late(s) <=> Late(session))
  BY <1>1, FoundSame
<1>5. Used(session, b) \in Nat /\ Used(u, b) \in Nat
  BY <1>1, UsedType
<1>6. /\ calls[b] + InCall(b) <= MaxTurns[b] + Used(session, b)
      /\ pc[b] \in {"gate", "woken"} /\ ~Late(session) => calls[b] < MaxTurns[b]
  BY <1>2 DEF CInv, Rationed
<1>7. calls[b] \in Nat /\ InCall(b) \in {0, 1} /\ MaxTurns[b] \in Nat
  BY CallNumbers
<1>8. calls[b] + InCall(b) <= MaxTurns[b] + Used(u, b)
  <2> DEFINE x == Used(session, b)
             y == Used(u, b)
             i == InCall(b)
  <2>1. x <= y /\ x \in Nat /\ y \in Nat /\ i \in Nat /\ calls[b] + i <= MaxTurns[b] + x
    BY <1>3, <1>4, <1>5, <1>6, <1>7
  <2> HIDE DEF x, y, i
  <2>2. calls[b] + i <= MaxTurns[b] + y
    BY <2>1, <1>7
  <2>. QED
    BY <2>2 DEF y, i
<1>. QED
  BY <1>2, <1>3, <1>4, <1>6, <1>8

LEMMA MovesPlaces ==
  ASSUME IInv, NEW a \in Agents, NEW settled,
         NEW place \in {"idle", "gate", "gone", "calling"}, Moves(a, place, settled)
  PROVE  /\ pc'[a] = place
         /\ InCall(a)' = IF place = "calling" THEN 1 ELSE 0
         /\ \A b \in Agents \ {a} :
              /\ InCall(b)' = InCall(b)
              /\ pc'[b] = "idle" => pc[b] = "idle"
              /\ pc'[b] \in {"gate", "woken"} => pc[b] \in {"gate", "woken"}
  BY DEF Moves, InCall

(* The parts of the invariant after a step, from what they are about. *)
LEMMA KeptParts ==
  ASSUME Coherent(session'),
         \A b \in Agents :
           Expected(session', b) /\ (pc'[b] = "idle" \/ session'.llm[b] = "cancelled")
             => b \in session'.mail,
         ~Terminal(session') =>
           \A b \in Agents :
             /\ calls'[b] + InCall(b)' <= MaxTurns[b] + Used(session', b)
             /\ pc'[b] \in {"gate", "woken"} /\ ~Late(session') => calls'[b] < MaxTurns[b]
  PROVE  Coherent(session)' /\ Attended' /\ Rationed'
<1>1. Coherent(session)'
  BY DEF Coherent, Numbered, Terminal, Live, Current, Between, Ballot, Armed
<1>2. Attended'
  BY DEF Attended, Expected, PhaseAllows, Late, Terminal
<1>3. Rationed'
  BY DEF Rationed, Terminal, Late, Used, InCall
<1>. QED
  BY <1>1, <1>2, <1>3

(* The agent goes where it makes no call. *)
LEMMA PlaceKeeps ==
  ASSUME IInv, IInv', CInv, NEW a \in Agents, NEW s, Found(s, a),
         NEW W \in SUBSET Calling, NEW n \in Nat, n <= calls[a] + InCall(a),
         calls' = [calls EXCEPT ![a] = n], NEW settled,
         NEW place \in {"idle", "gate", "gone"}, Moves(a, place, settled),
         Step(s, session', a, W),
         place = "idle" => (Expected(session', a) => a \in session'.mail),
         place = "gate" => n < MaxTurns[a] \/ Late(session')
  PROVE  Kept
<1>1. /\ pc'[a] = place /\ InCall(a)' = 0
      /\ \A b \in Agents \ {a} :
           /\ InCall(b)' = InCall(b)
           /\ pc'[b] = "idle" => pc[b] = "idle"
           /\ pc'[b] \in {"gate", "woken"} => pc[b] \in {"gate", "woken"}
  BY MovesPlaces
<1>2. Coherent(session')
  BY DEF Step
<1>3. calls'[a] = n /\ \A b \in Agents \ {a} : calls'[b] = calls[b]
  BY Invariant
<1>4. \A b \in Agents : calls[b] \in Nat /\ InCall(b) \in {0, 1} /\ MaxTurns[b] \in Nat
  BY CallNumbers
<1>5. ASSUME NEW b \in Agents, Expected(session', b),
             pc'[b] = "idle" \/ session'.llm[b] = "cancelled"
      PROVE  b \in session'.mail
  <2>1. CASE b = a
    <3>1. session'.llm[a] = "none"
      BY <1>1 DEF IInv, ReservationsInFlight
    <3>. QED
      BY <1>1, <1>5, <2>1, <3>1
  <2>2. CASE b # a
    <3>1. pc[b] = "idle" \/ session'.llm[b] = "cancelled"
      BY <1>1, <1>5, <2>2
    <3>. QED
      BY <1>5, <2>2, <3>1, OthersAttended
  <2>. QED
    BY <2>1, <2>2
<1>6. ASSUME ~Terminal(session'), NEW b \in Agents
      PROVE  /\ calls'[b] + InCall(b)' <= MaxTurns[b] + Used(session', b)
             /\ pc'[b] \in {"gate", "woken"} /\ ~Late(session') => calls'[b] < MaxTurns[b]
  <2> DEFINE y == MaxTurns[b] + Used(session', b)
             i == InCall(b)
  <2>1. /\ calls[b] + i <= y
        /\ pc[b] \in {"gate", "woken"} /\ ~Late(session') => calls[b] < MaxTurns[b]
    BY <1>6, OthersRationed
  <2>2. y \in Nat
    BY <1>2, <1>4, UsedType DEF Coherent
  <2>3. CASE b = a
    <3>1. InCall(b)' = 0 /\ calls'[b] = n /\ n <= calls[b] + i /\ calls[b] + i \in Nat
      BY <1>1, <1>3, <1>4, <2>3
    <3> HIDE DEF y, i
    <3>2. calls'[b] + InCall(b)' <= y
      BY <2>1, <2>2, <3>1
    <3>3. pc'[b] \in {"gate", "woken"} /\ ~Late(session') => calls'[b] < MaxTurns[b]
      BY <1>1, <1>3, <2>3
    <3>. QED
      BY <3>2, <3>3 DEF y
  <2>4. CASE b # a
    <3>1. InCall(b)' = i /\ calls'[b] = calls[b]
      BY <1>1, <1>3, <2>4
    <3>2. calls'[b] + InCall(b)' <= y
      BY <2>1, <3>1
    <3>. QED
      BY <1>1, <2>1, <2>4, <3>1, <3>2
  <2>. QED
    BY <2>3, <2>4
<1>7. Coherent(session)' /\ Attended' /\ Rationed'
  BY <1>2, <1>5, <1>6, KeptParts
<1>8. \A b \in Agents : calls'[b] + InCall(b)' <= calls[b] + InCall(b)
  <2>1. TAKE b \in Agents
  <2>2. CASE b = a
    BY <1>1, <1>3, <1>4, <2>2
  <2>3. CASE b # a
    <3>1. InCall(b)' = InCall(b) /\ calls'[b] = calls[b]
      BY <1>1, <1>3, <2>3
    <3>. QED
      BY <1>4, <3>1
  <2>. QED
    BY <2>2, <2>3
<1>9. CallsBounded'
  BY <1>2, <1>7, <1>8, BoundKept DEF CInv
<1>10. Path(session, session', a) /\ Informed(session, session', Calling)
  <2>1. Path(s, session', a) /\ Informed(s, session', W)
    BY DEF Step, Change
  <2>2. /\ s.status = session.status /\ s.engine = session.engine
        /\ s.proposalCount = session.proposalCount /\ SameCalls(session, s)
        /\ Terminal(s) <=> Terminal(session)
    BY Invariant, FoundSame
  <2>3. Path(session, session', a)
    BY <2>1, <2>2 DEF Path, Stayed, Opened, SentBack, Ended
  <2>4. Informed(session, session', Calling)
    BY <2>1, <2>2 DEF Informed, SameCalls
  <2>. QED
    BY <2>3, <2>4
<1>. QED
  BY <1>7, <1>9, <1>10 DEF Kept, CInv, Course

(* The agent is admitted and begins a call. *)
LEMMA CallKeeps ==
  ASSUME IInv, IInv', CInv, NEW a \in Agents, NEW s, Found(s, a),
         NEW W \in SUBSET Calling, NEW n \in Nat, n <= calls[a] + InCall(a),
         calls' = [calls EXCEPT ![a] = n], NEW settled, Moves(a, "calling", settled),
         NEW g, Step(s, g, a, W), Admitted(g, a), BeginsCall(g, session', a),
         n < MaxTurns[a] \/ Late(g)
  PROVE  Kept
<1>1. /\ pc'[a] = "calling" /\ InCall(a)' = 1
      /\ \A b \in Agents \ {a} :
           /\ InCall(b)' = InCall(b)
           /\ pc'[b] = "idle" => pc[b] = "idle"
           /\ pc'[b] \in {"gate", "woken"} => pc[b] \in {"gate", "woken"}
  BY MovesPlaces
<1>2. Coherent(g)
  BY DEF Step
<1>3. /\ Coherent(session') /\ ~Terminal(session') /\ ~Terminal(g)
      /\ \A b \in Agents : Used(session', b) = Used(g, b) + (IF b = a /\ Late(g) THEN 1 ELSE 0)
      /\ \A b \in Agents \ {a} : Expected(session', b) => Expected(g, b)
  BY <1>2, AdmissionKeeps
<1>4. calls'[a] = n /\ \A b \in Agents \ {a} : calls'[b] = calls[b]
  BY Invariant
<1>5. \A b \in Agents : calls[b] \in Nat /\ InCall(b) \in {0, 1} /\ MaxTurns[b] \in Nat
  BY CallNumbers
<1>6. /\ session'.status = g.status /\ session'.engine = g.engine /\ session'.phase = g.phase
      /\ session'.proposalCount = g.proposalCount
      /\ session'.mail = g.mail \ {a} /\ session'.llm[a] = "running"
      /\ \A b \in Agents \ {a} : session'.llm[b] = g.llm[b]
  BY DEF BeginsCall
<1>7. Late(session') <=> Late(g)
  BY <1>6 DEF Late
<1>8. ASSUME NEW b \in Agents, Expected(session', b),
             pc'[b] = "idle" \/ session'.llm[b] = "cancelled"
      PROVE  b \in session'.mail
  <2>1. b # a
    BY <1>1, <1>6, <1>8
  <2>2. Expected(g, b) /\ (pc[b] = "idle" \/ g.llm[b] = "cancelled")
    BY <1>1, <1>3, <1>6, <1>8, <2>1
  <2>3. b \in g.mail
    BY <2>1, <2>2, OthersAttended
  <2>. QED
    BY <1>6, <2>1, <2>3
<1>9. ASSUME NEW b \in Agents
      PROVE  /\ calls'[b] + InCall(b)' <= MaxTurns[b] + Used(session', b)
             /\ pc'[b] \in {"gate", "woken"} /\ ~Late(session') => calls'[b] < MaxTurns[b]
  <2> DEFINE x == Used(g, b)
             i == InCall(b)
             y == Used(session', b)
  <2>1. /\ calls[b] + i <= MaxTurns[b] + x
        /\ pc[b] \in {"gate", "woken"} /\ ~Late(g) => calls[b] < MaxTurns[b]
    BY <1>3, OthersRationed
  <2>2. x \in Nat /\ y = x + (IF b = a /\ Late(g) THEN 1 ELSE 0)
    BY <1>2, <1>3, UsedType DEF Coherent
  <2>3. CASE b = a
    <3>1. InCall(b)' = 1 /\ calls'[b] = n /\ n <= calls[b] + i /\ i \in {0, 1}
      BY <1>1, <1>4, <1>5, <2>3
    <3>2. (y = x + 1) \/ (y = x /\ n < MaxTurns[b])
      BY <2>2, <2>3
    <3>3. calls[b] \in Nat /\ MaxTurns[b] \in Nat
      BY <1>5
    <3> HIDE DEF x, y, i
    <3>4. calls'[b] + InCall(b)' <= MaxTurns[b] + y
      BY <2>1, <2>2, <3>1, <3>2, <3>3
    <3>. QED
      BY <1>1, <2>3, <3>4 DEF y
  <2>4. CASE b # a
    <3>1. InCall(b)' = i /\ calls'[b] = calls[b] /\ y = x
      BY <1>1, <1>4, <2>2, <2>4
    <3>. QED
      BY <1>1, <1>7, <2>1, <2>4, <3>1
  <2>. QED
    BY <2>3, <2>4
<1>10. Coherent(session)' /\ Attended' /\ Rationed'
  BY <1>3, <1>8, <1>9, KeptParts
<1>11. CallsBounded'
  BY <1>3, <1>10, BoundKept DEF CInv
<1>12. Path(session, session', a) /\ Informed(session, session', Calling)
  <2>1. Path(s, g, a) /\ Informed(s, g, W)
    BY DEF Step, Change
  <2>2. /\ s.status = session.status /\ s.engine = session.engine
        /\ s.proposalCount = session.proposalCount /\ SameCalls(session, s)
        /\ Terminal(s) <=> Terminal(session)
    BY Invariant, FoundSame
  <2>3. Path(session, session', a)
    BY <1>6, <2>1, <2>2 DEF Path, Stayed, Opened, SentBack, Ended
  <2>4. Informed(session, session', Calling)
    BY <1>6, <2>1, <2>2 DEF Informed, SameCalls
  <2>. QED
    BY <2>3, <2>4
<1>. QED
  BY <1>10, <1>11, <1>12 DEF Kept, CInv, Course

LEMMA ReachedKeeps ==
  ASSUME IInv, IInv', CInv, NEW a \in Agents, NEW s, Found(s, a),
         NEW W \in SUBSET Calling, NEW n \in Nat, n <= calls[a] + InCall(a),
         calls' = [calls EXCEPT ![a] = n], NEW settled, Reached(s, a, n, settled, W)
  PROVE  Kept
  BY PlaceKeeps, CallKeeps DEF Reached

LEMMA FoundAsIs ==
  ASSUME IInv, NEW a
  PROVE  Found(session, a)
  BY Invariant DEF Found, SessionState

LEMMA InitCInv == Init => CInv
<1> SUFFICES ASSUME Init PROVE CInv
  OBVIOUS
<1>1. /\ session \in SessionState
      /\ session.status = "running" /\ session.phase = "discussion" /\ session.mail = {}
      /\ session.proposalCount = 0 /\ ~session.deadline
      /\ session.engine.version = 0 /\ ~session.engine.open
      /\ \A a \in Agents :
           /\ session.callProposal[a] = 0 /\ session.callPhase[a] = "none"
           /\ session.voteTries[a] = 0 /\ session.decisionTries[a] = 0
           /\ session.llm[a] = "none" /\ pc[a] = "start" /\ calls[a] = 0
  <2>1. session = NewSession /\ session \in SessionState
    BY InitIInv, Invariant DEF Init
  <2>2. /\ session.engine = NewEngine /\ NewEngine.version = 0 /\ ~NewEngine.open
    BY <2>1 DEF NewSession, NewEngine
  <2>. QED
    BY <2>1, <2>2 DEF Init, NewSession
<1>2. ~Terminal(session) /\ ~Late(session)
  BY <1>1 DEF Terminal, Late
<1>3. MaxProposals \in Nat /\ \A a \in Agents : MaxTurns[a] \in Nat
  BY TeamAssumption, PolicyAssumption DEF ValidTeam, ValidPolicy
<1>4. Coherent(session)
  <2>1. Numbered(session)
    BY <1>1 DEF Numbered
  <2>2. Live(session)
    BY <1>1, <1>3 DEF Live, Current, Between
  <2>. QED
    BY <1>1, <2>1, <2>2 DEF Coherent
<1>5. Attended
  BY <1>2 DEF Attended, Expected
<1>6. Rationed
  <2>1. \A a \in Agents : Used(session, a) = 0 /\ InCall(a) = 0
    BY <1>1, <1>2 DEF Used, Late, InCall
  <2>. QED
    BY <1>1, <1>3, <2>1 DEF Rationed
<1>7. CallsBounded
  BY <1>1, <1>3 DEF CallsBounded
<1>. QED
  BY <1>4, <1>5, <1>6, <1>7 DEF CInv

-----------------------------------------------------------------------------
(* The steps of an agent. *)

LEMMA StartAttends ==
  ASSUME IInv, IInv', CInv, NEW a \in Agents, Start(a)
  PROVE  Kept
<1>1. /\ ThinkAgain(session, a, calls[a], FALSE)
      /\ calls' = [calls EXCEPT ![a] = calls[a]]
  BY Invariant DEF Start
<1>2. calls[a] \in Nat /\ calls[a] <= calls[a] + InCall(a)
  BY CallNumbers
<1>3. Reached(session, a, calls[a], FALSE, {})
  BY <1>1, <1>2, ThinkAgainReached DEF CInv
<1>. QED
  BY <1>1, <1>2, <1>3, FoundAsIs, ReachedKeeps

LEMMA WakeAttends ==
  ASSUME IInv, IInv', CInv, NEW a \in Agents, Wake(a)
  PROVE  Kept
<1> DEFINE s == [session EXCEPT !.mail = session.mail \ {a}]
<1>1. /\ ThinkAgain(s, a, calls[a], FALSE)
      /\ calls' = [calls EXCEPT ![a] = calls[a]]
  BY Invariant DEF Wake
<1>2. calls[a] \in Nat /\ calls[a] <= calls[a] + InCall(a)
  BY CallNumbers
<1>3. Found(s, a)
  BY Invariant DEF Found, SessionState
<1> HIDE DEF s
<1>4. Coherent(s)
  BY <1>3, FoundCoherent DEF CInv
<1>5. Reached(s, a, calls[a], FALSE, {})
  BY <1>1, <1>2, <1>4, ThinkAgainReached
<1>. QED
  BY <1>1, <1>2, <1>3, <1>5, ReachedKeeps

LEMMA RecheckAttends ==
  ASSUME IInv, IInv', CInv, NEW a \in Agents, Recheck(a)
  PROVE  Kept
<1>1. /\ EnterGate(session, a, calls[a], FALSE) /\ pc[a] = "woken"
      /\ calls' = [calls EXCEPT ![a] = calls[a]]
  BY Invariant DEF Recheck
<1>2. calls[a] \in Nat /\ calls[a] <= calls[a] + InCall(a)
  BY CallNumbers
<1>3. Reached(session, a, calls[a], FALSE, {})
  <2>1. CASE Terminal(session)
    <3>1. LeaveTurn(Refuse(Advanced(session), a), a, calls[a], FALSE)
      <4>1. Advanced(session) = session
        BY <2>1 DEF Advanced, AdvancePhase
      <4>. QED
        BY <1>1, <2>1, <4>1 DEF EnterGate, MustWait, Admitted
    <3>2. Advanced(session) = session /\ Refuse(session, a) = session
      BY <2>1 DEF Advanced, AdvancePhase, Refuse
    <3>3. ~Expected(session, a)
      BY <2>1 DEF Expected
    <3>. QED
      BY <3>1, <3>2, <3>3, LeaveTurnReached DEF CInv
  <2>2. CASE ~Terminal(session)
    <3>1. calls[a] < MaxTurns[a] \/ Late(session)
      BY <1>1, <2>2 DEF CInv, Rationed
    <3>. QED
      BY <1>1, <3>1, EnterGateReached DEF CInv
  <2>. QED
    BY <2>1, <2>2
<1>. QED
  BY <1>1, <1>2, <1>3, FoundAsIs, ReachedKeeps

LEMMA CompletionAttends ==
  ASSUME IInv, IInv', CInv, NEW a \in Agents, NEW how \in {"answered", "failed"},
         CompletionEnds(a, how)
  PROVE  Kept
<1>1. session' = [session EXCEPT !.llm[a] = how] /\ UNCHANGED <<pc, calls>>
  BY DEF CompletionEnds
<1>2. Minor(session, session')
  <2>1. session \in SessionState /\ session' \in SessionState
    BY DEF IInv, TypeOK
  <2>2. \A b \in Agents : session'.llm[b] = IF b = a THEN how ELSE session.llm[b]
    BY <1>1, <2>1 DEF SessionState
  <2>3. /\ session'.status = session.status /\ session'.phase = session.phase
        /\ session'.engine = session.engine /\ session'.mail = session.mail
        /\ session'.proposalCount = session.proposalCount
        /\ session'.deadline = session.deadline /\ session'.reviser = session.reviser
        /\ session'.voteTries = session.voteTries
        /\ session'.decisionTries = session.decisionTries
        /\ session'.exhausted = session.exhausted
        /\ session'.unresponsive = session.unresponsive
        /\ session'.agentState = session.agentState
        /\ session'.callPhase = session.callPhase
        /\ session'.callProposal = session.callProposal
    BY <1>1, <2>1 DEF SessionState
  <2>. QED
    BY <2>1, <2>2, <2>3 DEF Minor, SameCalls
<1>3. Step(session, session', a, {})
  BY <1>2, MinorStep DEF CInv
<1>. QED
  BY <1>1, <1>3, HandlerAttends

LEMMA AnswerAttends ==
  ASSUME IInv, IInv', CInv, NEW a \in Agents, NEW reply \in Replies, NEW usage \in Usages,
         Answer(a, reply, usage)
  PROVE  Kept
<1> DEFINE settled == Settle(session, a, usage)
           turn == RunTools(settled, a, reply)
           next == AfterRetry(turn.s, a)
           n    == calls[a] + 1
<1>1. /\ session.llm[a] = "answered" /\ Quotable(a, reply)
      /\ calls' = [calls EXCEPT ![a] = n]
      /\ \/ ThinkAgain(next, a, n, TRUE)
         \/ ~Retries(turn.s, a) /\ LeaveTurn(next, a, n, TRUE)
  BY DEF Answer
<1>2. a \in Calling /\ n \in Nat /\ n <= calls[a] + InCall(a)
  <2>1. a \in Calling
    BY <1>1, Invariant
  <2>2. InCall(a) = 1
    BY <2>1 DEF Calling, InCall
  <2>. QED
    BY <2>1, <2>2, CallNumbers
<1>3. Coherent(session)
  BY DEF CInv
<1>4. Step(session, settled, a, {a})
  BY <1>3, SettleStep
<1> HIDE DEF settled, n
<1>5. Coherent(settled) /\ settled.callProposal = session.callProposal
  BY <1>4 DEF Step, Change, SameCalls
<1>6. Step(settled, turn.s, a, {a})
  <2>1. \A i \in DOMAIN reply :
          reply[i].name = "vote_result" => reply[i].target <= settled.callProposal[a]
    BY <1>1, <1>5 DEF Quotable
  <2>. QED
    BY <1>5, <2>1, RunToolsStep
<1> HIDE DEF turn
<1>7. Coherent(turn.s) /\ Step(session, turn.s, a, {a})
  <2>1. Coherent(turn.s)
    BY <1>6 DEF Step
  <2>. QED
    BY <1>3, <1>4, <1>6, <2>1, StepTrans
<1>8. Step(turn.s, next, a, {a})
  BY <1>7, AfterRetryStep
<1>9. ~Retries(turn.s, a) => (Expected(next, a) => a \in next.mail)
  BY <1>7, AfterRetrySettles
<1> HIDE DEF next
<1>10. Coherent(next) /\ Step(session, next, a, {a})
  <2>1. Coherent(next)
    BY <1>8 DEF Step
  <2>. QED
    BY <1>3, <1>7, <1>8, <2>1, StepTrans
<1>11. Reached(next, a, n, TRUE, {a})
  BY <1>1, <1>2, <1>9, <1>10, ThinkAgainReached, LeaveTurnReached
<1>12. Reached(session, a, n, TRUE, {a})
  BY <1>3, <1>10, <1>11, ReachedTrans
<1>. QED
  BY <1>1, <1>2, <1>12, FoundAsIs, ReachedKeeps

LEMMA LoopDiesAttends ==
  ASSUME IInv, IInv', CInv, NEW a \in Agents, NEW usage \in Usages, LoopDies(a, usage)
  PROVE  Kept
<1> DEFINE n == calls[a] + 1
<1>1. /\ session.llm[a] = "answered"
      /\ session' = Settle(session, a, usage)
      /\ calls' = [calls EXCEPT ![a] = n]
      /\ Moves(a, "gone", TRUE)
  BY DEF LoopDies
<1>2. n \in Nat /\ n <= calls[a] + InCall(a)
  <2>1. InCall(a) = 1
    BY <1>1, Invariant DEF Calling, InCall
  <2>. QED
    BY <2>1, CallNumbers
<1> HIDE DEF n
<1>3. Step(session, session', a, {})
  BY <1>1, SettleStep DEF CInv
<1>4. Reached(session, a, n, TRUE, {})
  BY <1>1, <1>3 DEF Reached
<1>. QED
  BY <1>1, <1>2, <1>4, FoundAsIs, ReachedKeeps

LEMMA CallFailsAttends ==
  ASSUME IInv, IInv', CInv, NEW a \in Agents, CallFails(a)
  PROVE  Kept
<1> DEFINE f == OnFatal(session, a)
<1>1. /\ session' = Released(f, a) /\ Moves(a, "gone", TRUE)
      /\ calls' = [calls EXCEPT ![a] = calls[a]]
  BY Invariant DEF CallFails
<1>2. calls[a] \in Nat /\ calls[a] <= calls[a] + InCall(a)
  BY CallNumbers
<1>3. Step(session, f, a, {}) /\ Coherent(session)
  BY OnFatalStep DEF CInv
<1> HIDE DEF f
<1>4. Step(f, session', a, {})
  BY <1>1, <1>3, ReleasedMinor, MinorStep DEF Step, Coherent
<1>5. Step(session, session', a, {})
  BY <1>3, <1>4, StepTrans
<1>6. Reached(session, a, calls[a], TRUE, {})
  BY <1>1, <1>5 DEF Reached
<1>. QED
  BY <1>1, <1>2, <1>6, FoundAsIs, ReachedKeeps

LEMMA CallCancelledAttends ==
  ASSUME IInv, IInv', CInv, NEW a \in Agents, CallCancelled(a)
  PROVE  Kept
<1> DEFINE r == Released(session, a)
<1>1. /\ LeaveTurn(r, a, calls[a], TRUE) /\ session.llm[a] = "cancelled"
      /\ calls' = [calls EXCEPT ![a] = calls[a]]
  BY Invariant DEF CallCancelled
<1>2. calls[a] \in Nat /\ calls[a] <= calls[a] + InCall(a)
  BY CallNumbers
<1>3. Coherent(session) /\ session \in SessionState
  BY DEF CInv, Coherent
<1>4. Minor(session, r) /\ r.mail = session.mail
  BY <1>3, ReleasedMinor DEF Released, SessionState
<1> HIDE DEF r
<1>5. Step(session, r, a, {}) /\ Coherent(r)
  BY <1>3, <1>4, MinorStep DEF Step
<1>6. Expected(r, a) => a \in r.mail
  BY <1>1, <1>4, MinorExpected DEF CInv, Attended
<1>7. Reached(r, a, calls[a], TRUE, {})
  BY <1>1, <1>5, <1>6, LeaveTurnReached
<1>8. Reached(session, a, calls[a], TRUE, {})
  BY <1>3, <1>5, <1>7, ReachedTrans
<1>. QED
  BY <1>1, <1>2, <1>8, FoundAsIs, ReachedKeeps

(* The steps that end the session, or find it ended, and let nobody call. *)
LEMMA EndAttends ==
  ASSUME IInv, IInv', CInv, Terminal(session'), Coherent(session'), Course,
         Informed(session, session', {}),
         \A a \in Agents : calls'[a] = calls[a] /\ (pc'[a] = "calling" => pc[a] = "calling")
  PROVE  Kept
<1>1. \A a \in Agents : ~Expected(session', a)
  BY DEF Expected
<1>2. Coherent(session)' /\ Attended' /\ Rationed'
  BY <1>1, KeptParts
<1>3. \A a \in Agents : calls'[a] + InCall(a)' <= calls[a] + InCall(a)
  <2>1. TAKE a \in Agents
  <2>2. /\ calls[a] \in Nat /\ InCall(a) \in {0, 1} /\ calls'[a] = calls[a]
    BY CallNumbers
  <2>3. InCall(a)' = 0 \/ InCall(a)' = InCall(a)
    BY DEF InCall
  <2> HIDE DEF InCall
  <2>. QED
    BY <2>2, <2>3
<1>4. CallsBounded'
  BY <1>2, <1>3, BoundKept DEF CInv
<1>5. Informed(session, session', Calling)
  BY DEF Informed
<1>. QED
  BY <1>2, <1>4, <1>5 DEF Kept, CInv

LEMMA VotingTimeoutAttends ==
  ASSUME IInv, IInv', CInv, VotingTimeout
  PROVE  Kept
<1> DEFINE e == session.engine
           t == WithAbstained(e.tally, Pending(e.tally))
           u == [[session EXCEPT !.deadline = FALSE] EXCEPT !.engine = Retally(e, t, Approval)]
<1>1. /\ session \in SessionState /\ Coherent(session) /\ session.status = "voting"
      /\ e \in Engine /\ e.tally \in Tally
  BY Invariant, SessionFields DEF CInv, VotingTimeout
<1>2. ~Terminal(session) /\ Ballot(session) /\ Armed(session)
  BY <1>1 DEF Terminal, Coherent, Live, Between
<1>3. session' = ApplyOutcome(u) /\ UNCHANGED <<pc, calls>>
  <2> DEFINE expired == [session EXCEPT !.deadline = FALSE]
  <2>1. expired.engine = session.engine
    BY <1>1 DEF SessionState
  <2>2. session' = ApplyOutcome([expired EXCEPT !.engine = ExpirePending(expired.engine, Approval)])
    BY <1>2 DEF VotingTimeout, Ballot
  <2>. QED
    BY <2>1, <2>2 DEF VotingTimeout, ExpirePending
<1>4. PICK a \in Agents : a \in Pending(e.tally)
  <2>1. Approval \in ApprovalConfig
    BY TeamAssumption DEF ValidTeam
  <2>2. Pending(e.tally) # {}
    BY <1>1, <1>2, <2>1, FullBallotDecided DEF Ballot, Armed
  <2>. QED
    BY <1>1, <2>2 DEF Pending, Tally
<1>5. e.proposer # a /\ e.open
  BY <1>2, <1>4 DEF Ballot, Pending
<1>6. /\ t \in Tally /\ t.voters = e.tally.voters
      /\ t.approvals = e.tally.approvals /\ t.rejections = e.tally.rejections
      /\ Responded(e.tally) \subseteq Responded(t)
      /\ Pending(t) = {}
  BY <1>1 DEF WithAbstained, Tally, Responded, Pending
<1>7. Retally(e, t, Approval) \in Engine /\ Retally(e, t, Approval).outcome # "pending"
  <2>1. Approval \in ApprovalConfig
    BY TeamAssumption DEF ValidTeam
  <2> DEFINE f == Retally(e, t, Approval)
  <2>2. f \in Engine /\ f.outcome = Decide(t, Approval)
    BY <1>1, <1>6, RetallyType
  <2>3. Decide(t, Approval) # "pending"
    BY <1>6, <2>1, FullBallotDecided
  <2>. QED
    BY <2>2, <2>3
<1> DEFINE f == Retally(e, t, Approval)
<1>8. Retallied(session, u, t) /\ u.engine = f
  <2>1. f \in Engine /\ f = Retally(session.engine, t, Approval)
    BY <1>7
  <2>2. u = [[session EXCEPT !.deadline = FALSE] EXCEPT !.engine = f]
    OBVIOUS
  <2> HIDE DEF f, u, t
  <2>3. /\ u \in SessionState /\ u.engine = f
        /\ u.status = session.status /\ u.phase = session.phase
        /\ u.reviser = session.reviser /\ u.proposalCount = session.proposalCount
        /\ u.callPhase = session.callPhase /\ u.callProposal = session.callProposal
        /\ u.voteTries = session.voteTries /\ u.decisionTries = session.decisionTries
        /\ u.exhausted = session.exhausted /\ u.unresponsive = session.unresponsive
        /\ u.agentState = session.agentState /\ u.llm = session.llm /\ u.mail = session.mail
    BY <1>1, <2>1, <2>2 DEF SessionState
  <2>. QED
    BY <2>1, <2>3 DEF Retallied, SameCalls
<1>9. u.engine.outcome # "pending"
  BY <1>7, <1>8
<1>10. (t.approvals \cup t.rejections) \ Voted(session.engine) = {}
  BY <1>6 DEF Voted
<1> HIDE DEF u, t, f
<1>11. Step(session, ApplyOutcome(u), a, {})
  BY <1>1, <1>5, <1>6, <1>8, <1>9, <1>10, RetalliedStep
<1>. QED
  BY <1>3, <1>11, HandlerAttends DEF CInv

LEMMA TimersAttend ==
  ASSUME IInv, IInv', CInv, IdleTimeout \/ Interrupt
  PROVE  Kept
<1>1. PICK a \in Agents : TRUE
  BY AgentsAssumption
<1>2. /\ session' \in {Fail(session, "idle", 0), Fail(session, "interrupted", 0)}
      /\ UNCHANGED <<pc, calls>>
  BY DEF IdleTimeout, Interrupt
<1>3. Step(session, session', a, {})
  BY <1>2, FailStep DEF CInv, FailReasons
<1>. QED
  BY <1>2, <1>3, HandlerAttends

LEMMA CancelAttends ==
  ASSUME IInv, IInv', CInv, Cancel
  PROVE  Kept
<1>1. /\ ~Terminal(session) /\ session' = Finalize(session, "cancelled", "none", 0, 0)
      /\ UNCHANGED <<pc, calls>>
  BY DEF Cancel
<1>2. session \in SessionState /\ session' \in SessionState
  BY DEF IInv, TypeOK
<1>3. /\ session'.status = "cancelled" /\ session'.engine = session.engine
      /\ session'.proposalCount = session.proposalCount
      /\ session'.callPhase = session.callPhase
      /\ session'.callProposal = session.callProposal
      /\ session'.voteTries = session.voteTries
      /\ session'.decisionTries = session.decisionTries
  BY <1>1, <1>2 DEF Finalize, SessionState
<1>4. Terminal(session')
  BY <1>3 DEF Terminal
<1>5. Coherent(session')
  BY <1>2, <1>3, <1>4 DEF CInv, Coherent, Numbered
<1>6. Course
  BY <1>1, <1>3 DEF Course
<1>7. Informed(session, session', {})
  BY <1>2, <1>3, SessionFields DEF Informed
<1>. QED
  BY <1>1, <1>4, <1>5, <1>6, <1>7, EndAttends

LEMMA SetupFailsAttends ==
  ASSUME IInv, IInv', CInv, SetupFails
  PROVE  Kept
<1>1. PICK a \in Agents : TRUE
  BY AgentsAssumption
<1>2. /\ session' = Fail(session, "agent_error", 0) /\ pc' = [b \in Agents |-> "gone"]
      /\ UNCHANGED calls
  BY DEF SetupFails
<1>3. Step(session, session', a, {})
  BY <1>2, FailStep DEF CInv, FailReasons
<1>4. Terminal(session')
  BY <1>2, FailEnds, Invariant
<1>. QED
  BY <1>2, <1>3, <1>4, EndAttends DEF Step, Change, Course

LEMMA ShutdownAttends ==
  ASSUME IInv, IInv', CInv, Shutdown
  PROVE  Kept
<1>1. PICK a \in Agents : TRUE
  BY AgentsAssumption
<1>2. /\ Terminal(session)
      /\ session' = [session EXCEPT !.reserved = session.reserved \ Calling,
                                    !.llm = [b \in Agents |-> "none"]]
      /\ pc' = [b \in Agents |-> "gone"]
      /\ UNCHANGED calls
  BY DEF Shutdown, Calling
<1>3. Minor(session, session')
  <2>1. session \in SessionState /\ session' \in SessionState
    BY DEF IInv, TypeOK
  <2>2. /\ session'.status = session.status /\ session'.phase = session.phase
        /\ session'.engine = session.engine /\ session'.mail = session.mail
        /\ session'.proposalCount = session.proposalCount
        /\ session'.deadline = session.deadline /\ session'.reviser = session.reviser
        /\ session'.voteTries = session.voteTries
        /\ session'.decisionTries = session.decisionTries
        /\ session'.exhausted = session.exhausted
        /\ session'.unresponsive = session.unresponsive
        /\ session'.agentState = session.agentState
        /\ session'.callPhase = session.callPhase
        /\ session'.callProposal = session.callProposal
        /\ session'.llm = [b \in Agents |-> "none"]
    BY <1>2, <2>1 DEF SessionState
  <2>. QED
    BY <2>1, <2>2 DEF Minor, SameCalls
<1>4. Step(session, session', a, {})
  BY <1>3, MinorStep DEF CInv
<1>5. Terminal(session')
  BY <1>2, <1>3 DEF Minor, Terminal
<1>. QED
  BY <1>2, <1>4, <1>5, EndAttends DEF Step, Change, Course

LEMMA NextAttends == IInv /\ CInv /\ [Next]_vars => Kept
<1> SUFFICES ASSUME IInv, CInv, [Next]_vars PROVE Kept
  OBVIOUS
<1>0. IInv'
  BY NextKeeps
<1>1. ASSUME NEW a \in Agents,
             \/ Start(a) \/ Wake(a) \/ Recheck(a)
             \/ CompletionEnds(a, "answered") \/ CompletionEnds(a, "failed")
             \/ \E reply \in Replies, usage \in Usages :
                  Answer(a, reply, usage) \/ ToolRaises(a, reply, usage)
             \/ \E usage \in Usages : EmptyAnswer(a, usage)
             \/ CallFails(a) \/ CallCancelled(a)
      PROVE  Kept
  BY <1>0, <1>1, StartAttends, WakeAttends, RecheckAttends, CompletionAttends, AnswerAttends,
     LoopDiesAttends, CallFailsAttends, CallCancelledAttends DEF ToolRaises, EmptyAnswer
<1>2. CASE Stopped \/ UNCHANGED vars
  <2>1. session' = session /\ UNCHANGED <<pc, calls>>
    BY <1>2 DEF Stopped, vars
  <2>2. PICK a \in Agents : TRUE
    BY AgentsAssumption
  <2>3. Step(session, session', a, {})
    BY <2>1, StepRefl DEF CInv
  <2>. QED
    BY <1>0, <2>1, <2>3, HandlerAttends
<1>. QED
  BY <1>0, <1>1, <1>2, SetupFailsAttends, VotingTimeoutAttends, TimersAttend, CancelAttends,
     ShutdownAttends DEF Next

-----------------------------------------------------------------------------
(* The handlers leave a session whose parts agree, every agent that is waited
   for with mail, and no call beyond the limits, for every team and policy. *)
THEOREM CoherenceInvariant == Spec => [](IInv /\ CInv)
<1>1. Init => IInv /\ CInv
  BY InitIInv, InitCInv
<1>2. IInv /\ CInv /\ [Next]_vars => (IInv /\ CInv)'
  BY NextKeeps, NextAttends DEF Kept
<1>. QED
  BY <1>1, <1>2, PTL DEF Spec

(* _submit_result, _apply_outcome and the voting timer: outside a handler a
   session is in voting exactly while an undecided proposal with a voter left
   to answer is open, the budget phase says so too, and its deadline runs. *)
THEOREM VotingAlwaysArmed == Spec => []VotingIsArmed
<1>1. IInv /\ CInv => VotingIsArmed
  <2> SUFFICES ASSUME IInv, CInv, ~Terminal(session) PROVE VotingIsArmed
    BY DEF VotingIsArmed
  <2>1. Live(session) /\ session.engine.tally \in Tally
    BY Invariant, SessionFields DEF CInv, Coherent
  <2>2. CASE Between(session)
    BY <2>2 DEF Between, VotingIsArmed
  <2>3. CASE Ballot(session) /\ Armed(session)
    <3>1. Approval \in ApprovalConfig
      BY TeamAssumption DEF ValidTeam
    <3>2. Pending(session.engine.tally) # {}
      BY <2>1, <2>3, <3>1, FullBallotDecided DEF Ballot, Armed
    <3>. QED
      BY <2>3, <3>2 DEF Ballot, Armed, VotingIsArmed
  <2>. QED
    BY <2>1, <2>2, <2>3 DEF Live
<1>. QED
  BY <1>1, CoherenceInvariant, PTL

(* In the phases that end a session an agent the phase allows to call is
   never parked on an empty inbox: whoever may be asked for a result, a vote
   or a revision has been told so, or is not waiting. *)
THEOREM NobodyIsStranded == Spec => []NobodyStranded
<1>1. CInv => NobodyStranded
  BY DEF CInv, Attended, NobodyStranded, Expected, Late
<1>. QED
  BY <1>1, CoherenceInvariant, PTL

(* A call in voting is about the proposal under vote: _cancel_voting_calls
   cuts the calls about a proposal that is resolved. *)
THEOREM ReviewsStayCurrent == Spec => []ReviewsAreCurrent
<1>1. CInv => ReviewsAreCurrent
  BY DEF CInv, Coherent, Live, Current, ReviewsAreCurrent
<1>. QED
  BY <1>1, CoherenceInvariant, PTL

(* max_turns and the two attempts of each decision bound the calls of an
   agent in a whole session, the one in flight included. *)
THEOREM CallsAreBounded == Spec => []CallsBounded
<1>1. CInv => CallsBounded
  BY DEF CInv
<1>. QED
  BY <1>1, CoherenceInvariant, PTL

(* _vote_result: a vote is counted only for a call that began in voting with
   the active proposal in front of it. *)
THEOREM VotesCountedAreInformed == Spec => VotesAreInformed
<1>1. IInv /\ CInv /\ [Next]_vars =>
        [\A a \in Agents :
           /\ session'.engine.version = session.engine.version
           /\ a \in Voted(session'.engine) \ Voted(session.engine)
           => /\ pc[a] = "calling"
              /\ session.callPhase[a] = "voting"
              /\ session.callProposal[a] = session.engine.version]_vars
  BY NextAttends DEF Kept, Informed, Calling
<1>. QED
  BY <1>1, CoherenceInvariant, PTL DEF Spec, VotesAreInformed

(* _submit_result with _revision_proposer: the next proposal after a
   rejection comes from the proposer of the one rejected. *)
THEOREM RevisionsAreByTheProposer == Spec => RevisedByItsProposer
<1>1. IInv /\ CInv /\ [Next]_vars =>
        [session'.proposalCount > session.proposalCount /\ session.proposalCount > 0
           => session'.engine.proposer = session.engine.proposer]_vars
  <2> SUFFICES ASSUME IInv, CInv, [Next]_vars,
                      session'.proposalCount > session.proposalCount,
                      session.proposalCount > 0
               PROVE  session'.engine.proposer = session.engine.proposer
    OBVIOUS
  <2>1. Course
    BY NextAttends DEF Kept
  <2>2. session.proposalCount \in Nat /\ session'.proposalCount # session.proposalCount
    BY Invariant, SessionFields
  <2>3. PICK a \in Agents : Opened(session, session', a)
    BY <2>1, <2>2 DEF Course, Path, Stayed, SentBack, Ended
  <2>4. session.proposalCount # 0
    BY <2>2
  <2>. QED
    BY <2>3, <2>4 DEF Opened
<1>. QED
  BY <1>1, CoherenceInvariant, PTL DEF Spec, RevisedByItsProposer

(* with_status and the handlers nested in one another: every step of the
   session is one transition of the lifecycle, or none (the safety part of
   ImplementsLifecycle). *)
THEOREM StepsOfTheLifecycle == Spec => Lifecycle!Init /\ [][Lifecycle!Next]_(Lifecycle!vars)
<1>1. Init => Lifecycle!Init
  BY DEF Init, NewSession, Lifecycle!Init
<1>2. IInv /\ CInv /\ [Next]_vars => [Lifecycle!Next]_(Lifecycle!vars)
  <2> SUFFICES ASSUME IInv, CInv, [Next]_vars PROVE [Lifecycle!Next]_(Lifecycle!vars)
    OBVIOUS
  <2>1. Course
    BY NextAttends DEF Kept
  <2>2. ASSUME NEW a \in Agents, Path(session, session', a)
        PROVE  [Lifecycle!Next]_(Lifecycle!vars)
    <3>1. CASE Stayed(session, session')
      BY <3>1 DEF Stayed, Lifecycle!vars
    <3>2. CASE Opened(session, session', a)
      BY <3>2 DEF Opened, Lifecycle!Next, Lifecycle!Propose
    <3>3. CASE SentBack(session, session', a)
      BY <3>3 DEF SentBack, Lifecycle!Next, Lifecycle!SendBack
    <3>4. CASE Ended(session, session')
      BY <3>4 DEF Ended, Terminal, Lifecycle!Next, Lifecycle!Fail, Lifecycle!Approve,
                  Lifecycle!Ended
    <3>. QED
      BY <2>2, <3>1, <3>2, <3>3, <3>4 DEF Path
  <2>3. ASSUME ~Terminal(session), session'.status = "cancelled",
               session'.proposalCount = session.proposalCount
        PROVE  [Lifecycle!Next]_(Lifecycle!vars)
    BY <2>3 DEF Terminal, Lifecycle!Next, Lifecycle!Cancel, Lifecycle!Ended
  <2>. QED
    BY <2>1, <2>2, <2>3 DEF Course
<1>. QED
  BY <1>1, <1>2, CoherenceInvariant, PTL DEF Spec
=============================================================================
