---------------------------- MODULE Conversation ----------------------------
(***************************************************************************)
(* One agent's conversation with its model: the history that AgentLoop     *)
(* (agent.py) keeps, what of it each request shows, and how the client     *)
(* (llm/openai_client.py) makes an answer of what the model produces.      *)
(* The session around it is external: it opens and resolves proposals,     *)
(* lets the agent through the gate or not, asks for retries and sends      *)
(* messages, each time it likes; Session.tla says when it does.            *)
(*                                                                         *)
(* A turn is its kind and, for the tool calls of an answer and for their   *)
(* results, the number of the request they belong to.  A proposal is the   *)
(* number of its version, 0 for none.                                      *)
(***************************************************************************)
EXTENDS Naturals, Sequences

CONSTANTS
  HistoryLimit,   \* history_limit: turns kept
  MaxTurns,       \* max_turns: calls after which the agent needs leave
  MaxRequests,    \* bound: requests made
  MaxVersions,    \* bound: proposals opened
  MaxHistory,     \* bound: nothing more is sent to a longer history
  MaxNotices,     \* bound: notices queued at once
  MaxToolCalls    \* bound: tool calls of one answer

(* With fewer than four turns the newest results would go with the calls they
   answer. *)
ASSUME LimitAssumption == HistoryLimit \in Nat /\ HistoryLimit >= 4
ASSUME BoundAssumption ==
  /\ MaxTurns \in Nat /\ MaxRequests \in Nat /\ MaxVersions \in Nat /\ MaxHistory \in Nat
  /\ MaxNotices \in Nat /\ MaxToolCalls \in Nat

VARIABLES
  pc,                \* where the loop is
  turns,             \* _turns
  callsMade,         \* _calls_made
  request,           \* what the call in flight was asked, and about what
  feedback,          \* _voting_feedback: the request it came of, 0 for none
  feedbackProposal,  \* _voting_feedback_proposal_id
  streaming,         \* the client streams: its auth_mode is chatgpt_oauth
  produced,          \* what the model has put out for the call in flight
  response,          \* the LLMResponse
  inbox, notices,    \* bus: a message waits; how many notices do
  open, versions,    \* session: the proposal to be voted on; how many there were
  asked              \* for FeedbackIsCurrent: the proposal of every request

loop == <<pc, turns, callsMade>>
correction == <<feedback, feedbackProposal>>
client == <<streaming, produced, response>>
bus == <<inbox, notices>>
session == <<open, versions>>
vars == <<loop, request, correction, client, bus, session, asked>>

PCs == {"start", "gate", "calling", "cancelled", "answered", "waiting", "dead",
        "exhausted"}
Kinds == {"task", "batch", "notice", "truncated", "text", "calls", "results",
          "retry", "proposal", "feedback", "instruction"}
Turns == [kind : Kinds, of : Nat]
Stops == {"max_tokens", "refusal", "tool_use", "end"}

Turn(kind) == [kind |-> kind, of |-> 0]
Calls(n) == [kind |-> "calls", of |-> n]
Results(n) == [kind |-> "results", of |-> n]

NoRequest == [turns |-> <<>>, proposal |-> 0, feedback |-> 0]
NoResponse == [stop |-> "end", text |-> FALSE, calls |-> 0]
Nothing == [refusal |-> FALSE, text |-> FALSE, calls |-> 0]

-----------------------------------------------------------------------------
(* The history. *)

(* What is left of a history from its first turn that holds no results. *)
FromWholeTurn(s) ==
  SubSeq(s, CHOOSE i \in 1 .. Len(s) + 1 :
              /\ \A j \in 1 .. i - 1 : s[j].kind = "results"
              /\ i <= Len(s) => s[i].kind # "results",
         Len(s))

Newest(s, n) == SubSeq(s, Len(s) - n + 1, Len(s))

MutTruncate(s) ==
  IF Len(s) <= HistoryLimit THEN s
  ELSE <<Head(s), Turn("truncated")>> \o Newest(s, HistoryLimit - 2)

(* truncate_history: the task, a notice, and of the newest turns those whose tool
   calls are still there. *)
Truncate(s) ==
  IF Len(s) <= HistoryLimit THEN s
  ELSE <<Head(s), Turn("truncated")>>
         \o FromWholeTurn(Newest(s, HistoryLimit - 2))

(* _drain_inbox: the messages make one turn, each notice one. *)
Drained(s) ==
  s \o (IF inbox THEN <<Turn("batch")>> ELSE <<>>)
    \o [i \in 1 .. notices |-> Turn("notice")]

Drain(s) ==
  /\ turns' = s
  /\ inbox' = FALSE
  /\ notices' = 0

-----------------------------------------------------------------------------
(* The loop. *)

(* Where run() goes when a chain of calls has ended: it waits, or ends when it has
   used up its calls and the session does not want it kept. *)
Rest(made) == {"waiting"} \cup (IF made < MaxTurns THEN {} ELSE {"exhausted"})

(* Where the loop of _think_and_act goes: to the gate, unless its calls are used
   up and the session does not grant another. *)
Again(made) == {"gate"} \cup (IF made < MaxTurns THEN {} ELSE Rest(made))

Start ==
  /\ pc = "start"
  /\ turns' = <<Turn("task")>>
  /\ pc' \in Again(callsMade)
  /\ UNCHANGED <<callsMade, request, correction, client, bus, session, asked>>

Wake ==
  /\ pc = "waiting"
  /\ inbox \/ notices > 0
  /\ Drain(Drained(turns))
  /\ pc' \in Again(callsMade)
  /\ UNCHANGED <<callsMade, request, correction, client, session, asked>>

(* before_call says no. *)
GateRefuses ==
  /\ pc = "gate"
  /\ pc' \in Rest(callsMade)
  /\ UNCHANGED <<turns, callsMade, request, correction, client, bus, session,
                 asked>>

MutFeedbackFor(proposal) == IF proposal = 0 THEN 0 ELSE feedback

(* The feedback a request about this proposal shows: what a call about another one
   was told is dropped, and what a call of the discussion was told goes with the
   first proposal after it. *)
FeedbackFor(proposal) ==
  IF proposal # 0 /\ feedbackProposal \in {0, proposal} THEN feedback ELSE 0

(* A vote is asked of the task and the proposal alone, everything else of the
   whole history; either may end in an instruction. *)
Requested(history, proposal, told, instructed) ==
  (IF proposal = 0 THEN history
   ELSE <<Head(history), Turn("proposal")>>
          \o (IF told = 0 THEN <<>> ELSE <<Turn("feedback")>>))
    \o (IF instructed THEN <<Turn("instruction")>> ELSE <<>>)

(* before_call says yes: the history is brought up to date and cut, and the
   request goes out. *)
GateOpens ==
  /\ pc = "gate"
  /\ Len(asked) < MaxRequests
  /\ Drain(Truncate(Drained(turns)))
  /\ LET told == FeedbackFor(open)
     IN  /\ feedback' = told
         /\ feedbackProposal' = IF told = 0 THEN 0 ELSE open
         /\ \E instructed \in BOOLEAN :
              /\ open # 0 => instructed
              /\ request' =
                   [turns |-> Requested(Truncate(Drained(turns)), open, told,
                                        instructed),
                    proposal |-> open,
                    feedback |-> told]
  /\ asked' = Append(asked, open)
  /\ pc' = "calling"
  /\ UNCHANGED <<callsMade, client, session>>

-----------------------------------------------------------------------------
(* The client. *)

(* The model puts out a refusal, a text or one more tool call. *)
Produce ==
  /\ pc = "calling"
  /\ \/ produced' = [produced EXCEPT !.refusal = TRUE]
     \/ produced' = [produced EXCEPT !.text = TRUE]
     \/ /\ produced.calls < MaxToolCalls
        /\ produced' = [produced EXCEPT !.calls = @ + 1]
  /\ UNCHANGED <<loop, request, correction, streaming, response, bus, session,
                 asked>>

(* _normalize_stop, of the status of a response, the reason it is incomplete and
   what it holds. *)
NormalizeStop(status, reason, output) ==
  CASE reason = "max_output_tokens" -> "max_tokens"
    [] reason = "content_filter" -> "refusal"
    [] reason = "none" /\ status = "incomplete" -> "max_tokens"
    [] reason = "none" /\ status # "incomplete" /\ output.refusal -> "refusal"
    [] reason = "none" /\ status # "incomplete" /\ ~output.refusal ->
         IF output.calls > 0 THEN "tool_use" ELSE "end"

(* parse_response: only an answer that stops to use tools has tool calls, and what
   a refusal says is no text. *)
ParseResponse(status, reason, output) ==
  LET stop == NormalizeStop(status, reason, output)
  IN  [stop |-> stop, text |-> output.text,
       calls |-> IF stop = "tool_use" THEN output.calls ELSE 0]

MutCollected(snapshot) == snapshot

(* _stream_final_response: the output of the last snapshot or, where the backend
   leaves it out, the items that came done one by one. *)
Collected(snapshot) ==
  IF streaming /\ snapshot = Nothing THEN produced ELSE snapshot

(* complete() returns: without streaming a response with all that was put out,
   with streaming a last event whose snapshot has all of it or nothing. *)
CallAnswers ==
  /\ pc = "calling"
  /\ \E status \in {"completed", "incomplete", "failed"},
        reason \in {"none", "max_output_tokens", "content_filter"},
        snapshot \in {produced} \cup (IF streaming THEN {Nothing} ELSE {}) :
       /\ streaming => status # "failed"
       /\ reason # "none" => status = "incomplete"
       /\ response' = ParseResponse(status, reason, Collected(snapshot))
  /\ pc' = "answered"
  /\ UNCHANGED <<turns, callsMade, request, correction, streaming, produced, bus,
                 session, asked>>

(* The call is over, and what it was about and brought is forgotten. *)
CallEnds ==
  /\ request' = NoRequest
  /\ produced' = Nothing
  /\ response' = NoResponse
  /\ UNCHANGED <<streaming, bus, session, asked>>

(* complete() raises: an error of the provider, a stream that failed or broke off,
   arguments of a tool call that are no JSON.  The agent is dead. *)
CallFails ==
  /\ pc = "calling"
  /\ pc' = "dead"
  /\ CallEnds
  /\ UNCHANGED <<turns, callsMade, correction>>

(* The call alone was cancelled; the loop waits for its next message. *)
CallCancelled ==
  /\ pc = "cancelled"
  /\ pc' \in Rest(callsMade)
  /\ CallEnds
  /\ UNCHANGED <<turns, callsMade, correction>>

-----------------------------------------------------------------------------
(* The answer. *)

RetryTurns(retry) == IF retry THEN <<Turn("retry")>> ELSE <<>>

(* Turn accepts the answer. *)
Speaks == response.text \/ response.calls > 0

(* An answer without tool calls ends the chain, unless the session asks again. *)
Reply ==
  /\ pc = "answered"
  /\ response.stop # "tool_use"
  /\ Speaks
  /\ callsMade' = callsMade + 1
  /\ \E retry \in BOOLEAN :
       /\ turns' = (turns \o (IF response.calls = 0 THEN <<Turn("text")>>
                              ELSE <<Calls(Len(asked))>>)) \o RetryTurns(retry)
       /\ pc' \in IF retry THEN Again(callsMade') ELSE Rest(callsMade')
  /\ CallEnds
  /\ UNCHANGED correction

(* The tools run and their results make one turn.  A failed one (a command that is
   refused, a tool not offered, a second send_message) or a retry is told to the
   next request, with the proposal this one was about. *)
UseTools ==
  /\ pc = "answered"
  /\ response.stop = "tool_use"
  /\ callsMade' = callsMade + 1
  /\ \E failed, retry \in BOOLEAN :
       /\ turns' = (turns \o <<Calls(Len(asked)), Results(Len(asked))>>)
                     \o RetryTurns(retry)
       /\ IF failed \/ retry
          THEN /\ feedback' = Len(asked)
               /\ feedbackProposal' = request.proposal
               /\ pc' \in Again(callsMade')
          ELSE /\ UNCHANGED correction
               /\ pc' \in Rest(callsMade')
  /\ CallEnds

(* A tool raises what _execute_tool does not catch: the loop ends on the spot. *)
ToolRaises ==
  /\ pc = "answered"
  /\ response.stop = "tool_use"
  /\ callsMade' = callsMade + 1
  /\ turns' = Append(turns, Calls(Len(asked)))
  /\ pc' = "dead"
  /\ CallEnds
  /\ UNCHANGED correction

(* The turn of an answer with neither text nor tool calls raises, and the loop ends
   here too. *)
EmptyAnswer ==
  /\ pc = "answered"
  /\ ~Speaks
  /\ callsMade' = callsMade + 1
  /\ pc' = "dead"
  /\ CallEnds
  /\ UNCHANGED <<turns, correction>>

-----------------------------------------------------------------------------
(* The session and the bus. *)

Listens == pc \notin {"dead", "exhausted"} /\ Len(turns) < MaxHistory

SendMessage ==
  /\ Listens
  /\ ~inbox
  /\ inbox' = TRUE
  /\ UNCHANGED <<loop, request, correction, client, notices, session, asked>>

SendNotice ==
  /\ Listens
  /\ notices < MaxNotices
  /\ notices' = notices + 1
  /\ UNCHANGED <<loop, request, correction, client, inbox, session, asked>>

OpenProposal ==
  /\ open = 0
  /\ versions < MaxVersions
  /\ versions' = versions + 1
  /\ open' = versions + 1
  /\ UNCHANGED <<loop, request, correction, client, bus, asked>>

(* The proposal is decided; _cancel_voting_calls cancels a call about it that has
   no answer yet (cancel_current_call). *)
Resolve ==
  /\ open # 0
  /\ open' = 0
  /\ pc' = IF pc = "calling" /\ request.proposal = open THEN "cancelled" ELSE pc
  /\ UNCHANGED <<turns, callsMade, request, correction, client, bus, versions,
                 asked>>

-----------------------------------------------------------------------------
Init ==
  /\ pc = "start"
  /\ turns = <<>>
  /\ callsMade = 0
  /\ request = NoRequest
  /\ feedback = 0 /\ feedbackProposal = 0
  /\ streaming \in BOOLEAN
  /\ produced = Nothing
  /\ response = NoResponse
  /\ inbox = FALSE /\ notices = 0
  /\ open = 0 /\ versions = 0
  /\ asked = <<>>

Next ==
  \/ Start \/ Wake \/ GateRefuses \/ GateOpens
  \/ Produce \/ CallAnswers \/ CallFails \/ CallCancelled
  \/ Reply \/ UseTools \/ ToolRaises \/ EmptyAnswer
  \/ SendMessage \/ SendNotice \/ OpenProposal \/ Resolve

Spec == Init /\ [][Next]_vars

-----------------------------------------------------------------------------
(* Type invariant. *)
TypeOK ==
  /\ pc \in PCs
  /\ turns \in Seq(Turns)
  /\ callsMade \in Nat
  /\ request \in [turns : Seq(Turns), proposal : Nat, feedback : Nat]
  /\ feedback \in Nat /\ feedbackProposal \in Nat
  /\ streaming \in BOOLEAN
  /\ produced \in [refusal : BOOLEAN, text : BOOLEAN, calls : Nat]
  /\ response \in [stop : Stops, text : BOOLEAN, calls : Nat]
  /\ inbox \in BOOLEAN /\ notices \in Nat
  /\ open \in Nat /\ versions \in Nat
  /\ asked \in Seq(Nat)

(* The tool calls of an answer and their results, wherever a history has one of
   the two, stand side by side. *)
Matched(s) ==
  \A i \in 1 .. Len(s) :
    /\ s[i].kind = "calls" => i < Len(s) /\ s[i + 1] = Results(s[i].of)
    /\ s[i].kind = "results" => i > 1 /\ s[i - 1] = Calls(s[i].of)

(* Every request starts with the task and has, however the history was cut and
   whatever answers were broken off, the results of all tool calls it shows and no
   result of a call it does not show: the API refuses anything else, and the agent
   would be dead. *)
RequestWellFormed ==
  pc = "calling" => Head(request.turns) = Turn("task") /\ Matched(request.turns)

(* What a request about a proposal says went wrong is about that proposal or of
   the discussion just before it: no request in between was about anything else,
   however late the answer came and whatever was opened and resolved meanwhile. *)
FeedbackIsCurrent ==
  pc = "calling" /\ request.feedback # 0 =>
    /\ asked[request.feedback] \in {0, request.proposal}
    /\ \A i \in request.feedback + 1 .. Len(asked) :
         asked[i] = request.proposal

(* An answer that simply ends is one in which the model called no tool: neither
   the stream without its last output nor anything else makes the client overlook
   a vote or a submission. *)
NoCallOverlooked ==
  pc = "answered" /\ response.stop = "end" => produced.calls = 0
=============================================================================
