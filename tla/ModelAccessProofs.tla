-------------------------- MODULE ModelAccessProofs --------------------------
(***************************************************************************)
(* What an agent and its process need to speak with the language model:    *)
(* the invariants of Conversation.tla, that what an agent shows its model  *)
(* is in order, for every limit of the history and any number of requests, *)
(* proposals and messages; and of TokenStore.tla, the login, for any       *)
(* number of processes and grants.                                         *)
(***************************************************************************)
EXTENDS Conversation, TokenStore, TLAPS

-----------------------------------------------------------------------------
(* The conversation *)

-----------------------------------------------------------------------------
(* Sequences of turns in which calls and results stand side by side. *)

LEMMA PlainMatched ==
  ASSUME NEW s \in Seq(Turns), \A i \in 1 .. Len(s) : s[i].kind \notin {"calls", "results"}
  PROVE  Matched(s)
BY DEF Matched

LEMMA PairMatched ==
  ASSUME NEW n \in Nat
  PROVE  /\ <<Calls(n), Results(n)>> \in Seq(Turns)
         /\ Matched(<<Calls(n), Results(n)>>)
<1>1. Calls(n) \in Turns /\ Results(n) \in Turns
  BY DEF Calls, Results, Turns, Kinds
<1>2. Calls(n).kind = "calls" /\ Results(n).kind = "results" /\ Calls(n).of = n /\ Results(n).of = n
  BY DEF Calls, Results
<1> QED BY <1>1, <1>2 DEF Matched

LEMMA JoinMatched ==
  ASSUME NEW s \in Seq(Turns), NEW t \in Seq(Turns), Matched(s), Matched(t)
  PROVE  s \o t \in Seq(Turns) /\ Matched(s \o t)
<1> DEFINE u == s \o t
<1>1. u \in Seq(Turns) /\ Len(u) = Len(s) + Len(t)
  OBVIOUS
<1>2. ASSUME NEW i \in 1 .. Len(u)
      PROVE  /\ u[i].kind = "calls" => i < Len(u) /\ u[i + 1] = Results(u[i].of)
             /\ u[i].kind = "results" => i > 1 /\ u[i - 1] = Calls(u[i].of)
  <2>1. CASE i <= Len(s)
    <3>1. i \in 1 .. Len(s) /\ u[i] = s[i]
      BY <2>1
    <3>2. i < Len(s) => u[i + 1] = s[i + 1]
      BY <3>1
    <3>3. i > 1 => u[i - 1] = s[i - 1]
      BY <3>1
    <3> QED BY <1>1, <3>1, <3>2, <3>3 DEF Matched
  <2>2. CASE i > Len(s)
    <3> DEFINE j == i - Len(s)
    <3>1. j \in 1 .. Len(t) /\ u[i] = t[j]
      BY <1>1, <2>2
    <3>2. j < Len(t) => u[i + 1] = t[j + 1]
      BY <1>1, <3>1
    <3>3. j > 1 => u[i - 1] = t[j - 1]
      BY <1>1, <3>1
    <3>4. /\ t[j].kind = "calls" => j < Len(t) /\ t[j + 1] = Results(t[j].of)
          /\ t[j].kind = "results" => j > 1 /\ t[j - 1] = Calls(t[j].of)
      BY <3>1 DEF Matched
    <3>5. /\ j < Len(t) => i < Len(u)
          /\ j > 1 => i > 1
      BY <1>1, <3>1
    <3> HIDE DEF j, u
    <3> QED BY <3>1, <3>2, <3>3, <3>4, <3>5
  <2> QED BY <2>1, <2>2
<1> HIDE DEF u
<1>3. Matched(u)
  BY <1>2 DEF Matched
<1> QED BY <1>1, <1>3 DEF u

(* A history cut anywhere but between calls and their results. *)
LEMMA SuffixMatched ==
  ASSUME NEW s \in Seq(Turns), Matched(s), NEW m \in 0 .. Len(s),
         m < Len(s) => s[m + 1].kind # "results",
         NEW t \in Seq(Turns), Len(t) = Len(s) - m, \A j \in 1 .. Len(t) : t[j] = s[m + j]
  PROVE  Matched(t)
<1>1. ASSUME NEW j \in 1 .. Len(t)
      PROVE  /\ t[j].kind = "calls" => j < Len(t) /\ t[j + 1] = Results(t[j].of)
             /\ t[j].kind = "results" => j > 1 /\ t[j - 1] = Calls(t[j].of)
  <2>1. m + j \in 1 .. Len(s) /\ t[j] = s[m + j]
    OBVIOUS
  <2> DEFINE i == m + j
  <2>2. /\ s[i].kind = "calls" => i < Len(s) /\ s[i + 1] = Results(s[i].of)
        /\ s[i].kind = "results" => s[i - 1] = Calls(s[i].of)
    BY <2>1 DEF Matched
  <2>3. j < Len(t) => t[j + 1] = s[m + j + 1]
    OBVIOUS
  <2>4. j > 1 => t[j - 1] = s[m + j - 1]
    OBVIOUS
  <2>5. m + j < Len(s) => j < Len(t)
    OBVIOUS
  <2>6. j = 1 => m < Len(s) /\ s[m + j] = s[m + 1]
    BY <2>1
  <2> QED BY <2>1, <2>2, <2>3, <2>4, <2>5, <2>6
<1> QED BY <1>1 DEF Matched

(* truncate_history keeps the task and parts no call from its results. *)
LEMMA FromWholeTurnIs ==
  ASSUME NEW s \in Seq(Turns), Matched(s), NEW n \in Nat, n <= Len(s)
  PROVE  /\ FromWholeTurn(Newest(s, n)) \in Seq(Turns)
         /\ Matched(FromWholeTurn(Newest(s, n)))
<1> DEFINE t == Newest(s, n)
           k == Len(s) - n
           Good(i) == /\ \A j \in 1 .. i - 1 : t[j].kind = "results"
                      /\ i <= Len(t) => t[i].kind # "results"
           first == CHOOSE i \in 1 .. Len(t) + 1 : Good(i)
           u == SubSeq(t, first, Len(t))
<1>1. /\ k \in 0 .. Len(s)
      /\ t \in Seq(Turns) /\ Len(t) = n
  BY DEF Newest
<1>2. \A j \in 1 .. Len(t) : t[j] = s[k + j]
  BY <1>1 DEF Newest
<1>3. \E i \in 1 .. Len(t) + 1 : Good(i)
  <2>1. CASE n = 0 \/ t[1].kind # "results"
    <3>1. 1 \in 1 .. Len(t) + 1 /\ Good(1)
      BY <1>1, <2>1
    <3> QED BY <3>1
  <2>2. CASE ~(n = 0 \/ t[1].kind # "results")
    <3>1. n >= 2 => t[2].kind # "results"
      <4> SUFFICES ASSUME n >= 2, t[2].kind = "results" PROVE FALSE
        OBVIOUS
      <4>1. k + 2 \in 1 .. Len(s) /\ s[k + 2] = t[2] /\ s[k + 1] = t[1]
        BY <1>1, <1>2
      <4>2. s[k + 1] = Calls(s[k + 2].of)
        BY <4>1 DEF Matched
      <4> QED BY <2>2, <4>1, <4>2 DEF Calls
    <3>2. 2 \in 1 .. Len(t) + 1 /\ Good(2)
      BY <1>1, <2>2, <3>1
    <3> QED BY <3>2
  <2> QED BY <2>1, <2>2
<1>4. first \in 1 .. Len(t) + 1 /\ Good(first)
  BY <1>3
<1> DEFINE m == k + first - 1
<1> HIDE DEF first
<1>5. u \in Seq(Turns) /\ Len(u) = n - first + 1
  BY <1>1, <1>4
<1>6. \A j \in 1 .. Len(u) : u[j] = t[first + j - 1]
  BY <1>1, <1>4, <1>5
<1> HIDE DEF t, u
<1>7. m \in 0 .. Len(s) /\ Len(u) = Len(s) - m
  BY <1>1, <1>4, <1>5
<1>8. ASSUME NEW j \in 1 .. Len(u) PROVE u[j] = s[m + j]
  <2>1. first + j - 1 \in 1 .. Len(t)
    BY <1>1, <1>4, <1>5
  <2>2. t[first + j - 1] = s[k + (first + j - 1)]
    BY <2>1, <1>2
  <2>3. k + (first + j - 1) = m + j
    BY <1>1, <1>4
  <2> QED BY <2>2, <2>3, <1>6
<1>9. m < Len(s) => s[m + 1].kind # "results"
  <2> SUFFICES ASSUME m < Len(s) PROVE s[m + 1].kind # "results"
    OBVIOUS
  <2>1. first \in 1 .. Len(t) /\ k + first = m + 1
    BY <1>1, <1>4
  <2>2. t[first] = s[m + 1]
    BY <2>1, <1>2
  <2> QED BY <1>4, <2>1, <2>2
<1>10. Matched(u)
  <2> HIDE DEF m
  <2> QED BY <1>5, <1>7, <1>8, <1>9, SuffixMatched
<1> QED BY <1>5, <1>10 DEF u, first, t, FromWholeTurn

-----------------------------------------------------------------------------
(* A history, and a request made of it. *)
History(s) ==
  /\ s \in Seq(Turns)
  /\ Len(s) > 0 /\ s[1] = Turn("task")
  /\ Matched(s)

LEMMA TurnIs ==
  ASSUME NEW k \in Kinds \ {"calls", "results"}
  PROVE  /\ Turn(k) \in Turns /\ Turn(k).kind = k
         /\ <<Turn(k)>> \in Seq(Turns) /\ Matched(<<Turn(k)>>)
<1>1. Turn(k) \in Turns /\ Turn(k).kind = k
  BY DEF Turn, Turns
<1>2. <<Turn(k)>> \in Seq(Turns) /\ Matched(<<Turn(k)>>)
  BY <1>1 DEF Matched
<1> QED BY <1>1, <1>2

LEMMA TwoPlain ==
  ASSUME NEW x \in Turns, NEW y \in Turns,
         x.kind \notin {"calls", "results"}, y.kind \notin {"calls", "results"}
  PROVE  <<x, y>> \in Seq(Turns) /\ Matched(<<x, y>>)
<1>1. <<x, y>> \in Seq(Turns)
  OBVIOUS
<1>2. \A i \in 1 .. Len(<<x, y>>) : <<x, y>>[i].kind \notin {"calls", "results"}
  OBVIOUS
<1> QED BY <1>1, <1>2, PlainMatched

LEMMA TaskAndOne ==
  ASSUME NEW k \in Kinds \ {"calls", "results"}
  PROVE  History(<<Turn("task"), Turn(k)>>)
<1>1. "task" \in Kinds \ {"calls", "results"}
  BY DEF Kinds
<1>2. /\ Turn("task") \in Turns /\ Turn("task").kind = "task"
      /\ Turn(k) \in Turns /\ Turn(k).kind = k
  BY <1>1, TurnIs
<1>3. <<Turn("task"), Turn(k)>> \in Seq(Turns) /\ Matched(<<Turn("task"), Turn(k)>>)
  BY <1>2, TwoPlain
<1> QED BY <1>3 DEF History

LEMMA RepeatedIs ==
  ASSUME NEW x \in Turns, NEW n \in Nat
  PROVE  [i \in 1 .. n |-> x] \in Seq(Turns) /\ Len([i \in 1 .. n |-> x]) = n
OBVIOUS

LEMMA NothingMatched == <<>> \in Seq(Turns) /\ Matched(<<>>)
BY DEF Matched

LEMMA JoinHistory ==
  ASSUME NEW s, History(s), NEW t \in Seq(Turns), Matched(t)
  PROVE  History(s \o t)
<1>1. s \o t \in Seq(Turns) /\ Matched(s \o t)
  BY JoinMatched DEF History
<1>2. Len(s \o t) > 0 /\ (s \o t)[1] = s[1]
  BY DEF History
<1> QED BY <1>1, <1>2 DEF History

LEMMA TruncateIs ==
  ASSUME NEW s, History(s)
  PROVE  History(Truncate(s))
<1>1. CASE Len(s) <= HistoryLimit
  BY <1>1 DEF Truncate
<1>2. CASE ~(Len(s) <= HistoryLimit)
  <2> DEFINE head == <<Head(s), Turn("truncated")>>
             rest == FromWholeTurn(Newest(s, HistoryLimit - 2))
  <2>1. History(head)
    <3>1. "truncated" \in Kinds \ {"calls", "results"} /\ Head(s) = Turn("task")
      BY DEF Kinds, History
    <3> QED BY <3>1, TaskAndOne
  <2>2. rest \in Seq(Turns) /\ Matched(rest)
    BY <1>2, LimitAssumption, FromWholeTurnIs DEF History
  <2>3. Truncate(s) = head \o rest
    BY <1>2 DEF Truncate
  <2> HIDE DEF head, rest
  <2> QED BY <2>1, <2>2, <2>3, JoinHistory
<1> QED BY <1>1, <1>2

LEMMA DrainedIs ==
  ASSUME NEW s, History(s), notices \in Nat
  PROVE  History(Drained(s))
<1> DEFINE batch == IF inbox THEN <<Turn("batch")>> ELSE <<>>
           news == [i \in 1 .. notices |-> Turn("notice")]
<1>1. "batch" \in Kinds \ {"calls", "results"} /\ "notice" \in Kinds \ {"calls", "results"}
  BY DEF Kinds
<1>2. batch \in Seq(Turns) /\ Matched(batch)
  BY <1>1, TurnIs, NothingMatched
<1>3. news \in Seq(Turns) /\ Len(news) = notices
  BY <1>1, TurnIs, RepeatedIs
<1>4. \A i \in 1 .. Len(news) : news[i].kind = "notice"
  BY <1>1, <1>3, TurnIs
<1>5. Matched(news)
  <2> HIDE DEF news
  <2> QED BY <1>3, <1>4, PlainMatched
<1>6. Drained(s) = (s \o batch) \o news
  BY DEF Drained
<1> HIDE DEF batch, news
<1>7. History(s \o batch)
  BY <1>2, JoinHistory
<1> QED BY <1>3, <1>5, <1>6, <1>7, JoinHistory

LEMMA RequestedIs ==
  ASSUME NEW s, History(s), NEW proposal, NEW told, NEW instructed
  PROVE  History(Requested(s, proposal, told, instructed))
<1> DEFINE base == <<Head(s), Turn("proposal")>>
           said == IF told = 0 THEN <<>> ELSE <<Turn("feedback")>>
           last == IF instructed THEN <<Turn("instruction")>> ELSE <<>>
<1>1. /\ "task" \in Kinds \ {"calls", "results"}
      /\ "proposal" \in Kinds \ {"calls", "results"}
      /\ "feedback" \in Kinds \ {"calls", "results"}
      /\ "instruction" \in Kinds \ {"calls", "results"}
  BY DEF Kinds
<1>2. History(base)
  <2>1. Head(s) = Turn("task")
    BY DEF History
  <2> QED BY <1>1, <2>1, TaskAndOne
<1>3. /\ said \in Seq(Turns) /\ Matched(said)
      /\ last \in Seq(Turns) /\ Matched(last)
  BY <1>1, TurnIs, NothingMatched
<1>4. Requested(s, proposal, told, instructed)
        = (IF proposal = 0 THEN s ELSE base \o said) \o last
  BY DEF Requested
<1> HIDE DEF base, said, last
<1>5. History(base \o said)
  BY <1>2, <1>3, JoinHistory
<1> QED BY <1>3, <1>4, <1>5, JoinHistory

-----------------------------------------------------------------------------
(* The inductive invariant: the history is in order whenever it will be used
   again, the request in flight was made of such a history, and the feedback that
   is kept came of the discussion's last request or belongs to the proposal that
   every request since it has been about. *)
HistoryOK == pc \in {"start", "dead"} \/ History(turns)

RequestOK == pc = "calling" => History(request.turns)

Belongs(told, proposal, requests) ==
  /\ told \in 1 .. Len(requests)
  /\ requests[told] \in {0, proposal}
  /\ \A i \in told + 1 .. Len(requests) : requests[i] = proposal

FeedbackOK ==
  feedback # 0 =>
    IF feedbackProposal = 0 THEN feedback = Len(asked) /\ asked[feedback] = 0
    ELSE Belongs(feedback, feedbackProposal, asked)

InFlight ==
  pc \in {"calling", "answered"} => Len(asked) > 0 /\ asked[Len(asked)] = request.proposal

Shown ==
  pc = "calling" /\ request.feedback # 0 =>
    Belongs(request.feedback, request.proposal, asked)

Plain == response.stop # "tool_use" => response.calls = 0

IInv ==
  /\ TypeOK /\ HistoryOK /\ RequestOK /\ FeedbackOK /\ InFlight /\ Shown
  /\ Plain /\ NoCallOverlooked

LEMMA Initially ==
  ASSUME Init
  PROVE  IInv
<1>1. TypeOK
  <2>1. turns \in Seq(Turns) /\ asked \in Seq(Nat)
    BY DEF Init
  <2>2. request \in [turns : Seq(Turns), proposal : Nat, feedback : Nat]
    BY DEF Init, NoRequest
  <2>3. produced \in [refusal : BOOLEAN, text : BOOLEAN, calls : Nat] /\ response \in [stop : Stops, text : BOOLEAN, calls : Nat]
    BY DEF Init, Nothing, NoResponse, Stops
  <2> QED BY <2>1, <2>2, <2>3 DEF Init, TypeOK, PCs
<1> QED
  BY <1>1 DEF Init, IInv, HistoryOK, RequestOK, FeedbackOK, InFlight, Shown, Plain,
              NoCallOverlooked, NoResponse

LEMMA Places ==
  ASSUME NEW n
  PROVE  Rest(n) \subseteq {"waiting", "exhausted"} /\ Again(n) \subseteq {"gate", "waiting", "exhausted"}
BY DEF Rest, Again

(* What the steps that add to the history leave. *)
LEMMA HistoryGrows ==
  ASSUME IInv, [Next]_vars
  PROVE  turns' \in Seq(Turns) /\ HistoryOK'
<1> USE DEF IInv, TypeOK
<1>1. CASE Start
  <2>1. turns' \in Seq(Turns) /\ History(turns')
    <3>1. "task" \in Kinds \ {"calls", "results"}
      BY DEF Kinds
    <3>2. turns' = <<Turn("task")>> /\ Turn("task") \in Turns /\ Matched(<<Turn("task")>>)
      BY <1>1, <3>1, TurnIs DEF Start
    <3>3. <<Turn("task")>> \in Seq(Turns)
      BY <3>2
    <3> QED BY <3>2, <3>3 DEF History
  <2> QED BY <2>1 DEF HistoryOK
<1>2. CASE Wake
  <2>1. History(turns')
    BY <1>2, DrainedIs DEF Wake, Drain, HistoryOK
  <2> QED BY <2>1 DEF HistoryOK, History
<1>3. CASE GateOpens
  <2>1. History(turns')
    BY <1>3, DrainedIs, TruncateIs DEF GateOpens, Drain, HistoryOK
  <2> QED BY <2>1 DEF HistoryOK, History
<1>4. ASSUME NEW retry \in BOOLEAN
      PROVE  RetryTurns(retry) \in Seq(Turns) /\ Matched(RetryTurns(retry))
  <2>1. "retry" \in Kinds \ {"calls", "results"}
    BY DEF Kinds
  <2> QED BY <2>1, TurnIs, NothingMatched DEF RetryTurns
<1>5. CASE Reply
  <2>1. response.calls = 0
    BY <1>5 DEF Reply, Plain
  <2>2. History(turns)
    BY <1>5 DEF Reply, HistoryOK
  <2>3. "text" \in Kinds \ {"calls", "results"}
    BY DEF Kinds
  <2>4. PICK retry \in BOOLEAN : turns' = (turns \o <<Turn("text")>>) \o RetryTurns(retry)
    BY <1>5, <2>1 DEF Reply
  <2>5. History(turns \o <<Turn("text")>>)
    BY <2>2, <2>3, TurnIs, JoinHistory
  <2>6. History(turns')
    BY <1>4, <2>4, <2>5, JoinHistory
  <2> QED BY <2>6 DEF HistoryOK, History
<1>6. CASE UseTools
  <2>1. History(turns)
    BY <1>6 DEF UseTools, HistoryOK
  <2>2. PICK retry \in BOOLEAN :
          turns' = (turns \o <<Calls(Len(asked)), Results(Len(asked))>>) \o RetryTurns(retry)
    BY <1>6 DEF UseTools
  <2>3. History(turns \o <<Calls(Len(asked)), Results(Len(asked))>>)
    <3>1. Len(asked) \in Nat
      OBVIOUS
    <3> QED BY <2>1, <3>1, PairMatched, JoinHistory
  <2>4. History(turns')
    BY <1>4, <2>2, <2>3, JoinHistory
  <2> QED BY <2>4 DEF HistoryOK, History
<1>7. CASE ToolRaises
  <2>1. Calls(Len(asked)) \in Turns
    BY DEF Calls, Turns, Kinds
  <2> QED BY <1>7, <2>1 DEF ToolRaises, HistoryOK
<1>8. ASSUME UNCHANGED turns, pc' \in {"start", "dead"} \/ pc \notin {"start", "dead"}
      PROVE  turns' \in Seq(Turns) /\ HistoryOK'
  BY <1>8 DEF HistoryOK
<1>9. CASE GateRefuses \/ Produce \/ CallAnswers \/ CallFails \/ CallCancelled
           \/ EmptyAnswer
  BY <1>8, <1>9 DEF GateRefuses, Produce, CallAnswers, CallFails, CallCancelled,
                    EmptyAnswer, loop
<1>10. CASE SendMessage \/ SendNotice \/ OpenProposal \/ Resolve \/ UNCHANGED vars
  <2>1. UNCHANGED turns /\ (pc' = pc \/ pc = "calling")
    BY <1>10 DEF SendMessage, SendNotice, OpenProposal, Resolve, loop, vars
  <2> QED BY <1>8, <2>1
<1> QED
  BY <1>1, <1>2, <1>3, <1>5, <1>6, <1>7, <1>9, <1>10 DEF Next

-----------------------------------------------------------------------------
(* The client hears all that the model has put out, and makes tool calls only of
   an answer that stops to use tools. *)
LEMMA ParsedIs ==
  ASSUME NEW status,
         NEW reason \in {"none", "max_output_tokens", "content_filter"},
         NEW output \in [refusal : BOOLEAN, text : BOOLEAN, calls : Nat],
         NEW parsed, parsed = ParseResponse(status, reason, output)
  PROVE  /\ parsed \in [stop : Stops, text : BOOLEAN, calls : Nat]
         /\ parsed.stop # "tool_use" => parsed.calls = 0
         /\ parsed.stop = "end" => output.calls = 0
<1> DEFINE stop == NormalizeStop(status, reason, output)
<1>1. output.refusal \in BOOLEAN /\ output.text \in BOOLEAN /\ output.calls \in Nat
  OBVIOUS
<1>2. stop \in Stops /\ (stop = "end" => output.calls = 0)
  <2>1. CASE reason = "max_output_tokens"
    BY <2>1 DEF NormalizeStop, Stops
  <2>2. CASE reason = "content_filter"
    BY <2>2 DEF NormalizeStop, Stops
  <2>3. CASE reason = "none" /\ status = "incomplete"
    BY <2>3 DEF NormalizeStop, Stops
  <2>4. CASE reason = "none" /\ status # "incomplete" /\ output.refusal
    BY <2>4 DEF NormalizeStop, Stops
  <2>5. CASE reason = "none" /\ status # "incomplete" /\ ~output.refusal
    <3>1. stop = IF output.calls > 0 THEN "tool_use" ELSE "end"
      BY <2>5 DEF NormalizeStop
    <3> QED BY <1>1, <3>1 DEF Stops
  <2> QED BY <1>1, <2>1, <2>2, <2>3, <2>4, <2>5
<1> HIDE DEF stop
<1>3. parsed
        = [stop |-> stop, text |-> output.text,
           calls |-> IF stop = "tool_use" THEN output.calls ELSE 0]
  BY DEF ParseResponse, stop
<1> QED BY <1>1, <1>2, <1>3

LEMMA AnswersKept ==
  ASSUME IInv, [Next]_vars
  PROVE  /\ streaming' \in BOOLEAN
         /\ produced' \in [refusal : BOOLEAN, text : BOOLEAN, calls : Nat]
         /\ response' \in [stop : Stops, text : BOOLEAN, calls : Nat]
         /\ Plain' /\ NoCallOverlooked'
<1> USE DEF IInv, TypeOK
<1>1. ASSUME CallEnds, pc' # "answered"
      PROVE  /\ streaming' \in BOOLEAN
             /\ produced' \in [refusal : BOOLEAN, text : BOOLEAN, calls : Nat]
             /\ response' \in [stop : Stops, text : BOOLEAN, calls : Nat]
             /\ Plain' /\ NoCallOverlooked'
  BY <1>1 DEF CallEnds, Nothing, NoResponse, Stops, Plain, NoCallOverlooked
<1>2. ASSUME UNCHANGED client, pc' = "answered" => pc = "answered"
      PROVE  /\ streaming' \in BOOLEAN
             /\ produced' \in [refusal : BOOLEAN, text : BOOLEAN, calls : Nat]
             /\ response' \in [stop : Stops, text : BOOLEAN, calls : Nat]
             /\ Plain' /\ NoCallOverlooked'
  BY <1>2 DEF client, Plain, NoCallOverlooked
<1>3. CASE Start \/ Wake \/ GateRefuses \/ GateOpens
  <2>1. UNCHANGED client /\ pc' # "answered"
    BY <1>3, Places DEF Start, Wake, GateRefuses, GateOpens
  <2> QED BY <1>2, <2>1
<1>4. CASE CallFails \/ CallCancelled \/ ToolRaises \/ EmptyAnswer
  <2>1. CallEnds /\ pc' # "answered"
    BY <1>4, Places DEF CallFails, CallCancelled, ToolRaises, EmptyAnswer
  <2> QED BY <1>1, <2>1
<1>5. CASE Reply \/ UseTools
  <2>1. CallEnds /\ pc' # "answered"
    BY <1>5, Places DEF Reply, UseTools
  <2> QED BY <1>1, <2>1
<1>6. CASE SendMessage \/ SendNotice \/ OpenProposal \/ Resolve \/ UNCHANGED vars
  <2>1. UNCHANGED client /\ (pc' = pc \/ pc' = "cancelled")
    BY <1>6 DEF SendMessage, SendNotice, OpenProposal, Resolve, loop, vars
  <2> QED BY <1>2, <2>1
<1>7. CASE Produce
  <2>1. UNCHANGED <<streaming, response>> /\ pc' = "calling"
    BY <1>7 DEF Produce, loop
  <2>2. ASSUME produced' = [produced EXCEPT !.refusal = TRUE]
        PROVE  produced' \in [refusal : BOOLEAN, text : BOOLEAN, calls : Nat]
    BY <2>2
  <2>3. ASSUME produced' = [produced EXCEPT !.text = TRUE]
        PROVE  produced' \in [refusal : BOOLEAN, text : BOOLEAN, calls : Nat]
    BY <2>3
  <2>4. ASSUME produced' = [produced EXCEPT !.calls = @ + 1]
        PROVE  produced' \in [refusal : BOOLEAN, text : BOOLEAN, calls : Nat]
    <3>1. produced.calls + 1 \in Nat
      OBVIOUS
    <3>2. produced.refusal \in BOOLEAN /\ produced.text \in BOOLEAN
      OBVIOUS
    <3>3. produced' = [refusal |-> produced.refusal, text |-> produced.text,
                       calls |-> produced.calls + 1]
      BY <2>4
    <3> QED BY <3>1, <3>2, <3>3
  <2>5. produced' \in [refusal : BOOLEAN, text : BOOLEAN, calls : Nat]
    BY <1>7, <2>2, <2>4, <2>3 DEF Produce
  <2> QED BY <2>1, <2>5 DEF Plain, NoCallOverlooked
<1>8. CASE CallAnswers
  <2>1. PICK status \in {"completed", "incomplete", "failed"},
             reason \in {"none", "max_output_tokens", "content_filter"},
             snapshot \in {produced} \cup (IF streaming THEN {Nothing} ELSE {}) :
          response' = ParseResponse(status, reason, Collected(snapshot))
    BY <1>8 DEF CallAnswers
  <2>2. Collected(snapshot) = produced
    BY <2>1 DEF Collected
  <2>3. UNCHANGED <<streaming, produced>>
    BY <1>8 DEF CallAnswers
  <2>4. /\ response' \in [stop : Stops, text : BOOLEAN, calls : Nat]
        /\ response'.stop # "tool_use" => response'.calls = 0
        /\ response'.stop = "end" => produced.calls = 0
    <3>1. response' = ParseResponse(status, reason, produced)
      BY <2>1, <2>2
    <3>2. produced \in [refusal : BOOLEAN, text : BOOLEAN, calls : Nat]
      OBVIOUS
    <3>3. reason \in {"none", "max_output_tokens", "content_filter"}
      OBVIOUS
    <3>4. \A parsed : parsed = ParseResponse(status, reason, produced) =>
             /\ parsed \in [stop : Stops, text : BOOLEAN, calls : Nat]
             /\ parsed.stop # "tool_use" => parsed.calls = 0
             /\ parsed.stop = "end" => produced.calls = 0
      BY ONLY <3>2, <3>3, ParsedIs
    <3> QED BY <3>1, <3>4
  <2> QED BY <2>3, <2>4 DEF Plain, NoCallOverlooked
<1> QED
  BY <1>3, <1>4, <1>5, <1>6, <1>7, <1>8 DEF Next

-----------------------------------------------------------------------------
(* The request in flight, and the feedback of those before it. *)
LEMMA OneMore ==
  ASSUME NEW requests \in Seq(Nat), NEW proposal \in Nat, NEW told,
         \/ Belongs(told, proposal, requests)
         \/ told > 0 /\ told = Len(requests) /\ requests[told] = 0
  PROVE  Belongs(told, proposal, Append(requests, proposal))
<1> DEFINE more == Append(requests, proposal)
<1>1. /\ Len(more) = Len(requests) + 1
      /\ more[Len(more)] = proposal
  OBVIOUS
<1>2. \A i \in 1 .. Len(requests) : more[i] = requests[i]
  OBVIOUS
<1> HIDE DEF more
<1>3. told \in 1 .. Len(requests) /\ requests[told] \in {0, proposal}
  BY DEF Belongs
<1>4. told \in 1 .. Len(more) /\ more[told] \in {0, proposal}
  BY <1>1, <1>2, <1>3
<1>5. ASSUME NEW i \in told + 1 .. Len(more) PROVE more[i] = proposal
  <2>1. CASE i = Len(more)
    BY <1>1, <2>1
  <2>2. CASE i # Len(more)
    <3>1. i \in told + 1 .. Len(requests) /\ i \in 1 .. Len(requests)
      BY <1>1, <1>3, <2>2
    <3>2. Belongs(told, proposal, requests)
      BY <3>1, <1>3
    <3> QED BY <1>2, <3>1, <3>2 DEF Belongs
  <2> QED BY <2>1, <2>2
<1>6. Belongs(told, proposal, more)
  BY <1>4, <1>5 DEF Belongs
<1> QED BY <1>6 DEF more

LEMMA GateKeeps ==
  ASSUME IInv, GateOpens
  PROVE  /\ request' \in [turns : Seq(Turns), proposal : Nat, feedback : Nat]
         /\ feedback' \in Nat /\ feedbackProposal' \in Nat /\ asked' \in Seq(Nat)
         /\ RequestOK' /\ FeedbackOK' /\ InFlight' /\ Shown'
<1> USE DEF IInv, TypeOK
<1> DEFINE told == FeedbackFor(open)
<1>1. PICK instructed \in BOOLEAN :
        request' = [turns |-> Requested(Truncate(Drained(turns)), open, told, instructed),
                    proposal |-> open, feedback |-> told]
  BY DEF GateOpens
<1>2. History(Requested(Truncate(Drained(turns)), open, told, instructed))
  BY DrainedIs, TruncateIs, RequestedIs DEF GateOpens, HistoryOK
<1>3. /\ asked' = Append(asked, open)
      /\ feedback' = told /\ feedbackProposal' = IF told = 0 THEN 0 ELSE open
      /\ pc' = "calling"
  BY DEF GateOpens
<1>4. told \in Nat /\ open \in Nat
  BY DEF FeedbackFor
<1>5. told # 0 => open # 0 /\ told = feedback /\ feedbackProposal \in {0, open}
  BY DEF FeedbackFor
<1>6. told # 0 => Belongs(told, open, asked')
  <2> SUFFICES ASSUME told # 0 PROVE Belongs(told, open, Append(asked, open))
    BY <1>3
  <2>1. told > 0
    BY <1>4
  <2>2. \/ Belongs(told, open, asked)
        \/ told > 0 /\ told = Len(asked) /\ asked[told] = 0
    <3> HIDE DEF told
    <3> QED BY <1>5, <2>1 DEF FeedbackOK
  <2> HIDE DEF told
  <2> QED BY <1>4, <2>2, OneMore
<1> HIDE DEF told
<1>7. request'.turns \in Seq(Turns) /\ request'.proposal = open /\ request'.feedback = told
  BY <1>1, <1>2 DEF History
<1>8. asked' \in Seq(Nat) /\ Len(asked') > 0 /\ asked'[Len(asked')] = open
  BY <1>3, <1>4
<1>9. request' \in [turns : Seq(Turns), proposal : Nat, feedback : Nat]
  BY <1>1, <1>2, <1>4 DEF History
<1>10. RequestOK'
  BY <1>1, <1>2 DEF RequestOK
<1>11. FeedbackOK'
  BY <1>3, <1>4, <1>5, <1>6 DEF FeedbackOK
<1>12. InFlight' /\ Shown'
  BY <1>6, <1>7, <1>8 DEF InFlight, Shown
<1> QED BY <1>3, <1>4, <1>8, <1>9, <1>10, <1>11, <1>12

LEMMA ToolsKeep ==
  ASSUME IInv, UseTools
  PROVE  /\ request' \in [turns : Seq(Turns), proposal : Nat, feedback : Nat]
         /\ feedback' \in Nat /\ feedbackProposal' \in Nat /\ asked' \in Seq(Nat)
         /\ RequestOK' /\ FeedbackOK' /\ InFlight' /\ Shown'
<1> USE DEF IInv, TypeOK
<1>1. pc = "answered" /\ pc' \notin {"calling", "answered"} /\ asked' = asked
  BY Places DEF UseTools, CallEnds
<1>2. request' \in [turns : Seq(Turns), proposal : Nat, feedback : Nat]
  BY DEF UseTools, CallEnds, NoRequest
<1>3. Len(asked) > 0 /\ asked[Len(asked)] = request.proposal /\ request.proposal \in Nat
  BY <1>1 DEF InFlight
<1>4. \/ feedback' = Len(asked) /\ feedbackProposal' = request.proposal
      \/ UNCHANGED correction
  BY DEF UseTools
<1>5. feedback' \in Nat /\ feedbackProposal' \in Nat /\ FeedbackOK'
  <2>1. CASE feedback' = Len(asked) /\ feedbackProposal' = request.proposal
    <3>1. Belongs(Len(asked), request.proposal, asked)
      BY <1>3 DEF Belongs
    <3> QED BY <1>1, <1>3, <2>1, <3>1 DEF FeedbackOK
  <2>2. CASE UNCHANGED correction
    BY <1>1, <2>2 DEF correction, FeedbackOK
  <2> QED BY <1>4, <2>1, <2>2
<1> QED BY <1>1, <1>2, <1>5 DEF RequestOK, InFlight, Shown

LEMMA RequestsKept ==
  ASSUME IInv, [Next]_vars
  PROVE  /\ request' \in [turns : Seq(Turns), proposal : Nat, feedback : Nat]
         /\ feedback' \in Nat /\ feedbackProposal' \in Nat /\ asked' \in Seq(Nat)
         /\ RequestOK' /\ FeedbackOK' /\ InFlight' /\ Shown'
<1>1. ASSUME UNCHANGED <<correction, asked>>,
             \/ request' = NoRequest /\ pc' \notin {"calling", "answered"}
             \/ request' = request /\ (pc' = "calling" => pc = "calling")
                /\ (pc' = "answered" => pc \in {"calling", "answered"})
      PROVE  /\ request' \in [turns : Seq(Turns), proposal : Nat, feedback : Nat]
             /\ feedback' \in Nat /\ feedbackProposal' \in Nat /\ asked' \in Seq(Nat)
             /\ RequestOK' /\ FeedbackOK' /\ InFlight' /\ Shown'
  <2> USE DEF IInv, TypeOK
  <2>1. NoRequest \in [turns : Seq(Turns), proposal : Nat, feedback : Nat]
    BY DEF NoRequest
  <2> QED BY <1>1, <2>1 DEF correction, RequestOK, FeedbackOK, InFlight, Shown
<1>2. CASE Start \/ Wake \/ GateRefuses
  <2>1. UNCHANGED <<correction, asked, request>> /\ pc' \notin {"calling", "answered"}
    BY <1>2, Places DEF Start, Wake, GateRefuses
  <2> QED BY <1>1, <2>1
<1>3. CASE Produce \/ CallAnswers
  <2>1. UNCHANGED <<correction, asked, request>> /\ pc = "calling"
    BY <1>3 DEF Produce, CallAnswers
  <2> QED BY <1>1, <2>1
<1>4. CASE CallFails \/ CallCancelled \/ Reply \/ ToolRaises \/ EmptyAnswer
  <2>1. UNCHANGED <<correction, asked>> /\ request' = NoRequest /\ pc' \notin {"calling", "answered"}
    BY <1>4, Places DEF CallFails, CallCancelled, Reply, ToolRaises, EmptyAnswer, CallEnds
  <2> QED BY <1>1, <2>1
<1>5. CASE SendMessage \/ SendNotice \/ OpenProposal \/ Resolve \/ UNCHANGED vars
  <2>1. UNCHANGED <<correction, asked, request>> /\ (pc' = pc \/ pc' = "cancelled")
    BY <1>5 DEF SendMessage, SendNotice, OpenProposal, Resolve, loop, vars
  <2> QED BY <1>1, <2>1
<1> QED
  BY <1>2, <1>3, <1>4, <1>5, GateKeeps, ToolsKeep DEF Next

-----------------------------------------------------------------------------
LEMMA OthersKept ==
  ASSUME IInv, [Next]_vars
  PROVE  /\ pc' \in PCs /\ callsMade' \in Nat
         /\ inbox' \in BOOLEAN /\ notices' \in Nat
         /\ open' \in Nat /\ versions' \in Nat
<1> USE DEF IInv, TypeOK, PCs
<1>1. CASE Start \/ Wake \/ GateRefuses
  <2>1. pc' \in {"gate", "waiting", "exhausted"}
    BY <1>1, Places DEF Start, Wake, GateRefuses
  <2>2. UNCHANGED <<callsMade, session>>
    BY <1>1 DEF Start, Wake, GateRefuses
  <2>3. \/ inbox' = inbox /\ notices' = notices
        \/ inbox' = FALSE /\ notices' = 0
    BY <1>1 DEF Start, Wake, GateRefuses, Drain, bus
  <2>4. inbox' \in BOOLEAN
    BY <2>3
  <2>5. notices' \in Nat
    BY <2>3
  <2> QED BY <2>1, <2>2, <2>4, <2>5 DEF session
<1>2. CASE GateOpens
  BY <1>2 DEF GateOpens, Drain, session
<1>3. CASE Produce \/ CallAnswers
  BY <1>3 DEF Produce, CallAnswers, loop, bus, session
<1>4. CASE CallFails \/ CallCancelled \/ ToolRaises \/ EmptyAnswer
  <2>1. pc' \in {"waiting", "exhausted", "cancelled", "dead", "gate"}
    BY <1>4, Places DEF CallFails, CallCancelled, ToolRaises, EmptyAnswer
  <2>2. callsMade' \in {callsMade, callsMade + 1} /\ UNCHANGED <<bus, session>>
    BY <1>4 DEF CallFails, CallCancelled, ToolRaises, EmptyAnswer, CallEnds
  <2> QED BY <2>1, <2>2 DEF bus, session
<1>5. CASE Reply \/ UseTools
  <2>1. UNCHANGED <<bus, session>> /\ callsMade' = callsMade + 1
    BY <1>5 DEF Reply, UseTools, CallEnds
  <2>2. pc' \in PCs
    BY <1>5, Places DEF Reply, UseTools
  <2> QED BY <2>1, <2>2 DEF bus, session
<1>6. CASE SendMessage \/ SendNotice \/ OpenProposal \/ Resolve \/ UNCHANGED vars
  <2>1. pc' \in PCs /\ callsMade' \in Nat
    BY <1>6 DEF SendMessage, SendNotice, OpenProposal, Resolve, loop, vars
  <2>2. inbox' \in BOOLEAN
    BY <1>6 DEF SendMessage, SendNotice, OpenProposal, Resolve, bus, vars
  <2>3. notices' \in Nat
    BY <1>6 DEF SendMessage, SendNotice, OpenProposal, Resolve, bus, vars
  <2>4. open' \in Nat /\ versions' \in Nat
    BY <1>6 DEF SendMessage, SendNotice, OpenProposal, Resolve, session, vars
  <2> QED BY <2>1, <2>2, <2>3, <2>4
<1> QED BY <1>1, <1>2, <1>3, <1>4, <1>5, <1>6 DEF Next

LEMMA Inductive ==
  ASSUME IInv, [Next]_vars
  PROVE  IInv'
<1>1. TypeOK'
  BY HistoryGrows, AnswersKept, RequestsKept, OthersKept DEF TypeOK
<1> QED BY <1>1, HistoryGrows, AnswersKept, RequestsKept DEF IInv

(* History, request, feedback and answer keep their types. *)
THEOREM TypeCorrect == Spec => []TypeOK
<1>1. IInv => TypeOK
  BY DEF IInv
<1> QED BY Initially, Inductive, <1>1, PTL DEF Spec

(* Every request starts with the task and shows no tool call without its results
   and no results without their call (truncate_history, parse_response). *)
THEOREM RequestsWellFormed == Spec => []RequestWellFormed
<1>1. IInv => RequestWellFormed
  BY DEF IInv, RequestOK, History, RequestWellFormed
<1> QED BY Initially, Inductive, <1>1, PTL DEF Spec

(* What a request about a proposal says went wrong belongs to that proposal, or to
   the discussion's last request before it (_voting_feedback_proposal_id). *)
THEOREM FeedbackStaysCurrent == Spec => []FeedbackIsCurrent
<1>1. IInv => FeedbackIsCurrent
  BY DEF IInv, Shown, Belongs, FeedbackIsCurrent
<1> QED BY Initially, Inductive, <1>1, PTL DEF Spec

(* No tool call of an answer that came through is overlooked (parse_response and
   _stream_final_response). *)
THEOREM CallsAreHeard == Spec => []NoCallOverlooked
<1>1. IInv => NoCallOverlooked
  BY DEF IInv
<1> QED BY Initially, Inductive, <1>1, PTL DEF Spec

-----------------------------------------------------------------------------
(* The token store

   LoginKept is not inductive.  It needs that the refresh token in the hands of
   a process that is about to write is one the OAuth server takes
   (HandsRenewable), and for a server that rotates that nobody else can use it
   up: it is in no other hands and not yet in the file (HandsApart).  Every
   number in use is one that has been granted (InRange), and what a client works
   on can be refreshed (ClientsRefresh): only a login brings a record that
   cannot.

   LoginStands is about a step; what has to hold before it is Stands, that the
   file and every client that asked since are of the chosen account.  A refresh
   keeps to that only if its two tokens never come of two accounts (Paired): the
   OAuth server grants the new one to the owner of the refresh token. *)

Known(r) == r.access <= Granted /\ r.refresh <= Granted

(* The record in p's hands has a refresh token. *)
Refreshes(p) == record[p].refresh # 0

Working == {"asked", "granted", "created", "opened", "mixed", "written"}

InRange ==
  /\ Granted <= MaxGrants
  /\ \A n \in valid : n <= Granted
  /\ file # NoRecord => Known(file)
  /\ \A p \in Processes : record[p] # NoRecord => Known(record[p])
  /\ \A p \in Processes : doing[p] \in Working => record[p] # NoRecord
  /\ \A p \in Clients : doing[p] # "exchanging"
  /\ \A l \in Logins : doing[l] = "exchanging" => user[l] \in Accounts

HandsRenewable ==
  \A p \in Processes : Holds(p) /\ Refreshes(p) => Renewable(record[p])

Uses(q) == Holds(q) \/ doing[q] = "asked"

HandsApart ==
  rotates =>
    \A p \in Processes : Holds(p) /\ Refreshes(p) =>
      /\ \A q \in Processes \ {p} : Uses(q) => record[q].refresh # record[p].refresh
      /\ file # NoRecord => file.refresh # record[p].refresh

ClientsRefresh == \A p \in Clients : doing[p] \in Working => Refreshes(p)

SameOwner(r) == r.refresh # 0 => owner[r.refresh] = AccountOf(r)

Paired ==
  /\ file # NoRecord => SameOwner(file)
  /\ \A p \in Processes : record[p] # NoRecord => SameOwner(record[p])

Stands ==
  chosen # NoAccount =>
    /\ file # NoRecord => AccountOf(file) = chosen
    /\ \A p \in Clients \ unaware :
         doing[p] \in Working => AccountOf(record[p]) = chosen

TInv == TokenTypeOK /\ InRange
TokenIInv ==
  /\ TInv
  /\ ClientsRefresh /\ HandsRenewable /\ HandsApart /\ LoginKept
  /\ Paired /\ Stands

-----------------------------------------------------------------------------
(* What a new grant does to the numbers in use. *)
LEMMA GrantIs ==
  ASSUME TInv, NEW a \in Accounts, NEW take, Grant(a, take)
  PROVE  /\ owner' \in Seq(Accounts)
         /\ Granted \in Nat
         /\ Granted' = Granted + 1
         /\ Granted + 1 \in Grants
         /\ Granted' <= MaxGrants
         /\ owner'[Granted + 1] = a
         /\ \A n \in 1..Granted : owner'[n] = owner[n]
         /\ valid' = take
<1> QED BY GrantBound DEF TInv, TokenTypeOK, Grant, Granted, Grants

(* The refresh tokens that the server takes are of its grants. *)
LEMMA ServerKnows ==
  ASSUME TInv, NEW n \in valid
  PROVE  Granted \in Nat /\ n \in 1..Granted /\ n # 0
<1>1. n \in 1..MaxGrants /\ n <= Granted
  BY DEF TInv, TokenTypeOK, InRange, Grants
<1>2. Granted \in Nat
  BY DEF TInv, TokenTypeOK, Granted
<1> QED BY <1>1, <1>2, GrantBound

(* What a request for a refresh that the server takes does to them. *)
LEMMA RenewalIs ==
  ASSUME TInv, NEW p \in Clients, Renews(p)
  PROVE  /\ record[p] \in Stored
         /\ owner' \in Seq(Accounts)
         /\ Granted \in Nat
         /\ Granted' = Granted + 1
         /\ Granted + 1 \in Grants
         /\ Granted' <= MaxGrants
         /\ owner'[Granted + 1] = owner[record[p].refresh]
         /\ \A n \in 1..Granted : owner'[n] = owner[n]
         /\ valid' = IF rotates THEN (valid \ {record[p].refresh}) \cup {Granted + 1}
                     ELSE valid
         /\ valid' \subseteq Grants
         /\ \A n \in valid' : n <= Granted'
<1>1. record[p] \in Stored /\ Known(record[p])
  BY DEF TInv, TokenTypeOK, InRange, Working, Renews, Processes
<1>2. owner[record[p].refresh] \in Accounts
  BY ServerKnows DEF Renews, TInv, TokenTypeOK, Granted
<1>3. /\ owner' \in Seq(Accounts)
      /\ Granted \in Nat
      /\ Granted' = Granted + 1
      /\ Granted + 1 \in Grants
      /\ Granted' <= MaxGrants
      /\ owner'[Granted + 1] = owner[record[p].refresh]
      /\ \A n \in 1..Granted : owner'[n] = owner[n]
      /\ valid' = IF rotates THEN (valid \ {record[p].refresh}) \cup {Granted + 1} ELSE valid
  BY <1>2, GrantIs DEF Renews
<1>4. valid' \subseteq valid \cup {Granted + 1}
  BY <1>3
<1>5. valid \subseteq Grants /\ (\A n \in valid : n <= Granted) /\ Grants \subseteq Nat
  BY GrantBound DEF TInv, TokenTypeOK, InRange, Grants
<1>6. ASSUME NEW n \in valid' PROVE n <= Granted'
  <2>1. CASE n \in valid
    <3>1. n \in Nat /\ n <= Granted
      BY <1>5, <2>1
    <3>2. Granted \in Nat /\ Granted' = Granted + 1
      BY <1>3
    <3> QED BY <3>1, <3>2
  <2>2. CASE n = Granted + 1
    BY <1>3, <2>2
  <2> QED BY <1>4, <2>1, <2>2
<1> QED BY <1>1, <1>3, <1>4, <1>5, <1>6

(* The record that a refresh makes. *)
LEMMA RecordsAre ==
  ASSUME TInv, Granted \in Nat, Granted + 1 \in Grants, NEW r \in Stored, Known(r)
  PROVE  /\ Refreshed(r) \in Stored
         /\ Refreshed(r).access = Granted + 1
         /\ Refreshed(r).refresh = (IF rotates THEN Granted + 1 ELSE r.refresh)
         /\ Refreshed(r).refresh <= Granted + 1
<1>1. r.refresh \in {0} \cup Grants /\ r.refresh <= Granted /\ {0} \cup Grants \subseteq Nat
  BY GrantBound DEF Stored, Known, Grants
<1> QED BY <1>1 DEF Refreshed, Stored

(* What a refresh or a login does to the process that gets the tokens, or should
   have got them. *)
LEMMA GrantedTypes ==
  ASSUME TInv, NEW p \in Processes, NEW r \in Stored \cup {NoRecord}, NEW to \in ProcessStates,
         r # NoRecord => r.access <= Granted + 1 /\ r.refresh <= Granted + 1,
         to \in Working => r # NoRecord, to # "exchanging",
         WorksOn(p, to, r), UNCHANGED <<file, held, expired, rotates, chosen, unaware>>,
         kept' \in BOOLEAN,
         user' \in [Logins -> Accounts \cup {"undecided", "denied"}],
         \A l \in Logins \ {p} : user'[l] = user[l],
         owner' \in Seq(Accounts), Granted \in Nat, Granted' = Granted + 1,
         Granted' <= MaxGrants, valid' \subseteq Grants, \A n \in valid' : n <= Granted'
  PROVE  TInv'
<1> USE GrantBound, ProcessesDiffer, NullsDiffer
<1>1. TokenTypeOK'
  <2>1. doing' \in [Processes -> ProcessStates]
    BY DEF WorksOn, TInv, TokenTypeOK
  <2>2. record' \in [Processes -> Stored \cup {NoRecord}]
    BY DEF WorksOn, TInv, TokenTypeOK
  <2> QED BY <2>1, <2>2 DEF TInv, TokenTypeOK
<1>2. \A s \in Stored : Known(s) => Known(s)'
  BY DEF Known, Stored, Grants
<1>3. \A q \in Processes : record'[q] # NoRecord => Known(record[q])'
  BY <1>2 DEF WorksOn, TInv, TokenTypeOK, InRange, Known
<1>4. \A q \in Processes : doing'[q] \in Working => record'[q] # NoRecord
  BY DEF WorksOn, TInv, TokenTypeOK, InRange
<1>5. file' # NoRecord => Known(file)'
  BY <1>2 DEF TInv, TokenTypeOK, InRange, Known
<1>8. \A q \in Clients : doing'[q] # "exchanging"
  BY DEF WorksOn, TInv, TokenTypeOK, InRange, Processes
<1>9. \A l \in Logins : doing'[l] = "exchanging" => user'[l] \in Accounts
  BY DEF WorksOn, TInv, TokenTypeOK, InRange, Processes
<1> QED
  BY <1>1, <1>3, <1>4, <1>5, <1>8, <1>9 DEF TInv, InRange

LEMMA RenewalTypes ==
  ASSUME TInv, NEW p \in Clients, RefreshSucceeds(p) \/ AnswerLost(p)
  PROVE  TInv'
<1>1. Renews(p)
  BY DEF RefreshSucceeds, AnswerLost
<1>2. record[p] \in Stored /\ Known(record[p])
  BY <1>1 DEF TInv, TokenTypeOK, InRange, Working, Renews, Processes
<1>3. /\ owner' \in Seq(Accounts) /\ Granted \in Nat /\ Granted' = Granted + 1
      /\ Granted + 1 \in Grants
      /\ Granted' <= MaxGrants /\ valid' \subseteq Grants /\ \A n \in valid' : n <= Granted'
  BY <1>1, RenewalIs
<1>4. UNCHANGED <<file, held, user, expired, rotates, chosen, unaware>> /\ kept' \in BOOLEAN
  BY <1>1 DEF RefreshSucceeds, AnswerLost, Renews, Grant, Kept, history, TInv, TokenTypeOK
<1>5. user' \in [Logins -> Accounts \cup {"undecided", "denied"}]
  BY <1>4 DEF TInv, TokenTypeOK
<1>6. CASE RefreshSucceeds(p)
  <2>1. WorksOn(p, "granted", Refreshed(record[p]))
    BY <1>6 DEF RefreshSucceeds
  <2>2. /\ Refreshed(record[p]) \in Stored
        /\ Refreshed(record[p]).access <= Granted + 1
        /\ Refreshed(record[p]).refresh <= Granted + 1
    BY <1>2, <1>3, RecordsAre
  <2>3. Refreshed(record[p]) # NoRecord
    BY <2>2, GrantBound, NullsDiffer DEF Stored, Grants
  <2> QED BY <1>3, <1>4, <1>5, <2>1, <2>2, <2>3, GrantedTypes DEF Processes, ProcessStates
<1>7. CASE AnswerLost(p)
  <2>1. WorksOn(p, "off", NoRecord)
    BY <1>7 DEF AnswerLost, Ends
  <2> QED BY <1>3, <1>4, <1>5, <2>1, GrantedTypes DEF Processes, ProcessStates, Working
<1> QED BY <1>6, <1>7

(* What an exchange for the tokens of a new login does. *)
LEMMA ExchangeIs ==
  ASSUME TInv, NEW l \in Logins, Exchange(l)
  PROVE  \E renewable \in BOOLEAN :
           /\ WorksOn(l, "granted", Exchanged(renewable))
           /\ Exchanged(renewable) \in Stored
           /\ Exchanged(renewable).access = Granted + 1
           /\ Exchanged(renewable).refresh = (IF renewable THEN Granted + 1 ELSE 0)
           /\ owner' \in Seq(Accounts) /\ Granted \in Nat /\ Granted' = Granted + 1
           /\ Granted' <= MaxGrants
           /\ \A n \in 1..Granted : owner'[n] = owner[n]
           /\ valid' = (IF renewable THEN valid \cup {Granted + 1} ELSE valid)
           /\ valid' \subseteq Grants /\ \A n \in valid' : n <= Granted'
           /\ UNCHANGED <<expired, rotates>>
<1>1. PICK renewable \in BOOLEAN :
        /\ Grant(user[l], IF renewable THEN valid \cup {Granted + 1} ELSE valid)
        /\ WorksOn(l, "granted", Exchanged(renewable))
  BY DEF Exchange
<1>2. user[l] \in Accounts
  BY DEF Exchange, TInv, InRange
<1>3. /\ owner' \in Seq(Accounts) /\ Granted \in Nat /\ Granted' = Granted + 1
      /\ Granted + 1 \in Grants /\ Granted' <= MaxGrants
      /\ \A n \in 1..Granted : owner'[n] = owner[n]
      /\ valid' = IF renewable THEN valid \cup {Granted + 1} ELSE valid
  BY <1>1, <1>2, GrantIs
<1>4. valid \subseteq Grants /\ (\A n \in valid : n <= Granted) /\ Grants \subseteq Nat
  BY GrantBound DEF TInv, TokenTypeOK, InRange, Grants
<1>5. valid' \subseteq Grants /\ \A n \in valid' : n <= Granted'
  BY <1>3, <1>4
<1>6. /\ Exchanged(renewable) \in Stored
      /\ Exchanged(renewable).access = Granted + 1
      /\ Exchanged(renewable).refresh = (IF renewable THEN Granted + 1 ELSE 0)
  BY <1>3 DEF Exchanged, Stored
<1>7. UNCHANGED <<expired, rotates>>
  BY <1>1 DEF Grant
<1> QED BY <1>1, <1>3, <1>5, <1>6, <1>7

LEMMA ExchangeTypes ==
  ASSUME TInv, NEW l \in Logins, Exchange(l)
  PROVE  TInv'
<1>1. PICK renewable \in BOOLEAN :
        /\ WorksOn(l, "granted", Exchanged(renewable))
        /\ Exchanged(renewable) \in Stored
        /\ Exchanged(renewable).access = Granted + 1
        /\ Exchanged(renewable).refresh = (IF renewable THEN Granted + 1 ELSE 0)
        /\ owner' \in Seq(Accounts) /\ Granted \in Nat /\ Granted' = Granted + 1
        /\ Granted' <= MaxGrants
        /\ valid' \subseteq Grants /\ \A n \in valid' : n <= Granted'
        /\ UNCHANGED <<expired, rotates>>
  BY ExchangeIs
<1>2. UNCHANGED <<file, held, kept, chosen, unaware>> /\ kept' \in BOOLEAN
  BY DEF Exchange, history, TInv, TokenTypeOK
<1>3. /\ user' \in [Logins -> Accounts \cup {"undecided", "denied"}]
      /\ \A m \in Logins \ {l} : user'[m] = user[m]
  BY DEF Exchange, TInv, TokenTypeOK
<1>4. Exchanged(renewable) # NoRecord
  BY <1>1, GrantBound, NullsDiffer DEF Stored, Grants
<1>5. Exchanged(renewable).access <= Granted + 1 /\ Exchanged(renewable).refresh <= Granted + 1
  BY <1>1
<1> QED BY <1>1, <1>2, <1>3, <1>4, <1>5, GrantedTypes DEF Processes, ProcessStates

(* No step spoils the types. *)
LEMMA TypesKept ==
  ASSUME TInv, [TokenNext]_tokenVars
  PROVE  TInv'
<1> USE GrantBound, ProcessesDiffer, NullsDiffer
    DEF TInv, TokenTypeOK, InRange, Granted, Grants, Known, Working, ProcessStates, Processes, oauth, process, history
<1>1. ASSUME NEW p \in Clients, GetAuth(p) PROVE TInv'
  BY <1>1 DEF GetAuth, Goes, Built, Aware, Stored
<1>2. ASSUME NEW p \in Clients, AskRefresh(p) PROVE TInv'
  BY <1>2 DEF AskRefresh, WorksOn, Aware
<1>3. ASSUME NEW p \in Clients, RefreshFails(p) PROVE TInv'
  BY <1>3 DEF RefreshFails, Ends, WorksOn
<1>4. ASSUME NEW p \in Clients, Return(p) PROVE TInv'
  BY <1>4 DEF Return, WorksOn, Built, Stored
<1>5. ASSUME NEW p \in Clients, Exit(p) PROVE TInv'
  BY <1>5 DEF Exit, Ends, WorksOn
<1>6. ASSUME NEW l \in Logins, StartLogin(l) PROVE TInv'
  BY <1>6 DEF StartLogin, Goes
<1>7. ASSUME NEW l \in Logins, Decide(l) PROVE TInv'
  BY <1>7 DEF Decide, Waiting
<1>8. ASSUME NEW l \in Logins, Elapse(l) PROVE TInv'
  BY <1>8 DEF Elapse, Goes
<1>9. ASSUME NEW l \in Logins, Approved(l) PROVE TInv'
  BY <1>9 DEF Approved, Goes, Waiting
<1>10. ASSUME NEW l \in Logins, NotApproved(l) PROVE TInv'
  BY <1>10 DEF NotApproved, Ends, WorksOn, Waiting
<1>11. ASSUME NEW l \in Logins, LoginFails(l) PROVE TInv'
  BY <1>11 DEF LoginFails, Ends, WorksOn, Waiting
<1>12. ASSUME NEW l \in Logins, LoginReturns(l) PROVE TInv'
  BY <1>12 DEF LoginReturns, Ends, WorksOn
<1>13. ASSUME NEW p \in Processes, CreateFile(p) PROVE TInv'
  BY <1>13 DEF CreateFile, Goes, Lasting, Kept
<1>14. ASSUME NEW p \in Processes, OpenFile(p) PROVE TInv'
  BY <1>14 DEF OpenFile, Goes, Lasting, Kept
<1>15. ASSUME NEW p \in Processes, WriteFile(p) PROVE TInv'
  <2>1. record[p] # NoRecord /\ record[p] \in Stored
    BY <1>15 DEF WriteFile
  <2>2. chosen' \in Accounts \cup {NoAccount} /\ unaware' \subseteq Clients
    BY <1>15, <2>1 DEF WriteFile, Chosen, AccountOf, Stored
  <2> QED
    BY <1>15, <2>2 DEF WriteFile, Written, Lasting
<1>16. ASSUME NEW p \in Processes, WriteMixed(p) PROVE TInv'
  BY <1>16 DEF WriteMixed, Written, Kept
<1>17. ASSUME NEW p \in Processes, Killed(p) PROVE TInv'
  BY <1>17 DEF Killed, Ends, WorksOn, Holds, Kept
<1>19. ASSUME NEW p \in Clients, RefreshSucceeds(p) \/ AnswerLost(p) PROVE TInv'
  BY <1>19, RenewalTypes
<1>20. ASSUME NEW l \in Logins, Exchange(l) PROVE TInv'
  BY <1>20, ExchangeTypes
<1>21. ASSUME Expire PROVE TInv'
  BY <1>21 DEF Expire
<1>22. CASE UNCHANGED tokenVars
  BY <1>22 DEF tokenVars
<1> QED
  BY <1>1, <1>2, <1>3, <1>4, <1>5, <1>6, <1>7, <1>8, <1>9, <1>10, <1>11, <1>12,
     <1>13, <1>14, <1>15, <1>16, <1>17, <1>19, <1>20, <1>21, <1>22
  DEF TokenNext

-----------------------------------------------------------------------------
(* Steps that make no grant, put no new tokens into anybody's hands and leave the
   file as it is, or without a record, disturb neither the hands ... *)
LEMMA HandsAsBefore ==
  ASSUME HandsRenewable, HandsApart, UNCHANGED <<valid, rotates>>,
         file' = file \/ file' = NoRecord,
         \A q \in Processes : Holds(q)' => Holds(q) /\ record'[q] = record[q],
         \A q \in Processes : Uses(q)' => Uses(q) /\ record'[q] = record[q]
  PROVE  HandsRenewable' /\ HandsApart'
BY DEF HandsRenewable, HandsApart, Refreshes, Renewable

(* ... nor, when nobody drops what he holds, what is kept. *)
LEMMA KeptAsBefore ==
  ASSUME LoginKept, UNCHANGED <<valid, file>>, kept' => kept,
         kept' => \A q \in Processes : Holds(q) => Holds(q)' /\ record'[q] = record[q]
  PROVE  LoginKept'
BY DEF LoginKept, Renewable

Quiet ==
  \/ \E p \in Clients :
       \/ GetAuth(p) \/ RefreshFails(p) \/ Return(p) \/ Exit(p)
  \/ \E l \in Logins :
       \/ StartLogin(l) \/ Decide(l) \/ Elapse(l) \/ Approved(l) \/ NotApproved(l)
       \/ LoginFails(l) \/ LoginReturns(l)
  \/ Expire
  \/ UNCHANGED tokenVars

LEMMA QuietSteps ==
  ASSUME TInv, HandsRenewable, HandsApart, LoginKept, Quiet
  PROVE  HandsRenewable' /\ HandsApart' /\ LoginKept'
<1>1. UNCHANGED <<valid, rotates, file, kept>>
  BY DEF Quiet, GetAuth, RefreshFails, Return, Exit, StartLogin,
         Decide, Elapse, Approved, NotApproved, LoginFails, LoginReturns, Expire, tokenVars, oauth, history,
         Built, Aware
<1>2. \A q \in Processes : Holds(q)' => Holds(q) /\ record'[q] = record[q]
  BY DEF Quiet, GetAuth, RefreshFails, Return, Exit, StartLogin,
         Decide, Elapse, Approved, NotApproved, LoginFails, LoginReturns, Expire, tokenVars, oauth, history,
         Goes, Ends, WorksOn, process, Holds, TInv, TokenTypeOK, Processes
<1>3. \A q \in Processes : Uses(q)' => Uses(q) /\ record'[q] = record[q]
  BY DEF Quiet, GetAuth, RefreshFails, Return, Exit, StartLogin,
         Decide, Elapse, Approved, NotApproved, LoginFails, LoginReturns, Expire, tokenVars, oauth, history,
         Goes, Ends, WorksOn, process, Holds, Uses, TInv, TokenTypeOK, Processes
<1>4. \A q \in Processes : Holds(q) => Holds(q)' /\ record'[q] = record[q]
  BY DEF Quiet, GetAuth, RefreshFails, Return, Exit, StartLogin,
         Decide, Elapse, Approved, NotApproved, LoginFails, LoginReturns, Expire, tokenVars, oauth, history,
         Goes, Ends, WorksOn, process, Holds, Waiting, TInv, TokenTypeOK, Processes
<1> QED BY <1>1, <1>2, <1>3, <1>4, HandsAsBefore, KeptAsBefore

(* Whoever is about to write without ending kept writes a refresh token. *)
LEMMA LastingRefreshes ==
  ASSUME ClientsRefresh, NEW p \in Processes, Holds(p), Lasting(p)
  PROVE  Refreshes(p)
BY DEF ClientsRefresh, Lasting, Refreshes, Holds, Working, Processes

LEMMA FileSteps ==
  ASSUME TInv, ClientsRefresh, HandsRenewable, HandsApart, LoginKept, NEW p \in Processes,
         CreateFile(p) \/ OpenFile(p) \/ WriteMixed(p) \/ Killed(p)
  PROVE  HandsRenewable' /\ HandsApart' /\ LoginKept'
<1>1. UNCHANGED <<valid, rotates>> /\ (file' = file \/ file' = NoRecord)
  BY DEF CreateFile, OpenFile, WriteMixed, Killed, oauth
<1>2. \A q \in Processes : Holds(q)' => Holds(q) /\ record'[q] = record[q]
  BY DEF CreateFile, OpenFile, WriteMixed, Killed, Goes, Ends, WorksOn, Written, Holds,
         TInv, TokenTypeOK
<1>3. \A q \in Processes : Uses(q)' => Uses(q) /\ record'[q] = record[q]
  BY DEF CreateFile, OpenFile, WriteMixed, Killed, Goes, Ends, WorksOn, Written, Holds,
         Uses, TInv, TokenTypeOK
<1>4. CASE CreateFile(p) \/ OpenFile(p)
  <2>1. Holds(p) /\ Holds(p)' /\ record' = record
    BY <1>4 DEF CreateFile, OpenFile, Goes, Holds, TInv, TokenTypeOK
  <2>2. kept' => Refreshes(p)
    BY <1>4, <2>1, LastingRefreshes DEF CreateFile, OpenFile, Kept
  <2>3. kept' => record'[p].refresh \in valid'
    BY <1>1, <2>1, <2>2 DEF HandsRenewable, Renewable
  <2>4. LoginKept'
    BY <2>1, <2>3 DEF LoginKept, Renewable
  <2> QED BY <1>1, <1>2, <1>3, <2>4, HandsAsBefore
<1>5. CASE WriteMixed(p)
  BY <1>1, <1>2, <1>3, <1>5, HandsAsBefore DEF WriteMixed, Kept, LoginKept
<1>6. CASE Killed(p)
  <2>1. UNCHANGED file /\ (kept' => kept)
    BY <1>6 DEF Killed, Kept
  <2>2. kept' => \A q \in Processes : Holds(q) => Holds(q)' /\ record'[q] = record[q]
    BY <1>6 DEF Killed, Kept, Holds, Ends, WorksOn, TInv, TokenTypeOK
  <2> QED BY <1>1, <1>2, <1>3, <2>1, <2>2, HandsAsBefore, KeptAsBefore
<1> QED BY <1>4, <1>5, <1>6

LEMMA WriteStep ==
  ASSUME TInv, ClientsRefresh, HandsRenewable, HandsApart, LoginKept, NEW p \in Processes, WriteFile(p)
  PROVE  HandsRenewable' /\ HandsApart' /\ LoginKept'
<1>1. UNCHANGED <<valid, rotates, record>> /\ file' = record[p] /\ Holds(p)
  BY DEF WriteFile, oauth, Holds
<1>2. \A q \in Processes : Holds(q)' => Holds(q) /\ q # p
  BY DEF WriteFile, Written, Holds, TInv, TokenTypeOK
<1>3. \A q \in Processes : Uses(q)' => Uses(q) /\ q # p
  BY DEF WriteFile, Written, Holds, Uses, TInv, TokenTypeOK
<1>4. HandsRenewable'
  BY <1>1, <1>2 DEF HandsRenewable, Refreshes, Renewable
<1>5. HandsApart'
  <2> SUFFICES ASSUME rotates, NEW q \in Processes, Holds(q)', record[q].refresh # 0
               PROVE  /\ \A o \in Processes \ {q} :
                           Uses(o)' => record[o].refresh # record[q].refresh
                      /\ record[p].refresh # record[q].refresh
    BY <1>1 DEF HandsApart, Refreshes
  <2>1. q # p /\ Holds(q)
    BY <1>2
  <2> QED BY <1>1, <1>3, <2>1 DEF HandsApart, Refreshes, Uses
<1>6. LoginKept'
  <2>1. kept' => Renewable(record[p])
    BY <1>1, LastingRefreshes DEF WriteFile, HandsRenewable
  <2>2. record[p] # NoRecord
    BY <1>1 DEF Holds, TInv, InRange, Working
  <2> QED BY <1>1, <2>1, <2>2 DEF LoginKept, Renewable
<1> QED BY <1>4, <1>5, <1>6

LEMMA AskStep ==
  ASSUME TInv, HandsRenewable, HandsApart, LoginKept, NEW p \in Clients, AskRefresh(p)
  PROVE  HandsRenewable' /\ HandsApart' /\ LoginKept'
<1>1. UNCHANGED <<valid, rotates, file, kept>> /\ file # NoRecord /\ record'[p] = file
  BY DEF AskRefresh, Aware, oauth, WorksOn, TInv, TokenTypeOK, Processes
<1>2. \A q \in Processes : Holds(q)' <=> Holds(q)
  BY DEF AskRefresh, WorksOn, Holds, TInv, TokenTypeOK, Processes
<1>3. \A q \in Processes \ {p} : record'[q] = record[q] /\ (Uses(q)' <=> Uses(q))
  BY DEF AskRefresh, WorksOn, Holds, Uses, TInv, TokenTypeOK, Processes
<1>4. ~Holds(p)
  BY DEF AskRefresh, Holds
<1>5. HandsRenewable'
  BY <1>1, <1>2, <1>3, <1>4 DEF HandsRenewable, Refreshes, Renewable
<1>6. HandsApart'
  <2> SUFFICES ASSUME rotates, NEW q \in Processes, Holds(q), record[q].refresh # 0, q # p
               PROVE  /\ \A o \in Processes \ {q} :
                           Uses(o)' => record'[o].refresh # record[q].refresh
                      /\ file.refresh # record[q].refresh
    BY <1>1, <1>2, <1>3, <1>4 DEF HandsApart, Refreshes
  <2> QED BY <1>1, <1>3 DEF HandsApart, Refreshes
<1>7. LoginKept'
  BY <1>1, <1>2, <1>3, <1>4 DEF LoginKept, Renewable
<1> QED BY <1>5, <1>6, <1>7

(* The OAuth server takes p's refresh token: nobody else's hands hold it. *)
LEMMA RenewalStep ==
  ASSUME TInv, HandsRenewable, HandsApart, LoginKept, NEW p \in Clients,
         RefreshSucceeds(p) \/ AnswerLost(p)
  PROVE  HandsRenewable' /\ HandsApart' /\ LoginKept'
<1>1. Renews(p) /\ UNCHANGED <<file, rotates>> /\ doing[p] = "asked" /\ Uses(p) /\ ~Holds(p)
      /\ record[p].refresh \in valid
  BY DEF RefreshSucceeds, AnswerLost, Renews, Grant, Uses, Holds
<1>2. /\ Granted \in Nat /\ Granted' = Granted + 1
      /\ record[p] \in Stored
      /\ valid' = IF rotates THEN (valid \ {record[p].refresh}) \cup {Granted + 1} ELSE valid
  BY <1>1, RenewalIs
<1>3. \A q \in Processes \ {p} :
        /\ record'[q] = record[q] /\ (Holds(q)' <=> Holds(q)) /\ (Uses(q)' <=> Uses(q))
  BY DEF RefreshSucceeds, AnswerLost, Ends, WorksOn, Holds, Uses, TInv, TokenTypeOK, Processes
<1>4. \/ /\ Holds(p)'
         /\ record'[p].refresh = IF rotates THEN Granted + 1 ELSE record[p].refresh
      \/ ~Uses(p)' /\ ~Holds(p)' /\ ~kept'
  BY <1>2 DEF RefreshSucceeds, AnswerLost, Kept, Ends, WorksOn, Holds, Uses, Refreshed, TInv, TokenTypeOK,
              Processes
<1>5. \A q \in Processes \ {p} : Holds(q) /\ record[q].refresh # 0 =>
        record[q].refresh \in valid /\ (rotates => record[q].refresh # record[p].refresh)
  BY <1>1 DEF HandsRenewable, HandsApart, Refreshes, Renewable, Processes
<1>6. HandsRenewable'
  <2>1. \A q \in Processes \ {p} : Holds(q)' /\ record'[q].refresh # 0 => record'[q].refresh \in valid'
    BY <1>2, <1>3, <1>5
  <2>2. Holds(p)' => record'[p].refresh \in valid'
    BY <1>1, <1>2, <1>4
  <2> QED BY <2>1, <2>2 DEF HandsRenewable, Refreshes, Renewable
<1>7. HandsApart'
  <2>1. \A q \in Processes \ {p} : Uses(q) => record[q].refresh \in Nat /\ record[q].refresh <= Granted
    BY GrantBound DEF Uses, Holds, TInv, TokenTypeOK, InRange, Known, Working, Stored, Grants
  <2>2. file # NoRecord => file.refresh \in Nat /\ file.refresh <= Granted
    BY GrantBound DEF TInv, TokenTypeOK, InRange, Known, Stored, Grants
  <2> SUFFICES ASSUME rotates, NEW q \in Processes, Holds(q)', record'[q].refresh # 0
               PROVE  /\ \A o \in Processes \ {q} :
                           Uses(o)' => record'[o].refresh # record'[q].refresh
                      /\ file # NoRecord => file.refresh # record'[q].refresh
    BY <1>1 DEF HandsApart, Refreshes
  <2>3. CASE q = p
    BY <1>2, <1>3, <1>4, <2>1, <2>2, <2>3
  <2>4. CASE q # p
    <3>1. Holds(q) /\ record'[q] = record[q] /\ record[q].refresh \in Nat
          /\ record[q].refresh <= Granted
      BY <1>3, <2>1, <2>4 DEF Uses
    <3>2. /\ \A o \in Processes \ {q} : Uses(o) => record[o].refresh # record[q].refresh
          /\ file # NoRecord => file.refresh # record[q].refresh
      BY <3>1 DEF HandsApart, Refreshes
    <3>3. \A o \in Processes \ {p, q} : Uses(o)' => record'[o].refresh # record'[q].refresh
      BY <1>3, <3>1, <3>2
    <3>4. Uses(p)' => record'[p].refresh # record'[q].refresh
      BY <1>2, <1>4, <3>1
    <3> QED BY <3>1, <3>2, <3>3, <3>4
  <2> QED BY <2>3, <2>4
<1>8. LoginKept'
  <2>1. kept' => Holds(p)' /\ record'[p].refresh \in valid'
    BY <1>1, <1>2, <1>4
  <2> QED BY <2>1 DEF LoginKept, Renewable, Processes
<1> QED BY <1>6, <1>7, <1>8

LEMMA ExchangeStep ==
  ASSUME TInv, HandsRenewable, HandsApart, LoginKept, NEW p \in Logins, Exchange(p)
  PROVE  HandsRenewable' /\ HandsApart' /\ LoginKept'
<1>1. UNCHANGED <<file, rotates, kept>> /\ ~Uses(p) /\ ~Holds(p)
  BY ExchangeIs DEF Exchange, history, Uses, Holds
<1>2. Granted \in Nat /\ valid \subseteq valid'
  BY ExchangeIs
<1>3. \A q \in Processes \ {p} :
        /\ record'[q] = record[q] /\ (Holds(q)' <=> Holds(q)) /\ (Uses(q)' <=> Uses(q))
  BY ExchangeIs DEF WorksOn, Holds, Uses, TInv, TokenTypeOK, Processes
<1>4. record'[p].refresh \in {0, Granted + 1} /\ (record'[p].refresh # 0 => record'[p].refresh \in valid')
  BY ExchangeIs DEF WorksOn, TInv, TokenTypeOK, Processes
<1>5. HandsRenewable'
  BY <1>2, <1>3, <1>4 DEF HandsRenewable, Refreshes, Renewable
<1>6. HandsApart'
  <2>1. \A q \in Processes \ {p} : Uses(q) => record[q].refresh \in Nat /\ record[q].refresh <= Granted
    BY GrantBound DEF Uses, Holds, TInv, TokenTypeOK, InRange, Known, Working, Stored, Grants
  <2>2. file # NoRecord => file.refresh \in Nat /\ file.refresh <= Granted
    BY GrantBound DEF TInv, TokenTypeOK, InRange, Known, Stored, Grants
  <2> SUFFICES ASSUME rotates, NEW q \in Processes, Holds(q)', record'[q].refresh # 0
               PROVE  /\ \A o \in Processes \ {q} :
                           Uses(o)' => record'[o].refresh # record'[q].refresh
                      /\ file # NoRecord => file.refresh # record'[q].refresh
    BY <1>1 DEF HandsApart, Refreshes
  <2>3. CASE q = p
    BY <1>2, <1>3, <1>4, <2>1, <2>2, <2>3
  <2>4. CASE q # p
    <3>1. Holds(q) /\ record'[q] = record[q] /\ record[q].refresh \in Nat
          /\ record[q].refresh <= Granted
      BY <1>3, <2>1, <2>4 DEF Uses
    <3>2. /\ \A o \in Processes \ {q} : Uses(o) => record[o].refresh # record[q].refresh
          /\ file # NoRecord => file.refresh # record[q].refresh
      BY <1>1, <3>1 DEF HandsApart, Refreshes
    <3>3. \A o \in Processes \ {p, q} : Uses(o)' => record'[o].refresh # record'[q].refresh
      BY <1>3, <3>1, <3>2
    <3>4. record'[p].refresh # record'[q].refresh
      BY <1>2, <1>4, <3>1
    <3> QED BY <3>1, <3>2, <3>3, <3>4
  <2> QED BY <2>3, <2>4
<1>7. LoginKept'
  BY <1>1, <1>2, <1>3 DEF LoginKept, Renewable
<1> QED BY <1>5, <1>6, <1>7

-----------------------------------------------------------------------------
(* Only a record with a refresh token is refreshed, and a refresh keeps one. *)
LEMMA ClientsRefreshKept ==
  ASSUME TInv, ClientsRefresh, [TokenNext]_tokenVars
  PROVE  ClientsRefresh'
<1> USE ProcessesDiffer DEF TInv, TokenTypeOK, ClientsRefresh, Refreshes, Working, Processes
<1>1. ASSUME NEW p \in Clients, AskRefresh(p) PROVE ClientsRefresh'
  BY <1>1 DEF AskRefresh, WorksOn
<1>2. ASSUME NEW p \in Clients, RefreshSucceeds(p) PROVE ClientsRefresh'
  <2>1. doing[p] = "asked" /\ Granted \in Nat
    BY <1>2 DEF RefreshSucceeds, Renews, Granted
  <2>2. Refreshed(record[p]).refresh # 0
    BY <2>1 DEF Refreshed
  <2> QED BY <1>2, <2>2 DEF RefreshSucceeds, WorksOn
<1>3. ASSUME NEW p \in Clients, Return(p) PROVE ClientsRefresh'
  BY <1>3 DEF Return, WorksOn
<1>4. ASSUME NEW p \in Processes, Ends(p) PROVE ClientsRefresh'
  BY <1>4 DEF Ends, WorksOn
<1>5. ASSUME NEW l \in Logins, UNCHANGED record \/ Exchange(l),
             \A q \in Clients : doing'[q] = doing[q]
      PROVE  ClientsRefresh'
  BY <1>5 DEF Exchange, WorksOn
<1>6. ASSUME NEW p \in Processes, CreateFile(p) \/ OpenFile(p) PROVE ClientsRefresh'
  BY <1>6 DEF CreateFile, OpenFile, Goes
<1>7. ASSUME NEW p \in Processes, WriteFile(p) \/ WriteMixed(p) PROVE ClientsRefresh'
  BY <1>7 DEF WriteFile, WriteMixed, Written
<1>8. ASSUME NEW l \in Logins,
             \/ StartLogin(l) \/ Decide(l) \/ Elapse(l) \/ Approved(l) \/ Exchange(l)
      PROVE  ClientsRefresh'
  <2>1. \A q \in Clients : doing'[q] = doing[q]
    BY <1>8 DEF StartLogin, Decide, Elapse, Approved, Exchange, Goes, WorksOn, process
  <2> QED BY <1>5, <1>8, <2>1 DEF StartLogin, Decide, Elapse, Approved, Goes, process
<1>9. ASSUME NEW p \in Clients, GetAuth(p) PROVE ClientsRefresh'
  BY <1>9 DEF GetAuth, Goes
<1>10. CASE UNCHANGED process
  BY <1>10 DEF process
<1> QED
  BY <1>1, <1>2, <1>3, <1>4, <1>6, <1>7, <1>8, <1>9, <1>10
  DEF TokenNext, tokenVars, Expire, AnswerLost, RefreshFails, Exit, NotApproved, LoginFails,
      LoginReturns, Killed

-----------------------------------------------------------------------------
(* A grant stays with its account. *)
LEMMA OwnersStay ==
  ASSUME TInv, [TokenNext]_tokenVars
  PROVE  \A n \in 1..Granted : owner'[n] = owner[n]
<1>1. ASSUME NEW p \in Clients, RefreshSucceeds(p) \/ AnswerLost(p)
      PROVE  \A n \in 1..Granted : owner'[n] = owner[n]
  BY <1>1, RenewalIs DEF RefreshSucceeds, AnswerLost
<1>2. ASSUME NEW l \in Logins, Exchange(l)
      PROVE  \A n \in 1..Granted : owner'[n] = owner[n]
  BY <1>2, ExchangeIs
<1>3. CASE UNCHANGED owner
  BY <1>3
<1> QED
  BY <1>1, <1>2, <1>3
  DEF TokenNext, tokenVars, oauth, GetAuth, AskRefresh, RefreshFails, Return, Exit,
      StartLogin, Decide, Elapse, Approved, NotApproved, LoginFails, LoginReturns,
      CreateFile, OpenFile, WriteFile, WriteMixed, Killed, Expire

LEMMA RecordsStay ==
  ASSUME TInv, [TokenNext]_tokenVars, NEW r \in Stored, Known(r)
  PROVE  /\ AccountOf(r)' = AccountOf(r)
         /\ SameOwner(r) => SameOwner(r)'
<1>1. Granted \in Nat /\ r.access \in 1..Granted /\ r.refresh \in {0} \cup 1..Granted
  BY GrantBound DEF TInv, TokenTypeOK, Granted, Known, Stored, Grants
<1>2. owner'[r.access] = owner[r.access] /\ (r.refresh # 0 => owner'[r.refresh] = owner[r.refresh])
  BY <1>1, OwnersStay
<1> QED BY <1>2 DEF AccountOf, SameOwner

(* Where the records of a step come from: the file takes one of a process, a
   request takes that of the file; new ones come of a refresh or a login. *)
LEMMA FileFrom ==
  ASSUME TInv, [TokenNext]_tokenVars
  PROVE  \/ file' \in {file, NoRecord}
         \/ \E p \in Processes : WriteFile(p) /\ file' = record[p]
BY DEF TokenNext, tokenVars, GetAuth, AskRefresh, RefreshSucceeds, AnswerLost, RefreshFails,
       Return, Exit, StartLogin, Decide, Elapse, Approved, NotApproved, Exchange, LoginFails,
       LoginReturns, CreateFile, OpenFile, WriteFile, WriteMixed, Killed, Expire

LEMMA RecordFrom ==
  ASSUME TInv, [TokenNext]_tokenVars, NEW q \in Processes
  PROVE  \/ record'[q] \in {record[q], NoRecord}
         \/ q \in Clients /\ AskRefresh(q) /\ record'[q] = file
         \/ q \in Clients /\ RefreshSucceeds(q) /\ record'[q] = Refreshed(record[q])
         \/ q \in Logins /\ Exchange(q)
<1> DEFINE Unmoved == record'[q] \in {record[q], NoRecord}
<1> USE DEF TInv, TokenTypeOK, Processes
<1>1. ASSUME NEW p \in Clients, AskRefresh(p), p # q PROVE Unmoved
  BY <1>1 DEF AskRefresh, WorksOn
<1>2. ASSUME NEW p \in Clients, RefreshSucceeds(p), p # q PROVE Unmoved
  BY <1>2 DEF RefreshSucceeds, WorksOn
<1>3. ASSUME NEW p \in Logins, Exchange(p), p # q PROVE Unmoved
  BY <1>3 DEF Exchange, WorksOn
<1>4. ASSUME NEW p \in Clients, AskRefresh(p), p = q PROVE record'[q] = file
  BY <1>4 DEF AskRefresh, WorksOn
<1>5. ASSUME NEW p \in Clients, RefreshSucceeds(p), p = q
      PROVE  record'[q] = Refreshed(record[q])
  BY <1>5 DEF RefreshSucceeds, WorksOn
<1>6. ASSUME NEW p \in Processes, Ends(p) PROVE Unmoved
  BY <1>6 DEF Ends, WorksOn
<1>7. ASSUME NEW p \in Clients, Return(p) PROVE Unmoved
  BY <1>7 DEF Return, WorksOn
<1>8. CASE UNCHANGED record
  BY <1>8
<1> QED
  BY <1>1, <1>2, <1>3, <1>4, <1>5, <1>6, <1>7, <1>8
  DEF TokenNext, tokenVars, process, GetAuth, Goes, AnswerLost, RefreshFails, Exit,
      StartLogin, Decide, Elapse, Approved, NotApproved, LoginFails, LoginReturns,
      CreateFile, OpenFile, WriteFile, WriteMixed, Killed, Expire

(* A refresh asks with a refresh token of the account of its access token. *)
LEMMA RenewedAlike ==
  ASSUME TInv, Paired, NEW p \in Clients, RefreshSucceeds(p)
  PROVE  SameOwner(record[p])' /\ AccountOf(record[p])' = AccountOf(record[p])
<1> DEFINE r == Refreshed(record[p])
<1>1. Renews(p) /\ record'[p] = r
  BY DEF RefreshSucceeds, WorksOn, TInv, TokenTypeOK, Processes
<1>2. /\ record[p] # NoRecord /\ record[p].refresh # 0
      /\ record[p].refresh \in 1..Granted /\ Granted \in Nat
  <2>1. record[p] # NoRecord
    BY <1>1 DEF Renews, TInv, InRange, Working, Processes
  <2>2. record[p].refresh \in valid
    BY <1>1 DEF Renews
  <2> QED BY <2>1, <2>2, ServerKnows
<1>3. /\ owner'[Granted + 1] = owner[record[p].refresh]
      /\ \A n \in 1..Granted : owner'[n] = owner[n]
  BY <1>1, RenewalIs
<1>4. owner[record[p].refresh] = AccountOf(record[p])
  BY <1>2 DEF Paired, SameOwner, Processes
<1>5. r.access = Granted + 1 /\ r.refresh \in {Granted + 1, record[p].refresh}
  BY DEF Refreshed
<1> HIDE DEF r
<1>6. owner'[r.access] = AccountOf(record[p]) /\ owner'[r.refresh] = AccountOf(record[p])
  BY <1>2, <1>3, <1>4, <1>5
<1> QED BY <1>1, <1>6 DEF SameOwner, AccountOf

LEMMA PairedKept ==
  ASSUME TInv, Paired, [TokenNext]_tokenVars
  PROVE  Paired'
<1>1. ASSUME NEW p \in Processes, record[p] # NoRecord
      PROVE  record[p] \in Stored /\ Known(record[p]) /\ SameOwner(record[p])
  BY <1>1 DEF TInv, TokenTypeOK, InRange, Paired
<1>2. file # NoRecord => file \in Stored /\ Known(file) /\ SameOwner(file)
  BY DEF TInv, TokenTypeOK, InRange, Paired
<1>3. ASSUME NEW r \in Stored, Known(r), SameOwner(r)
      PROVE  r.refresh # 0 => owner'[r.refresh] = owner'[r.access]
  BY <1>3, RecordsStay DEF SameOwner, AccountOf
<1>4. file' # NoRecord => SameOwner(file)'
  BY <1>1, <1>2, <1>3, FileFrom DEF SameOwner, AccountOf
<1>5. ASSUME NEW q \in Processes, record'[q] # NoRecord
      PROVE  SameOwner(record[q])'
  <2>1. CASE record'[q] = record[q]
    BY <1>1, <1>3, <1>5, <2>1 DEF SameOwner, AccountOf
  <2>2. CASE AskRefresh(q) /\ record'[q] = file
    BY <1>2, <1>3, <2>2 DEF AskRefresh, SameOwner, AccountOf
  <2>3. CASE q \in Clients /\ RefreshSucceeds(q)
    BY <2>3, RenewedAlike
  <2>4. CASE q \in Logins /\ Exchange(q)
    <3>1. record'[q].refresh \in {0, record'[q].access}
      BY <2>4, ExchangeIs DEF WorksOn, TInv, TokenTypeOK, Processes
    <3> QED BY <3>1 DEF SameOwner, AccountOf
  <2> QED BY <1>5, <2>1, <2>2, <2>3, <2>4, RecordFrom
<1> QED BY <1>4, <1>5 DEF Paired

-----------------------------------------------------------------------------
(* Steps that leave the choice alone, bring no other record into the file and let
   no client take one up. *)
LEMMA ChoiceAsBefore ==
  ASSUME TInv, Stands, [TokenNext]_tokenVars, file' \in {file, NoRecord},
         UNCHANGED <<chosen, unaware>>,
         \A q \in Clients : doing'[q] \in Working =>
                             doing[q] \in Working /\ record'[q] = record[q]
  PROVE  Stands'
<1> SUFFICES ASSUME chosen # NoAccount
             PROVE  /\ file' # NoRecord => AccountOf(file)' = chosen
                    /\ \A q \in Clients \ unaware :
                         doing'[q] \in Working => AccountOf(record[q])' = chosen
  BY DEF Stands
<1>1. ASSUME file' # NoRecord PROVE AccountOf(file)' = chosen
  <2>1. file' = file /\ file \in Stored /\ Known(file) /\ AccountOf(file) = chosen
    BY <1>1 DEF Stands, TInv, TokenTypeOK, InRange
  <2> QED BY <2>1, RecordsStay DEF AccountOf
<1>2. ASSUME NEW q \in Clients \ unaware, doing'[q] \in Working
      PROVE  AccountOf(record[q])' = chosen
  <2>1. /\ record'[q] = record[q] /\ record[q] \in Stored /\ Known(record[q])
        /\ AccountOf(record[q]) = chosen
    BY <1>2 DEF Stands, TInv, TokenTypeOK, InRange, Processes
  <2> QED BY <2>1, RecordsStay DEF AccountOf
<1> QED BY <1>1, <1>2

(* A client asks for the token: from now on it knows of the last login. *)
LEMMA ChoiceLearnt ==
  ASSUME TInv, Stands, NEW p \in Clients, GetAuth(p) \/ AskRefresh(p)
  PROVE  Stands'
<1>1. /\ UNCHANGED <<file, owner, chosen>> /\ unaware' = unaware \ {p}
      /\ file # NoRecord
  BY DEF GetAuth, AskRefresh, Aware, oauth
<1>2. \A q \in Clients \ {p} : doing'[q] = doing[q] /\ record'[q] = record[q]
  BY DEF GetAuth, AskRefresh, Goes, WorksOn, TInv, TokenTypeOK, Processes
<1>3. doing'[p] \in Working => record'[p] = file
  BY DEF GetAuth, AskRefresh, Goes, WorksOn, Working, TInv, TokenTypeOK, Processes
<1> QED BY <1>1, <1>2, <1>3 DEF Stands, AccountOf

(* The file is written: by a login, by a client that did not know of it, or by
   one that works for it. *)
LEMMA ChoiceWritten ==
  ASSUME TInv, Stands, NEW p \in Processes, WriteFile(p)
  PROVE  Stands'
<1>1. UNCHANGED <<owner, record>> /\ file' = record[p] /\ Chosen(p) /\ doing[p] \in Working
  BY DEF WriteFile, oauth, Working
<1>2. \A q \in Processes : doing'[q] \in Working => doing[q] \in Working
  BY <1>1 DEF WriteFile, Written, Working, TInv, TokenTypeOK
<1>3. CASE p \in Logins
  BY <1>1, <1>3 DEF Chosen, Stands, AccountOf
<1>4. CASE p \in Clients /\ p \in unaware
  BY <1>1, <1>4, ProcessesDiffer DEF Chosen, Stands
<1>5. CASE p \in Clients /\ p \notin unaware
  BY <1>1, <1>2, <1>5, ProcessesDiffer DEF Chosen, Stands, AccountOf, Processes
<1> QED BY <1>3, <1>4, <1>5 DEF Processes

LEMMA ChoiceRenewed ==
  ASSUME TInv, Paired, Stands, NEW p \in Clients, RefreshSucceeds(p), [TokenNext]_tokenVars
  PROVE  Stands'
<1>1. UNCHANGED <<file, chosen, unaware>> /\ doing[p] \in Working
  BY DEF RefreshSucceeds, Renews, history, Working
<1>2. \A q \in Clients \ {p} : doing'[q] = doing[q] /\ record'[q] = record[q]
  BY DEF RefreshSucceeds, WorksOn, TInv, TokenTypeOK, Processes
<1> SUFFICES ASSUME chosen # NoAccount
             PROVE  /\ file # NoRecord => AccountOf(file)' = chosen
                    /\ \A q \in Clients \ unaware :
                         doing'[q] \in Working => AccountOf(record[q])' = chosen
  BY <1>1 DEF Stands
<1>3. ASSUME file # NoRecord PROVE AccountOf(file)' = chosen
  <2>1. file \in Stored /\ Known(file) /\ AccountOf(file) = chosen
    BY <1>3 DEF Stands, TInv, TokenTypeOK, InRange
  <2> QED BY <1>1, <2>1, RecordsStay DEF AccountOf
<1>4. ASSUME NEW q \in Clients \ unaware, doing'[q] \in Working
      PROVE  AccountOf(record[q])' = chosen
  <2>1. CASE q = p
    BY <1>1, <1>4, <2>1, RenewedAlike DEF Stands
  <2>2. CASE q # p
    <3>1. /\ record'[q] = record[q] /\ record[q] \in Stored /\ Known(record[q])
          /\ AccountOf(record[q]) = chosen
      BY <1>2, <1>4, <2>2 DEF Stands, TInv, TokenTypeOK, InRange, Processes
    <3> QED BY <3>1, RecordsStay DEF AccountOf
  <2> QED BY <2>1, <2>2
<1> QED BY <1>3, <1>4

LEMMA StandsKept ==
  ASSUME TInv, Paired, Stands, [TokenNext]_tokenVars
  PROVE  Stands'
<1> DEFINE AsBefore ==
      /\ file' \in {file, NoRecord}
      /\ UNCHANGED <<chosen, unaware>>
      /\ \A q \in Clients : doing'[q] \in Working =>
                             doing[q] \in Working /\ record'[q] = record[q]
<1> USE ProcessesDiffer DEF TInv, TokenTypeOK, Processes, Working
<1>1. ASSUME NEW p \in Processes, Ends(p), file' = file, UNCHANGED <<chosen, unaware>>
      PROVE  AsBefore
  BY <1>1 DEF Ends, WorksOn
<1>2. ASSUME NEW p \in Clients, AnswerLost(p) \/ RefreshFails(p) \/ Exit(p) PROVE AsBefore
  BY <1>1, <1>2 DEF AnswerLost, RefreshFails, Exit, Kept, history
<1>3. ASSUME NEW l \in Logins, NotApproved(l) \/ LoginFails(l) \/ LoginReturns(l)
      PROVE  AsBefore
  BY <1>1, <1>3 DEF NotApproved, LoginFails, LoginReturns, history
<1>4. ASSUME NEW p \in Processes, Killed(p) PROVE AsBefore
  BY <1>1, <1>4 DEF Killed, Kept
<1>5. ASSUME NEW p \in Clients, Return(p) PROVE AsBefore
  BY <1>5 DEF Return, WorksOn, history
<1>6. ASSUME NEW l \in Logins, StartLogin(l) \/ Decide(l) \/ Elapse(l) \/ Approved(l)
      PROVE  AsBefore
  BY <1>6 DEF StartLogin, Decide, Elapse, Approved, Goes, history, process
<1>7. ASSUME NEW l \in Logins, Exchange(l) PROVE AsBefore
  BY <1>7 DEF Exchange, WorksOn, history
<1>8. ASSUME NEW p \in Processes, CreateFile(p) \/ OpenFile(p) PROVE AsBefore
  BY <1>8 DEF CreateFile, OpenFile, Goes, Kept
<1>9. ASSUME NEW p \in Processes, WriteMixed(p) PROVE AsBefore
  BY <1>9 DEF WriteMixed, Written, Kept
<1>10. CASE Expire
  <2>1. AsBefore
    BY <1>10 DEF Expire, history, process
  <2> QED BY <2>1, ChoiceAsBefore
<1>11. CASE UNCHANGED tokenVars
  <2>1. AsBefore
    BY <1>11 DEF tokenVars, history, process
  <2> QED BY <2>1, ChoiceAsBefore
<1>12. AsBefore => Stands'
  BY ChoiceAsBefore
<1> HIDE DEF AsBefore
<1> QED
  BY <1>2, <1>3, <1>4, <1>5, <1>6, <1>7, <1>8, <1>9, <1>10, <1>11, <1>12,
     ChoiceLearnt, ChoiceWritten, ChoiceRenewed
  DEF TokenNext

(* A client is built of the file, or of what it has written. *)
LEMMA BuiltAsChosen ==
  ASSUME TInv, Stands, [TokenNext]_tokenVars, NEW p \in Clients,
         held'[p] \notin {0, held[p]}, chosen' # NoAccount, p \notin unaware'
  PROVE  owner'[held'[p]] = chosen'
<1> USE DEF TInv, TokenTypeOK, Processes
<1>1. ASSUME NEW q \in Clients, GetAuth(q) PROVE owner'[held'[p]] = chosen'
  <2>1. /\ q = p /\ held'[p] = file.access /\ file # NoRecord
        /\ UNCHANGED <<owner, chosen>>
    BY <1>1 DEF GetAuth, Built, Aware, oauth
  <2> QED BY <2>1 DEF Stands, AccountOf
<1>2. ASSUME NEW q \in Clients, Return(q) PROVE owner'[held'[p]] = chosen'
  <2>1. /\ q = p /\ held'[p] = record[p].access /\ doing[p] \in Working
        /\ UNCHANGED <<owner, chosen, unaware>>
    BY <1>2 DEF Return, Built, Working, history, oauth
  <2> QED BY <2>1 DEF Stands, AccountOf
<1>3. ASSUME NEW q \in Processes, Killed(q) PROVE held'[p] \in {0, held[p]}
  BY <1>3 DEF Killed
<1>4. ASSUME NEW q \in Clients, Exit(q) PROVE held'[p] \in {0, held[p]}
  BY <1>4 DEF Exit
<1> QED
  BY <1>1, <1>2, <1>3, <1>4
  DEF TokenNext, tokenVars, AskRefresh, RefreshSucceeds, AnswerLost, RefreshFails,
      StartLogin, Decide, Elapse, Approved, NotApproved, Exchange, LoginFails,
      LoginReturns, CreateFile, OpenFile, WriteFile, WriteMixed, Expire

-----------------------------------------------------------------------------
(* Everything together. *)
LEMMA TokenInitially ==
  ASSUME TokenInit
  PROVE  TokenIInv
<1>1. Granted = 0
  BY DEF TokenInit, Granted
<1>2. TokenTypeOK
  <2>1. doing \in [Processes -> ProcessStates] /\ record \in [Processes -> Stored \cup {NoRecord}]
    BY DEF TokenInit, ProcessStates
  <2>2. held \in [Clients -> {0} \cup Grants]
    BY DEF TokenInit
  <2>3. user \in [Logins -> Accounts \cup {"undecided", "denied"}]
    BY DEF TokenInit
  <2>4. owner \in Seq(Accounts) /\ valid \subseteq Grants
    BY DEF TokenInit
  <2> QED BY <2>1, <2>2, <2>3, <2>4 DEF TokenInit, TokenTypeOK
<1>3. InRange
  BY <1>1, GrantBound DEF TokenInit, InRange, Working, Processes
<1> QED
  BY <1>2, <1>3
  DEF TokenInit, TokenIInv, TInv, ClientsRefresh, HandsRenewable, HandsApart, LoginKept,
      Paired, Stands, Working, Holds, Processes

LEMMA TokenInductive ==
  ASSUME TokenIInv, [TokenNext]_tokenVars
  PROVE  TokenIInv'
<1> USE DEF TokenIInv
<1>1. TInv'
  BY TypesKept
<1>2. ClientsRefresh'
  BY ClientsRefreshKept
<1>3. HandsRenewable' /\ HandsApart' /\ LoginKept'
  BY QuietSteps, FileSteps, WriteStep, AskStep, RenewalStep, ExchangeStep DEF TokenNext, Quiet
<1>4. Paired'
  BY PairedKept
<1>5. Stands'
  BY StandsKept
<1> QED BY <1>1, <1>2, <1>3, <1>4, <1>5

(* File, processes, clients and grants keep their types. *)
THEOREM TokenTypes == TokenSpec => []TokenTypeOK
<1>1. TokenIInv => TokenTypeOK
  BY DEF TokenIInv, TInv
<1> QED BY TokenInitially, TokenInductive, <1>1, PTL DEF TokenSpec

(* Whoever asks for the token after a login gets one of the account chosen in it,
   until a client that asked before writes the file (_ensure_valid, _refresh and
   _persist). *)
THEOREM LoginsStand == TokenSpec => LoginStands
<1>1. TokenIInv /\ [TokenNext]_tokenVars =>
        [\A p \in Clients :
           /\ held'[p] \notin {0, held[p]}
           /\ chosen' # NoAccount
           /\ p \notin unaware'
           => owner'[held'[p]] = chosen']_tokenVars
  <2> SUFFICES ASSUME TokenIInv, [TokenNext]_tokenVars, NEW p \in Clients,
                      held'[p] \notin {0, held[p]}, chosen' # NoAccount, p \notin unaware'
               PROVE  owner'[held'[p]] = chosen'
    OBVIOUS
  <2> QED BY BuiltAsChosen DEF TokenIInv
<1> QED BY TokenInitially, TokenInductive, <1>1, PTL DEF TokenSpec, LoginStands

(* A login is not lost to the order in which processes without a lock read,
   refresh and write the file (_refresh and _persist). *)
THEOREM LoginIsKept == TokenSpec => []LoginKept
<1>1. TokenIInv => LoginKept
  BY DEF TokenIInv
<1> QED BY TokenInitially, TokenInductive, <1>1, PTL DEF TokenSpec
=============================================================================
