------------------------------ MODULE Dashboard ------------------------------
(***************************************************************************)
(* The page of one session in the browser (dashboard/app.js): a snapshot   *)
(* from the REST detail, then the whole event log replayed onto it and     *)
(* followed live, until the session has ended and the detail is read once  *)
(* more; all of it while the user goes to another page and comes back.     *)
(*                                                                         *)
(* Abstractions.  The log determines what the server and its store know.   *)
(* An open stream delivers every event once and in order, however often it *)
(* reconnects: that is Feed, so seenEvents is a number.                    *)
(* Chat messages and agent states are left out.  The other pages are one   *)
(* page, "home".  Proposals are named by their version, of the usage only  *)
(* whether it has come counts.  The verdict of a vote is any.              *)
(***************************************************************************)
EXTENDS Naturals, Sequences, FiniteSets, FiniteSetsExt

CONSTANTS
  Voters,
  MaxProposals,
  TeamsMissing,                    \* may a session be without its team?
  MaxRoutes, MaxErrors, MaxBreaks, \* bounds
  MaxTogether                      \* bound: on routes and proposals together

ASSUME BoundsAssumption ==
  /\ MaxProposals \in Nat \ {0} /\ MaxRoutes \in Nat \ {0}
  /\ MaxTogether \in Nat /\ MaxErrors \in Nat /\ MaxBreaks \in Nat
ASSUME TeamsAssumption == TeamsMissing \in BOOLEAN

VARIABLES
  log,       \* the events of the session
  session,   \* what the server knows of it
  stored,    \* how many events, with their rows, are in the store
  rows,      \* what the store knows
  hash,      \* the page the address names
  version,   \* routeVersion
  view,      \* what is displayed, and the version that rendered it
  context,   \* the contexts of the page, by the version that opened them
  stream,    \* activeStream: the version that opened it, 0 for none
  requests,  \* what has been asked and not answered
  errors,    \* requests that failed
  breaks     \* streams that were given up

server == <<log, session, stored, rows>>
page   == <<hash, version, view, context, stream, requests>>
faults == <<errors, breaks>>
vars   == <<server, page, faults>>

Open     == {"running", "voting"}
TERMINAL == {"completed", "failed", "cancelled"}
Versions == 1..MaxProposals

Votes == [version : Versions, voter : Voters]

(* What the server and the page know of a session.  `number` is the version
   that is shown for a proposal. *)
Proposals == [status : {"none", "pending", "approved", "rejected", "superseded"},
              number : 0..MaxProposals]
Data == [status    : Open \cup TERMINAL,
         result    : 0..MaxProposals,
         proposals : [Versions -> Proposals],
         votes     : SUBSET Votes]

Blank == [status |-> "running", result |-> 0, votes |-> {},
          proposals |-> [v \in Versions |-> [status |-> "none", number |-> 0]]]

(* data: null until the page is opened; seen: seenEvents; vote: voteStatus;
   usage: perAgentUsage is not empty; fresh: the last detail has been merged. *)
Contexts == [open : BOOLEAN, data : Data, seen : Nat, vote : 0..MaxProposals,
             usage : BOOLEAN, fresh : BOOLEAN]

NoContext == [open |-> FALSE, data |-> Blank, seen |-> 0, vote |-> 0,
              usage |-> FALSE, fresh |-> FALSE]

Known(data) == {v \in Versions : data.proposals[v].status # "none"}

-----------------------------------------------------------------------------
(* The server *)

Status(status, of, verdict) ==
  [type |-> "session_status", status |-> status, of |-> of, verdict |-> verdict]
Proposal(v)   == [type |-> "proposal", of |-> v]
VoteOf(v, a)  == [type |-> "vote", of |-> v, voter |-> a]
VoteStatus(v) == [type |-> "vote_status", of |-> v]
Result(v)     == [type |-> "result", of |-> v]
Usage         == [type |-> "usage", of |-> 0]

Events ==
  [type : {"session_status"}, status : Open \cup TERMINAL, of : 0..MaxProposals,
   verdict : {"none", "approved", "rejected"}]
    \cup [type : {"proposal", "vote_status", "result"}, of : Versions]
    \cup [type : {"vote"}, of : Versions, voter : Voters]
    \cup {Usage}

(* An event, with the rows that are written with it. *)
Recorded(data, event) ==
  CASE event.type = "session_status" ->
         [data EXCEPT !.status = event.status,
            !.proposals = IF event.verdict = "none" THEN @
                          ELSE [@ EXCEPT ![event.of].status = event.verdict]]
    [] event.type = "proposal" ->
         [data EXCEPT !.proposals = [v \in Versions |->
            IF v = event.of THEN [status |-> "pending", number |-> v]
            ELSE IF v + 1 = event.of THEN [@[v] EXCEPT !.status = "superseded"]
            ELSE @[v]]]
    [] event.type = "vote" ->
         [data EXCEPT !.votes = @ \cup {[version |-> event.of, voter |-> event.voter]}]
    [] event.type = "result" -> [data EXCEPT !.result = event.of]
    [] OTHER -> data

(* SessionRunner.done: the session has ended and all of it is stored. *)
Done == session.status \in TERMINAL /\ stored = Len(log)

(* The handlers emit one event after the other; `h` is how far they are. *)
Now == [log |-> log, session |-> session]

Emit(h, event) ==
  [log |-> Append(h.log, event), session |-> Recorded(h.session, event)]

Return(h) ==
  /\ log' = h.log
  /\ session' = h.session
  /\ UNCHANGED <<stored, rows>>

(* What follows a verdict on proposal v. *)
Approval(h, v)  == Emit(Emit(h, Status("completed", v, "approved")), Result(v))
Failure(h, v)   == Emit(h, Status("failed", v, "rejected"))
Rejection(h, v) == Emit(Emit(h, Status("running", v, "rejected")), Usage)

Verdicts(h, v) == {Approval(h, v), Failure(h, v)}
                    \cup (IF v < MaxProposals THEN {Rejection(h, v)} ELSE {})

Opening(v) ==
  Emit(Emit(Emit(Emit(Now, Proposal(v)), Status("voting", v, "none")), Usage),
       VoteStatus(v))

(* A policy may approve at once; without voters there is no quorum. *)
Submit ==
  LET v == Cardinality(Known(session)) + 1
      h == Opening(v)
  IN  /\ session.status = "running"
      /\ v <= MaxProposals
      /\ v + version <= MaxTogether
      /\ Return(h) \/ Return(Approval(h, v)) \/ Return(Failure(h, v))
      /\ UNCHANGED <<page, faults>>

(* Those who have not voted on the latest proposal. *)
Missing(v) == {a \in Voters : [version |-> v, voter |-> a] \notin session.votes}

Vote(a) ==
  LET v == Cardinality(Known(session))
      h == Emit(Emit(Now, VoteOf(v, a)), VoteStatus(v))
  IN  /\ session.status = "voting"
      /\ a \in Missing(v)
      /\ \/ Missing(v) # {a} /\ Return(h)
         \/ \E verdict \in Verdicts(h, v) : Return(verdict)
      /\ UNCHANGED <<page, faults>>

(* The votes that are missing are abstentions. *)
Expire ==
  LET v == Cardinality(Known(session))
  IN  /\ session.status = "voting"
      /\ Missing(v) # {}
      /\ \E verdict \in Verdicts(Emit(Now, VoteStatus(v)), v) : Return(verdict)
      /\ UNCHANGED <<page, faults>>

Fail ==
  /\ session.status \in Open
  /\ Return(Emit(Now, Status("failed", 0, "none")))
  /\ UNCHANGED <<page, faults>>

Persist ==
  /\ stored < Len(log)
  /\ stored' = stored + 1
  /\ rows' = Recorded(rows, log[stored'])
  /\ UNCHANGED <<log, session, page, faults>>

-----------------------------------------------------------------------------
(* Routes and requests *)

Request(kind, v, data) == [kind |-> kind, version |-> v, data |-> data]

(* What becomes a page; what updates it; what ends the session. *)
Loading == {"detail", "snapshot", "teams"}
Kinds   == Loading \cup {"refresh", "ending", "cancel", "cancelling"}

(* route(), after a change of the hash.  Nothing uses the old contexts now. *)
Navigate(h) ==
  /\ version < MaxRoutes
  /\ Cardinality(Known(session)) + version < MaxTogether
  /\ h # hash
  /\ hash' = h
  /\ version' = version + 1
  /\ stream' = 0
  /\ view' = [page |-> IF h = "home" THEN "home" ELSE "loading", version |-> version']
  /\ requests' = IF h = "home" THEN requests
                 ELSE requests \cup {Request("detail", version', Blank)}
  /\ context' = [v \in 1..MaxRoutes |-> NoContext]
  /\ UNCHANGED <<server, faults>>

(* get_session_detail reads the session of the runner, a final one when all of
   it is stored; what is in the store is read later. *)
ReadSession(r) ==
  /\ r.kind \in {"detail", "refresh"}
  /\ session.status \in TERMINAL => Done
  /\ requests' = (requests \ {r}) \cup
       {Request(IF r.kind = "detail" THEN "snapshot" ELSE "ending", r.version,
                [session EXCEPT !.proposals = Blank.proposals, !.votes = {}])}
  /\ UNCHANGED <<server, hash, version, view, context, stream, faults>>

WithRows(data) == [data EXCEPT !.proposals = rows.proposals, !.votes = rows.votes]

Current(v) == v = version

(* The end of renderSessionDetail: render, connectEvents. *)
OpenPage(v, data) ==
  /\ context' = [context EXCEPT ![v] = [NoContext EXCEPT !.open = TRUE, !.data = data]]
  /\ view' = [page |-> "detail", version |-> v]
  /\ stream' = v

DetailArrives(r) ==
  /\ r.kind = "snapshot"
  /\ \/ /\ ~Current(r.version)
        /\ requests' = requests \ {r}
        /\ UNCHANGED <<view, context, stream>>
     \/ /\ Current(r.version)
        /\ requests' = requests \ {r}
        /\ OpenPage(r.version, WithRows(r.data))
     \/ /\ Current(r.version)
        /\ TeamsMissing
        /\ requests' = (requests \ {r}) \cup
             {Request("teams", r.version, WithRows(r.data))}
        /\ UNCHANGED <<view, context, stream>>
  /\ UNCHANGED <<server, hash, version, faults>>

(* Whether the page is still the current one is not asked again. *)
TeamsArrive(r) ==
  /\ r.kind = "teams"
  /\ requests' = requests \ {r}
  /\ OpenPage(r.version, r.data)
  /\ UNCHANGED <<server, hash, version, faults>>

(* A request fails: the page says so, unless it was a refresh or a cancel. *)
RequestFails(r) ==
  /\ errors < MaxErrors
  /\ errors' = errors + 1
  /\ requests' = requests \ {r}
  /\ view' = IF r.kind \in Loading /\ Current(r.version)
             THEN [page |-> "error", version |-> version] ELSE view
  /\ UNCHANGED <<server, hash, version, context, stream, breaks>>

(* The button of errorPage. *)
Retry ==
  /\ view.page = "error"
  /\ view' = [page |-> "loading", version |-> version]
  /\ requests' = requests \cup {Request("detail", version, Blank)}
  /\ UNCHANGED <<server, hash, version, context, stream, faults>>

-----------------------------------------------------------------------------
(* Events *)

(* Mutant of CanAdvance: an ended session is opened again by the replay. *)
MutCanAdvance(data, status) == ~(data.status = "voting" /\ status = "running")

CanAdvance(data, status) ==
  /\ data.status \notin TERMINAL
  /\ ~(data.status = "voting" /\ status = "running")

(* Mutant of Verdicted: any end approves. *)
MutVerdicted(proposals, v, status) ==
  IF v \in Versions /\ status \in TERMINAL
  THEN [proposals EXCEPT ![v].status = "approved"] ELSE proposals

(* What a change of the status says of the proposal under vote. *)
Verdicted(proposals, v, status) ==
  IF v \in Versions /\ proposals[v].status # "none"
  THEN CASE status = "running"   -> [proposals EXCEPT ![v].status = "rejected"]
         [] status = "completed" -> [proposals EXCEPT ![v].status = "approved"]
         [] OTHER                -> proposals
  ELSE proposals

(* A proposal that is not known yet gets the next number. *)
Numbered(data, v) ==
  IF v \in Known(data) THEN data
  ELSE [data EXCEPT !.proposals[v] =
          [status |-> "pending",
           number |-> 1 + Max({0} \cup {data.proposals[w].number : w \in Known(data)})]]

Applied(c, event) ==
  LET data == c.data
      new  == [c EXCEPT !.seen = @ + 1]
  IN  CASE event.type = "session_status" ->
             IF CanAdvance(data, event.status)
             THEN [new EXCEPT !.data.status = event.status,
                     !.data.proposals = Verdicted(@, c.vote, event.status)]
             ELSE new
        [] event.type = "proposal"    -> [new EXCEPT !.data = Numbered(@, event.of)]
        [] event.type = "vote"        ->
             [new EXCEPT !.data.votes =
                @ \cup {[version |-> event.of, voter |-> event.voter]}]
        [] event.type = "vote_status" -> [new EXCEPT !.vote = event.of]
        [] event.type = "usage"       -> [new EXCEPT !.usage = TRUE]
        [] event.type = "result"      -> [new EXCEPT !.data.result = event.of]

(* Mutant of Ended: a completed session is not waited for its result. *)
MutEnded(data) == data.status \in TERMINAL

Ended(data) ==
  data.status \in TERMINAL /\ (data.status = "completed" => data.result # 0)

(* A listener of the EventSource: applyEvent, and at the end closeStream and
   refreshTerminalDetail. *)
Event ==
  LET c == Applied(context[version], log[context[version].seen + 1])
  IN  /\ stream = version
      /\ context[version].seen < Len(log)
      /\ context' = [context EXCEPT ![version] = c]
      /\ view' = [page |-> "detail", version |-> version]
      /\ stream' = IF Ended(c.data) THEN 0 ELSE stream
      /\ requests' = IF Ended(c.data)
                     THEN requests \cup {Request("refresh", version, Blank)}
                     ELSE requests
      /\ UNCHANGED <<server, hash, version, faults>>

(* The listener for errors.  While the session is open, and before the server
   has said that it has ended, the browser connects again. *)
ConnectionError ==
  /\ breaks < MaxBreaks
  /\ stream = version
  /\ context[version].data.status \in TERMINAL
  /\ breaks' = breaks + 1
  /\ stream' = 0
  /\ UNCHANGED <<server, hash, version, view, context, requests, errors>>

(* Mutant of Merged: the records of the page win. *)
MutMerged(data, fresh) ==
  [fresh EXCEPT
     !.proposals = [v \in Versions |->
        IF data.proposals[v].status # "none" THEN data.proposals[v] ELSE @[v]],
     !.votes = data.votes \cup @]

(* The records of the page and of the fresh detail, which wins. *)
Merged(data, fresh) ==
  [fresh EXCEPT
     !.proposals = [v \in Versions |->
        IF fresh.proposals[v].status = "none" THEN data.proposals[v] ELSE @[v]],
     !.votes = data.votes \cup @]

RefreshArrives(r) ==
  /\ r.kind = "ending"
  /\ requests' = requests \ {r}
  /\ IF Current(r.version)
     THEN /\ context' = [context EXCEPT ![r.version].fresh = TRUE,
               ![r.version].data = Merged(@, WithRows(r.data))]
          /\ view' = [page |-> "detail", version |-> r.version]
     ELSE UNCHANGED <<context, view>>
  /\ UNCHANGED <<server, hash, version, stream, faults>>

-----------------------------------------------------------------------------
(* The cancel button *)

ClickCancel ==
  LET v == view.version
  IN  /\ view.page = "detail"
      /\ context[v].data.status \in Open
      /\ \A r \in requests : r.version = v => r.kind \notin {"cancel", "cancelling"}
      /\ requests' = requests \cup {Request("cancel", v, Blank)}
      /\ UNCHANGED <<server, hash, version, view, context, stream, faults>>

(* cancel_session: refused when the runner is done.  The handler of the refusal
   uses currentTarget, which is null by then, and does nothing. *)
CancelSession(r) ==
  /\ r.kind = "cancel"
  /\ requests' = IF Done THEN requests \ {r}
                 ELSE (requests \ {r}) \cup {Request("cancelling", r.version, Blank)}
  /\ IF session.status \in Open
     THEN Return(Emit(Now, Status("cancelled", 0, "none")))
     ELSE UNCHANGED server
  /\ UNCHANGED <<hash, version, view, context, stream, faults>>

(* It returns the session when the runner is done or time is up. *)
CancelArrives(r) ==
  /\ r.kind = "cancelling"
  /\ requests' = requests \ {r}
  /\ IF Current(r.version)
     THEN /\ context' = [context EXCEPT ![r.version].data =
               [@ EXCEPT !.status = session.status, !.result = session.result]]
          /\ view' = [page |-> "detail", version |-> r.version]
          /\ stream' = 0
     ELSE UNCHANGED <<context, view, stream>>
  /\ UNCHANGED <<server, hash, version, faults>>

-----------------------------------------------------------------------------
(* The session has begun, and the page is opened. *)
Init ==
  /\ log = <<Status("running", 0, "none")>>
  /\ session = Blank
  /\ stored = 0
  /\ rows = Blank
  /\ hash = "detail"
  /\ version = 1
  /\ view = [page |-> "loading", version |-> 1]
  /\ context = [v \in 1..MaxRoutes |-> NoContext]
  /\ stream = 0
  /\ requests = {Request("detail", 1, Blank)}
  /\ errors = 0
  /\ breaks = 0

Answer(r) ==
  \/ ReadSession(r)
  \/ DetailArrives(r)
  \/ TeamsArrive(r)
  \/ RefreshArrives(r)
  \/ CancelSession(r)
  \/ CancelArrives(r)

Next ==
  \/ Submit
  \/ \E a \in Voters : Vote(a)
  \/ Expire
  \/ Fail
  \/ Persist
  \/ \E h \in {"home", "detail"} : Navigate(h)
  \/ \E r \in requests : Answer(r)
  \/ \E r \in requests : RequestFails(r)
  \/ Retry
  \/ Event
  \/ ConnectionError
  \/ ClickCancel

Spec == Init /\ [][Next]_vars

(* The session ends (Session!EventuallyStops), its rows are written, requests
   are answered and events delivered (Feed). *)
Fairness ==
  /\ WF_vars(Fail)
  /\ WF_vars(Persist)
  /\ WF_vars(\E r \in requests : Answer(r))
  /\ WF_vars(Event)

FairSpec == Spec /\ Fairness

-----------------------------------------------------------------------------
TypeOK ==
  /\ log \in Seq(Events)
  /\ session \in Data
  /\ stored \in 0..Len(log)
  /\ rows \in Data
  /\ hash \in {"home", "detail"}
  /\ version \in 1..MaxRoutes
  /\ view \in [page : {"loading", "home", "detail", "error"}, version : 1..version]
  /\ context \in [1..MaxRoutes -> Contexts]
  /\ \A v \in 1..MaxRoutes : context[v].seen <= Len(log)
  /\ stream \in 0..version
  /\ requests \subseteq [kind : Kinds, version : 1..version, data : Data]
  /\ errors \in 0..MaxErrors
  /\ breaks \in 0..MaxBreaks

(* The page shows nothing that is not so: no vote or proposal that was not
   made, the right number for each, an approval and a result only of what was
   approved, and an end only of a session that has ended that way.  The snapshot
   and the replayed events come from different moments. *)
NothingInvented ==
  \A v \in 1..MaxRoutes :
    LET data == context[v].data
    IN  /\ data.votes \subseteq session.votes
        /\ \A p \in Known(data) :
             /\ p \in Known(session)
             /\ data.proposals[p].number = p
             /\ data.proposals[p].status = "approved" =>
                  session.proposals[p].status = "approved"
        /\ data.result # 0 => data.result = session.result
        /\ data.status \in TERMINAL => data.status = session.status

(* A page that has merged the last detail shows what the server knows. *)
FreshIsTrue ==
  \A v \in 1..MaxRoutes : context[v].fresh => context[v].data = session

(* A replay onto a newer snapshot never opens an ended session again, and no
   vote, proposal or result disappears from the page. *)
NeverTakenBack ==
  [][\A v \in 1..MaxRoutes :
       LET old == context[v].data
           new == context'[v].data
       IN  context[v].open /\ context'[v].open =>
             /\ old.status \in TERMINAL => new.status = old.status
             /\ old.result # 0 => new.result = old.result
             /\ old.votes \subseteq new.votes
             /\ Known(old) \subseteq Known(new)]_vars

(* A user who stays on the page of a session sees it end, with its result
   unless the stream was given up before. *)
EndIsShown ==
  <>[](hash = "detail" /\ view.version = version /\ view.page # "error" =>
         /\ view = [page |-> "detail", version |-> version]
         /\ context[version].data.status = session.status
         /\ breaks = 0 => context[version].data.result = session.result)

=============================================================================
