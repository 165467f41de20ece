# A verification of hwabaek in TLA+

hwabaek runs a task with a team of LLM agents that talk to each other, submit a
result and vote on it ("hwabaek" is the old council that decided unanimously).
Everything of interest runs on one asyncio event loop: the code between two
`await`s is atomic, and what can go wrong lies in the order of these stretches.

The modules here model the program's own logic, TLC checks them on small
instances, and TLAPS proves what matters most for every value of the constants.

    tlasany M.tla                       parse
    tlc -config MCSessionTeam.cfg MCSession    check one run
    tlapm SessionProofs.tla             check the proofs of a module

## 1. The system

| component | source | state it keeps | operations | modelled in |
|---|---|---|---|---|
| consensus engine | `consensus.py`, `contracts.py` (VoteTally, decide) | version, active proposal with its tally and outcome, the proposal that waits to be superseded | open, vote, abstain, expire, resolve | `Consensus`, `ConsensusEngine` |
| session coordinator | `session.py` | status, budget phase, usage, reservations, attempts, unresponsive and exhausted agents, reviser, vote deadline, proposal count | admission gate, settle/release, commands with their guard, verdicts, timers, cancel, interrupt, run's shutdown | `Session` (refines `SessionLifecycle`) |
| agent loop | `agent.py` | calls made, the completion task, where the loop is suspended | think and act, tool chain, wait, retry, fatal error, cancelled call, history and its truncation, voting requests and feedback | the control in `Session`, the history and the requests in `Conversation`; as a consumer also in `Bus` |
| message bus | `bus.py` | an inbox and a list of notices per agent, one event for both, the inactive agents, the sequence | post, post_notice, drain, drain_notices, wait, deactivate | `Bus` (refines `Mailbox`) |
| live event fan-out | `server/events.py` (SessionRunner, event_stream) | event log, bounded subscriber queues, done | on_event, subscribe, unsubscribe, stream, end of run | `EventStream` (refines `Feed`) |
| session registry | `server/events.py` (SessionRegistry), `server/api.py`, `server/app.py` | the active runner, a lock | create, detail, cancel; shutdown | `Registry`; shutdown in `Persistence` |
| persistence | `session.py:236-265`, `store/*.py`, `server/events.py:453-484` | write-behind queue, database, restart | enqueue, write, flush, crash, mark interrupted | `Persistence` (refines `Ledger`) |
| contracts | `contracts.py` | none (frozen records) | validation, transitions, effective defaults | transitions: `SessionLifecycle`; validation: the ASSUMEs of `Session` and `Bus`; budget thresholds: `Budget` |
| token store | `llm/chatgpt_auth.py` | a token file, shared by processes without a lock | get_auth, refresh, device login, persist | `TokenStore` |
| LLM clients | `llm/base.py`, `llm/openai_client.py`, `llm/fake.py` | token and account it was built with | complete, with or without streaming | answers and stop reasons in `Conversation`, the building of the client in `TokenStore`; a nondeterministic call in `Session` |
| dashboard | `dashboard/app.js` | the route and its version, the stream, the session's data as merged from snapshot and events, vote status | open, apply an event, refresh at the end, cancel, go to another page | `Dashboard`; the reconnecting browser in `EventStream` |
| command line | `run.py`, `serve.py` | one LLM client per process | run a session, serve | the client in `TokenStore`; the rest is parsing and printing |
| configuration, the rest of the HTTP API | `config.py`, `server/api.py` | none | translation | not modelled: pure I/O and conversion |

How they interact. `SessionManager.run` starts one task per agent and a watcher
for the two timers. An agent's loop asks the coordinator before each LLM call
(`before_call`, which may wait for the budget condition), awaits the completion,
settles it (`after_call`), and runs the tools of the answer, each a synchronous
call into the coordinator: `send_message` posts to the bus, `submit_result` opens
a proposal in the consensus engine, `vote_result` votes. A verdict may complete
or fail the session, or send it back to revision; it cancels the LLM calls that
still review the decided version. Phase changes post notices to the agents that
must act next. The coordinator's first terminal reason ends the session: `run`
then cancels every task.

What is hard here. Calls take long and end in any order, so an answer meets a
session that is in another phase, about another proposal, or over; calls can be
cancelled while their answer is arriving; the gate makes agents wait for each
other's reservations; handlers are nested four deep (a vote that decides a
proposal that sends the session back, which finds no proposer left and fails);
two timers and two outside callers end the session at any moment; an answer may make a
loop die without anybody noticing; a history is cut while its tool calls need their results;
several processes refresh the same login and write the same file. `PROJECT.json`
lists the hazards with their lines and the properties that cover them.

## 2. The modules

**Consensus** is a library of operators: a tally, the four policies of
`VoteTally.decide`, and an engine record with one operator per method of
`ConsensusEngine`. A proposal is its version; contents and reasons are kept only
as "empty or not". `open_proposal` is split the way it can fail: `NextVersion` is
what has happened before the constructor of `ResultProposal` may raise.

**ConsensusEngine** is the class on its own, called in any order its methods
accept. The coordinator resolves a proposal in the handler that decided it; here
votes may still arrive between the verdict and `resolve`, which is where the early
decisions could be wrong.

**Session** is the coordinator with all agent loops. Its state is a record
`session` (the fields of `SessionManager`, see the comment at `SessionState`),
`pc` (where each loop is suspended: start, idle = `wait_for_messages`, gate = the
budget condition, woken = notified but not running yet, calling = awaiting the
completion, gone) and `calls` (`_calls_made`). One action is one stretch of code
from an `await` to the next; the methods it calls are operators from record to
record, composed in the order of the code:

| action | code |
|---|---|
| `Start`, `Wake` | `AgentLoop.run` up to the gate, the call or the next wait |
| `Recheck` | a notified agent in `_before_agent_call` looks again |
| `CompletionEnds` | the completion task finishes by itself |
| `Answer` | settle, run the tools, ask for a retry, go round the loop |
| `CallFails`, `CallCancelled` | the two `except` branches with the `finally` that releases |
| `ToolRaises`, `EmptyAnswer` | a tool or the turn of an answer raises what nothing catches: the task of the loop ends, its state stays "thinking" (`LoopDies`) |
| `SetupFails` | `run` fails before its first `await`, where it builds the loops |
| `VotingTimeout`, `IdleTimeout` | `_watch_timers` |
| `Cancel`, `Interrupt`, `Shutdown` | the calls from outside; the `finally` of `run` |

**Conversation** is one agent's conversation with its model: the history `_turns`, what
of it a request shows, and what the client makes of the model's output. A turn is its kind
and, for the tool calls of an answer and for their results, the number of their request; a
proposal is its version. The session is external here: it lets the agent through the gate,
opens and resolves proposals and asks for retries whenever it likes, so the properties hold
for more sessions than `Session` has.

| action | code |
|---|---|
| `Start`, `Wake`, `GateRefuses` | `run` with `_drain_inbox`; `before_call` says no |
| `GateOpens` | the last drain, `truncate_history`, the feedback that still applies, and the request: the whole history, or task and proposal for a vote |
| `Produce`, `CallAnswers` | the model's output; `complete`, with `_stream_final_response`, `parse_response` and `_normalize_stop` |
| `CallFails`, `CallCancelled` | the `except` branches |
| `Reply`, `UseTools`, `ToolRaises`, `EmptyAnswer` | the answer enters the history, its tools run, the next request is told of a failed one |
| `SendMessage`, `SendNotice`, `OpenProposal`, `Resolve` | what session and bus do to the agent; `Resolve` cancels a call about the proposal it resolves |

**SessionLifecycle** is what the watchers of a session may rely on: the transition
table of `contracts.py`, at most `MaxProposals` rounds, and an end.

**Bus** is the message bus with the consumers that wait for its events: `set` wakes
a waiter that runs some time later. **Mailbox** is the promise: one total order of
messages, of which each agent hears what is addressed to it, once, in order, in
batches, eventually. Its safety is a matter of one list per agent: what the agent has
heard, followed by what is queued for it, is the messages addressed to it in order
(`MailInOrder`). `Session` keeps of the bus the set of agents with something
queued; `EventMatchesQueues`, `SleepersHaveNoMail` and `ImplementsMailbox` are what
entitles it to.

**EventStream** is the fan-out of a session's events to the browsers. An event is its
sequence, so the runner's log is a number, and a snapshot of it its length. A
generator of `_stream_from_runner` (`stream[c]`) is suspended at each `yield` and at
`queue.get()`; what it has yielded is on `wire[c]` until the browser receives it or
the connection breaks.

| action | code |
|---|---|
| `Emit` | `SessionRunner.on_event`: the log grows, every subscriber is offered the event; a full queue is emptied, closed with the sentinel and dropped |
| `Finish`, `Replace` | the end of `_run` puts the sentinels; `create_session` installs another runner |
| `Connect` | `event_stream` with the browser's last event id: subscribe and snapshot, or the store for a runner that has been replaced |
| `Replay`, `Live`, `Stored` | one iteration of the two loops of `_stream_from_runner`, or of the one over the store in `event_stream` |
| `Receive`, `Break` | the browser keeps the last event id; the connection is lost with all it carries, and `finally` unsubscribes |

**Feed** is what a browser may rely on: it is shown every event, in order, once, however
often it reconnects, and in the end all of them.

**Persistence** is the way of a session into the store and out of it: `live` is what
the process has in memory (session row, engine, emitted events, `_write_queue`), `db` the
committed rows, `pc` where the server is (down, the steps of a start, up, closing), `told`
what a client has learnt. It takes the verdicts from `Consensus` and models the
handlers for the order in which they write.

| action | code |
|---|---|
| `Create`, `Submit`, `Vote`, `Abstain`, `Expire`, `Fail`, `Cancel` | the handlers of the session with all they enqueue: `_transition`, `_finalize`, `_apply_outcome`, `_complete` |
| `Commit`, `WriteFails` | one turn of `_write_behind`: the write is committed, or raises and is logged |
| `Finish` | the flush in the `finally` of `run()`, then the end of `SessionRunner._run` |
| `Detail` | `get_session_detail`, which waits for the runner of an ended session |
| `Crash` | the process dies between any two steps; the rows committed stay |
| `Shutdown`, `CloseStore` | the end of `lifespan`: interrupt, wait for at most a while, close |
| `Start`, `Mark`, `Announce`, `StartFails` | the begin of `lifespan`: `mark_interrupted_sessions`, with its two commits per session |

**Ledger** is the promise: a session is entered once, and a final record stands.

**Registry** is the server's registry between two requests: clients create, look up and
cancel sessions, and each handler is suspended at its awaits (`request[c].at`) while the
runner of the active session ends, writes and is done. The lock of `create_session` has no
`await` in its scope, so test and creation are one step.

| action | code |
|---|---|
| `Create`, `NoTeam` | the rest of `create_session` after the team has been read in a thread |
| `Detail`, `DetailWaited`, `Read` | `get_session_detail`: registry, then store; the wait for the runner of an ended session |
| `Cancel`, `CancelWaited`, `Read` | `cancel_session` with its five seconds |
| `End`, `Write`, `WriteFails`, `Finish` | the runner: the session ends, its rows are written, `_run` is done |

**Budget** is `TerminationPolicy` with its effective values, and what they mean for a session
whose calls come one at a time: `Advance`, `Call` and `Refuse` are the ways through
`_before_agent_call` and `_on_agent_usage`. `Session` takes the effective values as constants
and has the calls that are in flight together.

**TokenStore** is the login with a ChatGPT account: one token file, clients (`run.py`,
`serve.py`) that read and refresh it, and logins that replace it, each a process of its own
and without a lock. A token is the number of the grant it came with. `doing[p]` says where a
process is: its refresh or exchange is under way, it holds tokens that are not in the file
yet, or it is between the two times `_persist` opens the file and the write. The OAuth server
may rotate refresh tokens or not, and grants a new token to the account of the refresh token.
The account that a client names in its headers is left out (see **account** in section 6).

Three variables are history, and no guard reads them. `kept`: a login was completed, and nothing
has happened since that no order of the steps could repair. `chosen`: the account of the last
login, and `unaware`, the clients that have not asked for the token since. A refresh that was
begun before a login with another account, and is written after it, does undo the choice; that is
what the code does, without a lock and without another look at the file. `LoginStands` says that
it is the only way: until such a write, whoever asks after the login gets a token of its account,
through any number of refreshes, also when the login brought no refresh token of its own.

| action | code |
|---|---|
| `GetAuth`, `AskRefresh` | `get_auth` with `_load`: the stored token, or the begin of `_refresh` |
| `RefreshSucceeds`, `AnswerLost`, `RefreshFails` | the answer of the OAuth server, which may come to nobody |
| `CreateFile`, `OpenFile`, `WriteFile`, `WriteMixed` | `_persist`: `os.open` with `O_TRUNC`, then `write_text`, which opens and cuts the file again; two writes in one file |
| `Return`, `Exit` | the client is built and kept for the life of the process |
| `StartLogin`, `Decide`, `Elapse`, `Approved`, `NotApproved`, `Exchange`, `LoginFails`, `LoginReturns` | `start_login`, the user, the deadline, `finish_login`, `_exchange_code` |
| `Killed`, `Expire` | a process dies anywhere; the oldest access token expires |

**Dashboard** is the page of one session in the browser. `session` and `rows` are what the
server and its store know, both determined by `log`; `context[v]` is the page that route
version `v` opened, `requests` what it has asked and is not answered. The stream delivers each
event once and in order (`Feed`), so what has been applied is a number.

| action | code |
|---|---|
| `Submit`, `Vote`, `Expire`, `Fail`, `Persist` | a session with any verdicts and the order of its events; the store behind it |
| `Navigate` | `route`: close the stream, the next version, the other page |
| `ReadSession`, `DetailArrives`, `TeamsArrive` | `get_session_detail`, whose session and rows are read at different moments; `renderSessionDetail` after each of its awaits |
| `Event`, `ConnectionError` | the listeners of the stream: `applyEvent`, and at the end `refreshTerminalDetail`; the error listener |
| `RefreshArrives`, `ClickCancel`, `CancelSession`, `CancelArrives` | the merge of the last detail; the cancel button |
| `RequestFails`, `Retry` | the `catch` branches, `errorPage` and its button |

**MC*** modules give the constants values. `Mut*` definitions, each right before
the definition it is a faulty variant of, document what each property can detect:
substituting one makes the property named in `PROJECT.json` fail.

## 3. What the runs show

| run | instance | shows |
|---|---|---|
| engine | 5 agents, all policies, minimum of 1 to 3 votes, 2 versions; 103k states | a verdict given early is the verdict of every completion of the ballot (`DecisionExact`) and never changes (`VerdictFinal`); expiry always decides (`ExpiryDecides`) |
| bus | 3 agents, 2 posts of three kinds of recipients, 1 notice; 68k states | the shared event is right, no wake-up is lost, refinement of `Mailbox` with its liveness |
| team | a member with every capability, a voter and one who can only talk, 1 turn each, unanimity, tight budget, calls of one or two; 205k states | a reservation is held exactly while its call is in flight; who waits at the gate waits for a call; status, engine, phase and timer agree; nobody sleeps through a decision phase; the first terminal reason stands; every session ends; refinement of `SessionLifecycle` |
| trio | a proposer, a proposer who votes, a voter; participating unanimity; loops that die of an answer; 1.5M states | no late or uninformed vote, no foreign revision, no review of a resolved proposal goes on; calls are bounded |
| stream | 2 browsers, queues of 2, 4 events, 2 broken connections; 257k states | no gap and no repetition over replay, live events, drops and reconnections; refinement of `Feed` with its liveness |
| store | 3 agents, participating unanimity, 2 proposals, 2 crashes, a shutdown, a store failure; 319k states | a stored decision can be reconstructed however the process ended; nothing stays open after a start, nor for ever; what a client was told stands; refinement of `Ledger` |
| requests | 2 clients, 2 sessions, a failed write; 1.8M states | one session at a time, the one before completely stored; a session is found on its way from registry to store; a cancelled session does not go on; an answered final status stands |
| budget | 61 accepted policies with budgets of 3 to 40; 41k states | no call within its reserve crosses a boundary; with default thresholds no phase is skipped and a decision can be paid |
| page | 1 voter, 2 proposals, 3 routes, a missing team, a failing request, a broken stream; 663k states | what page, replay and refresh make of snapshots from different moments is true, nothing is taken back, and a user who stays sees the end |
| tokens | 2 clients, 1 login, 2 accounts, 3 grants; 1.1M states | a login is not lost to any overlap of reads, refreshes, logins and writes; nor is the account chosen in it, but to a client that asked before |
| conversation | 1 agent, 4 requests, 2 proposals, a history cut at 4 turns; 2.6M states | requests show every tool call with its results and no result without its call; feedback about one proposal is never shown with another; no tool call is overlooked |
| silent | the members of `team`, whose models submit, approve or say nothing | a statement of Plan.md that the agent loop does not keep (section 6) |

Bounds, and why they are enough. The number of agents is what distinguishes the
roles: five agents give one to five voters, so that majorities are won, lost and
tied for even and odd electorates; three agents give every combination of
proposer, reviser, voter, outsider and exhausted member. `MaxProposals = 2` has a
revision and a rejection of the revision. Token amounts are scaled down so that a
session passes through all phases: with `CallReserve = 1` in the team the boundaries
lie at 2, 4 and 7, and a call may cost one or two, so a reservation is overspent; the sessions
in which a call overshoots a boundary, waits for another one at the gate, or is refused for the
budget of its phase, are all reached. The budget of the trio is large enough for all the calls
that turns and attempts allow, which `CallsBounded` counts. A model's answer has at most two tool
calls, enough for "vote, then submit" and "two messages". `MaxPosts`, `MaxNotices`
and `MaxVersion` cap counters and stop the models there, which is why `engine`
and `bus` do not check deadlock; `Session` has its own final step `Stopped`, so the
session runs do check it. Four events against queues of two let a subscriber fall behind
while it replays and while it is live, be dropped, come back, and be dropped or break
again; `stream` ends when every browser has seen everything, so it does not check deadlock.
Two crashes hit a session and then the start that repairs it; one failed write may be any of
its writes, or the repair's. `store` has one session, and the bounds on crashes and shutdowns
stop it, so it does not check deadlock either.

Two clients and a login are every pair of readers, refreshers and writers; three grants are a
login, a refresh by one client and another by the other, or a second login and a refresh of it. A history cut at
four turns, the smallest limit with which the newest results stay with their calls
(`LimitAssumption`), is cut in every way within four requests. At most one tool call is told
apart in an answer, because their number enters nothing, and one notice waits at a time, because
each makes a turn of its own. `conversation` does not check deadlock: an agent that is dead or
exhausted stays so, and requests and history are bounded.

Two clients and two sessions are enough for a request to meet a session that is replaced under
it. The budgets of `budget` have all the roundings of
their twelfths, thirds and tenths that small numbers can have, and two on which a reserve is
greater than one; the theorems cover the others. In `page` one voter gives votes, verdicts and
revisions, of which a page distinguishes only which have come; three routes give a page left
and opened again with its old requests still under way. `MaxTogether` bounds routes and
proposals together, so that a long session is watched from one or two pages and a short one from
three. The budget, the page and the registry stop at their bounds or with their session, so
these runs do not check deadlock. `EndIsShown` says nothing of a moment at which an abandoned
page is displayed (`stale` in section 6), of an error page, or of the result after a broken
stream (`result` there).

Time is not modelled: the timers may fire whenever their handler would act, and
the LLM calls last as long as they like. An agent that finishes a turn with mail
waiting passes through "idle", where the code returns from `wait_for_messages`
without suspending: the model has more interleavings there than the code. The idle
timer does not fire before every agent has run to its first `await`: the tasks are
scheduled before the watcher's first tick.

Fairness (`FairSpec`, run team). A task of the event loop that is ready runs
eventually: weak fairness of each agent's steps, written `[]<>~Ready(a) \/
[]<><<AgentStep(a)>>_vars`, which is `WF_vars(AgentStep(a))` with its ENABLED spelled
out. A completion ends: the client has a timeout and a bounded number of
retries. The watcher ticks while the session is not terminal, and `run` is woken
by `_done`. Nothing is assumed about what the models answer, nor that anybody cancels, with one
exception: no loop dies of its answer (`MayBeSilent = FALSE`, every message has a recipient the
bus can look up), because a session in which one does need not end. That is the run `silent`.
In `Bus`, a woken task runs, and an agent that is not suspended drains its inbox,
because its loop returns to `wait_for_messages` after every turn. In `Persistence` a session
ends (that is `EventuallyStops` of `Session`), a write returns or raises, the runner goes on
when its queue is empty, and the server is started again; the number of crashes is bounded.
In `Dashboard` a session ends, its rows are written, requests are answered or fail, and an open
stream delivers (the liveness of `Feed`); the user does nothing he does not want. `Registry`,
`Budget`, `TokenStore` and `Conversation` are checked for safety only.
In `EventStream` the
session goes on to its end (`EventuallyStops`), the runner finishes, a generator that can
go on does, a connection that does not break delivers, and a browser reconnects; nobody has
to break a connection or create another session.

## 4. What is proved

All for every finite team, every policy and every value of the numeric constants
that the assumptions allow. The assumptions are what the constructors of
`contracts.py` check (`TeamAssumption`, `PolicyAssumption`, `RecipientsAssumption`),
plus the shape of a model's answers (`ModelAssumption`).

* **ConsensusProofs**: `VerdictStable`, from lemmas on cardinalities of tallies: a vote
  or an abstention moves one agent out of the pending set, so `approvals + pending` never
  grows and `approvals` never shrinks.
* **VoteAndBudgetProofs**, first part: the three properties of the run `engine`, and `ElectorateSound` and
  `BallotMonotone`, on which they rest (the first is part of their invariant). The inductive
  invariant is `TypeOK`, `ElectorateSound` and `OutcomeCurrent` (the stored outcome is
  `Decide` of the stored tally): without the last one nothing connects the outcome with
  the ballot. `DecisionsAreExact` argues with two extreme completions of a ballot,
  everybody approving and everybody abstaining.
* **VoteAndBudgetProofs**, second part: `AcceptedIsValid` discharges `PolicyAssumption`: what
  `TerminationPolicy.__post_init__` accepts has the effective values that `Session` assumes.
  `DerivedIsAccepted`: the default thresholds of every budget pass. `BoundariesHold`,
  `EveryPhaseHasACall` and `DecisionFits` are the properties of the run `budget` for every
  policy; they rest on `DerivedRoom`, arithmetic about the roundings, and on the invariant
  that a phase begins below the boundary of the one before (`Entered`).
* **SessionProofs**: every invariant and action property of the runs `team` and `trio`, for every
  team and policy. The handlers of `SessionManager` are nested in one another, so what each does
  is said by a relation between the session before and after it; the relations are transitive, and
  each operator is shown to keep to them in the order in which the operators are built on each
  other. There are two such relations and two invariants.
  - `Quiet`: a handler keeps the types, leaves the reservations alone and does not touch a finished
    session. What is left are the few places that reserve, release and move agents. The invariant
    `IInv` is the types, `ReservationsInFlight` and `WaitersHaveACall`: only together are they kept. From it `NoReservationLeaks`, `NoLostWakeup`, `FirstReasonIsKept`.
  - `Step`, in two halves. `Coherent`: status, engine, phase and deadline agree, a session in voting
    has an undecided ballot with somebody left to answer, and all calls in voting are about it. It
    does not hold in the middle of a handler: a vote that has been counted and not applied yet
    leaves a state with a weaker description (`Counted`). `Change`: the session takes at most one
    transition of the lifecycle (`Path`), only the votes of informed calls are new (`Informed`),
    who is newly waited for has mail (`Fed`), and attempts are not given back (`Onward`). The
    invariant `CInv` adds to `Coherent` what is about the agents' loops: `Attended`, because an
    agent whose call is cut is about to look into its inbox too, and `Rationed`, because an agent at
    the gate was let in below its limit and calls later. From it `VotingAlwaysArmed`,
    `NobodyIsStranded`, `ReviewsStayCurrent`, `CallsAreBounded`, `VotesCountedAreInformed`,
    `RevisionsAreByTheProposer`, and `StepsOfTheLifecycle`, the safety part of
    `ImplementsLifecycle`.
* **DeliveryProofs**, the bus: `BusTypeCorrect`, `EventsAreRight` and `NoLostWakeup`. They hold only
  together: a suspended agent has a clear event, and a clear event empty queues. `MailIsInOrder`:
  what an active agent has heard, followed by its inbox, is in order and complete. `IsAMailbox`: the
  safety part of the refinement of `Mailbox`. What is addressed to an agent is there the one
  increasing enumeration of a set (`For`); that there is only one is shown without induction, by
  the least place at which two of them would differ (`IncreasingAgree`). The same lemmas
  say that the sort at the end of `drain` changes nothing (`SortedAlready`), because messages are
  numbered and queued without an `await` between.
* **DeliveryProofs**, the streams: `NoGapNoRepeat`, the invariants `SubscribersMissNothing`, `OneSentinel` and
  `WaitersAreServed`, without which it is not inductive or would not explain why nobody waits for ever,
  and `IsAFeed`, the safety part
  of the refinement. The inductive invariant follows every event that a browser has not
  received: the wire continues what it has got, the snapshot continues the wire, and the
  queue is the end of the log, with the sentinel after it once the runner has ended. The
  properties do not imply one another: that the queue meets the snapshot without a gap is
  what makes the order on the wire inductive.
* **RegistryProofs**: the four properties of the run `requests` for any number of clients, sessions
  and failing writes. The invariant is in two parts. `RunnersInv` is about the runners: only the
  active one is at work, those before it have ended, are done and have nothing left to write, and as
  long as no write has failed the last status of a session is the last of its queue, or its row when
  the queue is empty (`Behind`). `ClientsInv` is about the requests: what a suspended handler has
  seen, and what an answered client was told, is still so. The two meet in `Moves`, what any step
  does to the sessions as far as a waiting client can tell: none comes back from its end, none
  vanishes, and the registry never returns to an earlier one. One lemma for each way a runner
  moves shows `Moves`, and another that clients who do not act are not disturbed by it.
* **PersistenceProofs**: all safety properties of the run `store`, for every team and policy and any
  number of proposals, crashes, shutdowns and failing writes, and `LedgerImplemented`, the whole of
  the refinement (`Ledger` promises no liveness). What a session has written is in two places, the
  store and the queue, so the invariant speaks of the value that a row *will* have when the queue
  has been written (`Ahead`): a commit changes nothing of that, and a handler appends to it.
  `Complements` says that store and queue together are the session in memory: all earlier proposals
  superseded, the ballot of the latest (`Ballot`), and its outcome. That alone does not make a
  *prefix* of the queue restorable, which is what a crash leaves; `Rows` adds the order: nothing
  final is written before an open session ends, and the final row of a session is written after
  everything else but events. What is restored has the missing voters abstaining, so that its
  verdict follows from `VerdictStable`.
* **ModelAccessProofs**, the login: `LoginIsKept` and `LoginsStand`, for any number of clients, logins
  and grants. `LoginKept` is not inductive: the token that a process is about to write must be
  one the server takes (`HandsRenewable`), with rotation nobody else may be able to use it up
  (`HandsApart`), what a client works on can be refreshed (`ClientsRefresh`), and every number
  in use has been granted (`InRange`). `LoginStands` is about a step, and rests on `Stands`: while
  a choice holds, the file and all that clients who know of it work on are of its account. A
  refresh keeps to that because no record has tokens of two accounts (`Paired`).
* **ModelAccessProofs**, the conversation: `RequestsWellFormed`, `FeedbackStaysCurrent` and `CallsAreHeard`, for
  every limit of the history from four on. The lemmas say that joining matched histories, taking
  a matched history from a whole turn on, and appending calls with their results gives a matched
  history (`Matched`). The invariant adds that a history that will be used again is matched and
  begins with the task (`HistoryOK`), and so a request made of it (`RequestOK`); that the kept
  feedback came of the discussion's last request, or belongs to the proposal that every request
  since it has been about (`FeedbackOK`, `Shown`); and that the last proposal noted is the one
  the call in flight is about (`InFlight`). With a limit below four the newest results would be cut off with their calls:
  `LimitAssumption` is needed, and `config.py` does not let a team set the limit.

* **DashboardProofs**: the properties `NothingInvented`, `FreshIsTrue` and `NeverTakenBack` of the
  run `page`, for every set of voters, any number of proposals, routes and failing requests. What
  the server, its store, an answer on its way and a page know are records of one form, and the
  argument rests on one order between them: `Within` says that everything final in the one is also
  in the other. `Replayed` says that the session is what its events make of it, and the rows what
  the stored ones make of it; so the rows are below the session, and whatever
  is read of them at two moments is, too. `Sound` says the same of the log: an event speaks of what is
  so in the session. The rest is about pages. `TruePage` has, besides being below the session, the
  proposals of the events seen and the vote that was the last of them (`LastVote`): without these
  a page that is told "completed" could not know which proposal was approved. `OpenedOnce` and
  `StreamFits` keep answers apart that would overwrite each other: a page is opened by one
  answer, and does not listen to its stream before that, nor once the last detail is asked for.
  `FreshFinal` needs both. That no step takes anything back is then `PagesKept`, one lemma
  for each handler of the page.

A module of proofs extends the modules it is about; where it has two of them, one has its
`Init`, `Next`, `Spec` and `TypeOK` named after itself (`BusInit`, `BudgetSpec`, `TokenNext` and
so on).
The type invariants are proved and not listed by any run.

Only model-checked:

* liveness, for which there is no prover of fairness here: `EventuallyStops`, `EndsInStore`,
  `EndIsShown`, and what `SessionLifecycle`, `Feed` and `Mailbox` promise to happen. Of
  `ImplementsLifecycle`, `ImplementsFeed` and `ImplementsMailbox` the initial states and the steps
  are proved (`StepsOfTheLifecycle`, `IsAFeed`, `IsAMailbox`), and the fairness is left to TLC;
* `QuietIsIdle`, which the code does not keep (section 6).

Every invariant and every action property that a passing run checks is the statement of a theorem.

## 5. What is not modelled

Contents and prompts; prices; the wire formats of the
LLM provider and the REST API; the YAML of teams and agents. Of the token file the errors of the
disk, and tokens without an `exp` claim, and the account claim; that `_persist` writes a file another
process is reading is in the model as a file that is no JSON. In `Conversation` the end of the
session, which cancels the loop wherever it is. Of the dashboard the
other pages, chat messages, agent states and all of the display. The events a session emits and
what it writes to its store are observations of the steps of `Session`: `EventStream` starts
from the events, and `Persistence` repeats the handlers as far as they write. It leaves out
the rows of messages and usage, which nothing else depends on; SQL itself is a set of rows
and one commit per method. The legacy reason `messages` is never
set by the code.

## 6. Disagreements met while modelling

One of these is kept as a run, with a counterexample in the model:

* **silent** (`agent.py:435`): an answer without text and without tool calls makes `Turn` raise
  a `ContractError` (`llm/base.py:98`) that nothing catches. The task of the agent ends unseen,
  its state stays "thinking", and the idle timeout, which waits for every agent to leave that
  state, never fires, although docs/Plan.md:71 calls a session idle in which nobody calls and
  nothing is queued. Every refusal is such an answer (tests/test_openai_client.py:324-326).

The others are places where the code does something else than a document says. They were met
while the modules were written and are not stated as properties, because the modules keep to
the code:

* **stuck** (`bus.py:84`): a recipient that is no string, such as a list, makes the look-up raise
  a `TypeError` that agent.py:497 does not catch, with the same effect as **silent**
  (`ToolRaises`).
* **revision** (`consensus.py:105`): the version is increased before the content is
  validated, and the limit on proposals is compared with the version. A submission with
  an empty content costs the team its revision, which README.md:33 and 71 promise.
* **badge** (`dashboard/app.js:480`): the guard against a replay that goes back also stops the
  live change from voting to running, so a rejection is never shown and the line that marks a
  proposal as rejected is never reached; docs/EventContract.md:162 and 205.
* **expired** (`serve.py:48`, `run.py:150`): a process asks for the token once, when it builds
  its client. A server that outlives the access token fails the calls of every later session,
  although openai_client.py:493-494 promises a refresh with the next session.
* **account** (`llm/chatgpt_auth.py:221`): after a refresh `get_auth` returns no account, because
  the dict `_refresh` returns has none; its docstrings (169, 182) promise it. A client built then
  names no account in its headers.
* **retry** (`agent.py:348`): a request about a proposal shows the task and the proposal only.
  The text with which the session asks for a vote again enters the history, which no voting
  request shows.
* **draft** (`session.py:821`): only a proposal that is still under vote is kept as a
  draft. A session that fails between a rejection and the revision keeps none, although
  session.py:11-12 says the last proposal is kept.
* **idle** (`session.py:861`): an agent that waits at the gate counts as idle, also after
  it has been notified. contracts.py:107 says that everybody is idle.
* **announce** (`server/events.py:481`): the repair at a start saves the session and then its
  event, in two commits. After a crash in between the session is no longer open, so the event
  that docs/EventContract.md:170 lists is never written.
* **sequence** (`server/events.py:474`): the repair takes the next sequence from the stored
  events. Events are published before they are stored, so after a crash a sequence a browser
  knows may be given again, although docs/EventContract.md:16 makes it a serial number.
* **late** (`server/events.py:400`): a session that has ended and is still flushing is cancelled
  with 200, and what comes back is not cancelled; README.md:203 promises 409.
* **stale** (`dashboard/app.js:605`): after its second `await` the page does not ask again
  whether it is still wanted. It appears over another page and closes that one's stream;
  docs/IA.md:51.
* **usage** (`dashboard/app.js:541`): a page opened after the end stops at the first replayed
  event and has no tokens per agent; docs/EventContract.md:194 and 209.
* **stopped** (`dashboard/app.js:441`): a cancelled page stops without what was on its way and
  without a refresh; docs/EventContract.md:212, docs/Plan.md:273.
* **result** (`dashboard/app.js:590`): a connection that breaks after the completed status and
  before the result is given up without a refresh, and the result is never shown;
  docs/EventContract.md:199.

## 7. Plan

1. Done: `Consensus`, `ConsensusEngine`, `Session`, `SessionLifecycle`, `Bus`, `Mailbox`,
   `EventStream`, `Feed`, `Persistence`, `Ledger`, `Registry`, `Budget`, `Dashboard`, `TokenStore`
   and `Conversation` with their runs, and the proofs of section 4.
2. Next: an abstract page for `Dashboard` (what it shows is a prefix of the session's history;
   `Within` is most of the refinement mapping), and the composition of `Registry` with
   `EventStream` for streams that meet a replaced runner.
