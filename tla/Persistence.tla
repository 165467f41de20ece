----------------------------- MODULE Persistence -----------------------------
(***************************************************************************)
(* How a session gets into the store and out of it again: the write-behind *)
(* queue of SessionManager, the SQLite store, the end of the runner, the   *)
(* REST detail, shutdown, the death of the process at any point, and       *)
(* mark_interrupted_sessions at the next start.                            *)
(*                                                                         *)
(* Every row is committed on its own, in the order of the queue.  The      *)
(* handlers of the session are here for the order in which they write; the *)
(* verdicts come from the operators of Consensus.                          *)
(*                                                                         *)
(* Abstractions.  There is one session, and its fail reason is "failed" or *)
(* "interrupted".  Of the events only the status changes and the result    *)
(* are kept, messages and usage are left out: their rows are written the   *)
(* same way.  Nobody dies or is exhausted, so the electorate is fixed.     *)
(* Creating a session includes the first step of run(): no request can     *)
(* name the session before.  A crash loses the process, not the disk.      *)
(***************************************************************************)
EXTENDS Consensus, Sequences

CONSTANTS
  Proposers, Voters,  \* the agents with the capability
  Approval,           \* the team's ApprovalConfig
  MaxProposals,
  MaxCrashes, MaxShutdowns, MaxFailures  \* bounds

ASSUME RolesAssumption == Proposers \subseteq Agents /\ Voters \subseteq Agents
ASSUME ApprovalAssumption == Approval \in ApprovalConfig
ASSUME BoundsAssumption ==
  /\ MaxProposals \in Nat \ {0}
  /\ MaxCrashes \in Nat
  /\ MaxShutdowns \in Nat
  /\ MaxFailures \in Nat

VARIABLES
  pc,         \* the server: down, the steps of a start (running, voting,
              \* announce), up, or closing
  live,       \* the session in memory, see Live
  done,       \* SessionRunner._done
  db,         \* the committed rows, see Database
  told,       \* the final session a REST detail has returned
  crashes, shutdowns, failures

vars == <<pc, live, done, db, told, crashes, shutdowns, failures>>

-----------------------------------------------------------------------------
Open  == {"running", "voting"}
Final == {"completed", "failed", "cancelled", "interrupted"}

(* A session row: its status, and the version of the proposal that is its
   result, 0 for none. *)
Sessions == [status : {"none"} \cup Open \cup Final, result : 0..MaxProposals]
NoSession == [status |-> "none", result |-> 0]

Bodies   == Open \cup Final \cup {"result"}
Events   == [sequence : Nat, body : Bodies]
Votes    == [version : 1..MaxProposals, voter : Agents, decision : Decisions]
Statuses == {"pending", "approved", "rejected", "superseded"}

(* What the coroutines in the write-behind queue will write. *)
Writes ==
  [kind : {"team"}]
    \cup [kind : {"session"}, row : Sessions]
    \cup [kind : {"proposal"}, version : 1..MaxProposals, status : Statuses]
    \cup [kind : {"vote"}, row : Votes]
    \cup [kind : {"event"}, row : Events]

(* SessionManager: its session, its ConsensusEngine, the events it has emitted
   (their number is _event_seq) and its write queue. *)
Live == [session : Sessions, engine : Engine, log : Seq(Bodies), queue : Seq(Writes)]

NoLive == [session |-> NoSession, engine |-> NewEngine, log |-> <<>>, queue |-> <<>>]

Database == [team      : BOOLEAN,
             session   : Sessions,
             proposals : [1..MaxProposals -> Statuses \cup {"none"}],
             votes     : SUBSET Votes,
             events    : SUBSET Events]

EmptyDatabase ==
  [team |-> FALSE, session |-> NoSession,
   proposals |-> [v \in 1..MaxProposals |-> "none"], votes |-> {}, events |-> {}]

(* The methods of SQLiteStore, one commit each. *)

SaveTeamSnapshot(d)        == [d EXCEPT !.team = TRUE]
SaveSession(d, row)        == [d EXCEPT !.session = row]
SaveProposal(d, v, status) == [d EXCEPT !.proposals[v] = status]
AppendVote(d, row)         == [d EXCEPT !.votes = @ \cup {row}]
AppendEvent(d, row)        == [d EXCEPT !.events = @ \cup {row}]

Written(d, w) ==
  CASE w.kind = "team"     -> SaveTeamSnapshot(d)
    [] w.kind = "session"  -> SaveSession(d, w.row)
    [] w.kind = "proposal" -> SaveProposal(d, w.version, w.status)
    [] w.kind = "vote"     -> AppendVote(d, w.row)
    [] w.kind = "event"    -> AppendEvent(d, w.row)

-----------------------------------------------------------------------------
(* SessionManager: what its methods enqueue *)

Enqueue(m, w) == [m EXCEPT !.queue = Append(@, w)]

PersistSession(m) == Enqueue(m, [kind |-> "session", row |-> m.session])

PersistProposal(m, version, status) ==
  Enqueue(m, [kind |-> "proposal", version |-> version, status |-> status])

Emit(m, body) ==
  [Enqueue(m, [kind |-> "event", row |-> [sequence |-> Len(m.log), body |-> body]])
     EXCEPT !.log = Append(@, body)]

Transition(m, status) ==
  Emit(PersistSession([m EXCEPT !.session.status = status]), status)

Terminal(m) == m.session.status \in Final

(* Mutant of Finalize: the last session row is not written. *)
MutFinalize(m, status, result) ==
  IF Terminal(m) THEN m
  ELSE Emit([m EXCEPT !.session = [status |-> status, result |-> result]], status)

Finalize(m, status, result) ==
  IF Terminal(m) THEN m
  ELSE LET ended == Emit(PersistSession([m EXCEPT !.session =
                           [status |-> status, result |-> result]]), status)
       IN  IF status = "completed" THEN Emit(ended, "result") ELSE ended

Resolved(m) == [m EXCEPT !.engine = Resolve(m.engine)]

(* Mutant of Complete: the session before its proposal. *)
MutComplete(m) ==
  PersistProposal(Finalize(Resolved(m), "completed", m.engine.version),
                  m.engine.version, "approved")

Complete(m) ==
  Finalize(PersistProposal(Resolved(m), m.engine.version, "approved"),
           "completed", m.engine.version)

ApplyOutcome(m) ==
  LET rejected == PersistProposal(Resolved(m), m.engine.version, "rejected")
  IN  CASE m.engine.outcome = "pending"   -> m
        [] m.engine.outcome = "approved"  -> Complete(m)
        [] m.engine.outcome = "rejected"  ->
             IF m.engine.version >= MaxProposals
             THEN Finalize(rejected, "failed", 0)
             ELSE Transition(rejected, "running")
        [] m.engine.outcome = "no_quorum" -> Finalize(rejected, "failed", 0)

-----------------------------------------------------------------------------
(* The session *)

(* A handler of the session runs: it may do so until the session has ended. *)
Handler(m) ==
  /\ pc = "up"
  /\ live.session.status \in Open
  /\ live' = m
  /\ UNCHANGED <<pc, done, db, told, crashes, shutdowns, failures>>

NoRunner == live.session.status = "none"

(* SessionRegistry.create_session, and run() up to its first await. *)
Create ==
  /\ pc = "up"
  /\ NoRunner
  /\ db = EmptyDatabase  \* nor is anything left of an earlier one
  /\ live' = Transition(Enqueue(NoLive, [kind |-> "team"]), "running")
  /\ UNCHANGED <<pc, done, db, told, crashes, shutdowns, failures>>

Submit(proposer) ==
  LET opened == OpenProposal(live.engine, proposer, Voters, Approval)
      saved  == PersistProposal([live EXCEPT !.engine = opened],
                                opened.version, "pending")
      closed == IF opened.replaced # 0
                THEN PersistProposal(saved, opened.replaced, "superseded")
                ELSE saved
  IN  /\ live.session.status = "running"
      /\ live.engine.version < MaxProposals
      /\ Handler(ApplyOutcome(Transition(closed, "voting")))

Vote(voter, decision) ==
  LET row == [version |-> live.engine.version, voter |-> voter, decision |-> decision]
  IN  /\ live.engine.open
      /\ VoteAccepted(live.engine, voter, decision, TRUE)
      /\ Handler(ApplyOutcome(
           Enqueue([live EXCEPT !.engine = ApplyVote(@, voter, decision, Approval)],
                   [kind |-> "vote", row |-> row])))

Abstain(voter) ==
  /\ live.engine.open
  /\ voter \in Pending(live.engine.tally)
  /\ Handler(ApplyOutcome([live EXCEPT !.engine = RegisterAbstention(@, voter, Approval)]))

Expire ==
  /\ live.engine.open
  /\ Handler(ApplyOutcome([live EXCEPT !.engine = ExpirePending(@, Approval)]))

(* The budget, the idle timer, the agents' errors. *)
Fail == Handler(Finalize(live, "failed", 0))

Cancel == Handler(Finalize(live, "cancelled", 0))

-----------------------------------------------------------------------------
(* The writer, and the end of the runner *)

WriterRuns == pc \in {"up", "closing"} /\ live.queue # <<>>

Commit ==
  /\ WriterRuns
  /\ db' = Written(db, Head(live.queue))
  /\ live' = [live EXCEPT !.queue = Tail(@)]
  /\ UNCHANGED <<pc, done, told, crashes, shutdowns, failures>>

(* The store raises: the write is logged and lost, the session goes on. *)
WriteFails ==
  /\ WriterRuns
  /\ failures < MaxFailures
  /\ failures' = failures + 1
  /\ live' = [live EXCEPT !.queue = Tail(@)]
  /\ UNCHANGED <<pc, done, db, told, crashes, shutdowns>>

(* _write_queue.join() *)
Flushed == live.queue = <<>>

(* The finally of run(), and of SessionRunner._run. *)
Finish ==
  /\ pc \in {"up", "closing"}
  /\ Terminal(live)
  /\ ~done
  /\ Flushed
  /\ done' = TRUE
  /\ UNCHANGED <<pc, live, db, told, crashes, shutdowns, failures>>

(* Mutant of Settled: the detail does not wait for the runner. *)
MutSettled == Terminal(live)

(* The runner of a final session is waited for. *)
Settled == Terminal(live) /\ done

(* get_session_detail returns a final session, the runner's or the store's. *)
Detail ==
  /\ pc = "up"
  /\ \/ Settled /\ told' = live.session
     \/ NoRunner /\ db.session.status \in Final /\ told' = db.session
  /\ UNCHANGED <<pc, live, done, db, crashes, shutdowns, failures>>

-----------------------------------------------------------------------------
(* The process *)

(* What is in memory is gone. *)
Dies ==
  /\ pc' = "down"
  /\ live' = NoLive
  /\ done' = FALSE

Crash ==
  /\ pc # "down"
  /\ crashes < MaxCrashes
  /\ crashes' = crashes + 1
  /\ Dies
  /\ UNCHANGED <<db, told, shutdowns, failures>>

(* The end of lifespan: an active session is interrupted. *)
Shutdown ==
  /\ pc = "up"
  /\ shutdowns < MaxShutdowns
  /\ shutdowns' = shutdowns + 1
  /\ pc' = "closing"
  /\ live' = IF NoRunner THEN live ELSE Finalize(live, "interrupted", 0)
  /\ UNCHANGED <<done, db, told, crashes, failures>>

(* wait_done returns, perhaps because its time is up; store.close(). *)
CloseStore ==
  /\ pc = "closing"
  /\ Dies
  /\ UNCHANGED <<db, told, crashes, shutdowns, failures>>

Start ==
  /\ pc = "down"
  /\ pc' = "running"
  /\ UNCHANGED <<live, done, db, told, crashes, shutdowns, failures>>

(* Mutant of NextPass: only the running sessions are looked for. *)
MutNextPass == "up"

(* mark_interrupted_sessions looks for running sessions, then for voting ones. *)
NextPass == IF pc = "running" THEN "voting" ELSE "up"

(* Mutant of Found: any session that is not being looked for any more. *)
MutFound == db.session.status # "none"

Found == db.session.status = pc

(* One turn of the loops of mark_interrupted_sessions: the session row. *)
Mark ==
  /\ pc \in Open
  /\ IF Found
     THEN /\ db' = SaveSession(db, [status |-> "interrupted", result |-> 0])
          /\ pc' = "announce"
     ELSE /\ pc' = NextPass
          /\ UNCHANGED db
  /\ UNCHANGED <<live, done, told, crashes, shutdowns, failures>>

NextSequence ==
  LET used == {e.sequence : e \in db.events}
  IN  IF used = {} THEN 0 ELSE 1 + CHOOSE n \in used : \A m \in used : m <= n

(* Its event follows, with the next sequence of the stored log: nobody has
   written since that was read.  A session found running is looked for once
   more, as one in voting, and not found. *)
Announce ==
  /\ pc = "announce"
  /\ db' = AppendEvent(db, [sequence |-> NextSequence, body |-> "interrupted"])
  /\ pc' = "voting"
  /\ UNCHANGED <<live, done, told, crashes, shutdowns, failures>>

(* The store raises: lifespan logs it and goes on without the rest. *)
StartFails ==
  /\ pc \in Open \cup {"announce"}
  /\ failures < MaxFailures
  /\ failures' = failures + 1
  /\ pc' = "up"
  /\ UNCHANGED <<live, done, db, told, crashes, shutdowns>>

-----------------------------------------------------------------------------
Init ==
  /\ pc = "down"
  /\ live = NoLive
  /\ done = FALSE
  /\ db = EmptyDatabase
  /\ told = NoSession
  /\ crashes = 0
  /\ shutdowns = 0
  /\ failures = 0

SessionStep ==
  \/ \E a \in Proposers : Submit(a)
  \/ \E a \in Voters, decision \in Decisions : Vote(a, decision)
  \/ \E a \in Voters : Abstain(a)
  \/ Expire
  \/ Fail

StartStep == Start \/ Mark \/ Announce \/ StartFails

Next ==
  \/ Create
  \/ SessionStep
  \/ Cancel
  \/ Commit \/ WriteFails \/ Finish \/ Detail
  \/ Crash \/ Shutdown \/ CloseStore
  \/ StartStep

Spec == Init /\ [][Next]_vars

(* A session ends (Session!EventuallyStops), a write returns or raises, and the
   server is started again. *)
Fairness ==
  /\ WF_vars(Fail)
  /\ WF_vars(Commit)
  /\ WF_vars(Finish)
  /\ WF_vars(CloseStore)
  /\ WF_vars(StartStep)

FairSpec == Spec /\ Fairness

-----------------------------------------------------------------------------
TypeOK ==
  /\ pc \in {"down", "running", "voting", "announce", "up", "closing"}
  /\ live \in Live
  /\ live.engine.version <= MaxProposals
  /\ done \in BOOLEAN
  /\ db \in Database
  /\ told \in Sessions
  /\ crashes \in 0..MaxCrashes
  /\ shutdowns \in 0..MaxShutdowns
  /\ failures \in 0..MaxFailures

(* The record of a decision can be put together again from the store, however
   the process ended (store/base.py: from the approved proposal, the votes and
   the session): a completed session has its approved proposal, every earlier
   one is superseded, and the stored votes decide, whoever has none counting as
   abstaining. *)
DecisionRestorable ==
  failures = 0 /\ db.session.status = "completed" =>
    LET version  == db.session.result
        cast(d)  == {a \in Agents :
                       [version |-> version, voter |-> a, decision |-> d] \in db.votes}
        voted    == cast("approve") \cup cast("reject")
        ballot(p) == [voters     |-> Voters \ {p},
                      approvals  |-> cast("approve"),
                      rejections |-> cast("reject"),
                      abstained  |-> (Voters \ {p}) \ voted]
    IN  /\ version # 0
        /\ db.proposals[version] = "approved"
        /\ \A v \in 1..MaxProposals : v < version => db.proposals[v] = "superseded"
        /\ \E p \in Proposers \ voted : Decide(ballot(p), Approval) = "approved"

(* After a start no session is left open by a process that is gone (D-021). *)
NothingOpen ==
  pc = "up" /\ NoRunner /\ failures = 0 => db.session.status \notin Open

(* A final session that a client has been told of by the REST detail is the
   one it will find after any crash and restart: nothing makes a completed
   session an interrupted one. *)
ToldIsDurable ==
  failures = 0 /\ told # NoSession => db.session = told

(* A session that is in the store as open does not stay so. *)
EndsInStore ==
  (db.session.status \in Open) ~> (db.session.status \in Final \/ failures > 0)

(* The rows of a session, written behind and repaired by a restart, are a
   record that stands once it is final. *)
Entry == IF db.session.status \in Open THEN "open" ELSE db.session.status
Record == INSTANCE Ledger WITH entry <- Entry

ImplementsLedger == Record!Spec

=============================================================================
