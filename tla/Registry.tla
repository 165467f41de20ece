------------------------------- MODULE Registry -------------------------------
(***************************************************************************)
(* The registry of a server (SessionRegistry, server/events.py): at most   *)
(* one session runs, its runner flushes what it has written before it is   *)
(* done, and requests that create, look up and cancel sessions meet it at  *)
(* any moment between their awaits.                                        *)
(*                                                                         *)
(* Abstractions.  Of a session only its status counts: "running" stands    *)
(* for voting too, "ended" for completed and failed.  Of its writes the    *)
(* rows of the session are kept, in the order of the write-behind queue.   *)
(* Session identifiers are never used twice.  The lock of create_session   *)
(* has no await in its scope, so check and creation are one step.          *)
(***************************************************************************)
EXTENDS Naturals, Sequences

CONSTANTS
  Clients,
  MaxSessions, MaxFailures   \* bounds

ASSUME BoundsAssumption == MaxSessions \in Nat \ {0} /\ MaxFailures \in Nat

Sessions == 1..MaxSessions

VARIABLES
  active,     \* _active: the last session created, 0 for none
  session,    \* the status of each session; "none" before it is created
  queue,      \* its writes that are not committed
  row,        \* its status in the store
  done,       \* SessionRunner.done
  request,    \* what each client has asked, and where the handler is
  answer,     \* the last answer to each client
  failures    \* writes that failed

runners == <<session, queue, row, done>>
vars    == <<active, runners, request, answer, failures>>

Statuses == {"none", "running", "ended", "cancelled"}

(* at: where the handler is suspended.  known: the session existed when the
   request came in. *)
NoRequest == [op |-> "none", id |-> 0, at |-> "", known |-> FALSE]
Ask(op, id, at, known) == [op |-> op, id |-> id, at |-> at, known |-> known]
NoAnswer == [op |-> "none", id |-> 0, code |-> 0, status |-> "none", known |-> FALSE]

Answer(c, code, status) ==
  /\ answer' = [answer EXCEPT ![c] =
       [op |-> request[c].op, id |-> request[c].id, known |-> request[c].known,
        code |-> code, status |-> status]]
  /\ request' = [request EXCEPT ![c] = NoRequest]

Suspend(c, at) ==
  /\ request' = [request EXCEPT ![c].at = at]
  /\ UNCHANGED answer

(* Mutant of HasRunner: a session has a runner when it is in the store. *)
MutHasRunner(s) == active = s /\ row[s] # "none"

(* get_runner: the runner of the last session, done or not. *)
HasRunner(s) == active = s

-----------------------------------------------------------------------------
(* The runner of a session *)

Terminate(s, status) ==
  /\ session' = [session EXCEPT ![s] = status]
  /\ queue' = [queue EXCEPT ![s] = Append(@, status)]

(* The session ends by itself. *)
End(s) ==
  /\ session[s] = "running"
  /\ Terminate(s, "ended")
  /\ UNCHANGED <<active, row, done, request, answer, failures>>

Write(s) ==
  /\ queue[s] # <<>>
  /\ row' = [row EXCEPT ![s] = Head(queue[s])]
  /\ queue' = [queue EXCEPT ![s] = Tail(@)]
  /\ UNCHANGED <<active, session, done, request, answer, failures>>

WriteFails(s) ==
  /\ queue[s] # <<>>
  /\ failures < MaxFailures
  /\ failures' = failures + 1
  /\ queue' = [queue EXCEPT ![s] = Tail(@)]
  /\ UNCHANGED <<active, session, row, done, request, answer>>

(* Mutant of Flushed: the runner does not wait for its writes. *)
MutFlushed(s) == session[s] \notin {"none", "running"}

(* run() returns once its queue has been flushed. *)
Flushed(s) == session[s] \notin {"none", "running"} /\ queue[s] = <<>>

Finish(s) ==
  /\ ~done[s]
  /\ Flushed(s)
  /\ done' = [done EXCEPT ![s] = TRUE]
  /\ UNCHANGED <<active, session, queue, row, request, answer, failures>>

-----------------------------------------------------------------------------
(* Requests *)

Arrive(c) ==
  /\ request[c] = NoRequest
  /\ \/ request' = [request EXCEPT ![c] = Ask("create", 0, "team", FALSE)]
     \/ \E op \in {"detail", "cancel"}, s \in Sessions :
          request' = [request EXCEPT ![c] = Ask(op, s, "start", session[s] # "none")]
  /\ UNCHANGED <<active, runners, answer, failures>>

(* Mutant of Busy: a session that has ended may be replaced. *)
MutBusy == active # 0 /\ session[active] = "running"

Busy == active # 0 /\ ~done[active]

(* create_session, after the team has been read. *)
Create(c) ==
  /\ request[c].at = "team"
  /\ \/ /\ Busy
        /\ Answer(c, 409, "none")
        /\ UNCHANGED <<active, session, queue>>
     \/ /\ ~Busy
        /\ active < MaxSessions
        /\ active' = active + 1
        /\ session' = [session EXCEPT ![active'] = "running"]
        /\ queue' = [queue EXCEPT ![active'] = <<"running">>]
        /\ Answer(c, 201, "running")
  /\ UNCHANGED <<row, done, failures>>

(* The team is unknown, or its file is invalid. *)
NoTeam(c) ==
  /\ request[c].at = "team"
  /\ Answer(c, 400, "none")
  /\ UNCHANGED <<active, runners, failures>>

(* get_session_detail: current_session looks for a runner, then in the store;
   the detail of an ended session waits for its runner. *)
Detail(c) ==
  LET s == request[c].id
  IN  /\ request[c].op = "detail"
      /\ request[c].at = "start"
      /\ IF HasRunner(s)
         THEN IF session[s] # "running" /\ ~done[s] THEN Suspend(c, "wait")
              ELSE Answer(c, 200, session[s])
         ELSE Suspend(c, "store")
      /\ UNCHANGED <<active, runners, failures>>

DetailWaited(c) ==
  LET s == request[c].id
  IN  /\ request[c].op = "detail"
      /\ request[c].at = "wait"
      /\ done[s]
      /\ Answer(c, 200, session[s])
      /\ UNCHANGED <<active, runners, failures>>

(* Mutant of Stop: a cancellation overwrites how the session has ended. *)
MutStop(s) == Terminate(s, "cancelled")

(* SessionManager.cancel: an ended session stays as it is. *)
Stop(s) ==
  IF session[s] = "running" THEN Terminate(s, "cancelled")
  ELSE UNCHANGED <<session, queue>>

(* cancel_session: the session ends at once. *)
Cancel(c) ==
  LET s == request[c].id
  IN  /\ request[c].op = "cancel"
      /\ request[c].at = "start"
      /\ \/ /\ HasRunner(s) /\ ~done[s]
            /\ Suspend(c, "wait")
            /\ Stop(s)
         \/ /\ HasRunner(s) /\ done[s]
            /\ Answer(c, 409, session[s])
            /\ UNCHANGED <<session, queue>>
         \/ /\ ~HasRunner(s)
            /\ Suspend(c, "store")
            /\ UNCHANGED <<session, queue>>
      /\ UNCHANGED <<active, row, done, failures>>

(* The runner is done, or five seconds have gone by. *)
CancelWaited(c) ==
  LET s == request[c].id
  IN  /\ request[c].op = "cancel"
      /\ request[c].at = "wait"
      /\ Answer(c, 200, session[s])
      /\ UNCHANGED <<active, runners, failures>>

(* The answer of the store. *)
Read(c) ==
  LET s == request[c].id
  IN  /\ request[c].at = "store"
      /\ IF row[s] = "none" THEN Answer(c, 404, "none")
         ELSE Answer(c, IF request[c].op = "detail" THEN 200 ELSE 409, row[s])
      /\ UNCHANGED <<active, runners, failures>>

-----------------------------------------------------------------------------
Init ==
  /\ active = 0
  /\ session = [s \in Sessions |-> "none"]
  /\ queue = [s \in Sessions |-> <<>>]
  /\ row = [s \in Sessions |-> "none"]
  /\ done = [s \in Sessions |-> FALSE]
  /\ request = [c \in Clients |-> NoRequest]
  /\ answer = [c \in Clients |-> NoAnswer]
  /\ failures = 0

Handle(c) ==
  \/ Create(c)
  \/ NoTeam(c)
  \/ Detail(c)
  \/ DetailWaited(c)
  \/ Cancel(c)
  \/ CancelWaited(c)
  \/ Read(c)

Run(s) == End(s) \/ Write(s) \/ Finish(s)

Next ==
  \/ \E s \in Sessions : Run(s)
  \/ \E s \in Sessions : WriteFails(s)
  \/ \E c \in Clients : Arrive(c)
  \/ \E c \in Clients : Handle(c)

Spec == Init /\ [][Next]_vars

-----------------------------------------------------------------------------
Requests ==
  [op : {"none", "create", "detail", "cancel"}, id : 0..MaxSessions,
   at : {"", "team", "start", "wait", "store"}, known : BOOLEAN]

Answers ==
  [op : {"none", "create", "detail", "cancel"}, id : 0..MaxSessions,
   code : {0, 200, 201, 400, 404, 409}, status : Statuses, known : BOOLEAN]

TypeOK ==
  /\ active \in 0..MaxSessions
  /\ session \in [Sessions -> Statuses]
  /\ queue \in [Sessions -> Seq(Statuses \ {"none"})]
  /\ row \in [Sessions -> Statuses]
  /\ done \in [Sessions -> BOOLEAN]
  /\ request \in [Clients -> Requests]
  /\ answer \in [Clients -> Answers]
  /\ failures \in 0..MaxFailures

(* create_session: one session at a time, and the one before has been stored
   completely, whoever asks at once (D-013). *)
OneAtATime ==
  \A s \in Sessions :
    session[s] # "none" /\ s # active =>
      /\ done[s] /\ queue[s] = <<>>
      /\ failures = 0 => row[s] = session[s]

(* A session that existed when it was asked for is not denied, although it moves
   from the registry to the store meanwhile (unless a write failed). *)
KnownIsFound ==
  \A c \in Clients : answer[c].code = 404 /\ failures = 0 => ~answer[c].known

(* Whatever a cancellation of an existing session is answered, the session does
   not go on. *)
CancelEnds ==
  \A c \in Clients :
    answer[c].op = "cancel" /\ answer[c].known => session[answer[c].id] # "running"

(* A final status in an answer is the one that the store has or gets. *)
AnswersStand ==
  \A c \in Clients :
    LET told == answer[c].status
        s    == answer[c].id
    IN  answer[c].op \in {"detail", "cancel"} /\ told \in {"ended", "cancelled"} =>
          /\ session[s] = told
          /\ failures = 0 => IF queue[s] = <<>> THEN row[s] = told
                             ELSE queue[s][Len(queue[s])] = told

=============================================================================
