---------------------------- MODULE RegistryProofs ----------------------------
(***************************************************************************)
(* The invariants of Registry.tla, proved for any number of clients,       *)
(* sessions and failed writes.                                             *)
(***************************************************************************)
EXTENDS Registry, SequenceTheorems, TLAPS

Ends == {"ended", "cancelled"}

RunnersType ==
  /\ active \in 0..MaxSessions
  /\ session \in [Sessions -> Statuses]
  /\ queue \in [Sessions -> Seq(Statuses \ {"none"})]
  /\ row \in [Sessions -> Statuses]
  /\ done \in [Sessions -> BOOLEAN]
  /\ failures \in 0..MaxFailures

ClientsType ==
  /\ request \in [Clients -> Requests]
  /\ answer \in [Clients -> Answers]

(* Sessions are created one after the other, each when the runner of the one
   before is done; a runner is done when it has ended and is flushed. *)
OneRunner ==
  \A s \in Sessions :
    /\ s > active => session[s] = "none" /\ queue[s] = <<>> /\ row[s] = "none"
    /\ s <= active => session[s] # "none"
    /\ s < active => done[s]
    /\ done[s] => session[s] \in Ends /\ queue[s] = <<>>

(* What is being written is where the session has been.  The newest write is
   where it is, and an end that is written is its end. *)
Behind ==
  \A s \in Sessions :
    /\ \A i \in 1..Len(queue[s]) : queue[s][i] \in Ends => queue[s][i] = session[s]
    /\ row[s] \in Ends => row[s] = session[s]
    /\ queue[s] # <<>> => queue[s][Len(queue[s])] = session[s]
    /\ failures = 0 /\ queue[s] = <<>> => row[s] = session[s]

RunnersInv == RunnersType /\ OneRunner /\ Behind

(* A handler that waits, waits for a session that has ended.  One that has gone
   to the store for a session it could have known was replaced meanwhile. *)
Asked ==
  \A c \in Clients :
    /\ request[c].at = "team" => request[c].op = "create"
    /\ request[c].at \in {"start", "wait", "store"} =>
         request[c].op \in {"detail", "cancel"} /\ request[c].id \in Sessions
    /\ request[c].known => request[c].id \in Sessions /\ session[request[c].id] # "none"
    /\ request[c].at = "wait" => session[request[c].id] \in Ends
    /\ request[c].at = "store" /\ request[c].known => request[c].id < active

Told ==
  \A c \in Clients :
    /\ answer[c].op \in {"detail", "cancel"} => answer[c].id \in Sessions
    /\ answer[c].op \in {"detail", "cancel"} /\ answer[c].status \in Ends =>
         session[answer[c].id] = answer[c].status
    /\ answer[c].op = "cancel" /\ answer[c].known => session[answer[c].id] \in Ends

ClientsInv == ClientsType /\ Asked /\ Told /\ KnownIsFound

(* The inductive invariant. *)
IInv == RunnersInv /\ ClientsInv

(* Once created a session is never uncreated, an end is final, and the registry
   never goes back. *)
Moves ==
  /\ active <= active'
  /\ failures = 0 \/ failures' # 0
  /\ \A s \in Sessions :
       /\ session[s] # "none" => session'[s] # "none"
       /\ session[s] \in Ends => session'[s] = session[s]

-----------------------------------------------------------------------------
(* The runner of a session *)

(* A session ends or is cancelled. *)
LEMMA TerminateKeeps ==
  ASSUME RunnersInv, NEW s \in Sessions, NEW end \in Ends, session[s] = "running",
         Terminate(s, end), UNCHANGED <<active, row, done, failures>>
  PROVE  RunnersInv' /\ Moves
<1> USE DEF RunnersInv
<1>1. /\ session' = [session EXCEPT ![s] = end]
      /\ queue' = [queue EXCEPT ![s] = Append(queue[s], end)]
      /\ active' = active /\ row' = row /\ done' = done /\ failures' = failures
  BY DEF Terminate
<1>2. /\ end \in Statuses \ {"none"} /\ queue[s] \in Seq(Statuses \ {"none"})
      /\ active \in Nat /\ failures \in Nat
  BY DEF Ends, Statuses, RunnersType
<1>3. /\ Append(queue[s], end) \in Seq(Statuses \ {"none"})
      /\ Len(Append(queue[s], end)) = Len(queue[s]) + 1
      /\ \A i \in 1..Len(queue[s]) : Append(queue[s], end)[i] = queue[s][i]
      /\ Append(queue[s], end)[Len(queue[s]) + 1] = end
  BY <1>2, AppendProperties
<1>4. Len(queue[s]) \in Nat
  BY <1>2, LenProperties
<1>5. ~done[s] /\ ~(s > active)
  BY DEF OneRunner, Ends
<1>6. /\ session'[s] = end /\ queue'[s] = Append(queue[s], end)
      /\ \A t \in Sessions : t # s => session'[t] = session[t] /\ queue'[t] = queue[t]
  BY <1>1 DEF RunnersType
<1>7. RunnersType'
  BY <1>1, <1>2, <1>3 DEF RunnersType
<1>8. OneRunner'
  <2>1. \A t \in Sessions : t # s =>
          session'[t] = session[t] /\ queue'[t] = queue[t]
    BY <1>6
  <2>2. session'[s] # "none"
    BY <1>2, <1>6
  <2>. QED
    BY <1>1, <1>5, <2>1, <2>2 DEF OneRunner
<1>9. Behind'
  <2>1. ASSUME NEW i \in 1..Len(queue'[s]), queue'[s][i] \in Ends
        PROVE  queue'[s][i] = session'[s]
    <3>1. CASE i = Len(queue[s]) + 1
      BY <1>3, <1>6, <3>1
    <3>2. CASE i \in 1..Len(queue[s])
      <4>1. queue[s][i] \in Ends
        BY <1>3, <1>6, <2>1, <3>2
      <4>2. queue[s][i] = "running"
        BY <4>1, <3>2 DEF Behind
      <4>. QED
        BY <4>1, <4>2 DEF Ends
    <3>. QED
      BY <1>3, <1>4, <1>6, <3>1, <3>2
  <2>2. row'[s] \notin Ends
    BY <1>1 DEF Behind, Ends
  <2>3. queue'[s] # <<>> /\ queue'[s][Len(queue'[s])] = session'[s]
    BY <1>2, <1>3, <1>4, <1>6, EmptySeq
  <2>4. \A t \in Sessions : t # s =>
          session'[t] = session[t] /\ queue'[t] = queue[t]
    BY <1>6
  <2>. QED
    BY <1>1, <2>1, <2>2, <2>3, <2>4 DEF Behind
<1>10. Moves
  BY <1>1, <1>2, <1>6 DEF Moves, Ends
<1>. QED
  BY <1>7, <1>8, <1>9, <1>10

(* The head of the queue leaves it: written or not. *)
LEMMA DequeueKeeps ==
  ASSUME RunnersInv, NEW s \in Sessions, queue[s] # <<>>,
         queue' = [queue EXCEPT ![s] = Tail(queue[s])],
         UNCHANGED <<active, session, done>>,
         failures' \in 0..MaxFailures,
         \/ row' = [row EXCEPT ![s] = Head(queue[s])] /\ failures' = failures
         \/ row' = row /\ failures' = failures + 1
  PROVE  RunnersInv' /\ Moves
<1> USE DEF RunnersInv
<1>1. /\ queue[s] \in Seq(Statuses \ {"none"}) /\ active \in Nat /\ failures \in Nat
      /\ failures' \in Nat
  BY DEF RunnersType
<1>2. /\ Head(queue[s]) \in Statuses \ {"none"}
      /\ Tail(queue[s]) \in Seq(Statuses \ {"none"})
      /\ Len(Tail(queue[s])) = Len(queue[s]) - 1
      /\ \A i \in 1..Len(Tail(queue[s])) : Tail(queue[s])[i] = queue[s][i + 1]
  BY <1>1, HeadTailProperties
<1>3. Len(queue[s]) \in Nat /\ Len(queue[s]) > 0 /\ Head(queue[s]) = queue[s][1]
  BY <1>1, LenProperties, EmptySeq
<1>4. /\ queue'[s] = Tail(queue[s])
      /\ \A t \in Sessions : t # s => queue'[t] = queue[t]
      /\ session' = session /\ active' = active /\ done' = done
      /\ \A t \in Sessions : t # s => row'[t] = row[t]
      /\ \/ row'[s] = Head(queue[s]) /\ failures' = failures
         \/ row'[s] = row[s] /\ failures' = failures + 1
  BY DEF RunnersType
<1>10. /\ Len(queue'[s]) \in Nat /\ Len(queue'[s]) = Len(queue[s]) - 1
       /\ \A i \in 1..Len(queue'[s]) : queue'[s][i] = queue[s][i + 1]
  <2>1. Len(Tail(queue[s])) \in Nat
    BY <1>2, LenProperties
  <2>. QED
    BY <1>2, <1>4, <2>1
<1>5. RunnersType'
  BY <1>1, <1>2 DEF RunnersType
<1>6. s <= active /\ ~done[s]
  BY <1>1 DEF OneRunner, Sessions
<1>7. OneRunner'
  BY <1>4, <1>6 DEF OneRunner
<1>8. Behind'
  <2>1. ASSUME NEW i \in 1..Len(queue'[s]), queue'[s][i] \in Ends
        PROVE  queue'[s][i] = session'[s]
    <3>1. i + 1 \in 1..Len(queue[s]) /\ queue'[s][i] = queue[s][i + 1]
      BY <1>3, <1>10
    <3>. QED
      BY <1>4, <2>1, <3>1 DEF Behind
  <2>2. row'[s] \in Ends => row'[s] = session'[s]
    <3>1. 1 \in 1..Len(queue[s])
      BY <1>3
    <3>. QED
      BY <1>3, <1>4, <3>1 DEF Behind
  <2>3. ASSUME queue'[s] # <<>>
        PROVE  queue'[s][Len(queue'[s])] = session'[s]
    <3>1. Len(queue'[s]) # 0
      BY <1>2, <1>4, <2>3, EmptySeq
    <3>2. /\ Len(queue'[s]) \in 1..Len(queue'[s])
          /\ Len(queue'[s]) + 1 = Len(queue[s])
      <4> DEFINE k == Len(queue'[s])
                 l == Len(queue[s])
      <4>1. k \in Nat /\ k = l - 1 /\ l \in Nat /\ k # 0
        BY <1>3, <1>10, <3>1
      <4> HIDE DEF k, l
      <4>2. k \in 1..k /\ k + 1 = l
        BY <4>1
      <4>. QED
        BY <4>2 DEF k, l
    <3>3. queue'[s][Len(queue'[s])] = queue[s][Len(queue[s])]
      BY <1>10, <3>2
    <3>. QED
      BY <1>4, <3>3 DEF Behind
  <2>4. ASSUME failures' = 0, queue'[s] = <<>>
        PROVE  row'[s] = session'[s]
    <3>1. failures = 0 /\ row'[s] = Head(queue[s])
      BY <1>1, <1>4, <2>4
    <3>2. Len(queue[s]) = 1
      <4>1. Len(queue'[s]) = 0
        BY <2>4, EmptySeq
      <4>. QED
        BY <1>3, <1>10, <4>1
    <3>. QED
      BY <1>3, <1>4, <3>1, <3>2 DEF Behind
  <2>5. \A t \in Sessions : t # s =>
          /\ session'[t] = session[t] /\ queue'[t] = queue[t] /\ row'[t] = row[t]
          /\ failures' = 0 => failures = 0
    BY <1>1, <1>4
  <2>. QED
    BY <2>1, <2>2, <2>3, <2>4, <2>5 DEF Behind
<1>9. Moves
  BY <1>1, <1>4 DEF Moves
<1>. QED
  BY <1>5, <1>7, <1>8, <1>9

LEMMA FinishKeeps ==
  ASSUME RunnersInv, NEW s \in Sessions, Finish(s)
  PROVE  RunnersInv' /\ Moves
<1> USE DEF RunnersInv
<1>1. /\ done' = [done EXCEPT ![s] = TRUE] /\ queue[s] = <<>>
      /\ session[s] \notin {"none", "running"}
      /\ active' = active /\ session' = session /\ queue' = queue /\ row' = row
      /\ failures' = failures
  BY DEF Finish, Flushed
<1>2. session[s] \in Ends /\ active \in Nat /\ failures \in Nat
  BY <1>1 DEF RunnersType, Statuses, Ends
<1>3. RunnersType' /\ Behind' /\ Moves
  BY <1>1, <1>2 DEF RunnersType, Behind, Moves
<1>4. OneRunner'
  BY <1>1, <1>2 DEF OneRunner, RunnersType
<1>. QED
  BY <1>3, <1>4

(* A new session follows one whose runner is done. *)
LEMMA CreateKeeps ==
  ASSUME RunnersInv, ~Busy, active < MaxSessions, active' = active + 1,
         session' = [session EXCEPT ![active'] = "running"],
         queue' = [queue EXCEPT ![active'] = <<"running">>],
         UNCHANGED <<row, done, failures>>
  PROVE  RunnersInv' /\ Moves
<1> USE DEF RunnersInv
<1>0. active \in Nat /\ MaxSessions \in Nat /\ failures \in Nat
  BY BoundsAssumption DEF RunnersType
<1> DEFINE n == active + 1
<1>1. n \in Sessions /\ n > active
  BY <1>0 DEF Sessions
<1>2. /\ session'[n] = "running" /\ queue'[n] = <<"running">> /\ active' = n
      /\ \A t \in Sessions : t # n => session'[t] = session[t] /\ queue'[t] = queue[t]
      /\ row' = row /\ done' = done /\ failures' = failures
  BY <1>1 DEF RunnersType
<1>3. <<"running">> \in Seq(Statuses \ {"none"})
  BY DEF Statuses
<1>4. /\ Len(<<"running">>) = 1 /\ <<"running">>[1] = "running" /\ <<"running">> # <<>>
  OBVIOUS
<1>5. session[n] = "none" /\ queue[n] = <<>> /\ row[n] = "none" /\ ~done[n]
  BY <1>1 DEF OneRunner, Ends
<1>6. active # 0 => done[active]
  BY DEF Busy
<1>7. RunnersType'
  BY <1>0, <1>1, <1>3 DEF RunnersType, Statuses
<1>8. OneRunner'
  <2> SUFFICES ASSUME NEW t \in Sessions
               PROVE  /\ t > active' => session'[t] = "none" /\ queue'[t] = <<>> /\ row'[t] = "none"
                      /\ t <= active' => session'[t] # "none"
                      /\ t < active' => done'[t]
                      /\ done'[t] => session'[t] \in Ends /\ queue'[t] = <<>>
    BY DEF OneRunner
  <2>1. CASE t = n
    BY <1>0, <1>2, <1>5, <2>1
  <2>2. CASE t # n
    <3>1. session'[t] = session[t] /\ queue'[t] = queue[t] /\ row'[t] = row[t] /\ done'[t] = done[t]
      BY <1>2, <2>2
    <3>2. t \in Nat /\ t # 0 /\ (t > n => t > active) /\ (t <= n => t <= active)
          /\ (t < n => t < active \/ t = active)
      BY <1>0, <2>2 DEF Sessions
    <3>3. t < n => done[t]
      BY <1>6, <3>2 DEF OneRunner
    <3>. QED
      BY <1>2, <3>1, <3>2, <3>3 DEF OneRunner
  <2>. QED
    BY <2>1, <2>2
<1>9. Behind'
  <2> SUFFICES ASSUME NEW t \in Sessions
               PROVE  /\ \A i \in 1..Len(queue'[t]) : queue'[t][i] \in Ends => queue'[t][i] = session'[t]
                      /\ row'[t] \in Ends => row'[t] = session'[t]
                      /\ queue'[t] # <<>> => queue'[t][Len(queue'[t])] = session'[t]
                      /\ failures' = 0 /\ queue'[t] = <<>> => row'[t] = session'[t]
    BY DEF Behind
  <2>1. CASE t = n
    <3>1. queue'[t] = <<"running">> /\ session'[t] = "running" /\ row'[t] = "none"
      BY <1>2, <1>5, <2>1
    <3>2. /\ Len(queue'[t]) = 1 /\ queue'[t][1] = "running" /\ queue'[t] # <<>>
          /\ \A i \in 1..1 : i = 1
      BY <1>4, <3>1
    <3>. QED
      BY <3>1, <3>2 DEF Ends
  <2>2. CASE t # n
    BY <1>2, <2>2 DEF Behind
  <2>. QED
    BY <2>1, <2>2
<1>10. Moves
  BY <1>0, <1>1, <1>2, <1>5 DEF Moves, Ends
<1>. QED
  BY <1>7, <1>8, <1>9, <1>10

LEMMA IdleKeeps ==
  ASSUME RunnersInv, UNCHANGED <<active, runners, failures>>
  PROVE  RunnersInv' /\ Moves
<1>1. /\ active' = active /\ session' = session /\ queue' = queue /\ row' = row
      /\ done' = done /\ failures' = failures
  BY DEF runners
<1>2. active \in Nat /\ failures \in Nat
  BY DEF RunnersInv, RunnersType
<1>. QED
  BY <1>1, <1>2 DEF RunnersInv, RunnersType, OneRunner, Behind, Moves

(* SessionManager.cancel. *)
LEMMA StopKeeps ==
  ASSUME RunnersInv, NEW s \in Sessions, Stop(s), s <= active,
         UNCHANGED <<active, row, done, failures>>
  PROVE  RunnersInv' /\ Moves /\ session'[s] \in Ends
<1>0. session \in [Sessions -> Statuses]
  BY DEF RunnersInv, RunnersType
<1>1. CASE session[s] = "running"
  <2>1. Terminate(s, "cancelled")
    BY <1>1 DEF Stop
  <2>2. session'[s] = "cancelled"
    BY <1>0, <2>1 DEF Terminate
  <2>. QED
    BY <1>1, <2>1, <2>2, TerminateKeeps DEF Ends
<1>2. CASE session[s] # "running"
  <2>1. session' = session /\ queue' = queue
    BY <1>2 DEF Stop
  <2>2. session[s] \in Ends
    BY <1>0, <1>2 DEF RunnersInv, OneRunner, Statuses, Ends
  <2>. QED
    BY <2>1, <2>2, IdleKeeps DEF runners
<1>. QED
  BY <1>1, <1>2

-----------------------------------------------------------------------------
(* The clients *)

LEMMA RequestFields ==
  ASSUME NEW r \in Requests
  PROVE  /\ r.op \in {"none", "create", "detail", "cancel"}
         /\ r.id \in 0..MaxSessions /\ r.id \in Nat
         /\ r.known \in BOOLEAN
<1>1. /\ r.op \in {"none", "create", "detail", "cancel"}
      /\ r.id \in 0..MaxSessions
      /\ r.known \in BOOLEAN
  BY Zenon DEF Requests
<1>2. \A n \in 0..MaxSessions : n \in Nat
  BY BoundsAssumption
<1>. QED
  BY <1>1, <1>2

(* What the last answer says and where the handlers are stays true while the
   sessions move. *)
LEMMA ClientsStay ==
  ASSUME IInv, RunnersInv', Moves, UNCHANGED <<request, answer>>
  PROVE  ClientsInv'
<1> USE DEF IInv, ClientsInv
<1>1. request' = request /\ answer' = answer /\ active <= active'
      /\ active \in Nat /\ active' \in Nat
  BY DEF Moves, RunnersInv, RunnersType
<1>2. ClientsType'
  BY <1>1 DEF ClientsType
<1>3. \A c \in Clients : request[c].id \in Nat
  BY RequestFields DEF ClientsType
<1>4. Asked'
  BY <1>1, <1>3 DEF Asked, Moves
<1>5. Told'
  BY <1>1 DEF Told, Moves, Ends
<1>6. KnownIsFound'
  BY <1>1 DEF KnownIsFound, Moves
<1>. QED
  BY <1>2, <1>4, <1>5, <1>6

(* A client is answered, and the answer is true. *)
LEMMA AnswerKeeps ==
  ASSUME IInv, RunnersInv', Moves, NEW c \in Clients, NEW code, NEW status,
         Answer(c, code, status),
         code \in {200, 201, 400, 404, 409}, status \in Statuses,
         request[c].op \in {"detail", "cancel"} =>
           /\ request[c].id \in Sessions
           /\ status \in Ends => session[request[c].id] = status,
         request[c].op = "cancel" /\ request[c].known => session[request[c].id] \in Ends,
         code = 404 /\ request[c].known => failures # 0
  PROVE  ClientsInv'
<1> USE DEF IInv, ClientsInv
<1> DEFINE new == [op |-> request[c].op, id |-> request[c].id, known |-> request[c].known,
                   code |-> code, status |-> status]
<1>1. answer' = [answer EXCEPT ![c] = new] /\ request' = [request EXCEPT ![c] = NoRequest]
  BY DEF Answer
<1>2. request \in [Clients -> Requests] /\ answer \in [Clients -> Answers]
  BY DEF ClientsType
<1>3. new \in Answers
  <2>1. request[c] \in Requests
    BY <1>2
  <2>2. /\ request[c].op \in {"none", "create", "detail", "cancel"}
        /\ request[c].id \in 0..MaxSessions /\ request[c].known \in BOOLEAN
        /\ code \in {0, 200, 201, 400, 404, 409}
    BY <2>1, RequestFields
  <2>. QED
    BY <2>2 DEF Answers
<1>4. NoRequest \in Requests
  BY BoundsAssumption DEF NoRequest, Requests
<1>5. ClientsType'
  BY <1>1, <1>2, <1>3, <1>4 DEF ClientsType
<1>6. /\ answer'[c] = new /\ request'[c] = NoRequest
      /\ \A d \in Clients : d # c => answer'[d] = answer[d] /\ request'[d] = request[d]
  BY <1>1, <1>2
<1>7. /\ active <= active' /\ active \in Nat /\ active' \in Nat
      /\ \A d \in Clients : request[d].id \in Nat
  BY <1>2, RequestFields, BoundsAssumption DEF Moves, RunnersInv, RunnersType
<1>8. /\ new.op = request[c].op /\ new.id = request[c].id /\ new.known = request[c].known
      /\ new.code = code /\ new.status = status
  OBVIOUS
<1> HIDE DEF new
<1>9. Asked'
  <2>1. /\ NoRequest.at = "" /\ NoRequest.known = FALSE
    BY DEF NoRequest
  <2> SUFFICES ASSUME NEW d \in Clients
      PROVE  /\ request'[d].at = "team" => request'[d].op = "create"
             /\ request'[d].at \in {"start", "wait", "store"} =>
                  request'[d].op \in {"detail", "cancel"} /\ request'[d].id \in Sessions
             /\ request'[d].known =>
                  request'[d].id \in Sessions /\ session'[request'[d].id] # "none"
             /\ request'[d].at = "wait" => session'[request'[d].id] \in Ends
             /\ request'[d].at = "store" /\ request'[d].known => request'[d].id < active'
    BY DEF Asked
  <2>2. CASE d = c
    BY <1>6, <2>1, <2>2
  <2>3. CASE d # c
    BY <1>6, <1>7, <2>3 DEF Asked, Moves
  <2>. QED
    BY <2>2, <2>3
<1>10. Told'
  <2> SUFFICES ASSUME NEW d \in Clients
      PROVE  /\ answer'[d].op \in {"detail", "cancel"} => answer'[d].id \in Sessions
             /\ answer'[d].op \in {"detail", "cancel"} /\ answer'[d].status \in Ends =>
                  session'[answer'[d].id] = answer'[d].status
             /\ answer'[d].op = "cancel" /\ answer'[d].known =>
                  session'[answer'[d].id] \in Ends
    BY DEF Told
  <2>1. CASE d = c
    BY <1>6, <1>8, <2>1 DEF Moves
  <2>2. CASE d # c
    BY <1>6, <2>2 DEF Told, Moves
  <2>. QED
    BY <2>1, <2>2
<1>11. KnownIsFound'
  <2>1. failures' = 0 => failures = 0
    BY DEF Moves
  <2>. QED
    BY <1>6, <1>8, <2>1 DEF KnownIsFound
<1>. QED
  BY <1>5, <1>9, <1>10, <1>11

(* A handler is suspended. *)
LEMMA SuspendKeeps ==
  ASSUME IInv, RunnersInv', Moves, NEW c \in Clients, NEW at \in {"wait", "store"},
         Suspend(c, at), request[c].at = "start",
         at = "wait" => session'[request[c].id] \in Ends,
         at = "store" /\ request[c].known => request[c].id < active
  PROVE  ClientsInv'
<1> USE DEF IInv, ClientsInv
<1>1. request' = [request EXCEPT ![c].at = at] /\ answer' = answer
  BY DEF Suspend
<1>2. request \in [Clients -> Requests]
  BY DEF ClientsType
<1>3. /\ [request[c] EXCEPT !.at = at] \in Requests
      /\ request'[c] = [request[c] EXCEPT !.at = at]
      /\ \A d \in Clients : d # c => request'[d] = request[d]
      /\ request' \in [Clients -> Requests]
  BY <1>1, <1>2 DEF Requests
<1>4. /\ request'[c].at = at /\ request'[c].op = request[c].op
      /\ request'[c].id = request[c].id /\ request'[c].known = request[c].known
  BY <1>2, <1>3 DEF Requests
<1>5. ClientsType'
  BY <1>1, <1>3 DEF ClientsType
<1>6. /\ active <= active' /\ active \in Nat /\ active' \in Nat
      /\ \A d \in Clients : request[d].id \in Nat
  BY <1>2, RequestFields, BoundsAssumption DEF Moves, RunnersInv, RunnersType
<1>7. Asked'
  <2> SUFFICES ASSUME NEW d \in Clients
      PROVE  /\ request'[d].at = "team" => request'[d].op = "create"
             /\ request'[d].at \in {"start", "wait", "store"} =>
                  request'[d].op \in {"detail", "cancel"} /\ request'[d].id \in Sessions
             /\ request'[d].known =>
                  request'[d].id \in Sessions /\ session'[request'[d].id] # "none"
             /\ request'[d].at = "wait" => session'[request'[d].id] \in Ends
             /\ request'[d].at = "store" /\ request'[d].known => request'[d].id < active'
    BY DEF Asked
  <2>1. CASE d = c
    BY <1>4, <1>6, <2>1 DEF Asked, Moves
  <2>2. CASE d # c
    BY <1>3, <1>6, <2>2 DEF Asked, Moves
  <2>. QED
    BY <2>1, <2>2
<1>8. Told' /\ KnownIsFound'
  BY <1>1 DEF Told, KnownIsFound, Moves
<1>. QED
  BY <1>5, <1>7, <1>8

LEMMA ArriveKeeps ==
  ASSUME IInv, NEW c \in Clients, Arrive(c)
  PROVE  IInv'
<1>1. RunnersInv' /\ Moves
  BY IdleKeeps DEF IInv, Arrive
<1> USE DEF IInv, ClientsInv
<1>2. request \in [Clients -> Requests] /\ answer' = answer
      /\ session' = session /\ active' = active
  BY DEF ClientsType, Arrive, runners
<1> DEFINE OK(r) ==
      /\ r \in Requests
      /\ r.at \in {"team", "start"}
      /\ r.at = "team" => r.op = "create"
      /\ r.at = "start" => r.op \in {"detail", "cancel"} /\ r.id \in Sessions
      /\ r.known => r.id \in Sessions /\ session[r.id] # "none"
<1>3. PICK r : request' = [request EXCEPT ![c] = r] /\ OK(r)
  <2>1. CASE request' = [request EXCEPT ![c] = Ask("create", 0, "team", FALSE)]
    <3>1. OK(Ask("create", 0, "team", FALSE))
      BY BoundsAssumption DEF Ask, Requests
    <3>. QED
      BY <2>1, <3>1
  <2>2. ASSUME NEW op \in {"detail", "cancel"}, NEW s \in Sessions,
               request' = [request EXCEPT ![c] = Ask(op, s, "start", session[s] # "none")]
        PROVE  \E r : request' = [request EXCEPT ![c] = r] /\ OK(r)
    <3>1. s \in 0..MaxSessions /\ (session[s] # "none") \in BOOLEAN
      BY BoundsAssumption DEF Sessions
    <3> DEFINE known == session[s] # "none"
    <3>2. known \in BOOLEAN /\ (known => session[s] # "none")
      OBVIOUS
    <3> HIDE DEF known
    <3>3. OK(Ask(op, s, "start", known))
      BY <3>1, <3>2 DEF Ask, Requests
    <3>. QED
      BY <2>2, <3>3 DEF known
  <2>. QED
    BY <2>1, <2>2 DEF Arrive
<1>4. OK(r)
  BY <1>3
<1>5. /\ request'[c] = r
      /\ \A d \in Clients : d # c => request'[d] = request[d]
      /\ request' \in [Clients -> Requests]
  BY <1>2, <1>3, <1>4
<1>6. ClientsType'
  BY <1>2, <1>5 DEF ClientsType
<1>7. Asked'
  <2> SUFFICES ASSUME NEW d \in Clients
      PROVE  /\ request'[d].at = "team" => request'[d].op = "create"
             /\ request'[d].at \in {"start", "wait", "store"} =>
                  request'[d].op \in {"detail", "cancel"} /\ request'[d].id \in Sessions
             /\ request'[d].known =>
                  request'[d].id \in Sessions /\ session'[request'[d].id] # "none"
             /\ request'[d].at = "wait" => session'[request'[d].id] \in Ends
             /\ request'[d].at = "store" /\ request'[d].known => request'[d].id < active'
    BY DEF Asked
  <2>1. CASE d = c
    BY <1>2, <1>4, <1>5, <2>1
  <2>2. CASE d # c
    BY <1>2, <1>5, <2>2 DEF Asked
  <2>. QED
    BY <2>1, <2>2
<1>8. Told' /\ KnownIsFound'
  BY <1>1, <1>2 DEF Told, KnownIsFound, Moves
<1>. QED
  BY <1>1, <1>6, <1>7, <1>8

-----------------------------------------------------------------------------
LEMMA InitIInv == Init => IInv
<1> SUFFICES ASSUME Init PROVE IInv
  OBVIOUS
<1>0. MaxSessions \in Nat /\ MaxFailures \in Nat
  BY BoundsAssumption
<1>1. /\ active = 0 /\ session = [s \in Sessions |-> "none"]
      /\ queue = [s \in Sessions |-> <<>>]
      /\ row = [s \in Sessions |-> "none"] /\ done = [s \in Sessions |-> FALSE]
      /\ request = [c \in Clients |-> NoRequest] /\ answer = [c \in Clients |-> NoAnswer]
      /\ failures = 0
  BY DEF Init
<1>2. <<>> \in Seq(Statuses \ {"none"}) /\ Len(<<>>) = 0
  BY EmptySeq
<1>3. NoRequest \in Requests /\ NoAnswer \in Answers
  BY <1>0 DEF NoRequest, NoAnswer, Requests, Answers, Statuses
<1>4. RunnersType /\ ClientsType
  BY <1>0, <1>1, <1>2, <1>3 DEF RunnersType, ClientsType, Statuses
<1>5. OneRunner
  <2>1. \A s \in Sessions : s \in Nat /\ s > 0
    BY DEF Sessions
  <2>. QED
    BY <1>1, <2>1 DEF OneRunner
<1>6. Behind
  <2>1. 1..0 = {}
    OBVIOUS
  <2>. QED
    BY <1>1, <1>2, <2>1 DEF Behind, Ends
<1>7. Asked /\ Told /\ KnownIsFound
  BY <1>1 DEF Asked, Told, KnownIsFound, NoRequest, NoAnswer
<1>. QED
  BY <1>4, <1>5, <1>6, <1>7 DEF IInv, RunnersInv, ClientsInv

LEMMA RunKeeps ==
  ASSUME IInv, NEW s \in Sessions, Run(s) \/ WriteFails(s)
  PROVE  IInv'
<1>0. RunnersInv
  BY DEF IInv
<1>1. UNCHANGED <<request, answer>>
  BY DEF Run, End, Write, Finish, WriteFails
<1>2. RunnersInv' /\ Moves
  <2>1. CASE End(s)
    BY <1>0, <2>1, TerminateKeeps DEF End, Ends
  <2>2. CASE Finish(s)
    BY <1>0, <2>2, FinishKeeps
  <2>3. CASE Write(s)
    <3>1. failures \in 0..MaxFailures
      BY <1>0 DEF RunnersInv, RunnersType
    <3>2. /\ queue[s] # <<>> /\ queue' = [queue EXCEPT ![s] = Tail(queue[s])]
          /\ row' = [row EXCEPT ![s] = Head(queue[s])]
          /\ UNCHANGED <<active, session, done>> /\ failures' = failures
      BY <2>3 DEF Write
    <3>. QED
      BY <1>0, <3>1, <3>2, DequeueKeeps
  <2>4. CASE WriteFails(s)
    <3>1. failures + 1 \in 0..MaxFailures
      BY <1>0, <2>4, BoundsAssumption DEF RunnersInv, RunnersType, WriteFails
    <3>2. /\ queue[s] # <<>> /\ queue' = [queue EXCEPT ![s] = Tail(queue[s])]
          /\ row' = row /\ UNCHANGED <<active, session, done>> /\ failures' = failures + 1
      BY <2>4 DEF WriteFails
    <3>. QED
      BY <1>0, <3>1, <3>2, DequeueKeeps
  <2>. QED
    BY <2>1, <2>2, <2>3, <2>4 DEF Run
<1>. QED
  BY <1>1, <1>2, ClientsStay DEF IInv

(* Where a handler is, its request is of the kind that gets there. *)
LEMMA RequestsAsked ==
  ASSUME IInv, NEW c \in Clients
  PROVE  /\ request[c].at = "team" => request[c].op = "create"
         /\ request[c].at \in {"start", "wait", "store"} =>
              /\ request[c].op \in {"detail", "cancel"}
              /\ request[c].id \in Sessions
         /\ request[c].known => session[request[c].id] # "none"
         /\ request[c].at = "wait" => session[request[c].id] \in Ends
         /\ request[c].at = "store" /\ request[c].known => request[c].id < active
  BY DEF IInv, ClientsInv, Asked

LEMMA HandleKeeps ==
  ASSUME IInv, NEW c \in Clients, Handle(c)
  PROVE  IInv'
<1> DEFINE s == request[c].id
<1>0. RunnersInv /\ session \in [Sessions -> Statuses] /\ row \in [Sessions -> Statuses]
      /\ active \in Nat
  BY DEF IInv, RunnersInv, RunnersType
<1>1. \A t \in Sessions : session[t] \notin {"none", "running"} => session[t] \in Ends
  BY <1>0 DEF Statuses, Ends
<1>2. \A t \in Sessions : t <= active => session[t] # "none"
  BY <1>0 DEF RunnersInv, OneRunner
<1>3. \A t \in Sessions : done[t] => session[t] \in Ends
  BY <1>0 DEF RunnersInv, OneRunner
<1>4. CASE Create(c)
  <2>1. request[c].at = "team" /\ request[c].op = "create"
    BY <1>4, RequestsAsked DEF Create
  <2>2. CASE Answer(c, 409, "none") /\ UNCHANGED <<active, session, queue, row, done, failures>>
    <3>1. RunnersInv' /\ Moves
      BY <1>0, <2>2, IdleKeeps DEF runners
    <3>. QED
      BY <2>1, <2>2, <3>1, AnswerKeeps DEF IInv, Statuses
  <2>3. CASE /\ ~Busy /\ active < MaxSessions /\ active' = active + 1
             /\ session' = [session EXCEPT ![active'] = "running"]
             /\ queue' = [queue EXCEPT ![active'] = <<"running">>]
             /\ Answer(c, 201, "running") /\ UNCHANGED <<row, done, failures>>
    <3>1. RunnersInv' /\ Moves
      BY <1>0, <2>3, CreateKeeps
    <3>. QED
      BY <2>1, <2>3, <3>1, AnswerKeeps DEF IInv, Statuses
  <2>. QED
    BY <1>4, <2>2, <2>3 DEF Create
<1>5. CASE NoTeam(c)
  <2>1. request[c].at = "team" /\ request[c].op = "create" /\ Answer(c, 400, "none")
    BY <1>5, RequestsAsked DEF NoTeam
  <2>2. RunnersInv' /\ Moves
    BY <1>0, <1>5, IdleKeeps DEF NoTeam
  <2>. QED
    BY <2>1, <2>2, AnswerKeeps DEF IInv, Statuses
<1>6. CASE Detail(c)
  <2>1. request[c].at = "start" /\ request[c].op = "detail" /\ s \in Sessions
    BY <1>6, RequestsAsked DEF Detail
  <2>2. RunnersInv' /\ Moves /\ session' = session
    BY <1>0, <1>6, IdleKeeps DEF Detail, runners
  <2>3. CASE HasRunner(s)
    <3>1. active = s /\ session[s] # "none"
      BY <1>0, <1>2, <2>1, <2>3 DEF HasRunner
    <3>2. CASE session[s] # "running" /\ ~done[s]
      <4>1. Suspend(c, "wait") /\ session'[s] \in Ends
        BY <1>1, <1>6, <2>1, <2>2, <2>3, <3>1, <3>2 DEF Detail
      <4>. QED
        BY <2>1, <2>2, <4>1, SuspendKeeps DEF IInv
    <3>3. CASE ~(session[s] # "running" /\ ~done[s])
      <4>1. Answer(c, 200, session[s])
        BY <1>6, <2>3, <3>3 DEF Detail
      <4>2. session[s] \in Statuses
        BY <1>0, <2>1
      <4>. QED
        BY <2>1, <2>2, <4>1, <4>2, AnswerKeeps DEF IInv
    <3>. QED
      BY <3>2, <3>3
  <2>4. CASE ~HasRunner(s)
    <3>1. Suspend(c, "store")
      BY <1>6, <2>4 DEF Detail
    <3>2. request[c].known => s < active
      <4>1. session[s] # "none" => s <= active /\ s \in Nat
        BY <1>0, <2>1 DEF RunnersInv, OneRunner, Sessions
      <4>. QED
        BY <1>0, <2>4, <4>1, RequestsAsked DEF HasRunner
    <3>. QED
      BY <2>1, <2>2, <3>1, <3>2, SuspendKeeps DEF IInv
  <2>. QED
    BY <2>3, <2>4
<1>7. CASE DetailWaited(c) \/ CancelWaited(c)
  <2>1. /\ request[c].at = "wait" /\ s \in Sessions /\ session[s] \in Ends
        /\ Answer(c, 200, session[s])
    BY <1>7, RequestsAsked DEF DetailWaited, CancelWaited
  <2>2. RunnersInv' /\ Moves
    BY <1>0, <1>7, IdleKeeps DEF DetailWaited, CancelWaited
  <2>3. session[s] \in Statuses
    BY <1>0, <2>1
  <2>. QED
    BY <2>1, <2>2, <2>3, AnswerKeeps DEF IInv
<1>8. CASE Cancel(c)
  <2>1. /\ request[c].at = "start" /\ request[c].op = "cancel" /\ s \in Sessions
        /\ UNCHANGED <<active, row, done, failures>>
    BY <1>8, RequestsAsked DEF Cancel
  <2>2. CASE HasRunner(s) /\ ~done[s] /\ Suspend(c, "wait") /\ Stop(s)
    <3>1. s <= active
      BY <1>0, <2>2 DEF HasRunner
    <3>2. RunnersInv' /\ Moves /\ session'[s] \in Ends
      BY <1>0, <2>1, <2>2, <3>1, StopKeeps
    <3>. QED
      BY <2>1, <2>2, <3>2, SuspendKeeps DEF IInv
  <2>3. CASE HasRunner(s) /\ done[s] /\ Answer(c, 409, session[s]) /\ UNCHANGED <<session, queue>>
    <3>1. RunnersInv' /\ Moves
      BY <1>0, <2>1, <2>3, IdleKeeps DEF runners
    <3>2. session[s] \in Statuses /\ session[s] \in Ends
      BY <1>0, <1>3, <2>1, <2>3
    <3>. QED
      BY <2>1, <2>3, <3>1, <3>2, AnswerKeeps DEF IInv
  <2>4. CASE ~HasRunner(s) /\ Suspend(c, "store") /\ UNCHANGED <<session, queue>>
    <3>1. RunnersInv' /\ Moves
      BY <1>0, <2>1, <2>4, IdleKeeps DEF runners
    <3>2. request[c].known => s < active
      <4>1. session[s] # "none" => s <= active /\ s \in Nat
        BY <1>0, <2>1 DEF RunnersInv, OneRunner, Sessions
      <4>. QED
        BY <1>0, <2>4, <4>1, RequestsAsked DEF HasRunner
    <3>. QED
      BY <2>1, <2>4, <3>1, <3>2, SuspendKeeps DEF IInv
  <2>. QED
    BY <1>8, <2>2, <2>3, <2>4 DEF Cancel
<1>9. CASE Read(c)
  <2>1. /\ request[c].at = "store" /\ s \in Sessions
        /\ request[c].op \in {"detail", "cancel"}
        /\ request[c].known => s < active
    BY <1>9, RequestsAsked DEF Read
  <2>2. RunnersInv' /\ Moves
    BY <1>0, <1>9, IdleKeeps DEF Read
  <2>3. row[s] \in Statuses /\ (row[s] \in Ends => session[s] = row[s])
    BY <1>0, <2>1 DEF RunnersInv, Behind
  <2>4. request[c].known => done[s] /\ session[s] \in Ends
    BY <1>0, <1>3, <2>1 DEF RunnersInv, OneRunner
  <2>5. row[s] = "none" /\ request[c].known => failures # 0
    <3>1. done[s] => queue[s] = <<>>
      BY <1>0, <2>1 DEF RunnersInv, OneRunner
    <3>2. failures = 0 /\ queue[s] = <<>> => row[s] = session[s]
      BY <1>0, <2>1 DEF RunnersInv, Behind
    <3>. QED
      BY <2>4, <3>1, <3>2 DEF Ends
  <2>6. CASE row[s] = "none"
    <3>1. Answer(c, 404, "none")
      BY <1>9, <2>6 DEF Read
    <3>. QED
      BY <2>1, <2>2, <2>4, <2>5, <2>6, <3>1, AnswerKeeps DEF IInv, Statuses, Ends
  <2>7. CASE row[s] # "none"
    <3>1. Answer(c, 200, row[s]) \/ Answer(c, 409, row[s])
      BY <1>9, <2>7 DEF Read
    <3>. QED
      BY <2>1, <2>2, <2>3, <2>4, <3>1, AnswerKeeps DEF IInv
  <2>. QED
    BY <2>6, <2>7
<1>. QED
  BY <1>4, <1>5, <1>6, <1>7, <1>8, <1>9 DEF Handle

LEMMA NextIInv == IInv /\ [Next]_vars => IInv'
<1> SUFFICES ASSUME IInv, [Next]_vars PROVE IInv'
  OBVIOUS
<1>1. ASSUME NEW s \in Sessions, Run(s) \/ WriteFails(s)
      PROVE  IInv'
  BY <1>1, RunKeeps
<1>2. ASSUME NEW c \in Clients, Arrive(c)
      PROVE  IInv'
  BY <1>2, ArriveKeeps
<1>3. ASSUME NEW c \in Clients, Handle(c)
      PROVE  IInv'
  BY <1>3, HandleKeeps
<1>4. CASE UNCHANGED vars
  <2>1. UNCHANGED <<active, runners, failures>> /\ UNCHANGED <<request, answer>>
    BY <1>4 DEF vars
  <2>. QED
    BY <2>1, IdleKeeps, ClientsStay DEF IInv
<1>. QED
  BY <1>1, <1>2, <1>3, <1>4 DEF Next

THEOREM Invariant == Spec => []IInv
  BY InitIInv, NextIInv, PTL DEF Spec

(* Types of the registry, for every number of clients, sessions and failures. *)
THEOREM TypeCorrect == Spec => []TypeOK
<1>1. IInv => TypeOK
  BY DEF IInv, RunnersInv, RunnersType, ClientsInv, ClientsType, TypeOK
<1>. QED
  BY <1>1, Invariant, PTL

(* create_session: at most one session runs, and the ones before it have ended
   and are stored. *)
THEOREM OneAtATimeAlways == Spec => []OneAtATime
<1>1. IInv => OneAtATime
  <2> SUFFICES ASSUME IInv, NEW s \in Sessions, session[s] # "none", s # active
               PROVE  done[s] /\ queue[s] = <<>> /\ (failures = 0 => row[s] = session[s])
    BY DEF OneAtATime
  <2>1. active \in Nat /\ s \in Nat
    BY DEF IInv, RunnersInv, RunnersType, Sessions
  <2>2. s < active
    BY <2>1 DEF IInv, RunnersInv, OneRunner
  <2>3. done[s] /\ queue[s] = <<>>
    BY <2>2 DEF IInv, RunnersInv, OneRunner
  <2>. QED
    BY <2>3 DEF IInv, RunnersInv, Behind
<1>. QED
  BY <1>1, Invariant, PTL

(* current_session: the way from the registry to the store loses nobody. *)
THEOREM KnownSessionsAreFound == Spec => []KnownIsFound
<1>1. IInv => KnownIsFound
  BY DEF IInv, ClientsInv
<1>. QED
  BY <1>1, Invariant, PTL

(* cancel_session: whatever it answers, the session has ended. *)
THEOREM CancellationsEnd == Spec => []CancelEnds
<1>1. IInv => CancelEnds
  <2> SUFFICES ASSUME IInv, NEW c \in Clients, answer[c].op = "cancel", answer[c].known
               PROVE  session[answer[c].id] # "running"
    BY DEF CancelEnds
  <2>1. session[answer[c].id] \in Ends
    BY DEF IInv, ClientsInv, Told
  <2>. QED
    BY <2>1 DEF Ends
<1>. QED
  BY <1>1, Invariant, PTL

(* A final status that a client was given is the one that is stored or on its
   way to the store. *)
THEOREM AnswersAlwaysStand == Spec => []AnswersStand
<1>1. IInv => AnswersStand
  <2> SUFFICES ASSUME IInv, NEW c \in Clients, answer[c].op \in {"detail", "cancel"},
                      answer[c].status \in Ends
               PROVE  /\ session[answer[c].id] = answer[c].status
                      /\ failures = 0 =>
                           IF queue[answer[c].id] = <<>>
                           THEN row[answer[c].id] = answer[c].status
                           ELSE queue[answer[c].id][Len(queue[answer[c].id])]
                                  = answer[c].status
    BY DEF AnswersStand, Ends
  <2>1. answer[c].id \in Sessions /\ session[answer[c].id] = answer[c].status
    BY DEF IInv, ClientsInv, Told
  <2>. QED
    BY <2>1 DEF IInv, RunnersInv, Behind
<1>. QED
  BY <1>1, Invariant, PTL
=============================================================================
