----------------------------- MODULE EventStream -----------------------------
(***************************************************************************)
(* The live event fan-out of server/events.py: a SessionRunner, its log,   *)
(* the bounded queues of its subscribers, and the generator that serves    *)
(* one connection each, _stream_from_runner; with the browsers that        *)
(* reconnect by the id of the last event they received.                    *)
(*                                                                         *)
(* The runner and the generators share one event loop.  A generator is     *)
(* suspended at each yield, for as long as its connection is slow, and at  *)
(* queue.get(); the runner emits, drops a slow subscriber and ends in      *)
(* between.                                                                *)
(*                                                                         *)
(* Abstractions.  An event is its sequence: the log is 0, 1, ... and a     *)
(* snapshot of it is its length.  A broken connection's generator is       *)
(* closed at once: until it is, it only fills a queue of its own.  A       *)
(* generator that has replayed its snapshot looks at its queue in a step   *)
(* of its own, so the model has more interleavings there than the code.    *)
(***************************************************************************)
EXTENDS Naturals, Sequences

CONSTANTS
  Clients,
  QueueSize,  \* _subscriber_queue_size
  None,       \* the sentinel that ends a stream
  Total,      \* how many events the session emits; the last one is terminal
  MaxBreaks   \* bound on broken connections

(* SessionRunner.__init__ refuses a queue without room. *)
ValidSize ==
  /\ QueueSize \in Nat \ {0}
  /\ Total \in Nat
  /\ MaxBreaks \in Nat
  /\ None \notin Nat

ASSUME SizeAssumption == ValidSize

VARIABLES
  emitted,      \* len(_events)
  done,         \* _done
  replaced,     \* the registry has another active runner
  subscribers,  \* the clients whose queue is in _subscribers
  queue,        \* the queue of each client's stream
  stream,       \* the generator of each client: off, replay, live, or
                \* stored: a past session, read from the store
  snap,         \* the length of its snapshot
  sent,         \* its variable last, plus one
  wire,         \* the frames on the way to the browser
  got,          \* the browser's last event id, plus one
  breaks

vars == <<emitted, done, replaced, subscribers, queue, stream, snap, sent, wire,
          got, breaks>>

-----------------------------------------------------------------------------
(* The runner *)

(* The session has not ended: every handler that emits has tested it. *)
Running == emitted < Total

Full(c) == Len(queue[c]) >= QueueSize

(* Mutant of Offered: in a full queue the oldest event makes way. *)
MutOffered(c, event) ==
  Append(IF Full(c) THEN Tail(queue[c]) ELSE queue[c], event)

(* Mutant of Offered: a slow subscriber is dropped without being told. *)
MutOfferedNothing(c, event) == IF Full(c) THEN <<>> ELSE Append(queue[c], event)

(* What on_event leaves in the queue of a subscriber: a full one is emptied
   and closed. *)
Offered(c, event) == IF Full(c) THEN <<None>> ELSE Append(queue[c], event)

(* SessionRunner.on_event *)
Emit ==
  /\ Running
  /\ emitted' = emitted + 1
  /\ queue' = [c \in Clients |->
                 IF c \in subscribers THEN Offered(c, emitted) ELSE queue[c]]
  /\ subscribers' = {c \in subscribers : ~Full(c)}
  /\ UNCHANGED <<done, replaced, stream, snap, sent, wire, got, breaks>>

(* The end of _run, after the session has ended and its writes are flushed. *)
Finish ==
  /\ ~Running
  /\ ~done
  /\ done' = TRUE
  /\ queue' = [c \in Clients |->
                 IF c \in subscribers THEN Append(queue[c], None) ELSE queue[c]]
  /\ UNCHANGED <<emitted, replaced, subscribers, stream, snap, sent, wire, got, breaks>>

(* create_session installs the runner of another session. *)
Replace ==
  /\ done
  /\ ~replaced
  /\ replaced' = TRUE
  /\ UNCHANGED <<emitted, done, subscribers, queue, stream, snap, sent, wire, got, breaks>>

-----------------------------------------------------------------------------
(* The generators *)

(* SessionRunner.subscribe: the sentinel of a runner that has ended. *)
FirstItems == IF done THEN <<None>> ELSE <<>>

(* SessionRunner.snapshot *)
Snapshot == emitted

(* A browser connects, for the first time or again, until it has seen the
   terminal event.  It subscribes and takes the snapshot without an await in
   between.  A past session is complete in the store: its runner ended after
   the last write. *)
Connect(c) ==
  /\ stream[c] = "off"
  /\ wire[c] = <<>>
  /\ got[c] < Total
  /\ sent' = [sent EXCEPT ![c] = got[c]]
  /\ snap' = [snap EXCEPT ![c] = Snapshot]
  /\ IF replaced
     THEN /\ stream' = [stream EXCEPT ![c] = "stored"]
          /\ UNCHANGED <<queue, subscribers>>
     ELSE /\ stream' = [stream EXCEPT ![c] = "replay"]
          /\ queue' = [queue EXCEPT ![c] = FirstItems]
          /\ subscribers' = subscribers \cup {c}
  /\ UNCHANGED <<emitted, done, replaced, wire, got, breaks>>

Close(c) ==
  /\ stream' = [stream EXCEPT ![c] = "off"]
  /\ queue' = [queue EXCEPT ![c] = <<>>]
  /\ subscribers' = subscribers \ {c}

(* The next event of the snapshot is sent, or there is none left. *)
Replay(c) ==
  /\ stream[c] = "replay"
  /\ IF sent[c] < snap[c]
     THEN /\ wire' = [wire EXCEPT ![c] = Append(@, sent[c])]
          /\ sent' = [sent EXCEPT ![c] = @ + 1]
          /\ UNCHANGED stream
     ELSE /\ stream' = [stream EXCEPT ![c] = "live"]
          /\ UNCHANGED <<wire, sent>>
  /\ UNCHANGED <<emitted, done, replaced, subscribers, queue, snap, got, breaks>>

(* queue.get() returns. *)
Live(c) ==
  /\ stream[c] = "live"
  /\ queue[c] # <<>>
  /\ LET item == Head(queue[c])
     IN  IF item = None
         THEN /\ Close(c)
              /\ UNCHANGED <<sent, wire>>
         ELSE /\ queue' = [queue EXCEPT ![c] = Tail(@)]
              /\ IF item >= sent[c]
                 THEN /\ wire' = [wire EXCEPT ![c] = Append(@, item)]
                      /\ sent' = [sent EXCEPT ![c] = item + 1]
                 ELSE UNCHANGED <<wire, sent>>
              /\ UNCHANGED <<stream, subscribers>>
  /\ UNCHANGED <<emitted, done, replaced, snap, got, breaks>>

Stored(c) ==
  /\ stream[c] = "stored"
  /\ IF sent[c] < snap[c]
     THEN /\ wire' = [wire EXCEPT ![c] = Append(@, sent[c])]
          /\ sent' = [sent EXCEPT ![c] = @ + 1]
          /\ UNCHANGED stream
     ELSE /\ stream' = [stream EXCEPT ![c] = "off"]
          /\ UNCHANGED <<wire, sent>>
  /\ UNCHANGED <<emitted, done, replaced, subscribers, queue, snap, got, breaks>>

-----------------------------------------------------------------------------
(* The browser and the network *)

Receive(c) ==
  /\ wire[c] # <<>>
  /\ got' = [got EXCEPT ![c] = Head(wire[c]) + 1]
  /\ wire' = [wire EXCEPT ![c] = Tail(@)]
  /\ UNCHANGED <<emitted, done, replaced, subscribers, queue, stream, snap, sent, breaks>>

(* The connection breaks: what is on the way is lost, and the generator is
   closed, wherever it is suspended. *)
Break(c) ==
  /\ stream[c] # "off" \/ wire[c] # <<>>
  /\ breaks < MaxBreaks
  /\ breaks' = breaks + 1
  /\ wire' = [wire EXCEPT ![c] = <<>>]
  /\ Close(c)
  /\ UNCHANGED <<emitted, done, replaced, snap, sent, got>>

-----------------------------------------------------------------------------
Init ==
  /\ emitted = 0
  /\ done = FALSE
  /\ replaced = FALSE
  /\ subscribers = {}
  /\ queue = [c \in Clients |-> <<>>]
  /\ stream = [c \in Clients |-> "off"]
  /\ snap = [c \in Clients |-> 0]
  /\ sent = [c \in Clients |-> 0]
  /\ wire = [c \in Clients |-> <<>>]
  /\ got = [c \in Clients |-> 0]
  /\ breaks = 0

Next ==
  \/ Emit
  \/ Finish
  \/ Replace
  \/ \E c \in Clients :
       Connect(c) \/ Replay(c) \/ Live(c) \/ Stored(c) \/ Receive(c) \/ Break(c)

Spec == Init /\ [][Next]_vars

(* The session ends (Session!EventuallyStops), a generator that can go on is
   scheduled, a connection that does not break delivers, and a browser
   reconnects.  Nobody has to break a connection or start another session. *)
Fairness ==
  /\ WF_vars(Emit)
  /\ WF_vars(Finish)
  /\ \A c \in Clients :
       /\ WF_vars(Connect(c))
       /\ WF_vars(Replay(c))
       /\ WF_vars(Live(c))
       /\ WF_vars(Stored(c))
       /\ WF_vars(Receive(c))

FairSpec == Spec /\ Fairness

-----------------------------------------------------------------------------
TypeOK ==
  /\ emitted \in 0..Total
  /\ done \in BOOLEAN
  /\ replaced \in BOOLEAN
  /\ subscribers \subseteq Clients
  /\ queue \in [Clients -> Seq(Nat \cup {None})]
  /\ stream \in [Clients -> {"off", "replay", "live", "stored"}]
  /\ snap \in [Clients -> Nat]
  /\ sent \in [Clients -> Nat]
  /\ wire \in [Clients -> Seq(Nat)]
  /\ got \in [Clients -> Nat]
  /\ breaks \in 0..MaxBreaks

(* What is on the way to a browser continues exactly what it has received:
   no event is left out, repeated or reordered, whether it comes from the
   snapshot, the queue or the store, and over any number of connections. *)
NoGapNoRepeat ==
  \A c \in Clients :
    /\ \A i \in 1..Len(wire[c]) : wire[c][i] = got[c] + i - 1
    /\ got[c] + Len(wire[c]) <= emitted

(* A subscriber is missing nothing: what it has not been sent yet is in its
   snapshot or its queue.  So a stream that the end of the runner closes has
   sent the whole log (EventContract: a finished session sends all its
   backlog and then closes the stream). *)
SubscribersMissNothing ==
  \A c \in subscribers :
    LET q      == queue[c]
        events == IF done THEN Len(q) - 1 ELSE Len(q)
    IN  /\ stream[c] = "replay" => sent[c] <= snap[c] /\ snap[c] + events = emitted
        /\ stream[c] = "live" => sent[c] + events = emitted

(* "The sentinel is exactly one": a queue has at most one, at its end, and
   there is always room to put it (put_nowait would raise in the loop of
   _run, and the subscribers after that one would never be told). *)
OneSentinel ==
  \A c \in Clients :
    /\ Len(queue[c]) <= QueueSize + 1
    /\ \A i \in 1..Len(queue[c]) : queue[c][i] = None => i = Len(queue[c])
    /\ c \in subscribers /\ ~done =>
         Len(queue[c]) <= QueueSize /\ \A i \in 1..Len(queue[c]) : queue[c][i] # None

(* No stream waits on a queue that nobody will ever fill: it is subscribed to
   a runner that has not ended. *)
WaitersAreServed ==
  \A c \in Clients :
    stream[c] = "live" /\ queue[c] = <<>> => c \in subscribers /\ ~done

-----------------------------------------------------------------------------
(* Every client sees the whole session, event by event. *)
Clear == INSTANCE Feed

ImplementsFeed == Clear!Spec

=============================================================================
