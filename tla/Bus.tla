--------------------------------- MODULE Bus ---------------------------------
(***************************************************************************)
(* The MessageBus of bus.py with the agent loops that consume from it.     *)
(*                                                                         *)
(* Every method but wait_for_messages runs without an await, so each is    *)
(* one action; wait_for_messages suspends on an asyncio.Event, and the     *)
(* waiter that set() has woken runs some time later, after other tasks may *)
(* have posted more.  Session.tla keeps of all this the set of the agents  *)
(* whose queues are not empty.                                             *)
(*                                                                         *)
(* Abstractions: a message is its sequence number (its id is fresh, so ids *)
(* and numbers correspond one to one), the notices of an agent are their   *)
(* number, and a post that a contract refuses is left out, because it      *)
(* changes nothing.  The observer on_message is the session's business.    *)
(***************************************************************************)
EXTENDS Naturals, Sequences, FiniteSets

CONSTANTS
  Agents,
  Broadcast,    \* the recipient "*"
  Recipients,   \* the recipients that callers name: tuples, repetitions and all
  MaxPosts,     \* bound on the messages of a session
  MaxNotices    \* bound on the notices an agent has not read

(* Message.__post_init__: a non-empty tuple, "*" only by itself. *)
ValidRecipients ==
  /\ IsFiniteSet(Agents)
  /\ Broadcast \notin Agents
  /\ \A to \in Recipients : to = <<Broadcast>> \/ (to \in Seq(Agents) /\ to # <<>>)
  /\ MaxPosts \in Nat
  /\ MaxNotices \in Nat

ASSUME RecipientsAssumption == ValidRecipients

VARIABLES
  inbox,      \* _inboxes
  notices,    \* _notices, how many
  inactive,   \* _inactive
  event,      \* _events[a].is_set()
  posted,     \* _posted
  loop,       \* the task of each agent: running, suspended in wait_for_messages,
              \* about to return from it, or at its end
  log,        \* history: whom each message was for
  heard       \* history: the messages each agent has drained

busVars == <<inbox, notices, inactive, event, posted, loop, log, heard>>

Named(to) == {to[i] : i \in DOMAIN to}

Targets(sender, to) ==
  IF to = <<Broadcast>> THEN Agents \ {sender} ELSE Named(to)

(* Event.set(): the tasks that wait for it are about to run. *)
SetEvents(agents) ==
  /\ event' = [a \in Agents |-> event[a] \/ a \in agents]
  /\ loop' = [a \in Agents |->
                IF a \in agents /\ loop[a] = "waiting" THEN "woken" ELSE loop[a]]

(* Mutant of Delivered: a recipient named twice gets the message twice. *)
MutDelivered(queue, a, sender, to) ==
  IF to = <<Broadcast>> /\ a # sender THEN Append(queue, posted)
  ELSE queue \o [i \in 1..Cardinality({j \in DOMAIN to : to[j] = a}) |-> posted]

(* What _deliver makes of the inbox of an active agent. *)
Delivered(queue, a, sender, to) ==
  IF a \in Targets(sender, to) THEN Append(queue, posted) ELSE queue

(* post.  An agent cannot address a message to itself, except that it may
   broadcast. *)
Post(sender, to) ==
  /\ loop[sender] = "busy"
  /\ sender \notin Named(to)
  /\ posted < MaxPosts
  /\ inbox' = [a \in Agents |-> IF a \in inactive THEN inbox[a]
                                ELSE Delivered(inbox[a], a, sender, to)]
  /\ SetEvents(Targets(sender, to) \ inactive)
  /\ posted' = posted + 1
  /\ log' = Append(log, Targets(sender, to))
  /\ UNCHANGED <<notices, inactive, heard>>

(* Mutant of PostNotice: the event is not set. *)
MutPostNotice(a) ==
  /\ a \notin inactive
  /\ notices[a] < MaxNotices
  /\ notices' = [notices EXCEPT ![a] = @ + 1]
  /\ UNCHANGED <<inbox, inactive, event, posted, loop, log, heard>>

PostNotice(a) ==
  /\ a \notin inactive
  /\ notices[a] < MaxNotices
  /\ notices' = [notices EXCEPT ![a] = @ + 1]
  /\ SetEvents({a})
  /\ UNCHANGED <<inbox, inactive, posted, log, heard>>

(* Mutant of LeftOver: the other queue is not looked at. *)
MutLeftOver(others) == FALSE

(* The event stays set while the other queue still holds something. *)
LeftOver(others) == others > 0

(* The batch of drain: sorted() by the sequence numbers, which is stable. *)
Sorted(queue) ==
  LET Before(i, j) == queue[i] < queue[j] \/ (queue[i] = queue[j] /\ i < j)
      Place == CHOOSE p \in [DOMAIN queue -> DOMAIN queue] :
                 \A i, j \in DOMAIN queue : i < j => Before(p[i], p[j])
  IN  [i \in DOMAIN queue |-> queue[Place[i]]]

Drain(a) ==
  /\ loop[a] = "busy"
  /\ inbox[a] # <<>>
  /\ heard' = [heard EXCEPT ![a] = @ \o Sorted(inbox[a])]
  /\ inbox' = [inbox EXCEPT ![a] = <<>>]
  /\ event' = [event EXCEPT ![a] = @ /\ LeftOver(notices[a])]
  /\ UNCHANGED <<notices, inactive, posted, loop, log>>

DrainNotices(a) ==
  /\ loop[a] = "busy"
  /\ notices[a] > 0
  /\ notices' = [notices EXCEPT ![a] = 0]
  /\ event' = [event EXCEPT ![a] = @ /\ LeftOver(Len(inbox[a]))]
  /\ UNCHANGED <<inbox, inactive, posted, loop, log, heard>>

MustWait(a) == inbox[a] = <<>> /\ notices[a] = 0 /\ ~event[a]

(* wait_for_messages.  With something in a queue, or with the event set, it
   returns at once. *)
Wait(a) ==
  /\ loop[a] = "busy"
  /\ MustWait(a)
  /\ loop' = [loop EXCEPT ![a] = "waiting"]
  /\ UNCHANGED <<inbox, notices, inactive, event, posted, log, heard>>

Resume(a) ==
  /\ loop[a] = "woken"
  /\ loop' = [loop EXCEPT ![a] = "busy"]
  /\ UNCHANGED <<inbox, notices, inactive, event, posted, log, heard>>

(* The loop of an agent that is out of calls deactivates the agent and ends. *)
Deactivate(a) ==
  /\ loop[a] = "busy"
  /\ inactive' = inactive \cup {a}
  /\ inbox' = [inbox EXCEPT ![a] = <<>>]
  /\ notices' = [notices EXCEPT ![a] = 0]
  /\ event' = [event EXCEPT ![a] = FALSE]
  /\ loop' = [loop EXCEPT ![a] = "gone"]
  /\ UNCHANGED <<posted, log, heard>>

(* A loop dies of a fatal LLM error, or its task is cancelled wherever it is
   suspended: the bus goes on collecting what is sent to it. *)
Stop(a) ==
  /\ loop[a] # "gone"
  /\ loop' = [loop EXCEPT ![a] = "gone"]
  /\ UNCHANGED <<inbox, notices, inactive, event, posted, log, heard>>

BusInit ==
  /\ inbox = [a \in Agents |-> <<>>]
  /\ notices = [a \in Agents |-> 0]
  /\ inactive = {}
  /\ event = [a \in Agents |-> FALSE]
  /\ posted = 0
  /\ loop = [a \in Agents |-> "busy"]
  /\ log = <<>>
  /\ heard = [a \in Agents |-> <<>>]

BusNext ==
  \E a \in Agents :
    \/ \E to \in Recipients : Post(a, to)
    \/ PostNotice(a)
    \/ Drain(a)
    \/ DrainNotices(a)
    \/ Wait(a)
    \/ Resume(a)
    \/ Deactivate(a)
    \/ Stop(a)

BusSpec == BusInit /\ [][BusNext]_busVars

(* The loop of asyncio runs a woken task, and an agent that is not suspended
   drains its inbox when it returns from wait_for_messages or is about to
   call the model. *)
BusFairness == \A a \in Agents : WF_busVars(Resume(a)) /\ WF_busVars(Drain(a))

BusFairSpec == BusSpec /\ BusFairness

-----------------------------------------------------------------------------
(* Types; ImplementsMailbox says all there is to say about heard. *)
BusTypeOK ==
  /\ inbox \in [Agents -> Seq(Nat)]
  /\ notices \in [Agents -> Nat]
  /\ inactive \subseteq Agents
  /\ event \in [Agents -> BOOLEAN]
  /\ posted \in Nat
  /\ loop \in [Agents -> {"busy", "waiting", "woken", "gone"}]
  /\ log \in Seq(SUBSET Agents)

(* The invariant stated in MessageBus.__init__: the event of an agent is set
   exactly while one of its two queues holds something.  An event left set
   with nothing queued would make the agent spin in its loop without ever
   yielding to the others. *)
EventMatchesQueues ==
  \A a \in Agents : event[a] <=> inbox[a] # <<>> \/ notices[a] > 0

(* No wake-up is lost: an agent that is suspended and has not been woken has
   neither messages nor notices, whatever was posted since it looked. *)
SleepersHaveNoMail ==
  \A a \in Agents : loop[a] = "waiting" => inbox[a] = <<>> /\ notices[a] = 0

(* Taken together the queues, the drains and the wake-ups are a mailbox: each
   agent hears what is addressed to it, all of it, once, in the order of the
   session and by and by. *)
Promise == INSTANCE Mailbox
  WITH heard <- [a \in Agents |-> [i \in DOMAIN heard[a] |-> heard[a][i] + 1]],
       stopped <- {a \in Agents : loop[a] = "gone"}

ImplementsMailbox == Promise!Spec
=============================================================================
