------------------------------- MODULE Mailbox -------------------------------
(***************************************************************************)
(* What the message bus promises to the agents: one order of all messages  *)
(* of a session, of which each agent hears, in that order, every message   *)
(* addressed to it, once, in batches that hold everything posted so far,   *)
(* and hears it eventually unless it has stopped.  Bus.tla implements it.  *)
(***************************************************************************)
EXTENDS Naturals, Sequences, FiniteSets

CONSTANT Agents

VARIABLES log,      \* the recipients of each message posted so far
          heard,    \* what each agent has taken out of its mailbox
          stopped   \* the agents that will not read any more

vars == <<log, heard, stopped>>

(* The positions in log of the messages for a, in order. *)
For(a) ==
  LET Mine == {i \in DOMAIN log : a \in log[i]}
      n    == Cardinality(Mine)
  IN  CHOOSE s \in [1..n -> Mine] : \A i, j \in 1..n : i < j => s[i] < s[j]

Init ==
  /\ log = <<>>
  /\ heard = [a \in Agents |-> <<>>]
  /\ stopped = {}

Post(to) == log' = Append(log, to) /\ UNCHANGED <<heard, stopped>>

Read(a) ==
  /\ a \notin stopped
  /\ heard[a] # For(a)
  /\ heard' = [heard EXCEPT ![a] = For(a)]
  /\ UNCHANGED <<log, stopped>>

Stop(a) ==
  /\ stopped' = stopped \cup {a}
  /\ UNCHANGED <<log, heard>>

Next ==
  \/ \E to \in SUBSET Agents : Post(to)
  \/ \E a \in Agents : Read(a) \/ Stop(a)

Spec == Init /\ [][Next]_vars /\ \A a \in Agents : WF_vars(Read(a))
=============================================================================
