--------------------------- MODULE DeliveryProofs ----------------------------
(***************************************************************************)
(* What the session emits reaches whom it is for: the invariants of        *)
(* Bus.tla, which carries messages to the agents, for every set of agents, *)
(* every set of recipient tuples and every bound, and of EventStream.tla,  *)
(* which carries events to the clients, for every queue size and any       *)
(* number of clients, events and broken connections.                       *)
(***************************************************************************)
EXTENDS Bus, EventStream, FiniteSetTheorems, SequenceTheorems, TLAPS

-----------------------------------------------------------------------------
(* The bus *)

(* The wake-ups and the queues only make sense together: the event says what
   the queues hold, and because set() wakes the waiter, a suspended agent has
   a clear event. *)
BusIInv ==
  /\ BusTypeOK
  /\ EventMatchesQueues
  /\ SleepersHaveNoMail

(* A message is only ever for agents. *)
LEMMA TargetsAreAgents ==
  ASSUME NEW sender \in Agents, NEW to \in Recipients
  PROVE  Targets(sender, to) \subseteq Agents
<1>1. CASE to = <<Broadcast>>
  BY <1>1 DEF Targets
<1>2. CASE to # <<Broadcast>>
  <2>1. to \in Seq(Agents)
    BY <1>2, RecipientsAssumption DEF ValidRecipients
  <2>2. Named(to) \subseteq Agents
    BY <2>1 DEF Named
  <2> QED
    BY <1>2, <2>2 DEF Targets
<1> QED
  BY <1>1, <1>2

(* A delivery keeps an inbox a list of numbers and never empties it; a target
   has something in its inbox afterwards, the others have what they had. *)
LEMMA DeliveryGrows ==
  ASSUME NEW box \in Seq(Nat), NEW a, NEW sender, NEW to, posted \in Nat
  PROVE  /\ Delivered(box, a, sender, to) \in Seq(Nat)
         /\ Delivered(box, a, sender, to) # <<>>
              <=> box # <<>> \/ a \in Targets(sender, to)
<1>1. Append(box, posted) \in Seq(Nat) /\ Append(box, posted) # <<>>
  BY AppendProperties
<1> QED
  BY <1>1 DEF Delivered

(* Setting events wakes the waiters it is about and nobody else. *)
LEMMA SettingEvents ==
  ASSUME BusTypeOK, NEW agents, SetEvents(agents)
  PROVE  /\ event' \in [Agents -> BOOLEAN]
         /\ loop' \in [Agents -> {"busy", "waiting", "woken", "gone"}]
         /\ \A a \in Agents :
              /\ event'[a] <=> event[a] \/ a \in agents
              /\ loop'[a] = "waiting" <=> loop[a] = "waiting" /\ a \notin agents
<1>1. event' \in [Agents -> BOOLEAN] /\ loop' \in [Agents -> {"busy", "waiting", "woken", "gone"}]
  BY DEF BusTypeOK, SetEvents
<1>2. \A a \in Agents : event'[a] <=> event[a] \/ a \in agents
  BY DEF SetEvents
<1>3. \A a \in Agents : loop'[a] = "waiting" <=> loop[a] = "waiting" /\ a \notin agents
  BY DEF SetEvents
<1> QED
  BY <1>1, <1>2, <1>3

LEMMA InitBus == BusInit => BusIInv
BY RecipientsAssumption DEF ValidRecipients, BusInit, BusIInv, BusTypeOK, EventMatchesQueues, SleepersHaveNoMail

(* post: whoever gets the message gets the event too. *)
LEMMA PostStep ==
  ASSUME BusIInv, NEW sender \in Agents, NEW to \in Recipients, Post(sender, to)
  PROVE  BusIInv'
<1> DEFINE targets == Targets(sender, to) \ inactive
<1>1. BusTypeOK /\ EventMatchesQueues /\ SleepersHaveNoMail
  BY DEF BusIInv
<1>2. targets \subseteq Agents /\ Targets(sender, to) \subseteq Agents
  BY TargetsAreAgents
<1>3. inbox' \in [Agents -> Seq(Nat)] /\ posted' \in Nat
  BY <1>1, DeliveryGrows DEF Post, BusTypeOK
<1>4. \A a \in Agents : inbox'[a] # <<>> <=> inbox[a] # <<>> \/ a \in targets
  BY <1>1, DeliveryGrows DEF Post, BusTypeOK
<1>5. SetEvents(targets)
  BY DEF Post
<1>6. log' \in Seq(SUBSET Agents)
  BY <1>1, <1>2 DEF Post, BusTypeOK
<1>7. notices' = notices /\ inactive' = inactive
  BY DEF Post
<1> HIDE DEF targets
<1>8. BusTypeOK'
  BY <1>1, <1>3, <1>5, <1>6, <1>7, SettingEvents DEF BusTypeOK
<1>9. EventMatchesQueues'
  BY <1>1, <1>4, <1>5, <1>7, SettingEvents DEF EventMatchesQueues
<1>10. SleepersHaveNoMail'
  BY <1>1, <1>4, <1>5, <1>7, SettingEvents DEF SleepersHaveNoMail
<1> QED
  BY <1>8, <1>9, <1>10 DEF BusIInv

(* post_notice *)
LEMMA NoticeStep ==
  ASSUME BusIInv, NEW a \in Agents, PostNotice(a)
  PROVE  BusIInv'
<1>1. BusTypeOK /\ EventMatchesQueues /\ SleepersHaveNoMail
  BY DEF BusIInv
<1>2. /\ notices' \in [Agents -> Nat]
      /\ \A b \in Agents : notices'[b] > 0 <=> notices[b] > 0 \/ b \in {a}
      /\ \A b \in Agents : b \notin {a} => notices'[b] = notices[b]
  BY <1>1 DEF PostNotice, BusTypeOK
<1>3. SetEvents({a})
  BY DEF PostNotice
<1>4. UNCHANGED <<inbox, inactive, posted, log>>
  BY DEF PostNotice
<1>5. BusTypeOK'
  BY <1>1, <1>2, <1>3, <1>4, SettingEvents DEF BusTypeOK
<1>6. EventMatchesQueues'
  BY <1>1, <1>2, <1>3, <1>4, SettingEvents DEF EventMatchesQueues
<1>7. SleepersHaveNoMail'
  BY <1>1, <1>2, <1>3, <1>4, SettingEvents DEF SleepersHaveNoMail
<1> QED
  BY <1>5, <1>6, <1>7 DEF BusIInv

(* drain clears the event only if there are no notices either. *)
LEMMA DrainStep ==
  ASSUME BusIInv, NEW a \in Agents, Drain(a)
  PROVE  BusIInv'
<1>1. BusTypeOK /\ EventMatchesQueues /\ SleepersHaveNoMail
  BY DEF BusIInv
<1>2. UNCHANGED <<notices, inactive, posted, loop, log>>
  BY DEF Drain
<1>3. /\ inbox' = [inbox EXCEPT ![a] = <<>>]
      /\ event' = [event EXCEPT ![a] = @ /\ LeftOver(notices[a])]
  BY DEF Drain
<1>4. inbox' \in [Agents -> Seq(Nat)] /\ event' \in [Agents -> BOOLEAN]
  BY <1>1, <1>3, EmptySeq DEF BusTypeOK, LeftOver
<1>5. /\ inbox'[a] = <<>>
      /\ event'[a] <=> event[a] /\ notices[a] > 0
      /\ \A b \in Agents \ {a} : inbox'[b] = inbox[b] /\ event'[b] = event[b]
  BY <1>1, <1>3 DEF BusTypeOK, LeftOver
<1>6. BusTypeOK'
  BY <1>1, <1>2, <1>4 DEF BusTypeOK
<1>7. EventMatchesQueues'
  BY <1>1, <1>2, <1>5 DEF EventMatchesQueues
<1>8. SleepersHaveNoMail'
  BY <1>1, <1>2, <1>5 DEF SleepersHaveNoMail
<1> QED
  BY <1>6, <1>7, <1>8 DEF BusIInv

(* drain_notices clears it only if there are no messages either. *)
LEMMA DrainNoticesStep ==
  ASSUME BusIInv, NEW a \in Agents, DrainNotices(a)
  PROVE  BusIInv'
<1>1. BusTypeOK /\ EventMatchesQueues /\ SleepersHaveNoMail
  BY DEF BusIInv
<1>2. UNCHANGED <<inbox, inactive, posted, loop, log>>
  BY DEF DrainNotices
<1>3. notices' \in [Agents -> Nat] /\ event' \in [Agents -> BOOLEAN]
  BY <1>1 DEF DrainNotices, BusTypeOK, LeftOver
<1>4. inbox[a] \in Seq(Nat)
  BY <1>1 DEF BusTypeOK
<1>5. Len(inbox[a]) > 0 <=> inbox[a] # <<>>
  BY <1>4
<1>6. /\ notices'[a] = 0
      /\ event'[a] <=> event[a] /\ Len(inbox[a]) > 0
      /\ \A b \in Agents \ {a} : notices'[b] = notices[b] /\ event'[b] = event[b]
  BY <1>1 DEF DrainNotices, BusTypeOK, LeftOver
<1>7. BusTypeOK'
  BY <1>1, <1>2, <1>3 DEF BusTypeOK
<1>8. EventMatchesQueues'
  BY <1>1, <1>2, <1>5, <1>6 DEF EventMatchesQueues
<1>9. SleepersHaveNoMail'
  BY <1>1, <1>2, <1>6 DEF SleepersHaveNoMail
<1> QED
  BY <1>7, <1>8, <1>9 DEF BusIInv

(* deactivate empties both queues and clears the event. *)
LEMMA DeactivateStep ==
  ASSUME BusIInv, NEW a \in Agents, Deactivate(a)
  PROVE  BusIInv'
<1>1. BusTypeOK /\ EventMatchesQueues /\ SleepersHaveNoMail
  BY DEF BusIInv
<1>2. BusTypeOK'
  BY <1>1 DEF Deactivate, BusTypeOK
<1>3. /\ inbox'[a] = <<>> /\ notices'[a] = 0 /\ ~event'[a] /\ loop'[a] = "gone"
      /\ \A b \in Agents \ {a} :
           /\ inbox'[b] = inbox[b]
           /\ notices'[b] = notices[b]
           /\ event'[b] = event[b]
           /\ loop'[b] = loop[b]
  BY <1>1 DEF Deactivate, BusTypeOK
<1>4. EventMatchesQueues'
  BY <1>1, <1>3 DEF EventMatchesQueues
<1>5. SleepersHaveNoMail'
  BY <1>1, <1>3 DEF SleepersHaveNoMail
<1> QED
  BY <1>2, <1>4, <1>5 DEF BusIInv

(* The steps that only suspend, resume or end a loop. *)
LEMMA LoopStep ==
  ASSUME BusIInv, NEW a \in Agents, Wait(a) \/ Resume(a) \/ Stop(a)
  PROVE  BusIInv'
<1>1. BusTypeOK /\ EventMatchesQueues /\ SleepersHaveNoMail
  BY DEF BusIInv
<1>2. UNCHANGED <<inbox, notices, inactive, event, posted, log>>
  BY DEF Wait, Resume, Stop
<1>3. /\ loop' \in [Agents -> {"busy", "waiting", "woken", "gone"}]
      /\ \A b \in Agents \ {a} : loop'[b] = loop[b]
      /\ loop'[a] = "waiting" => inbox[a] = <<>> /\ notices[a] = 0
  BY <1>1 DEF Wait, Resume, Stop, MustWait, BusTypeOK
<1>4. BusTypeOK'
  BY <1>1, <1>2, <1>3 DEF BusTypeOK
<1>5. EventMatchesQueues'
  BY <1>1, <1>2 DEF EventMatchesQueues
<1>6. SleepersHaveNoMail'
  BY <1>1, <1>2, <1>3 DEF SleepersHaveNoMail
<1> QED
  BY <1>4, <1>5, <1>6 DEF BusIInv

LEMMA StepBus == BusIInv /\ [BusNext]_busVars => BusIInv'
<1> SUFFICES ASSUME BusIInv, [BusNext]_busVars
             PROVE  BusIInv'
  OBVIOUS
<1>1. CASE UNCHANGED busVars
  BY <1>1 DEF busVars, BusIInv, BusTypeOK, EventMatchesQueues, SleepersHaveNoMail
<1>2. CASE BusNext
  <2>1. PICK a \in Agents :
          \/ \E to \in Recipients : Post(a, to)
          \/ PostNotice(a)
          \/ Drain(a)
          \/ DrainNotices(a)
          \/ Wait(a)
          \/ Resume(a)
          \/ Deactivate(a)
          \/ Stop(a)
    BY <1>2 DEF BusNext
  <2> QED
    BY <2>1, PostStep, NoticeStep, DrainStep, DrainNoticesStep, DeactivateStep, LoopStep
<1> QED
  BY <1>1, <1>2

(* The bus is in such a state at all times. *)
THEOREM BusInvariant == BusSpec => []BusIInv
BY InitBus, StepBus, PTL DEF BusSpec

(* Every queue, event and counter of the bus keeps its type. *)
THEOREM BusTypeCorrect == BusSpec => []BusTypeOK
<1>1. BusIInv => BusTypeOK
  BY DEF BusIInv
<1> QED
  BY <1>1, BusInvariant, PTL

(* The event is set exactly while something is queued: no agent spins, none
   oversleeps. *)
THEOREM EventsAreRight == BusSpec => []EventMatchesQueues
<1>1. BusIInv => EventMatchesQueues
  BY DEF BusIInv
<1> QED
  BY <1>1, BusInvariant, PTL

(* No wake-up is lost. *)
THEOREM NoLostWakeup == BusSpec => []SleepersHaveNoMail
<1>1. BusIInv => SleepersHaveNoMail
  BY DEF BusIInv
<1> QED
  BY <1>1, BusInvariant, PTL

-----------------------------------------------------------------------------
(* Increasing sequences of numbers: the order in which messages are posted,
   queued and heard. *)
Increasing(s) == \A i, j \in DOMAIN s : i < j => s[i] < s[j]

LEMMA LeastNumber ==
  ASSUME NEW T \in SUBSET Nat, T # {}
  PROVE  \E x \in T : \A y \in T : x <= y
<1>1. PICK x \in T : \A y \in T : ~(<<y, x>> \in OpToRel(<, Nat))
  BY NatLessThanWellFounded, WFMin
<1>2. \A y \in T : ~(y < x)
  BY <1>1 DEF OpToRel
<1> QED
  BY <1>2

(* There is one way to put a set of numbers in order. *)
LEMMA IncreasingAgree ==
  ASSUME NEW m \in Nat, NEW n \in Nat,
         NEW s \in [1..m -> Nat], NEW t \in [1..n -> Nat],
         Increasing(s), Increasing(t),
         {s[i] : i \in 1..m} = {t[i] : i \in 1..n}
  PROVE  \A i \in 1..m : i \in 1..n /\ s[i] = t[i]
<1> DEFINE Bad == {i \in 1..m : ~(i \in 1..n /\ s[i] = t[i])}
<1> SUFFICES ASSUME Bad # {} PROVE FALSE
  OBVIOUS
<1>1. PICK i \in Bad : \A j \in Bad : i <= j
  <2>1. Bad \in SUBSET Nat
    OBVIOUS
  <2> HIDE DEF Bad
  <2> QED
    BY <2>1, LeastNumber
<1>2. i \in 1..m /\ \A j \in 1..(i - 1) : j \in 1..n /\ s[j] = t[j]
  BY <1>1
<1>3. PICK k \in 1..n : t[k] = s[i]
  BY <1>2
<1>4. k >= i
  <2> SUFFICES ASSUME k < i PROVE FALSE
    BY <1>2, <1>3
  <2>1. s[k] = t[k] /\ k \in 1..m
    BY <1>2, <1>3
  <2>2. s[k] < s[i] /\ s[k] \in Nat /\ s[i] \in Nat
    BY <1>2, <2>1 DEF Increasing
  <2> QED
    BY <1>3, <2>1, <2>2
<1>5. i \in 1..n
  BY <1>2, <1>3, <1>4
<1>6. PICK l \in 1..m : s[l] = t[i]
  BY <1>5
<1>7. l >= i
  <2> SUFFICES ASSUME l < i PROVE FALSE
    BY <1>2, <1>6
  <2>1. s[l] = t[l] /\ l \in 1..n
    BY <1>2, <1>6
  <2>2. t[l] < t[i] /\ t[l] \in Nat /\ t[i] \in Nat
    BY <1>5, <2>1 DEF Increasing
  <2> QED
    BY <1>6, <2>1, <2>2
<1>8. s[i] \in Nat /\ t[i] \in Nat /\ s[l] \in Nat /\ t[k] \in Nat
  BY <1>2, <1>3, <1>5, <1>6
<1>9. s[l] >= s[i]
  <2>1. CASE l = i
    BY <2>1, <1>8
  <2>2. CASE i < l
    BY <2>2, <1>2, <1>6, <1>8 DEF Increasing
  <2> QED
    BY <2>1, <2>2, <1>2, <1>6, <1>7
<1>10. t[k] >= t[i]
  <2>1. CASE k = i
    BY <2>1, <1>8
  <2>2. CASE i < k
    BY <2>2, <1>3, <1>5, <1>8 DEF Increasing
  <2> QED
    BY <2>1, <2>2, <1>2, <1>3, <1>4
<1>11. s[i] = t[i]
  BY <1>3, <1>6, <1>8, <1>9, <1>10
<1> QED
  BY <1>1, <1>5, <1>11

LEMMA IncreasingUnique ==
  ASSUME NEW m \in Nat, NEW n \in Nat,
         NEW s \in [1..m -> Nat], NEW t \in [1..n -> Nat],
         Increasing(s), Increasing(t),
         {s[i] : i \in 1..m} = {t[i] : i \in 1..n}
  PROVE  m = n /\ s = t
<1>1. \A i \in 1..m : i \in 1..n /\ s[i] = t[i]
  BY IncreasingAgree
<1>2. \A i \in 1..n : i \in 1..m /\ t[i] = s[i]
  BY IncreasingAgree
<1>3. m = n
  <2>1. m > 0 => m \in 1..n
    BY <1>1
  <2>2. n > 0 => n \in 1..m
    BY <1>2
  <2> QED
    BY <2>1, <2>2
<1> QED
  BY <1>1, <1>3

LEMMA IncreasingFills ==
  ASSUME NEW S \in SUBSET Nat, IsFiniteSet(S),
         NEW s \in [1..Cardinality(S) -> S], Increasing(s)
  PROVE  {s[i] : i \in 1..Cardinality(S)} = S
<1> DEFINE n == Cardinality(S)
<1>1. n \in Nat
  BY FS_CardinalityType
<1> HIDE DEF n
<1>2. \A i, j \in 1..n : i # j => s[i] # s[j]
  <2> SUFFICES ASSUME NEW i \in 1..n, NEW j \in 1..n, i < j PROVE s[i] # s[j]
    BY <1>1
  <2>1. s[i] < s[j] /\ s[i] \in Nat
    BY DEF Increasing, n
  <2> QED
    BY <2>1
<1>3. s \in Injection(1..n, S)
  BY <1>2 DEF Injection, IsInjective, n
<1>4. Cardinality(1..n) = n
  BY <1>1, FS_Interval
<1>5. s \in Surjection(1..n, S)
  BY <1>3, <1>4, FS_Injection DEF n
<1> QED
  BY <1>5 DEF Surjection, n

LEMMA IncreasingCounts ==
  ASSUME NEW S, NEW n \in Nat, NEW s \in [1..n -> Nat], Increasing(s),
         {s[i] : i \in 1..n} = S
  PROVE  IsFiniteSet(S) /\ Cardinality(S) = n
<1>1. \A i, j \in 1..n : i # j => s[i] # s[j]
  <2> SUFFICES ASSUME NEW i \in 1..n, NEW j \in 1..n, i < j PROVE s[i] # s[j]
    OBVIOUS
  <2>1. s[i] < s[j] /\ s[i] \in Nat
    BY DEF Increasing
  <2> QED
    BY <2>1
<1>2. s \in [1..n -> S]
  OBVIOUS
<1>3. s \in Bijection(1..n, S)
  BY <1>1, <1>2 DEF Bijection, Injection, Surjection, IsInjective
<1>4. ExistsBijection(1..n, S)
  BY <1>3 DEF ExistsBijection
<1>5. IsFiniteSet(1..n)
  BY FS_Interval
<1> QED
  BY <1>4, <1>5, FS_Bijection, FS_CountingElements

(* Messages are delivered in the order of their numbers: to sort a batch
   changes nothing. *)
LEMMA SortedAlready ==
  ASSUME NEW q \in Seq(Nat), Increasing(q)
  PROVE  Sorted(q) = q
<1> DEFINE n == Len(q)
           Before(i, j) == q[i] < q[j] \/ (q[i] = q[j] /\ i < j)
           Ordered(p) == \A i, j \in 1..n : i < j => Before(p[i], p[j])
           id == [i \in 1..n |-> i]
           place == CHOOSE p \in [1..n -> 1..n] : Ordered(p)
<1>0. n \in Nat /\ DOMAIN q = 1..n /\ q \in [1..n -> Nat]
  BY LenProperties
<1>1. id \in [1..n -> 1..n] /\ Ordered(id)
  BY <1>0 DEF Increasing
<1>2. place \in [1..n -> 1..n] /\ Ordered(place)
  <2> HIDE DEF Ordered, id
  <2> QED
    BY <1>1
<1> HIDE DEF place
<1>3. Increasing(place)
  <2> SUFFICES ASSUME NEW i \in 1..n, NEW j \in 1..n, i < j
               PROVE  place[i] < place[j]
    BY <1>2 DEF Increasing
  <2> DEFINE x == place[i]
             y == place[j]
  <2>1. x \in 1..n /\ y \in 1..n /\ Before(x, y)
    BY <1>2
  <2> HIDE DEF x, y
  <2>2. q[x] \in Nat /\ q[y] \in Nat /\ (y < x => q[y] < q[x])
    BY <1>0, <2>1 DEF Increasing
  <2>3. x < y
    BY <1>0, <2>1, <2>2
  <2> QED
    BY <2>3 DEF x, y
<1>4. Increasing(id)
  BY <1>0 DEF Increasing
<1>5. 1..n \in SUBSET Nat /\ IsFiniteSet(1..n) /\ Cardinality(1..n) = n
  BY <1>0, FS_Interval
<1> HIDE DEF n, Ordered
<1>6. {place[i] : i \in 1..n} = 1..n
  <2> DEFINE S == 1..n
  <2>1. S \in SUBSET Nat /\ IsFiniteSet(S) /\ Cardinality(S) = n
    BY <1>5
  <2>2. place \in [1..Cardinality(S) -> S]
    BY <1>2, <2>1
  <2> HIDE DEF S
  <2>3. {place[i] : i \in 1..Cardinality(S)} = S
    BY <1>3, <2>1, <2>2, IncreasingFills
  <2> QED
    BY <2>1, <2>3 DEF S
<1>7. {id[i] : i \in 1..n} = 1..n
  OBVIOUS
<1>8. place = id
  <2> HIDE DEF id
  <2>a. place \in [1..n -> 1..n] /\ id \in [1..n -> 1..n]
    BY <1>1, <1>2
  <2>b. ASSUME NEW f \in [1..n -> 1..n] PROVE f \in [1..n -> Nat]
    BY <1>5
  <2>1. place \in [1..n -> Nat] /\ id \in [1..n -> Nat]
    BY <2>a, <2>b
  <2> QED
    BY <1>0, <1>3, <1>4, <1>6, <1>7, <2>1, IncreasingUnique
<1>9. Sorted(q) = [i \in 1..n |-> q[place[i]]]
  BY <1>0 DEF Sorted, place, Ordered
<1>10. Sorted(q) = [i \in 1..n |-> q[i]]
  BY <1>8, <1>9
<1> QED
  BY <1>0, <1>10

-----------------------------------------------------------------------------
(* The bus is a mailbox *)

(* What an agent has heard and what waits for it, in this order. *)
Carried(a) == heard[a] \o inbox[a]

(* The messages for a, by their numbers. *)
For(a) == {i \in Nat : i + 1 \in DOMAIN log /\ a \in log[i + 1]}

(* Nothing is lost, repeated or out of order on its way to an agent that is
   active; one that is not has ended its loop. *)
MailInOrder ==
  /\ posted = Len(log)
  /\ heard \in [Agents -> Seq(Nat)]
  /\ \A a \in inactive : loop[a] = "gone"
  /\ \A a \in Agents \ inactive :
       /\ Increasing(Carried(a))
       /\ {Carried(a)[i] : i \in 1..Len(Carried(a))} = For(a)

LEMMA CarriedType ==
  ASSUME BusTypeOK, MailInOrder, NEW a \in Agents
  PROVE  /\ heard[a] \in Seq(Nat) /\ inbox[a] \in Seq(Nat)
         /\ Carried(a) \in Seq(Nat)
         /\ Len(Carried(a)) = Len(heard[a]) + Len(inbox[a])
         /\ Len(heard[a]) \in Nat /\ Len(inbox[a]) \in Nat
BY ConcatProperties, LenProperties DEF BusTypeOK, MailInOrder, Carried

(* The end of an increasing sequence is increasing. *)
LEMMA InboxSorted ==
  ASSUME BusTypeOK, MailInOrder, NEW a \in Agents \ inactive
  PROVE  Sorted(inbox[a]) = inbox[a]
<1> DEFINE h == heard[a]
           b == inbox[a]
           n == Len(h)
<1>1. /\ h \in Seq(Nat) /\ b \in Seq(Nat) /\ h \o b \in Seq(Nat)
      /\ n \in Nat /\ Len(b) \in Nat /\ Len(h \o b) = n + Len(b)
  BY CarriedType DEF Carried
<1>2. Increasing(h \o b)
  BY DEF MailInOrder, Carried
<1> HIDE DEF h, b
<1>3. \A i \in 1..Len(b) : n + i \in 1..Len(h \o b) /\ (h \o b)[n + i] = b[i]
  <2> SUFFICES ASSUME NEW i \in 1..Len(b)
               PROVE  n + i \in 1..Len(h \o b) /\ (h \o b)[n + i] = b[i]
    OBVIOUS
  <2>1. n + i \in 1..(n + Len(b)) /\ n + i > n /\ (n + i) - n = i
    BY <1>1
  <2> QED
    BY <1>1, <2>1, ConcatProperties
<1>4. Increasing(b)
  <2> SUFFICES ASSUME NEW i \in 1..Len(b), NEW j \in 1..Len(b), i < j
               PROVE  b[i] < b[j]
    BY <1>1, LenProperties DEF Increasing
  <2>1. n + i < n + j
    BY <1>1
  <2>2. DOMAIN (h \o b) = 1..Len(h \o b)
    BY <1>1, LenProperties
  <2> QED
    BY <1>2, <1>3, <2>1, <2>2 DEF Increasing
<1> QED
  BY <1>1, <1>4, SortedAlready DEF b

(* What the abstract mailbox of an active agent holds. *)
LEMMA MailboxHolds ==
  ASSUME BusTypeOK, MailInOrder, NEW a \in Agents \ inactive
  PROVE  Promise!For(a) = [i \in 1..Len(Carried(a)) |-> Carried(a)[i] + 1]
<1> DEFINE c == Carried(a)
           m == Len(c)
           t == [i \in 1..m |-> c[i] + 1]
           Mine == {i \in DOMAIN log : a \in log[i]}
           n == Cardinality(Mine)
           Ordered(s, k) == \A i, j \in 1..k : i < j => s[i] < s[j]
           s0 == CHOOSE s \in [1..n -> Mine] : Ordered(s, n)
<1>1. /\ c \in Seq(Nat) /\ m \in Nat /\ DOMAIN c = 1..m
      /\ \A i \in 1..m : c[i] \in Nat
  BY CarriedType, LenProperties
<1>2. Increasing(c) /\ {c[i] : i \in 1..m} = For(a)
  BY DEF MailInOrder
<1>3. DOMAIN log = 1..Len(log) /\ Len(log) \in Nat
  BY LenProperties DEF BusTypeOK
<1>4. Promise!For(a) = s0
  <2>1. Promise!Cardinality(Mine) = n
    BY DEF Promise!Cardinality, Cardinality
  <2> HIDE DEF n
  <2> QED
    BY <2>1 DEF Promise!For
<1> HIDE DEF c, m
<1>5. t \in [1..m -> Nat] /\ Increasing(t) /\ Ordered(t, m)
  <2>1. \A i, j \in 1..m : i < j => c[i] < c[j]
    BY <1>1, <1>2 DEF Increasing
  <2>2. \A i, j \in 1..m : i < j => t[i] < t[j]
    BY <1>1, <2>1
  <2> QED
    BY <1>1, <2>2 DEF Increasing
<1>6. {t[i] : i \in 1..m} = Mine
  <2>1. ASSUME NEW i \in 1..m PROVE t[i] \in Mine
    <3>1. c[i] \in For(a)
      BY <1>2
    <3> QED
      BY <3>1 DEF For
  <2>2. ASSUME NEW k \in Mine PROVE \E i \in 1..m : t[i] = k
    <3>1. k \in Nat /\ k - 1 \in Nat /\ (k - 1) + 1 = k
      BY <1>3
    <3>2. k - 1 \in For(a)
      BY <3>1 DEF For
    <3>3. PICK i \in 1..m : c[i] = k - 1
      BY <1>2, <3>2
    <3> QED
      BY <3>1, <3>3
  <2> QED
    BY <2>1, <2>2
<1>7. Mine \in SUBSET Nat
  BY <1>3
<1> HIDE DEF Mine, t
<1>8. IsFiniteSet(Mine) /\ n = m
  BY <1>1, <1>5, <1>6, IncreasingCounts
<1>9. s0 \in [1..n -> Mine] /\ Ordered(s0, n)
  <2>1. t \in [1..n -> Mine] /\ Ordered(t, n)
    BY <1>5, <1>6, <1>8
  <2> HIDE DEF Ordered, n
  <2> QED
    BY <2>1
<1> HIDE DEF s0
<1>10. Increasing(s0) /\ s0 \in [1..n -> Nat]
  BY <1>7, <1>9 DEF Increasing
<1>11. {s0[i] : i \in 1..n} = Mine
  BY <1>7, <1>8, <1>9, <1>10, IncreasingFills
<1>12. s0 = t
  <2> HIDE DEF n, Ordered
  <2> QED
    BY <1>1, <1>5, <1>6, <1>8, <1>10, <1>11, IncreasingUnique
<1> QED
  BY <1>4, <1>12 DEF t, c, m

LEMMA InitMail == BusInit => MailInOrder
<1> SUFFICES ASSUME BusInit PROVE MailInOrder
  OBVIOUS
<1>1. log = <<>> /\ posted = 0 /\ inactive = {}
      /\ \A a \in Agents : heard[a] = <<>> /\ inbox[a] = <<>>
  BY DEF BusInit
<1>2. heard \in [Agents -> Seq(Nat)]
  BY EmptySeq DEF BusInit
<1>3. <<>> \o <<>> = <<>> /\ Len(<<>>) = 0 /\ DOMAIN <<>> = {}
  BY EmptySeq, ConcatEmptySeq, LenProperties
<1>4. \A a \in Agents : Carried(a) = <<>>
  BY <1>1, <1>3 DEF Carried
<1>5. \A a \in Agents : For(a) = {}
  BY <1>1, <1>3 DEF For
<1> QED
  BY <1>1, <1>2, <1>3, <1>4, <1>5 DEF MailInOrder, Increasing

(* What post puts into an inbox is the last number so far. *)
LEMMA PostMail ==
  ASSUME BusTypeOK, MailInOrder, NEW sender \in Agents, NEW to \in Recipients,
         Post(sender, to)
  PROVE  MailInOrder'
<1> DEFINE targets == Targets(sender, to)
<1>1. /\ posted = Len(log) /\ log \in Seq(SUBSET Agents) /\ posted \in Nat
      /\ targets \subseteq Agents
      /\ log' = Append(log, targets) /\ posted' = posted + 1
      /\ UNCHANGED <<inactive, heard>>
  BY TargetsAreAgents DEF BusTypeOK, MailInOrder, Post
<1> HIDE DEF targets
<1>2. /\ log' \in Seq(SUBSET Agents) /\ Len(log') = posted + 1
      /\ \A i \in 1..posted : log'[i] = log[i]
      /\ log'[posted + 1] = targets
      /\ DOMAIN log = 1..posted /\ DOMAIN log' = 1..(posted + 1)
  BY <1>1, AppendProperties, LenProperties
<1>3. \A a \in inactive : loop'[a] = "gone"
  BY DEF MailInOrder, BusTypeOK, Post, SetEvents
<1>4. ASSUME NEW a \in Agents \ inactive
      PROVE  Increasing(Carried(a))' /\
             {Carried(a)'[i] : i \in 1..Len(Carried(a)')} = For(a)'
  <2> DEFINE c == Carried(a)
             m == Len(c)
  <2>1. /\ c \in Seq(Nat) /\ m \in Nat /\ DOMAIN c = 1..m
        /\ heard[a] \in Seq(Nat) /\ inbox[a] \in Seq(Nat)
        /\ c = heard[a] \o inbox[a]
    BY CarriedType, LenProperties DEF Carried
  <2>2. Increasing(c) /\ {c[i] : i \in 1..m} = For(a)
    BY DEF MailInOrder
  <2>3. Carried(a)' = heard[a] \o Delivered(inbox[a], a, sender, to)
    BY <1>1 DEF Carried, Post
  <2>4. \A i \in For(a) : i < posted
    BY <1>1, <1>2 DEF For
  <2>5. For(a)' = IF a \in targets THEN For(a) \cup {posted} ELSE For(a)
    <3>1. ASSUME NEW i \in Nat
          PROVE  i \in For(a)' <=> i \in For(a) \/ (i = posted /\ a \in targets)
      <4>1. CASE i < posted
        BY <4>1, <1>1, <1>2 DEF For
      <4>2. CASE i = posted
        BY <4>2, <1>1, <1>2 DEF For
      <4>3. CASE i > posted
        BY <4>3, <1>1, <1>2 DEF For
      <4> QED
        BY <4>1, <4>2, <4>3, <1>1
    <3>2. For(a) \subseteq Nat /\ For(a)' \subseteq Nat
      BY DEF For
    <3> QED
      BY <1>1, <3>1, <3>2
  <2>6. CASE a \notin targets
    <3>1. Carried(a)' = c
      BY <2>1, <2>3, <2>6 DEF Delivered, targets
    <3> QED
      BY <2>2, <2>5, <2>6, <3>1 DEF Increasing
  <2>7. CASE a \in targets
    <3> DEFINE d == Append(c, posted)
    <3>1. Carried(a)' = heard[a] \o Append(inbox[a], posted)
      BY <2>3, <2>7 DEF Delivered, targets
    <3>2. Carried(a)' = d
      <4>1. heard[a] \o Append(inbox[a], posted) = Append(heard[a] \o inbox[a], posted)
        <5> DEFINE h == heard[a]
                   b == inbox[a]
                   x == posted
        <5>1. h \in Seq(Nat) /\ b \in Seq(Nat) /\ x \in Nat
          BY <1>1, <2>1
        <5> HIDE DEF h, b, x
        <5>2. h \o Append(b, x) = Append(h \o b, x)
          BY <5>1
        <5> QED
          BY <5>2 DEF h, b, x
      <4> QED
        BY <3>1, <4>1, <2>1
    <3>0. c \in Seq(Nat) /\ m = Len(c) /\ m \in Nat
      BY <2>1
    <3> HIDE DEF c, m
    <3>3. /\ d \in Seq(Nat) /\ Len(d) = m + 1 /\ DOMAIN d = 1..(m + 1)
          /\ \A i \in 1..m : d[i] = c[i]
          /\ d[m + 1] = posted
      BY <1>1, <3>0, AppendProperties, LenProperties
    <3> HIDE DEF d
    <3>4. \A i \in 1..m : c[i] < posted
      BY <2>2, <2>4
    <3>5. Increasing(d)
      <4> SUFFICES ASSUME NEW i \in 1..(m + 1), NEW j \in 1..(m + 1), i < j
                   PROVE  d[i] < d[j]
        BY <3>3 DEF Increasing
      <4>1. i \in 1..m
        BY <3>0
      <4>2. CASE j \in 1..m
        BY <4>1, <4>2, <2>1, <2>2, <3>3 DEF Increasing
      <4>3. CASE j = m + 1
        BY <4>1, <4>3, <3>3, <3>4
      <4>4. j \in 1..m \/ j = m + 1
        BY <3>0
      <4> QED
        BY <4>2, <4>3, <4>4
    <3>6. {d[i] : i \in 1..(m + 1)} = {c[i] : i \in 1..m} \cup {posted}
      <4>1. \A i \in 1..(m + 1) : i \in 1..m \/ i = m + 1
        BY <2>1
      <4>2. 1..m \subseteq 1..(m + 1) /\ m + 1 \in 1..(m + 1)
        BY <2>1
      <4> QED
        BY <3>3, <4>1, <4>2
    <3>7. Increasing(Carried(a))' <=> Increasing(Carried(a)')
      BY DEF Increasing
    <3> QED
      BY <2>2, <2>5, <2>7, <3>2, <3>3, <3>5, <3>6, <3>7
  <2> QED
    BY <2>6, <2>7
<1> QED
  BY <1>1, <1>2, <1>3, <1>4 DEF MailInOrder

(* A step after which every active agent is carried what it was before. *)
LEMMA SameMail ==
  ASSUME BusTypeOK, MailInOrder, UNCHANGED <<posted, log>>,
         heard' \in [Agents -> Seq(Nat)],
         inactive \subseteq inactive', \A a \in inactive' : loop'[a] = "gone",
         \A a \in Agents \ inactive' : Carried(a)' = Carried(a)
  PROVE  MailInOrder'
<1>1. \A a : For(a)' = For(a)
  BY DEF For
<1>2. ASSUME NEW a \in Agents \ inactive'
      PROVE  Increasing(Carried(a))' /\
             {Carried(a)'[i] : i \in 1..Len(Carried(a)')} = For(a)'
  <2>1. Carried(a)' = Carried(a) /\ a \in Agents \ inactive
    OBVIOUS
  <2>2. Increasing(Carried(a))' <=> Increasing(Carried(a)')
    BY DEF Increasing
  <2> QED
    BY <1>1, <2>1, <2>2 DEF MailInOrder
<1> QED
  BY <1>2 DEF MailInOrder

(* drain: what waited has been heard. *)
LEMMA DrainMail ==
  ASSUME BusTypeOK, MailInOrder, NEW a \in Agents, Drain(a)
  PROVE  MailInOrder' /\ a \notin inactive /\ heard'[a] = Carried(a)
<1>1. /\ inbox[a] # <<>> /\ loop[a] = "busy"
      /\ inbox' = [inbox EXCEPT ![a] = <<>>]
      /\ heard' = [heard EXCEPT ![a] = @ \o Sorted(inbox[a])]
      /\ UNCHANGED <<posted, log, inactive, loop>>
  BY DEF Drain
<1>2. a \notin inactive
  BY <1>1 DEF MailInOrder
<1>3. heard'[a] = Carried(a)
  BY <1>1, <1>2, InboxSorted DEF MailInOrder, Carried
<1>4. inbox'[a] = <<>>
  BY <1>1 DEF BusTypeOK
<1>5. Carried(a) \in Seq(Nat)
  BY CarriedType
<1>6. Carried(a)' = Carried(a)
  BY <1>3, <1>4, <1>5, ConcatEmptySeq DEF Carried
<1>7. /\ \A b \in Agents \ {a} : heard'[b] = heard[b] /\ inbox'[b] = inbox[b]
      /\ heard' \in [Agents -> Seq(Nat)]
  <2>1. heard' = [heard EXCEPT ![a] = Carried(a)]
    BY <1>1, <1>3 DEF MailInOrder
  <2> QED
    BY <1>1, <1>5, <2>1 DEF MailInOrder, BusTypeOK
<1>8. \A b \in Agents \ inactive' : Carried(b)' = Carried(b)
  BY <1>6, <1>7 DEF Carried
<1>9. \A b \in inactive' : loop'[b] = "gone"
  BY <1>1 DEF MailInOrder
<1>10. MailInOrder'
  BY <1>1, <1>7, <1>8, <1>9, SameMail
<1> QED
  BY <1>2, <1>3, <1>10

(* The steps that carry no message. *)
LEMMA OtherMail ==
  ASSUME BusTypeOK, MailInOrder, NEW a \in Agents,
         \/ PostNotice(a) \/ DrainNotices(a) \/ Wait(a) \/ Resume(a)
         \/ Deactivate(a) \/ Stop(a)
  PROVE  /\ MailInOrder'
         /\ UNCHANGED <<log, heard>>
         /\ {b \in Agents : loop'[b] = "gone"} =
              {b \in Agents : loop[b] = "gone"} \cup
                (IF Deactivate(a) \/ Stop(a) THEN {a} ELSE {})
<1>1. UNCHANGED <<posted, log, heard>>
  BY DEF PostNotice, DrainNotices, Wait, Resume, Deactivate, Stop
<1>2. /\ inactive' = IF Deactivate(a) THEN inactive \cup {a} ELSE inactive
      /\ \A b \in Agents \ inactive' : inbox'[b] = inbox[b]
  <2>1. CASE Deactivate(a)
    BY <2>1 DEF Deactivate, BusTypeOK
  <2>2. CASE ~Deactivate(a)
    BY <2>2 DEF PostNotice, DrainNotices, Wait, Resume, Stop
  <2> QED
    BY <2>1, <2>2
<1>3. \A b \in Agents : loop'[b] = "gone" <=>
        loop[b] = "gone" \/ (b = a /\ (Deactivate(a) \/ Stop(a)))
  <2>1. CASE Deactivate(a) \/ Stop(a)
    BY <2>1 DEF Deactivate, Stop, BusTypeOK
  <2>2. CASE PostNotice(a)
    BY <2>2 DEF PostNotice, SetEvents, Deactivate, Stop, BusTypeOK
  <2>3. CASE ~(Deactivate(a) \/ Stop(a)) /\ (DrainNotices(a) \/ Wait(a) \/ Resume(a))
    BY <2>3 DEF DrainNotices, Wait, Resume, BusTypeOK
  <2> QED
    BY <2>1, <2>2, <2>3
<1>4. \A b \in Agents \ inactive' : Carried(b)' = Carried(b)
  BY <1>1, <1>2 DEF Carried
<1>5. inactive \subseteq inactive' /\ \A b \in inactive' : loop'[b] = "gone"
  BY <1>2, <1>3 DEF MailInOrder, BusTypeOK
<1>6. MailInOrder'
  <2>1. heard' \in [Agents -> Seq(Nat)]
    BY <1>1 DEF MailInOrder
  <2> QED
    BY <1>1, <1>4, <1>5, <2>1, SameMail
<1> QED
  BY <1>1, <1>3, <1>6

(* heard and stopped as Promise sees them. *)
Numbered == [a \in Agents |-> [i \in DOMAIN heard[a] |-> heard[a][i] + 1]]
Gone == {a \in Agents : loop[a] = "gone"}

LEMMA PromiseVars ==
  /\ Promise!vars = <<log, Numbered, Gone>>
  /\ (Promise!vars)' = <<log', Numbered', Gone'>>
BY DEF Promise!vars, Numbered, Gone

(* The step of the mailbox that each step of the bus is. *)
LEMMA MailStep ==
  ASSUME BusIInv, MailInOrder, [BusNext]_busVars
  PROVE  MailInOrder' /\ [Promise!Next]_(Promise!vars)
<1>0. BusTypeOK
  BY DEF BusIInv
<1>1. ASSUME NEW a \in Agents, NEW to \in Recipients, Post(a, to)
      PROVE  MailInOrder' /\ Promise!Next
  <2>1. MailInOrder'
    BY <1>0, <1>1, PostMail
  <2>2. Targets(a, to) \in SUBSET Agents
    BY TargetsAreAgents
  <2>3. /\ log' = Append(log, Targets(a, to)) /\ heard' = heard
        /\ \A b \in Agents : loop'[b] = "gone" <=> loop[b] = "gone"
    BY <1>0, <1>1 DEF Post, SetEvents, BusTypeOK
  <2>4. Promise!Post(Targets(a, to))
    BY <2>3 DEF Promise!Post
  <2> QED
    BY <2>1, <2>2, <2>4 DEF Promise!Next
<1>2. ASSUME NEW a \in Agents, Drain(a)
      PROVE  MailInOrder' /\ Promise!Next
  <2>1. MailInOrder' /\ a \in Agents \ inactive /\ heard'[a] = Carried(a)
    BY <1>0, <1>2, DrainMail
  <2>2. /\ loop[a] = "busy" /\ inbox[a] # <<>> /\ UNCHANGED <<log, loop>>
        /\ \A b \in Agents \ {a} : heard'[b] = heard[b]
        /\ heard \in [Agents -> Seq(Nat)]
    BY <1>2 DEF Drain, MailInOrder
  <2>3. /\ heard[a] \in Seq(Nat) /\ inbox[a] \in Seq(Nat) /\ Carried(a) \in Seq(Nat)
        /\ Len(heard[a]) \in Nat
        /\ Len(Carried(a)) = Len(heard[a]) + Len(inbox[a])
    BY <1>0, CarriedType
  <2>4. Promise!For(a) = [i \in 1..Len(Carried(a)) |-> Carried(a)[i] + 1]
    BY <1>0, <2>1, MailboxHolds
  <2>5. Numbered'[a] = Promise!For(a)
    BY <2>1, <2>3, <2>4, LenProperties DEF Numbered
  <2>6. Numbered[a] # Promise!For(a)
    <3>1. Len(inbox[a]) \in Nat \ {0}
      BY <2>2, <2>3
    <3>2. DOMAIN Numbered[a] = 1..Len(heard[a])
      BY <2>3, LenProperties DEF Numbered
    <3>3. DOMAIN Promise!For(a) = 1..Len(Carried(a))
      BY <2>4
    <3>4. \A m \in Nat, n \in Nat \ {0} : m + n \in 1..(m + n) /\ m + n \notin 1..m
      OBVIOUS
    <3> QED
      BY <2>3, <3>1, <3>2, <3>3, <3>4
  <2>7. Numbered' = [Numbered EXCEPT ![a] = Promise!For(a)]
    <3>1. \A b \in Agents \ {a} : Numbered'[b] = Numbered[b]
      BY <2>2 DEF Numbered
    <3>2. /\ Numbered = [b \in Agents |-> Numbered[b]]
          /\ Numbered' = [b \in Agents |-> Numbered'[b]]
      BY DEF Numbered
    <3> QED
      BY <2>5, <3>1, <3>2
  <2>8. a \notin Gone /\ Gone' = Gone
    BY <2>2 DEF Gone
  <2>9. Promise!Read(a)
    BY <2>2, <2>6, <2>7, <2>8 DEF Promise!Read, Numbered, Gone
  <2> QED
    BY <2>1, <2>9 DEF Promise!Next
<1>3. ASSUME NEW a \in Agents,
             \/ PostNotice(a) \/ DrainNotices(a) \/ Wait(a) \/ Resume(a)
             \/ Deactivate(a) \/ Stop(a)
      PROVE  MailInOrder' /\ [Promise!Next]_(Promise!vars)
  <2>1. /\ MailInOrder' /\ UNCHANGED <<log, heard>>
        /\ Gone' = Gone \cup (IF Deactivate(a) \/ Stop(a) THEN {a} ELSE {})
    BY <1>0, <1>3, OtherMail DEF Gone
  <2>2. Numbered' = Numbered
    BY <2>1 DEF Numbered
  <2>3. CASE Deactivate(a) \/ Stop(a)
    <3>1. Promise!Stop(a)
      BY <2>1, <2>2, <2>3 DEF Promise!Stop, Numbered, Gone
    <3> QED
      BY <2>1, <3>1 DEF Promise!Next
  <2>4. CASE ~(Deactivate(a) \/ Stop(a))
    BY <2>1, <2>2, <2>4, PromiseVars
  <2> QED
    BY <2>3, <2>4
<1>4. CASE UNCHANGED busVars
  <2>1. /\ UNCHANGED <<posted, log, heard, inactive, inbox, loop>>
    BY <1>4 DEF busVars
  <2>2. MailInOrder'
    BY <1>0, <2>1, SameMail DEF MailInOrder, Carried
  <2>3. UNCHANGED <<log, Numbered, Gone>>
    BY <2>1 DEF Numbered, Gone
  <2> QED
    BY <2>2, <2>3, PromiseVars
<1> QED
  BY <1>1, <1>2, <1>3, <1>4 DEF BusNext

LEMMA StartsEmpty == BusInit => Promise!Init
<1> SUFFICES ASSUME BusInit PROVE Promise!Init
  OBVIOUS
<1>1. log = <<>> /\ heard = [a \in Agents |-> <<>>] /\ loop = [a \in Agents |-> "busy"]
  BY DEF BusInit
<1>2. [i \in DOMAIN <<>> |-> <<>>[i] + 1] = <<>>
  OBVIOUS
<1> QED
  BY <1>1, <1>2 DEF Promise!Init

(* What an agent has heard and what waits for it are, while it is active, the
   messages addressed to it: all of them, each once, in the order of the
   session. *)
THEOREM MailIsInOrder == BusSpec => []MailInOrder
<1>1. BusIInv /\ MailInOrder /\ [BusNext]_busVars => BusIInv' /\ MailInOrder'
  BY StepBus, MailStep
<1> QED
  BY <1>1, InitBus, InitMail, PTL DEF BusSpec

(* The safety part of ImplementsMailbox: queues, drains, wake-ups and the end
   of a loop are steps of the abstract mailbox, or are not seen by it. *)
MailboxSafety == Promise!Init /\ [][Promise!Next]_(Promise!vars)

THEOREM IsAMailbox == BusSpec => MailboxSafety
<1>1. BusIInv /\ MailInOrder /\ [BusNext]_busVars => [Promise!Next]_(Promise!vars)
  BY MailStep
<1> QED
  BY <1>1, StartsEmpty, BusInvariant, MailIsInOrder, PTL DEF BusSpec, MailboxSafety

-----------------------------------------------------------------------------
(* The event streams.  The inductive invariant says where each event is that a
   client has not received: on the wire, in the snapshot, in the queue, or, for
   a stream that was dropped, to be fetched by the next connection. *)

(* The events queued for a subscriber, without the sentinel. *)
Queued(c) == IF done THEN Len(queue[c]) - 1 ELSE Len(queue[c])

(* The queue of a subscriber is the end of the log, with the sentinel after
   it once the runner has ended. *)
QueueIsTail(c) ==
  /\ Queued(c) >= 0
  /\ Queued(c) <= QueueSize
  /\ \A i \in 1..Queued(c) : queue[c][i] = (emitted - Queued(c)) + i - 1
  /\ done => queue[c][Len(queue[c])] = None

(* Where a generator is, and what it still has to send. *)
StreamIsRight(c) ==
  /\ stream[c] \in {"off", "stored"} => queue[c] = <<>> /\ c \notin subscribers
  /\ stream[c] \in {"replay", "live"} /\ c \notin subscribers => queue[c] = <<None>>
  /\ stream[c] # "off" => snap[c] <= emitted /\ sent[c] = got[c] + Len(wire[c])
  /\ c \in subscribers =>
       /\ QueueIsTail(c)
       /\ stream[c] = "replay" => sent[c] <= snap[c] /\ snap[c] + Queued(c) = emitted
       /\ stream[c] = "live" => sent[c] + Queued(c) = emitted

WireIsRight(c) ==
  /\ \A i \in 1..Len(wire[c]) : wire[c][i] = got[c] + i - 1
  /\ got[c] + Len(wire[c]) <= emitted

IInv ==
  /\ TypeOK
  /\ done => emitted = Total
  /\ \A c \in Clients : WireIsRight(c) /\ StreamIsRight(c)

-----------------------------------------------------------------------------
LEMMA InitInv == Init => IInv
<1> SUFFICES ASSUME Init PROVE IInv
    OBVIOUS
<1>1. TypeOK
    <2>1. /\ queue \in [Clients -> Seq(Nat \cup {None})]
          /\ wire \in [Clients -> Seq(Nat)]
        BY DEF Init
    <2>2. /\ stream \in [Clients -> {"off", "replay", "live", "stored"}]
          /\ snap \in [Clients -> Nat]
          /\ sent \in [Clients -> Nat]
          /\ got \in [Clients -> Nat]
        BY DEF Init
    <2>3. emitted \in 0..Total /\ breaks \in 0..MaxBreaks
        BY SizeAssumption DEF ValidSize, Init
    <2>4. done \in BOOLEAN /\ replaced \in BOOLEAN /\ subscribers \subseteq Clients
        BY DEF Init
    <2> QED BY <2>1, <2>2, <2>3, <2>4 DEF TypeOK
<1>2. ASSUME NEW c \in Clients
      PROVE  WireIsRight(c) /\ StreamIsRight(c)
    BY DEF Init, WireIsRight, StreamIsRight
<1> QED BY <1>1, <1>2 DEF Init, IInv

LEMMA EmitType == TypeOK /\ Emit => TypeOK'
<1> SUFFICES ASSUME TypeOK, Emit PROVE TypeOK'
    OBVIOUS
<1>1. ASSUME NEW c \in Clients
      PROVE  Offered(c, emitted) \in Seq(Nat \cup {None})
    <2>1. queue[c] \in Seq(Nat \cup {None}) /\ emitted \in Nat /\ <<None>> \in Seq(Nat \cup {None})
        BY SizeAssumption DEF ValidSize, TypeOK
    <2>2. Append(queue[c], emitted) \in Seq(Nat \cup {None})
        BY <2>1
    <2> QED BY <2>1, <2>2 DEF Offered
<1>2. queue' \in [Clients -> Seq(Nat \cup {None})]
    BY <1>1 DEF Emit, TypeOK
<1>3. emitted' \in 0..Total
    BY SizeAssumption DEF ValidSize, Emit, Running, TypeOK
<1> QED BY <1>2, <1>3 DEF Emit, TypeOK

LEMMA FinishType == TypeOK /\ Finish => TypeOK'
<1> SUFFICES ASSUME TypeOK, Finish PROVE TypeOK'
    OBVIOUS
<1>1. ASSUME NEW c \in Clients
      PROVE  Append(queue[c], None) \in Seq(Nat \cup {None})
    BY DEF TypeOK
<1>2. queue' \in [Clients -> Seq(Nat \cup {None})]
    BY <1>1 DEF Finish, TypeOK
<1> QED BY <1>2 DEF Finish, TypeOK

(* The steps of one client keep the types. *)
LEMMA ClientType ==
  ASSUME TypeOK, NEW c \in Clients,
         Connect(c) \/ Replay(c) \/ Live(c) \/ Stored(c) \/ Receive(c) \/ Break(c)
  PROVE  TypeOK'
<1>0. /\ emitted \in Nat /\ sent[c] \in Nat /\ got[c] \in Nat
      /\ queue[c] \in Seq(Nat \cup {None}) /\ wire[c] \in Seq(Nat)
    BY SizeAssumption DEF ValidSize, TypeOK
<1>1. CASE Connect(c)
    <2>1. queue' \in [Clients -> Seq(Nat \cup {None})]
        <3>1. FirstItems \in Seq(Nat \cup {None})
            <4>1. <<>> \in Seq(Nat \cup {None}) /\ <<None>> \in Seq(Nat \cup {None})
                OBVIOUS
            <4> QED BY <4>1 DEF FirstItems
        <3>2. queue' = [queue EXCEPT ![c] = FirstItems] \/ queue' = queue
            BY <1>1 DEF Connect
        <3> QED BY <3>1, <3>2 DEF TypeOK
    <2>2. stream' \in [Clients -> {"off", "replay", "live", "stored"}]
        BY <1>1 DEF Connect, TypeOK
    <2>3. snap' \in [Clients -> Nat] /\ sent' \in [Clients -> Nat]
        BY <1>0, <1>1 DEF Connect, Snapshot, TypeOK
    <2>4. subscribers' \subseteq Clients
        BY <1>1 DEF Connect, TypeOK
    <2>5. UNCHANGED <<emitted, done, replaced, wire, got, breaks>>
        BY <1>1 DEF Connect
    <2> QED BY <2>1, <2>2, <2>3, <2>4, <2>5 DEF TypeOK
<1>2. CASE Replay(c) \/ Stored(c)
    <2>1. wire' \in [Clients -> Seq(Nat)]
        <3>1. Append(wire[c], sent[c]) \in Seq(Nat)
            BY <1>0
        <3> QED BY <1>2, <3>1 DEF Replay, Stored, TypeOK
    <2>2. sent' \in [Clients -> Nat]
        BY <1>0, <1>2 DEF Replay, Stored, TypeOK
    <2>3. stream' \in [Clients -> {"off", "replay", "live", "stored"}]
        BY <1>2 DEF Replay, Stored, TypeOK
    <2>4. UNCHANGED <<emitted, done, replaced, subscribers, queue, snap, got, breaks>>
        BY <1>2 DEF Replay, Stored
    <2> QED BY <2>1, <2>2, <2>3, <2>4 DEF TypeOK
<1>3. CASE Live(c)
    <2>1. UNCHANGED <<emitted, done, replaced, snap, got, breaks>>
        BY <1>3 DEF Live
    <2>2. CASE Head(queue[c]) = None
        <3>1. Close(c) /\ UNCHANGED <<sent, wire>>
            BY <1>3, <2>2 DEF Live
        <3>2. /\ queue' \in [Clients -> Seq(Nat \cup {None})]
              /\ stream' \in [Clients -> {"off", "replay", "live", "stored"}]
              /\ subscribers' \subseteq Clients
            BY <3>1 DEF Close, TypeOK
        <3> QED BY <2>1, <3>1, <3>2 DEF TypeOK
    <2>3. CASE Head(queue[c]) # None
        <3>1. Head(queue[c]) \in Nat
            BY <1>0, <1>3, <2>3 DEF Live
        <3>2. queue' \in [Clients -> Seq(Nat \cup {None})]
            <4>1. Tail(queue[c]) \in Seq(Nat \cup {None})
                BY <1>0, <1>3 DEF Live
            <4> QED BY <1>3, <2>3, <4>1 DEF Live, TypeOK
        <3>3. wire' \in [Clients -> Seq(Nat)]
            <4>1. Append(wire[c], Head(queue[c])) \in Seq(Nat)
                BY <1>0, <3>1
            <4> QED BY <1>3, <2>3, <4>1 DEF Live, TypeOK
        <3>4. sent' \in [Clients -> Nat]
            <4>1. sent' = [sent EXCEPT ![c] = Head(queue[c]) + 1] \/ sent' = sent
                BY <1>3, <2>3 DEF Live
            <4>2. Head(queue[c]) + 1 \in Nat
                BY <3>1
            <4> QED BY <4>1, <4>2 DEF TypeOK
        <3>5. UNCHANGED <<stream, subscribers>>
            BY <1>3, <2>3 DEF Live
        <3> QED BY <2>1, <3>2, <3>3, <3>4, <3>5 DEF TypeOK
    <2> QED BY <2>2, <2>3
<1>4. CASE Receive(c)
    <2>1. got' \in [Clients -> Nat]
        <3>1. Head(wire[c]) \in Nat
            BY <1>0, <1>4 DEF Receive
        <3> QED BY <1>4, <3>1 DEF Receive, TypeOK
    <2>2. wire' \in [Clients -> Seq(Nat)]
        <3>1. Tail(wire[c]) \in Seq(Nat)
            BY <1>0, <1>4 DEF Receive
        <3> QED BY <1>4, <3>1 DEF Receive, TypeOK
    <2>3. UNCHANGED <<emitted, done, replaced, subscribers, queue, stream, snap, sent, breaks>>
        BY <1>4 DEF Receive
    <2> QED BY <2>1, <2>2, <2>3 DEF TypeOK
<1>5. CASE Break(c)
    <2>1. /\ queue' \in [Clients -> Seq(Nat \cup {None})]
          /\ wire' \in [Clients -> Seq(Nat)]
          /\ stream' \in [Clients -> {"off", "replay", "live", "stored"}]
          /\ subscribers' \subseteq Clients
        BY <1>5 DEF Break, Close, TypeOK
    <2>2. breaks' \in 0..MaxBreaks
        BY <1>5, SizeAssumption DEF ValidSize, Break, TypeOK
    <2>3. UNCHANGED <<emitted, done, replaced, snap, sent, got>>
        BY <1>5 DEF Break
    <2> QED BY <2>1, <2>2, <2>3 DEF TypeOK
<1> QED BY <1>1, <1>2, <1>3, <1>4, <1>5
-----------------------------------------------------------------------------
LEMMA TypeStep == TypeOK /\ [Next]_vars => TypeOK'
<1> SUFFICES ASSUME TypeOK, [Next]_vars PROVE TypeOK'
    OBVIOUS
<1>1. CASE Emit
    BY <1>1, EmitType
<1>2. CASE Finish
    BY <1>2, FinishType
<1>3. CASE Replace
    BY <1>3 DEF Replace, TypeOK
<1>4. ASSUME NEW c \in Clients,
             Connect(c) \/ Replay(c) \/ Live(c) \/ Stored(c) \/ Receive(c) \/ Break(c)
      PROVE  TypeOK'
    BY <1>4, ClientType
<1>5. CASE UNCHANGED vars
    BY <1>5 DEF vars, TypeOK
<1> QED BY <1>1, <1>2, <1>3, <1>4, <1>5 DEF Next

(* The state keeps its type. *)
THEOREM TypeCorrect == Spec => []TypeOK
<1>1. Init => TypeOK
    BY InitInv DEF IInv
<1> QED BY <1>1, TypeStep, PTL DEF Spec

-----------------------------------------------------------------------------
(* The steps of the runner *)

(* A queue that is the end of a log is, with the next event, the end of the
   longer log. *)
LEMMA TailGrows ==
  ASSUME NEW S, NEW q \in Seq(S), NEW e \in Nat,
         \A i \in 1..Len(q) : q[i] = (e - Len(q)) + i - 1
  PROVE  \A i \in 1..(Len(q) + 1) :
           Append(q, e)[i] = ((e + 1) - (Len(q) + 1)) + i - 1
<1> SUFFICES ASSUME NEW i \in 1..(Len(q) + 1)
             PROVE  Append(q, e)[i] = ((e + 1) - (Len(q) + 1)) + i - 1
    OBVIOUS
<1>1. Len(q) \in Nat
    OBVIOUS
<1>2. CASE i \in 1..Len(q)
    <2>1. Append(q, e)[i] = q[i]
        BY <1>2
    <2> QED BY <1>1, <1>2, <2>1
<1>3. CASE i = Len(q) + 1
    <2>1. Append(q, e)[i] = e
        BY <1>3
    <2> QED BY <1>1, <1>3, <2>1
<1> QED BY <1>1, <1>2, <1>3

LEMMA EmitInv ==
  ASSUME IInv, Emit, NEW c \in Clients
  PROVE  WireIsRight(c)' /\ StreamIsRight(c)'
<1>1. /\ emitted \in Nat /\ ~done /\ emitted' = emitted + 1
      /\ Len(queue[c]) \in Nat /\ Len(wire[c]) \in Nat
      /\ got[c] \in Nat /\ snap[c] \in Nat
      /\ UNCHANGED <<done, stream, snap, sent, wire, got>>
    BY SizeAssumption DEF ValidSize, IInv, TypeOK, Emit, Running
<1>2. WireIsRight(c)'
    BY <1>1 DEF IInv, WireIsRight
<1>3. StreamIsRight(c)
    BY DEF IInv
<1>4. CASE c \notin subscribers
    <2>1. queue'[c] = queue[c] /\ c \notin subscribers'
        BY <1>4 DEF Emit
    <2> QED BY <1>1, <1>2, <1>3, <1>4, <2>1 DEF StreamIsRight
<1>5. CASE c \in subscribers /\ Full(c)
    <2>1. queue'[c] = <<None>> /\ c \notin subscribers'
        BY <1>5 DEF Emit, Offered
    <2> QED BY <1>1, <1>2, <1>3, <1>5, <2>1 DEF StreamIsRight
<1>6. CASE c \in subscribers /\ ~Full(c)
    <2>1. queue'[c] = Append(queue[c], emitted) /\ c \in subscribers'
        BY <1>6 DEF Emit, Offered
    <2>2. /\ Len(queue'[c]) = Len(queue[c]) + 1
          /\ \A i \in 1..Len(queue[c]) : queue'[c][i] = queue[c][i]
          /\ queue'[c][Len(queue[c]) + 1] = emitted
        BY <2>1 DEF IInv, TypeOK
    <2>3. Queued(c) = Len(queue[c]) /\ Queued(c)' = Len(queue[c]) + 1
        BY <1>1, <2>2 DEF Queued
    <2>4. QueueIsTail(c)'
        <3>1. Queued(c)' <= QueueSize
            BY <1>1, <1>6, <2>3, SizeAssumption DEF ValidSize, Full
        <3>2. \A i \in 1..Len(queue[c]) :
                queue[c][i] = (emitted - Len(queue[c])) + i - 1
            BY <1>3, <1>6, <2>3 DEF StreamIsRight, QueueIsTail
        <3>3. \A i \in 1..(Len(queue[c]) + 1) :
                queue'[c][i] = ((emitted + 1) - (Len(queue[c]) + 1)) + i - 1
            <4>1. queue[c] \in Seq(Nat \cup {None})
                BY DEF IInv, TypeOK
            <4>2. \A i \in 1..(Len(queue[c]) + 1) :
                    Append(queue[c], emitted)[i]
                      = ((emitted + 1) - (Len(queue[c]) + 1)) + i - 1
                BY <1>1, <3>2, <4>1, TailGrows
            <4> QED BY <2>1, <4>2
        <3>4. ~done'
            BY <1>1
        <3>5. \A i \in 1..Queued(c)' :
                queue'[c][i] = (emitted' - Queued(c)') + i - 1
            BY <1>1, <2>3, <3>3
        <3>6. Queued(c)' >= 0
            BY <1>1, <2>3
        <3> QED BY <3>1, <3>4, <3>5, <3>6 DEF QueueIsTail
    <2>5. stream'[c] = stream[c] /\ sent'[c] = sent[c] /\ snap'[c] = snap[c]
        BY <1>1
    <2>6. /\ stream[c] \notin {"off", "stored"}
          /\ stream[c] = "replay" => sent[c] <= snap[c] /\ snap[c] + Len(queue[c]) = emitted
          /\ stream[c] = "live" => sent[c] + Len(queue[c]) = emitted
        BY <1>3, <1>6, <2>3 DEF StreamIsRight
    <2>7. stream'[c] # "off" => snap'[c] <= emitted' /\ sent'[c] = got'[c] + Len(wire'[c])
        <3>1. stream[c] # "off" => snap[c] <= emitted /\ sent[c] = got[c] + Len(wire[c])
            BY <1>3 DEF StreamIsRight
        <3> QED BY <1>1, <2>5, <3>1
    <2>8. sent[c] \in Nat
        BY DEF IInv, TypeOK
    <2>9. stream'[c] = "replay" => sent'[c] <= snap'[c] /\ snap'[c] + Queued(c)' = emitted'
        BY <1>1, <2>3, <2>5, <2>6, <2>8
    <2>10. stream'[c] = "live" => sent'[c] + Queued(c)' = emitted'
        BY <1>1, <2>3, <2>5, <2>6, <2>8
    <2>11. stream'[c] \notin {"off", "stored"}
        BY <2>5, <2>6
    <2> QED BY <1>2, <2>1, <2>4, <2>7, <2>9, <2>10, <2>11 DEF StreamIsRight
<1> QED BY <1>2, <1>4, <1>5, <1>6

LEMMA FinishInv ==
  ASSUME IInv, Finish, NEW c \in Clients
  PROVE  WireIsRight(c)' /\ StreamIsRight(c)'
<1>1. /\ emitted \in Nat /\ ~done /\ done'
      /\ Len(queue[c]) \in Nat
      /\ UNCHANGED <<emitted, subscribers, stream, snap, sent, wire, got>>
    BY SizeAssumption DEF ValidSize, IInv, TypeOK, Finish
<1>2. WireIsRight(c)' /\ StreamIsRight(c)
    BY <1>1 DEF IInv, WireIsRight
<1>3. CASE c \notin subscribers
    <2>1. queue'[c] = queue[c]
        BY <1>3 DEF Finish
    <2> QED BY <1>1, <1>2, <1>3, <2>1 DEF StreamIsRight
<1>4. CASE c \in subscribers
    <2>1. queue'[c] = Append(queue[c], None)
        BY <1>4 DEF Finish
    <2>2. /\ Len(queue'[c]) = Len(queue[c]) + 1
          /\ \A i \in 1..Len(queue[c]) : queue'[c][i] = queue[c][i]
          /\ queue'[c][Len(queue[c]) + 1] = None
        BY <2>1 DEF IInv, TypeOK
    <2>3. Queued(c) = Len(queue[c]) /\ Queued(c)' = Len(queue[c])
        BY <1>1, <2>2 DEF Queued
    <2>4. QueueIsTail(c)'
        BY <1>1, <1>2, <1>4, <2>2, <2>3 DEF StreamIsRight, QueueIsTail
    <2> QED BY <1>1, <1>2, <1>4, <2>3, <2>4 DEF StreamIsRight
<1> QED BY <1>3, <1>4
-----------------------------------------------------------------------------
(* The steps of the generators and the browsers *)

(* A step of client d does not touch the stream of client c. *)
LEMMA Others ==
  ASSUME IInv, NEW c \in Clients, NEW d \in Clients, c # d,
         Connect(d) \/ Replay(d) \/ Live(d) \/ Stored(d) \/ Receive(d) \/ Break(d)
  PROVE  WireIsRight(c)' /\ StreamIsRight(c)'
<1>1. UNCHANGED <<emitted, done>>
    BY DEF Connect, Replay, Live, Stored, Receive, Break
<1>2. /\ queue'[c] = queue[c] /\ stream'[c] = stream[c] /\ snap'[c] = snap[c]
      /\ sent'[c] = sent[c] /\ wire'[c] = wire[c] /\ got'[c] = got[c]
      /\ c \in subscribers' <=> c \in subscribers
    BY SMTT(20) DEF IInv, TypeOK, Connect, Replay, Live, Stored, Receive, Break, Close
<1>3. WireIsRight(c) /\ StreamIsRight(c)
    BY DEF IInv
<1>4. Queued(c)' = Queued(c) /\ (QueueIsTail(c) => QueueIsTail(c)')
    BY <1>1, <1>2 DEF Queued, QueueIsTail
<1> QED BY <1>1, <1>2, <1>3, <1>4 DEF WireIsRight, StreamIsRight

LEMMA ConnectInv ==
  ASSUME IInv, NEW c \in Clients, Connect(c)
  PROVE  WireIsRight(c)' /\ StreamIsRight(c)'
<1>1. /\ emitted \in Nat /\ got[c] \in Nat /\ QueueSize \in Nat
      /\ wire[c] = <<>> /\ UNCHANGED <<emitted, done, wire, got>>
    BY SizeAssumption DEF ValidSize, IInv, TypeOK, Connect
<1>2. WireIsRight(c)'
    BY <1>1 DEF IInv, WireIsRight
<1>3. sent'[c] = got[c] /\ snap'[c] = emitted
    BY DEF Connect, Snapshot, IInv, TypeOK
<1>4. got[c] <= emitted
    BY <1>1 DEF IInv, WireIsRight
<1>5. stream[c] = "off" /\ queue[c] = <<>> /\ c \notin subscribers
    BY DEF IInv, StreamIsRight, Connect
<1>6. CASE replaced
    <2>1. stream'[c] = "stored" /\ queue'[c] = <<>> /\ c \notin subscribers'
        BY <1>5, <1>6 DEF Connect, IInv, TypeOK
    <2> QED BY <1>1, <1>2, <1>3, <2>1 DEF StreamIsRight
<1>7. CASE ~replaced
    <2>1. stream'[c] = "replay" /\ queue'[c] = FirstItems /\ c \in subscribers'
        BY <1>7 DEF Connect, IInv, TypeOK
    <2>2. Queued(c)' = 0
        BY <1>1, <2>1 DEF Queued, FirstItems
    <2>3. QueueIsTail(c)'
        BY <1>1, <2>1, <2>2 DEF QueueIsTail, FirstItems
    <2>4. sent'[c] = got'[c] + Len(wire'[c])
        BY <1>1, <1>3
    <2> QED BY <1>1, <1>2, <1>3, <1>4, <2>1, <2>2, <2>3, <2>4 DEF StreamIsRight
<1> QED BY <1>6, <1>7

(* Sending the next event keeps the wire in order. *)
LEMMA SendInv ==
  ASSUME NEW c \in Clients, wire[c] \in Seq(Nat), got[c] \in Nat, emitted \in Nat,
         WireIsRight(c), sent[c] = got[c] + Len(wire[c]), sent[c] < emitted,
         wire'[c] = Append(wire[c], sent[c]), got'[c] = got[c], emitted' = emitted,
         sent'[c] = sent[c] + 1
  PROVE  WireIsRight(c)' /\ sent'[c] = got'[c] + Len(wire'[c])
<1>1. /\ Len(wire[c]) \in Nat
      /\ Len(wire'[c]) = Len(wire[c]) + 1
      /\ \A i \in 1..Len(wire[c]) : wire'[c][i] = wire[c][i]
      /\ wire'[c][Len(wire[c]) + 1] = sent[c]
    OBVIOUS
<1>2. \A i \in 1..Len(wire[c]) : wire[c][i] = got[c] + i - 1
    BY DEF WireIsRight
<1>3. \A i \in 1..(Len(wire[c]) + 1) : wire'[c][i] = got[c] + i - 1
    BY <1>1, <1>2
<1>4. \A i \in 1..Len(wire'[c]) : wire'[c][i] = got'[c] + i - 1
    BY <1>1, <1>3
<1>5. /\ got'[c] + Len(wire'[c]) <= emitted'
      /\ sent'[c] = got'[c] + Len(wire'[c])
    BY <1>1
<1> QED BY <1>4, <1>5 DEF WireIsRight

(* A generator that sends from its snapshot, or is through with it. *)
LEMMA SnapshotInv ==
  ASSUME IInv, NEW c \in Clients, Replay(c) \/ Stored(c)
  PROVE  WireIsRight(c)' /\ StreamIsRight(c)'
<1>1. /\ emitted \in Nat /\ got[c] \in Nat /\ wire[c] \in Seq(Nat)
      /\ sent[c] \in Nat /\ snap[c] \in Nat /\ Len(wire[c]) \in Nat
      /\ stream[c] \in {"replay", "stored"}
      /\ UNCHANGED <<emitted, done, subscribers, queue, snap, got>>
    BY SizeAssumption DEF ValidSize, IInv, TypeOK, Replay, Stored
<1>2. /\ WireIsRight(c) /\ StreamIsRight(c)
      /\ snap[c] <= emitted /\ sent[c] = got[c] + Len(wire[c])
    BY <1>1 DEF IInv, StreamIsRight
<1>3. Queued(c)' = Queued(c) /\ (QueueIsTail(c) => QueueIsTail(c)')
    BY <1>1 DEF Queued, QueueIsTail
<1>4. CASE sent[c] < snap[c]
    <2>1. /\ wire'[c] = Append(wire[c], sent[c])
          /\ sent'[c] = sent[c] + 1
          /\ stream'[c] = stream[c]
        BY <1>4 DEF Replay, Stored, IInv, TypeOK
    <2>2. sent[c] < emitted
        BY <1>1, <1>2, <1>4
    <2>3. WireIsRight(c)' /\ sent'[c] = got'[c] + Len(wire'[c])
        BY <1>1, <1>2, <2>1, <2>2, SendInv
    <2>4. sent'[c] <= snap'[c]
        BY <1>1, <1>4, <2>1
    <2> QED BY <1>1, <1>2, <1>3, <2>1, <2>3, <2>4 DEF StreamIsRight
<1>5. CASE ~(sent[c] < snap[c])
    <2>1. /\ wire'[c] = wire[c] /\ sent'[c] = sent[c]
          /\ stream[c] = "replay" => stream'[c] = "live"
          /\ stream[c] = "stored" => stream'[c] = "off"
        BY <1>5 DEF Replay, Stored, IInv, TypeOK
    <2>2. WireIsRight(c)'
        BY <1>1, <1>2, <2>1 DEF WireIsRight
    <2>3. CASE stream[c] = "stored"
        BY <1>1, <1>2, <2>1, <2>2, <2>3 DEF StreamIsRight
    <2>4. CASE stream[c] = "replay"
        <3>1. c \in subscribers => sent'[c] + Queued(c)' = emitted'
            <4>1. c \in subscribers => sent[c] <= snap[c] /\ snap[c] + Queued(c) = emitted
                BY <1>2, <2>4 DEF StreamIsRight
            <4>2. c \in subscribers => sent[c] = snap[c]
                BY <1>1, <1>5, <4>1
            <4> QED BY <1>1, <1>3, <2>1, <4>1, <4>2
        <3> QED BY <1>1, <1>2, <1>3, <2>1, <2>2, <2>4, <3>1 DEF StreamIsRight
    <2> QED BY <1>1, <2>3, <2>4
<1> QED BY <1>4, <1>5

LEMMA LiveInv ==
  ASSUME IInv, NEW c \in Clients, Live(c)
  PROVE  WireIsRight(c)' /\ StreamIsRight(c)'
<1>1. /\ emitted \in Nat /\ got[c] \in Nat /\ wire[c] \in Seq(Nat)
      /\ sent[c] \in Nat /\ snap[c] \in Nat /\ Len(wire[c]) \in Nat
      /\ Len(queue[c]) \in Nat \ {0} /\ stream[c] = "live" /\ QueueSize \in Nat
      /\ UNCHANGED <<emitted, done, snap, got>>
    BY SizeAssumption DEF ValidSize, IInv, TypeOK, Live
<1>2. WireIsRight(c) /\ StreamIsRight(c)
    BY DEF IInv
<1>3. CASE Head(queue[c]) = None
    <2>1. /\ stream'[c] = "off" /\ queue'[c] = <<>> /\ c \notin subscribers'
          /\ wire'[c] = wire[c]
        BY <1>3 DEF Live, Close, IInv, TypeOK
    <2> QED BY <1>1, <1>2, <2>1 DEF WireIsRight, StreamIsRight
<1>4. CASE Head(queue[c]) # None
    <2>1. c \in subscribers
        BY <1>1, <1>2, <1>4 DEF StreamIsRight
    <2>2. Queued(c) >= 1 /\ Queued(c) <= QueueSize /\ Queued(c) \in Nat
        <3>1. QueueIsTail(c)
            BY <1>2, <2>1 DEF StreamIsRight
        <3>2. ~(done /\ Len(queue[c]) = 1)
            BY <1>4, <3>1 DEF QueueIsTail
        <3>3. Queued(c) <= QueueSize
            BY <3>1 DEF QueueIsTail
        <3>4. CASE done
            <4>1. Queued(c) = Len(queue[c]) - 1
                BY <3>4 DEF Queued
            <4>2. Len(queue[c]) # 1
                BY <3>2, <3>4
            <4>3. Len(queue[c]) \in Nat \ {0}
                BY <1>1
            <4>4. \A n \in Nat \ {0} : n # 1 => n - 1 \in Nat /\ n - 1 >= 1
                OBVIOUS
            <4>5. Len(queue[c]) - 1 \in Nat /\ Len(queue[c]) - 1 >= 1
                BY <4>2, <4>3, <4>4
            <4> QED BY <3>3, <4>1, <4>5
        <3>5. CASE ~done
            BY <1>1, <3>3, <3>5 DEF Queued
        <3> QED BY <3>4, <3>5
    <2>3. sent[c] + Queued(c) = emitted
        BY <1>1, <1>2, <2>1 DEF StreamIsRight
    <2>4. /\ \A i \in 1..Queued(c) : queue[c][i] = (emitted - Queued(c)) + i - 1
          /\ done => queue[c][Len(queue[c])] = None
        BY <1>2, <2>1 DEF StreamIsRight, QueueIsTail
    <2>5. Head(queue[c]) = sent[c]
        <3>1. Head(queue[c]) = queue[c][1]
            BY <1>1 DEF IInv, TypeOK
        <3>2. queue[c][1] = (emitted - Queued(c)) + 1 - 1
            BY <2>2, <2>4
        <3> QED BY <1>1, <2>2, <2>3, <3>1, <3>2
    <2>6. /\ queue'[c] = Tail(queue[c])
          /\ wire'[c] = Append(wire[c], sent[c])
          /\ sent'[c] = sent[c] + 1
          /\ stream'[c] = "live" /\ c \in subscribers'
        BY <1>1, <1>4, <2>1, <2>5 DEF Live, IInv, TypeOK
    <2>7. sent[c] = got[c] + Len(wire[c]) /\ snap[c] <= emitted
        BY <1>1, <1>2 DEF StreamIsRight
    <2>8. sent[c] < emitted
        BY <1>1, <2>2, <2>3
    <2>9. WireIsRight(c)' /\ sent'[c] = got'[c] + Len(wire'[c])
        BY <1>1, <1>2, <2>6, <2>7, <2>8, SendInv
    <2>10. /\ Len(queue'[c]) = Len(queue[c]) - 1
           /\ \A i \in 1..(Len(queue[c]) - 1) : queue'[c][i] = queue[c][i + 1]
        BY <1>1, <2>6 DEF IInv, TypeOK
    <2>11. Queued(c)' = Queued(c) - 1
        BY <1>1, <2>10 DEF Queued
    <2>12. QueueIsTail(c)'
        <3>1. ASSUME NEW i \in 1..(Queued(c) - 1)
              PROVE  queue'[c][i] = (emitted - (Queued(c) - 1)) + i - 1
            <4>1. Queued(c) <= Len(queue[c])
                BY <1>1 DEF Queued
            <4>2. i \in 1..(Len(queue[c]) - 1) /\ i + 1 \in 1..Queued(c)
                BY <1>1, <2>2, <4>1
            <4>3. queue'[c][i] = (emitted - Queued(c)) + (i + 1) - 1
                BY <2>4, <2>10, <4>2
            <4> QED BY <1>1, <2>2, <4>3
        <3>2. \A i \in 1..Queued(c)' :
                queue'[c][i] = (emitted' - Queued(c)') + i - 1
            BY <1>1, <2>11, <3>1
        <3>3. done' => queue'[c][Len(queue'[c])] = None
            <4>1. done => Len(queue[c]) - 1 >= 1
                BY <1>1, <2>2 DEF Queued
            <4>2. done => queue'[c][Len(queue[c]) - 1] = queue[c][Len(queue[c])]
                <5>1. SUFFICES ASSUME done
                               PROVE  queue'[c][Len(queue[c]) - 1] = queue[c][Len(queue[c])]
                    OBVIOUS
                <5>2. Len(queue[c]) - 1 \in 1..(Len(queue[c]) - 1)
                    BY <1>1, <4>1, <5>1
                <5>3. queue'[c][Len(queue[c]) - 1] = queue[c][(Len(queue[c]) - 1) + 1]
                    BY <2>10, <5>2
                <5>4. (Len(queue[c]) - 1) + 1 = Len(queue[c])
                    BY <1>1
                <5> QED BY <5>3, <5>4
            <4> QED BY <1>1, <2>4, <2>10, <4>2
        <3>4. Queued(c)' >= 0 /\ Queued(c)' <= QueueSize
            BY <1>1, <2>2, <2>11
        <3> QED BY <3>2, <3>3, <3>4 DEF QueueIsTail
    <2>13. sent'[c] + Queued(c)' = emitted'
        BY <1>1, <2>2, <2>3, <2>6, <2>11
    <2> QED BY <1>1, <2>6, <2>7, <2>9, <2>12, <2>13 DEF StreamIsRight
<1> QED BY <1>3, <1>4

LEMMA BrowserInv ==
  ASSUME IInv, NEW c \in Clients, Receive(c) \/ Break(c)
  PROVE  WireIsRight(c)' /\ StreamIsRight(c)'
<1>1. /\ emitted \in Nat /\ got[c] \in Nat /\ wire[c] \in Seq(Nat)
      /\ sent[c] \in Nat /\ snap[c] \in Nat /\ Len(wire[c]) \in Nat
    BY SizeAssumption DEF ValidSize, IInv, TypeOK
<1>2. WireIsRight(c) /\ StreamIsRight(c)
    BY DEF IInv
<1>3. CASE Receive(c)
    <2>1. UNCHANGED <<emitted, done, subscribers, queue, stream, snap, sent>>
        BY <1>3 DEF Receive
    <2>2. /\ Len(wire[c]) # 0 /\ Head(wire[c]) = wire[c][1]
          /\ got'[c] = Head(wire[c]) + 1 /\ wire'[c] = Tail(wire[c])
        BY <1>1, <1>3 DEF Receive, IInv, TypeOK
    <2>3. /\ Len(wire'[c]) = Len(wire[c]) - 1
          /\ \A i \in 1..(Len(wire[c]) - 1) : wire'[c][i] = wire[c][i + 1]
        BY <1>1, <2>2
    <2>4. wire[c][1] = got[c] + 1 - 1
        BY <1>1, <1>2, <2>2 DEF WireIsRight
    <2>5. got'[c] = got[c] + 1
        BY <1>1, <2>2, <2>4
    <2>6. \A i \in 1..(Len(wire[c]) - 1) : wire[c][i + 1] = got[c] + (i + 1) - 1
        BY <1>1, <1>2 DEF WireIsRight
    <2>7. WireIsRight(c)'
        <3>1. \A i \in 1..Len(wire'[c]) : wire'[c][i] = got'[c] + i - 1
            <4>1. ASSUME NEW i \in 1..(Len(wire[c]) - 1)
                  PROVE  wire'[c][i] = (got[c] + 1) + i - 1
                <5>1. wire'[c][i] = got[c] + (i + 1) - 1
                    BY <2>3, <2>6
                <5>2. got[c] \in Nat /\ i \in Nat
                    BY <1>1
                <5> QED BY <5>1, <5>2
            <4> QED BY <2>3, <2>5, <4>1
        <3>2. got'[c] + Len(wire'[c]) <= emitted'
            BY <1>1, <1>2, <2>1, <2>3, <2>5 DEF WireIsRight
        <3> QED BY <3>1, <3>2 DEF WireIsRight
    <2>8. Queued(c)' = Queued(c) /\ (QueueIsTail(c) => QueueIsTail(c)')
        BY <2>1 DEF Queued, QueueIsTail
    <2>9. got'[c] + Len(wire'[c]) = got[c] + Len(wire[c])
        <3>1. got[c] \in Nat /\ Len(wire[c]) \in Nat
            BY <1>1
        <3>2. Len(wire'[c]) = Len(wire[c]) - 1
            BY <2>3
        <3>3. (got[c] + 1) + (Len(wire[c]) - 1) = got[c] + Len(wire[c])
            BY <3>1
        <3> QED BY <2>5, <3>2, <3>3
    <2> QED BY <1>2, <2>1, <2>7, <2>8, <2>9 DEF StreamIsRight
<1>4. CASE Break(c)
    <2>1. /\ wire'[c] = <<>> /\ queue'[c] = <<>> /\ stream'[c] = "off"
          /\ c \notin subscribers' /\ got'[c] = got[c] /\ emitted' = emitted
        BY <1>4 DEF Break, Close, IInv, TypeOK
    <2>2. got[c] <= emitted
        BY <1>1, <1>2 DEF WireIsRight
    <2> QED BY <1>1, <2>1, <2>2 DEF WireIsRight, StreamIsRight
<1> QED BY <1>3, <1>4

-----------------------------------------------------------------------------
LEMMA InvStep == IInv /\ [Next]_vars => IInv'
<1> SUFFICES ASSUME IInv, [Next]_vars PROVE IInv'
    OBVIOUS
<1>1. TypeOK'
    BY TypeStep DEF IInv
<1>2. done' => emitted' = Total
    <2>1. CASE Finish
        BY <2>1, SizeAssumption DEF ValidSize, Finish, Running, IInv, TypeOK
    <2>2. CASE Emit
        BY <2>2, SizeAssumption DEF ValidSize, Emit, Running, IInv, TypeOK
    <2>3. CASE UNCHANGED <<emitted, done>>
        BY <2>3 DEF IInv
    <2> QED BY <2>1, <2>2, <2>3
          DEF Next, vars, Replace, Connect, Replay, Live, Stored, Receive, Break
<1>3. ASSUME NEW c \in Clients
      PROVE  WireIsRight(c)' /\ StreamIsRight(c)'
    <2>1. CASE Emit
        BY <2>1, EmitInv
    <2>2. CASE Finish
        BY <2>2, FinishInv
    <2>3. CASE Replace \/ UNCHANGED vars
        <3>1. UNCHANGED <<emitted, done, subscribers, queue, stream, snap, sent, wire, got>>
            BY <2>3 DEF Replace, vars
        <3>2. WireIsRight(c) /\ StreamIsRight(c)
            BY DEF IInv
        <3>3. Queued(c)' = Queued(c) /\ (QueueIsTail(c) => QueueIsTail(c)')
            BY <3>1 DEF Queued, QueueIsTail
        <3> QED BY <3>1, <3>2, <3>3 DEF WireIsRight, StreamIsRight
    <2>4. ASSUME NEW d \in Clients,
                 Connect(d) \/ Replay(d) \/ Live(d) \/ Stored(d) \/ Receive(d) \/ Break(d)
          PROVE  WireIsRight(c)' /\ StreamIsRight(c)'
        <3>1. CASE c # d
            BY <2>4, <3>1, Others
        <3>2. CASE c = d
            BY <2>4, <3>2, ConnectInv, SnapshotInv, LiveInv, BrowserInv
        <3> QED BY <3>1, <3>2
    <2> QED BY <2>1, <2>2, <2>3, <2>4 DEF Next
<1> QED BY <1>1, <1>2, <1>3 DEF IInv

LEMMA Invariance == Spec => []IInv
BY InitInv, InvStep, PTL DEF Spec

-----------------------------------------------------------------------------
(* The browser receives every event in order and once, over any number of
   connections, for every size of the queues. *)
THEOREM InOrderOnce == Spec => []NoGapNoRepeat
<1>1. IInv => NoGapNoRepeat
    BY DEF IInv, WireIsRight, NoGapNoRepeat
<1> QED BY <1>1, Invariance, PTL

(* Between its snapshot and its queue a subscriber has everything it has not
   sent: the two neither overlap nor leave a gap. *)
THEOREM NothingMissing == Spec => []SubscribersMissNothing
<1>1. ASSUME IInv, NEW c \in subscribers
      PROVE  /\ stream[c] = "replay" => sent[c] <= snap[c] /\ snap[c] + Queued(c) = emitted
             /\ stream[c] = "live" => sent[c] + Queued(c) = emitted
    BY <1>1 DEF IInv, TypeOK, StreamIsRight
<1>2. IInv => SubscribersMissNothing
    BY <1>1 DEF Queued, SubscribersMissNothing
<1> QED BY <1>2, Invariance, PTL

(* What the invariant says of one queue. *)
LEMMA OneQueue ==
  ASSUME IInv, NEW c \in Clients
  PROVE  /\ Len(queue[c]) <= QueueSize + 1
         /\ \A i \in 1..Len(queue[c]) : queue[c][i] = None => i = Len(queue[c])
         /\ c \in subscribers /\ ~done =>
              Len(queue[c]) <= QueueSize /\ \A i \in 1..Len(queue[c]) : queue[c][i] # None
<1>1. /\ StreamIsRight(c) /\ Len(queue[c]) \in Nat /\ emitted \in Nat
      /\ QueueSize \in Nat \ {0} /\ None \notin Nat
    BY SizeAssumption DEF ValidSize, IInv, TypeOK
<1>2. CASE c \notin subscribers
    <2>1. queue[c] = <<>> \/ queue[c] = <<None>>
        BY <1>1, <1>2 DEF StreamIsRight, IInv, TypeOK
    <2>2. /\ \A i \in 1..Len(<<>>) : i = Len(<<>>)
          /\ \A i \in 1..Len(<<None>>) : i = Len(<<None>>)
          /\ Len(<<>>) <= QueueSize + 1 /\ Len(<<None>>) <= QueueSize + 1
        BY <1>1
    <2>3. Len(queue[c]) <= QueueSize + 1
        BY <2>1, <2>2
    <2>4. \A i \in 1..Len(queue[c]) : i = Len(queue[c])
        BY <2>1, <2>2
    <2> QED BY <1>2, <2>3, <2>4
<1>3. CASE c \in subscribers
    <2>1. QueueIsTail(c)
        BY <1>1, <1>3 DEF StreamIsRight
    <2>2. Queued(c) \in Nat /\ Queued(c) <= QueueSize
        <3>1. Queued(c) >= 0 /\ Queued(c) <= QueueSize
            BY <2>1 DEF QueueIsTail
        <3>2. Queued(c) \in {Len(queue[c]), Len(queue[c]) - 1}
            BY DEF Queued
        <3> QED BY <1>1, <3>1, <3>2
    <2>3. Queued(c) <= emitted
        BY <1>1, <1>3, <2>2 DEF StreamIsRight, IInv, TypeOK
    <2>4. ASSUME NEW i \in 1..Queued(c)
          PROVE  queue[c][i] # None
        <3>1. queue[c][i] = (emitted - Queued(c)) + i - 1
            BY <2>1 DEF QueueIsTail
        <3>2. (emitted - Queued(c)) + i - 1 \in Nat
            BY <1>1, <2>2, <2>3
        <3> QED BY <1>1, <3>1, <3>2
    <2>5. CASE done
        <3>1. Len(queue[c]) = Queued(c) + 1
            BY <1>1, <2>5 DEF Queued
        <3>2. ASSUME NEW i \in 1..Len(queue[c]), queue[c][i] = None
              PROVE  i = Len(queue[c])
            <4>1. i \notin 1..Queued(c)
                BY <2>4, <3>2
            <4> QED BY <2>2, <3>1, <4>1
        <3>3. Len(queue[c]) <= QueueSize + 1
            BY <1>1, <2>2, <3>1
        <3> QED BY <2>5, <3>2, <3>3
    <2>6. CASE ~done
        <3>1. Len(queue[c]) = Queued(c)
            BY <2>6 DEF Queued
        <3>2. Len(queue[c]) <= QueueSize /\ Len(queue[c]) <= QueueSize + 1
            BY <1>1, <2>2, <3>1
        <3>3. \A i \in 1..Len(queue[c]) : queue[c][i] # None
            BY <2>4, <3>1
        <3> QED BY <3>2, <3>3
    <2> QED BY <2>5, <2>6
<1> QED BY <1>2, <1>3

(* A queue that can take an event can take the sentinel, and the sentinel is
   the last thing in it. *)
THEOREM SentinelFits == Spec => []OneSentinel
<1>1. IInv => OneSentinel
    BY OneQueue DEF OneSentinel
<1> QED BY <1>1, Invariance, PTL

(* Whoever waits for the next event is subscribed to a runner that will put
   one, or the sentinel. *)
THEOREM WaitersServed == Spec => []WaitersAreServed
<1>1. ASSUME IInv, NEW c \in Clients, stream[c] = "live", queue[c] = <<>>
      PROVE  c \in subscribers /\ ~done
    <2>1. c \in subscribers
        <3>1. <<None>> # <<>>
            OBVIOUS
        <3> QED BY <1>1, <3>1 DEF IInv, StreamIsRight
    <2>2. QueueIsTail(c)
        BY <1>1, <2>1 DEF IInv, StreamIsRight
    <2>3. Len(queue[c]) = 0
        BY <1>1
    <2>4. ~done
        BY <2>2, <2>3 DEF QueueIsTail, Queued
    <2> QED BY <2>1, <2>4
<1>2. IInv => WaitersAreServed
    BY <1>1 DEF WaitersAreServed
<1> QED BY <1>2, Invariance, PTL

-----------------------------------------------------------------------------
(* The safety part of the refinement: a step of the stream is a step of the
   feed, or is not seen by it. *)
FeedSafety == Clear!Init /\ [][Clear!Next]_<<emitted, got>>

(* The streams, with their snapshots, queues, drops and reconnections, show
   their clients nothing but a feed of the session in order. *)
THEOREM IsAFeed == Spec => FeedSafety
<1>1. Init => Clear!Init
    BY DEF Init, Clear!Init
<1>2. IInv /\ [Next]_vars => [Clear!Next]_<<emitted, got>>
    <2> SUFFICES ASSUME IInv, [Next]_vars
                 PROVE  [Clear!Next]_<<emitted, got>>
        OBVIOUS
    <2>1. CASE Emit
        BY <2>1 DEF Emit, Running, Clear!Next, Clear!Publish
    <2>2. ASSUME NEW c \in Clients, Receive(c)
          PROVE  Clear!Show(c)
        <3>1. /\ wire[c] \in Seq(Nat) /\ wire[c] # <<>> /\ got[c] \in Nat
              /\ emitted \in Nat /\ WireIsRight(c)
            BY <2>2, SizeAssumption DEF ValidSize, IInv, TypeOK, Receive
        <3>2. Len(wire[c]) \in Nat \ {0} /\ Head(wire[c]) = wire[c][1]
            BY <3>1
        <3>3. wire[c][1] = got[c] + 1 - 1 /\ got[c] + Len(wire[c]) <= emitted
            BY <3>1, <3>2 DEF WireIsRight
        <3>4. Head(wire[c]) + 1 = got[c] + 1
            BY <3>1, <3>2, <3>3
        <3>5. got[c] < emitted
            BY <3>1, <3>2, <3>3
        <3> QED BY <2>2, <3>4, <3>5 DEF Receive, Clear!Show
    <2>3. CASE UNCHANGED <<emitted, got>>
        BY <2>3
    <2> QED BY <2>1, <2>2, <2>3
          DEF Next, vars, Finish, Replace, Connect, Replay, Live, Stored, Break, Clear!Next
<1> QED BY <1>1, <1>2, Invariance, PTL DEF Spec, FeedSafety
=============================================================================
