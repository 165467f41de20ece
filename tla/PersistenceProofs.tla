-------------------------- MODULE PersistenceProofs --------------------------
(***************************************************************************)
(* The invariants of Persistence.tla and that it implements Ledger.tla,    *)
(* proved for every set of agents, every approval policy and any number of *)
(* proposals, crashes, shutdowns and failed writes.                        *)
(*                                                                         *)
(* What a session has written is in two places, the store and the queue    *)
(* behind it.  The invariant says what the store will have when the queue  *)
(* has been written (Ahead), and in what order that comes about (Rows).    *)
(***************************************************************************)
EXTENDS Persistence, ConsensusProofs, SequenceTheorems

(* A row that is written more than once: the session, here 0, or a proposal. *)
Keys == 0..MaxProposals

IsOf(w, x) ==
  IF x = 0 THEN w.kind = "session" ELSE w.kind = "proposal" /\ w.version = x

Value(w) == IF w.kind = "session" THEN w.row ELSE w.status

Stored(d, x) == IF x = 0 THEN d.session ELSE d.proposals[x]

(* The value that row x of the store will have. *)
Ahead(q, d, x, value) ==
  \/ \E i \in 1..Len(q) :
       /\ IsOf(q[i], x) /\ Value(q[i]) = value
       /\ \A j \in 1..Len(q) : IsOf(q[j], x) => j <= i
  \/ /\ \A j \in 1..Len(q) : ~IsOf(q[j], x)
     /\ Stored(d, x) = value

(* The store has or will have a vote. *)
VoteAhead(q, d, row) ==
  \/ row \in d.votes
  \/ \E i \in 1..Len(q) : q[i].kind = "vote" /\ q[i].row = row

VoteRow(version, voter, decision) ==
  [version |-> version, voter |-> voter, decision |-> decision]

(* An open session has nothing final in the store or in the queue. *)
OpenRows(q, d) ==
  /\ \A i \in 1..Len(q) : q[i].kind = "session" => q[i].row.status \in Open
  /\ d.session.status \in {"none"} \cup Open

(* Of a session that has ended, s is the last row but for events. *)
FinalRows(q, d, s) ==
  /\ \A i \in 1..Len(q) : q[i].kind = "session" =>
       \/ q[i].row.status \in Open
       \/ q[i].row = s /\ \A j \in 1..Len(q) : j > i => q[j].kind = "event"
  /\ d.session.status \in Final =>
       d.session = s /\ \A j \in 1..Len(q) : q[j].kind = "event"

Rows(m, d) ==
  /\ m.session.status \in Open => OpenRows(m.queue, d)
  /\ m.session.status \in Final => FinalRows(m.queue, d, m.session)

(* The record of the version under vote, or of the one that was approved. *)
Snapshot(e) ==
  /\ TallyOK(e.tally)
  /\ e.proposer \in Proposers
  /\ e.tally.voters = Voters \ {e.proposer}
  /\ e.outcome = Decide(e.tally, Approval)
  /\ e.version # 0

Shape(m) ==
  /\ m.session.status = "running" =>
       ~m.engine.open /\ m.engine.waiting = m.engine.version
  /\ m.session.status = "voting" =>
       m.engine.open /\ m.engine.outcome = "pending" /\ Snapshot(m.engine)
  /\ m.session.status = "completed" =>
       /\ m.engine.outcome = "approved" /\ Snapshot(m.engine)
       /\ m.session.result = m.engine.version

(* The versions before the latest are superseded, those after it are unknown. *)
Chain(q, d, n) ==
  /\ \A v \in 1..MaxProposals :
       /\ v < n => Ahead(q, d, v, "superseded")
       /\ v > n => Ahead(q, d, v, "none")
  /\ \A v \in 1..MaxProposals, a \in Agents, c \in Decisions :
       v > n => ~VoteAhead(q, d, VoteRow(v, a, c))

(* The votes of the latest version are those of its ballot. *)
Ballot(q, d, e) ==
  \A a \in Agents :
    /\ VoteAhead(q, d, VoteRow(e.version, a, "approve")) <=> a \in e.tally.approvals
    /\ VoteAhead(q, d, VoteRow(e.version, a, "reject")) <=> a \in e.tally.rejections

(* While no write has failed the store and the queue know the session. *)
Complements(m, d) ==
  /\ Ahead(m.queue, d, 0, m.session)
  /\ m.session.status \in {"running", "voting", "completed"} =>
       Chain(m.queue, d, m.engine.version)
  /\ m.session.status \in {"voting", "completed"} => Ballot(m.queue, d, m.engine)
  /\ m.session.status = "voting" => Ahead(m.queue, d, m.engine.version, "pending")
  /\ m.session.status = "completed" => Ahead(m.queue, d, m.engine.version, "approved")

LiveType(m) == m \in Live /\ m.engine.version <= MaxProposals

(* n: the writes that have failed *)
LiveOK(m, d, n) ==
  /\ LiveType(m)
  /\ Rows(m, d)
  /\ Shape(m)
  /\ n = 0 /\ m.session.status # "none" => Complements(m, d)

-----------------------------------------------------------------------------
(* Types *)

LEMMA BoundsType == MaxProposals \in Nat \ {0} /\ MaxCrashes \in Nat
                    /\ MaxShutdowns \in Nat /\ MaxFailures \in Nat
  BY BoundsAssumption

LEMMA WriteFields ==
  ASSUME NEW w \in Writes
  PROVE  /\ w.kind \in {"team", "session", "proposal", "vote", "event"}
         /\ w.kind = "session" => w.row \in Sessions
         /\ w.kind = "proposal" => w.version \in 1..MaxProposals /\ w.status \in Statuses
         /\ w.kind = "vote" => w.row \in Votes
         /\ w.kind = "event" => w.row \in Events
  BY DEF Writes

LEMMA WritesOfKind ==
  /\ [kind |-> "team"] \in Writes
  /\ \A row \in Sessions : [kind |-> "session", row |-> row] \in Writes
  /\ \A v \in 1..MaxProposals, status \in Statuses :
       [kind |-> "proposal", version |-> v, status |-> status] \in Writes
  /\ \A row \in Votes : [kind |-> "vote", row |-> row] \in Writes
  /\ \A row \in Events : [kind |-> "event", row |-> row] \in Writes
  BY DEF Writes

LEMMA LiveFields ==
  ASSUME NEW m \in Live
  PROVE  /\ m.session \in Sessions /\ m.engine \in Engine
         /\ m.log \in Seq(Bodies) /\ m.queue \in Seq(Writes)
         /\ m.session.status \in {"none"} \cup Open \cup Final
         /\ m.session.result \in 0..MaxProposals
         /\ m.engine.version \in Nat /\ m.engine.tally \in Tally
  BY DEF Live, Sessions, Engine

LEMMA NoLiveType == NoLive \in Live
<1>1. NewEngine \in Engine
  BY NewEngineType
<1>2. <<>> \in Seq(Bodies) /\ <<>> \in Seq(Writes)
  BY EmptySeq
<1>3. NoSession \in Sessions
  BY BoundsType DEF NoSession, Sessions
<1>. QED
  BY <1>1, <1>2, <1>3 DEF NoLive, Live

(* A method of the store touches one table. *)
LEMMA WrittenFields ==
  ASSUME NEW d \in Database, NEW w \in Writes
  PROVE  LET u == Written(d, w)
         IN  /\ u \in Database
             /\ u.session = IF w.kind = "session" THEN w.row ELSE d.session
             /\ \A v \in 1..MaxProposals :
                  u.proposals[v] = IF w.kind = "proposal" /\ w.version = v
                                   THEN w.status ELSE d.proposals[v]
             /\ u.votes = IF w.kind = "vote" THEN d.votes \cup {w.row} ELSE d.votes
<1>1. CASE w.kind = "team"
  BY <1>1 DEF Written, SaveTeamSnapshot, Database
<1>2. CASE w.kind = "session"
  BY <1>2, WriteFields DEF Written, SaveSession, Database
<1>3. CASE w.kind = "proposal"
  BY <1>3, WriteFields DEF Written, SaveProposal, Database
<1>4. CASE w.kind = "vote"
  BY <1>4, WriteFields DEF Written, AppendVote, Database
<1>5. CASE w.kind = "event"
  BY <1>5, WriteFields DEF Written, AppendEvent, Database
<1>. QED
  BY <1>1, <1>2, <1>3, <1>4, <1>5, WriteFields

-----------------------------------------------------------------------------
(* The queue *)

LEMMA AppendFacts ==
  ASSUME NEW q \in Seq(Writes), NEW w \in Writes
  PROVE  /\ Append(q, w) \in Seq(Writes)
         /\ Len(q) \in Nat
         /\ Len(Append(q, w)) = Len(q) + 1
         /\ \A i \in 1..Len(q) : i \in 1..Len(q) + 1 /\ Append(q, w)[i] = q[i]
         /\ Append(q, w)[Len(q) + 1] = w
         /\ \A i \in 1..Len(q) + 1 : i \in 1..Len(q) \/ i = Len(q) + 1
         /\ Len(q) + 1 \in 1..Len(q) + 1
         /\ \A i \in 1..Len(q) + 1 : i <= Len(q) + 1
  BY AppendProperties, LenProperties

LEMMA TailFacts ==
  ASSUME NEW q \in Seq(Writes), q # <<>>
  PROVE  /\ Tail(q) \in Seq(Writes) /\ Head(q) \in Writes /\ Head(q) = q[1]
         /\ Len(Tail(q)) \in Nat
         /\ \A i \in 1..Len(Tail(q)) : i + 1 \in 1..Len(q) /\ Tail(q)[i] = q[i + 1]
         /\ \A i \in 1..Len(q) : i = 1 \/ (i - 1 \in 1..Len(Tail(q)) /\ Tail(q)[i - 1] = q[i])
         /\ 1 \in 1..Len(q)
<1>1. Tail(q) \in Seq(Writes) /\ Head(q) \in Writes /\ Head(q) = q[1]
  BY HeadTailProperties
<1>2. /\ Len(Tail(q)) = Len(q) - 1
      /\ \A i \in 1..Len(Tail(q)) : Tail(q)[i] = q[i + 1]
  BY HeadTailProperties
<1>3. Len(q) \in Nat \ {0}
  BY EmptySeq
<1> DEFINE k == Len(Tail(q))
           l == Len(q)
<1>4. k = l - 1 /\ l \in Nat \ {0} /\ (\A i \in 1..k : Tail(q)[i] = q[i + 1])
  BY <1>2, <1>3
<1> HIDE DEF k, l
<1>5. /\ k \in Nat /\ 1 \in 1..l
      /\ \A i \in 1..k : i + 1 \in 1..l
      /\ \A i \in 1..l : i = 1 \/ (i - 1 \in 1..k /\ (i - 1) + 1 = i)
  BY <1>4
<1>6. \A i \in 1..l : i = 1 \/ (i - 1 \in 1..k /\ Tail(q)[i - 1] = q[i])
  BY <1>4, <1>5
<1>. QED
  BY <1>1, <1>4, <1>5, <1>6 DEF k, l

(* A write to a row is what the row will be. *)
LEMMA AppendToRow ==
  ASSUME NEW q \in Seq(Writes), NEW d, NEW w \in Writes, NEW x \in Keys, IsOf(w, x)
  PROVE  Ahead(Append(q, w), d, x, Value(w))
  BY AppendFacts DEF Ahead

LEMMA AppendToOther ==
  ASSUME NEW q \in Seq(Writes), NEW d, NEW w \in Writes, NEW x \in Keys, ~IsOf(w, x),
         NEW value, Ahead(q, d, x, value)
  PROVE  Ahead(Append(q, w), d, x, value)
<1> DEFINE p == Append(q, w)
           n == Len(q) + 1
<1>1. /\ Len(p) = n /\ p[n] = w
      /\ \A i \in 1..Len(q) : i \in 1..n /\ p[i] = q[i]
      /\ \A i \in 1..n : i \in 1..Len(q) \/ i = n
  BY AppendFacts
<1> HIDE DEF p, n
<1>2. CASE \E i \in 1..Len(q) :
             /\ IsOf(q[i], x) /\ Value(q[i]) = value
             /\ \A j \in 1..Len(q) : IsOf(q[j], x) => j <= i
  <2>1. PICK i \in 1..Len(q) : /\ IsOf(q[i], x) /\ Value(q[i]) = value
                               /\ \A j \in 1..Len(q) : IsOf(q[j], x) => j <= i
    BY <1>2
  <2>2. i \in 1..Len(p) /\ IsOf(p[i], x) /\ Value(p[i]) = value
    BY <1>1, <2>1
  <2>3. \A j \in 1..Len(p) : IsOf(p[j], x) => j <= i
    BY <1>1, <2>1
  <2>. QED
    BY <2>2, <2>3 DEF Ahead, p
<1>3. CASE (\A j \in 1..Len(q) : ~IsOf(q[j], x)) /\ Stored(d, x) = value
  <2>1. \A j \in 1..Len(p) : ~IsOf(p[j], x)
    BY <1>1, <1>3
  <2>. QED
    BY <1>3, <2>1 DEF Ahead, p
<1>. QED
  BY <1>2, <1>3 DEF Ahead

LEMMA AppendVotes ==
  ASSUME NEW q \in Seq(Writes), NEW d, NEW w \in Writes, NEW row
  PROVE  VoteAhead(Append(q, w), d, row)
           <=> VoteAhead(q, d, row) \/ (w.kind = "vote" /\ w.row = row)
  BY AppendFacts DEF VoteAhead

(* A write that succeeds changes nothing of what the store will have. *)
LEMMA CommitRow ==
  ASSUME NEW q \in Seq(Writes), q # <<>>, NEW d \in Database, NEW x \in Keys,
         NEW value, Ahead(q, d, x, value)
  PROVE  Ahead(Tail(q), Written(d, Head(q)), x, value)
<1> DEFINE t == Tail(q)
           w == Head(q)
           u == Written(d, w)
<1>1. /\ w \in Writes /\ w = q[1] /\ 1 \in 1..Len(q) /\ Len(t) \in Nat
      /\ \A i \in 1..Len(t) : i + 1 \in 1..Len(q) /\ t[i] = q[i + 1]
      /\ \A i \in 1..Len(q) : i = 1 \/ (i - 1 \in 1..Len(t) /\ t[i - 1] = q[i])
  BY TailFacts
<1>2. Stored(u, x) = IF IsOf(w, x) THEN Value(w) ELSE Stored(d, x)
  <2>1. CASE x = 0
    BY <1>1, <2>1, WrittenFields DEF Stored, IsOf, Value
  <2>2. CASE x # 0
    <3>1. x \in 1..MaxProposals
      BY <2>2, BoundsType DEF Keys
    <3>. QED
      BY <1>1, <2>2, <3>1, WrittenFields DEF Stored, IsOf, Value
  <2>. QED
    BY <2>1, <2>2
<1> HIDE DEF t, w, u
<1>3. CASE \E i \in 1..Len(q) :
             /\ IsOf(q[i], x) /\ Value(q[i]) = value
             /\ \A j \in 1..Len(q) : IsOf(q[j], x) => j <= i
  <2>1. PICK i \in 1..Len(q) : /\ IsOf(q[i], x) /\ Value(q[i]) = value
                               /\ \A j \in 1..Len(q) : IsOf(q[j], x) => j <= i
    BY <1>3
  <2>2. CASE i = 1
    <3>1. \A j \in 1..Len(t) : ~IsOf(t[j], x)
      <4> SUFFICES ASSUME NEW j \in 1..Len(t), IsOf(t[j], x) PROVE FALSE
        OBVIOUS
      <4>1. j + 1 \in 1..Len(q) /\ IsOf(q[j + 1], x)
        BY <1>1
      <4>2. j + 1 <= 1 /\ j \in Nat /\ j >= 1
        BY <2>1, <2>2, <4>1
      <4>. QED
        BY <4>2
    <3>2. Stored(u, x) = value
      BY <1>1, <1>2, <2>1, <2>2
    <3>. QED
      BY <3>1, <3>2 DEF Ahead, t, u, w
  <2>3. CASE i # 1
    <3>1. i - 1 \in 1..Len(t) /\ t[i - 1] = q[i]
      BY <1>1, <2>3
    <3>2. \A j \in 1..Len(t) : IsOf(t[j], x) => j <= i - 1
      <4> SUFFICES ASSUME NEW j \in 1..Len(t), IsOf(t[j], x) PROVE j <= i - 1
        OBVIOUS
      <4>1. j + 1 \in 1..Len(q) /\ IsOf(q[j + 1], x)
        BY <1>1
      <4>2. j + 1 <= i /\ j \in Int /\ i \in Int
        BY <2>1, <4>1
      <4>. QED
        BY <4>2
    <3>. QED
      BY <2>1, <3>1, <3>2 DEF Ahead, t, u, w
  <2>. QED
    BY <2>2, <2>3
<1>4. CASE (\A j \in 1..Len(q) : ~IsOf(q[j], x)) /\ Stored(d, x) = value
  <2>1. \A j \in 1..Len(t) : ~IsOf(t[j], x)
    BY <1>1, <1>4
  <2>2. Stored(u, x) = value
    BY <1>1, <1>2, <1>4
  <2>. QED
    BY <2>1, <2>2 DEF Ahead, t, u, w
<1>. QED
  BY <1>3, <1>4 DEF Ahead

LEMMA CommitVotes ==
  ASSUME NEW q \in Seq(Writes), q # <<>>, NEW d \in Database, NEW row
  PROVE  VoteAhead(Tail(q), Written(d, Head(q)), row) <=> VoteAhead(q, d, row)
<1> DEFINE t == Tail(q)
           w == Head(q)
           u == Written(d, w)
<1>1. /\ w \in Writes /\ w = q[1] /\ 1 \in 1..Len(q)
      /\ \A i \in 1..Len(t) : i + 1 \in 1..Len(q) /\ t[i] = q[i + 1]
      /\ \A i \in 1..Len(q) : i = 1 \/ (i - 1 \in 1..Len(t) /\ t[i - 1] = q[i])
  BY TailFacts
<1>2. u.votes = IF w.kind = "vote" THEN d.votes \cup {w.row} ELSE d.votes
  BY <1>1, WrittenFields
<1> HIDE DEF t, w, u
<1>3. VoteAhead(t, u, row) => VoteAhead(q, d, row)
  BY <1>1, <1>2 DEF VoteAhead
<1>4. VoteAhead(q, d, row) => VoteAhead(t, u, row)
  BY <1>1, <1>2 DEF VoteAhead
<1>. QED
  BY <1>3, <1>4 DEF t, w, u

(* Nothing is written to the proposals and the votes. *)
SameRows(q, p, d) ==
  /\ \A v \in 1..MaxProposals, value \in Statuses \cup {"none"} :
       Ahead(q, d, v, value) => Ahead(p, d, v, value)
  /\ \A row \in Votes : VoteAhead(p, d, row) <=> VoteAhead(q, d, row)

LEMMA SameRowsTrans ==
  ASSUME NEW q, NEW p, NEW r, NEW d, SameRows(q, p, d), SameRows(p, r, d)
  PROVE  SameRows(q, r, d)
  BY DEF SameRows

LEMMA AppendElsewhere ==
  ASSUME NEW q \in Seq(Writes), NEW d, NEW w \in Writes,
         w.kind \in {"team", "session", "event"}
  PROVE  SameRows(q, Append(q, w), d)
<1>1. \A v \in 1..MaxProposals : v \in Keys /\ ~IsOf(w, v)
  BY BoundsType DEF Keys, IsOf
<1>. QED
  BY <1>1, AppendToOther, AppendVotes DEF SameRows

LEMMA AppendOpenRows ==
  ASSUME NEW q \in Seq(Writes), NEW d, NEW w \in Writes, OpenRows(q, d),
         w.kind = "session" => w.row.status \in Open
  PROVE  OpenRows(Append(q, w), d)
  BY AppendFacts DEF OpenRows

-----------------------------------------------------------------------------
(* The methods of SessionManager *)

LEMMA EnqueueFields ==
  ASSUME NEW m \in Live, NEW w \in Writes
  PROVE  /\ Enqueue(m, w) \in Live
         /\ Enqueue(m, w).session = m.session
         /\ Enqueue(m, w).engine = m.engine
         /\ Enqueue(m, w).log = m.log
         /\ Enqueue(m, w).queue = Append(m.queue, w)
<1>1. Append(m.queue, w) \in Seq(Writes)
  BY LiveFields, AppendFacts
<1>. QED
  BY <1>1 DEF Enqueue, Live

(* An event: after it the session has the same rows. *)
LEMMA EmitFields ==
  ASSUME NEW m \in Live, NEW body \in Bodies
  PROVE  LET u == Emit(m, body)
         IN  /\ u \in Live
             /\ u.session = m.session /\ u.engine = m.engine
             /\ \E w \in Writes : w.kind = "event" /\ u.queue = Append(m.queue, w)
<1> DEFINE w == [kind |-> "event", row |-> [sequence |-> Len(m.log), body |-> body]]
           n == Enqueue(m, w)
           u == [n EXCEPT !.log = Append(m.log, body)]
<1>1. m.log \in Seq(Bodies) /\ Len(m.log) \in Nat /\ Append(m.log, body) \in Seq(Bodies)
  BY LiveFields, LenProperties, AppendProperties
<1>2. [sequence |-> Len(m.log), body |-> body] \in Events
  BY <1>1 DEF Events
<1>3. w \in Writes /\ w.kind = "event"
  BY <1>2, WritesOfKind
<1>4. n \in Live /\ n.session = m.session /\ n.engine = m.engine
      /\ n.log = m.log /\ n.queue = Append(m.queue, w)
  BY <1>3, EnqueueFields
<1>5. Emit(m, body) = [n EXCEPT !.log = Append(@, body)]
  BY DEF Emit
<1> HIDE DEF w, n
<1>6. Emit(m, body) = u
  BY <1>4, <1>5 DEF Live
<1>7. u \in Live /\ u.session = n.session /\ u.engine = n.engine /\ u.queue = n.queue
  BY <1>1, <1>4 DEF Live
<1> HIDE DEF u
<1>. QED
  BY <1>3, <1>4, <1>6, <1>7

(* The session is in the store or will be, and nothing final is. *)
OpenState(m, d) ==
  /\ LiveType(m)
  /\ m.session.status \in Open
  /\ OpenRows(m.queue, d)

LEMMA EnqueueOpen ==
  ASSUME NEW m, NEW d, OpenState(m, d), NEW w \in Writes, w.kind # "session"
  PROVE  OpenState(Enqueue(m, w), d)
<1>1. m \in Live /\ m.queue \in Seq(Writes)
  BY LiveFields DEF OpenState, LiveType
<1>. QED
  BY <1>1, EnqueueFields, AppendOpenRows DEF OpenState, LiveType

(* _transition *)
LEMMA TransitionFields ==
  ASSUME NEW m \in Live, m.engine.version <= MaxProposals, NEW status \in Open,
         NEW d, OpenRows(m.queue, d)
  PROVE  LET u == Transition(m, status)
         IN  /\ OpenState(u, d)
             /\ u.session.status = status
             /\ u.engine = m.engine
             /\ Ahead(u.queue, d, 0, u.session)
             /\ SameRows(m.queue, u.queue, d)
<1> DEFINE s == [m.session EXCEPT !.status = status]
           m1 == [m EXCEPT !.session.status = status]
           w == [kind |-> "session", row |-> s]
           m2 == PersistSession(m1)
           u == Emit(m2, status)
<1>1. m.session \in Sessions /\ m.queue \in Seq(Writes)
  BY LiveFields
<1>2. s \in Sessions /\ s.status = status
  BY <1>1 DEF Sessions, Open
<1>3. m1 \in Live /\ m1.session = s /\ m1.engine = m.engine /\ m1.queue = m.queue
  <2>1. s \in Sessions
    BY <1>2
  <2>2. m1 = [m EXCEPT !.session = s]
    BY DEF Live
  <2> HIDE DEF s, m1
  <2>. QED
    BY <2>1, <2>2 DEF Live
<1>4. w \in Writes /\ w.kind = "session" /\ w.row = s
  BY <1>2, WritesOfKind
<1> HIDE DEF s, m1
<1>5. m2 = Enqueue(m1, w)
  BY <1>3 DEF PersistSession
<1> HIDE DEF w, m2
<1>6. m2 \in Live /\ m2.session = s /\ m2.engine = m.engine /\ m2.queue = Append(m.queue, w)
  BY <1>3, <1>4, <1>5, EnqueueFields
<1>7. status \in Bodies
  BY DEF Bodies
<1>8. /\ u \in Live /\ u.session = s /\ u.engine = m.engine
      /\ \E e \in Writes : e.kind = "event" /\ u.queue = Append(m2.queue, e)
  BY <1>6, <1>7, EmitFields
<1>9. PICK e \in Writes : e.kind = "event" /\ u.queue = Append(Append(m.queue, w), e)
  BY <1>6, <1>8
<1>10. Transition(m, status) = u
  BY DEF Transition, m1, m2
<1> HIDE DEF u
<1>11. Append(m.queue, w) \in Seq(Writes)
  BY <1>1, <1>4, AppendFacts
<1>12. OpenRows(u.queue, d)
  BY <1>1, <1>2, <1>4, <1>9, <1>11, AppendOpenRows
<1>13. Ahead(u.queue, d, 0, s)
  <2>1. IsOf(w, 0) /\ Value(w) = s /\ ~IsOf(e, 0) /\ 0 \in Keys
    BY <1>4, <1>9, BoundsType DEF IsOf, Value, Keys
  <2>2. Ahead(Append(m.queue, w), d, 0, s)
    BY <1>1, <1>4, <2>1, AppendToRow
  <2>. QED
    BY <1>9, <1>11, <2>1, <2>2, AppendToOther
<1>14. SameRows(m.queue, u.queue, d)
  <2>1. SameRows(m.queue, Append(m.queue, w), d)
    BY <1>1, <1>4, AppendElsewhere
  <2>2. SameRows(Append(m.queue, w), u.queue, d)
    BY <1>9, <1>11, AppendElsewhere
  <2>. QED
    BY <2>1, <2>2, SameRowsTrans
<1>. QED
  BY <1>2, <1>8, <1>10, <1>12, <1>13, <1>14 DEF OpenState, LiveType

(* Of a queue in which nothing is final, followed by a final row and events. *)
LEMMA FinalRowsAppend ==
  ASSUME NEW q \in Seq(Writes), NEW d, OpenRows(q, d), NEW w \in Writes,
         w.kind = "session"
  PROVE  FinalRows(Append(q, w), d, w.row)
<1> DEFINE p == Append(q, w)
           n == Len(q) + 1
<1>1. /\ Len(p) = n /\ p[n] = w
      /\ \A i \in 1..Len(q) : i \in 1..n /\ p[i] = q[i]
      /\ \A i \in 1..n : (i \in 1..Len(q) \/ i = n) /\ i <= n
  BY AppendFacts
<1>2. n \in Nat
  BY AppendFacts
<1> HIDE DEF p, n
<1>3. \A j \in 1..n : ~(j > n)
  BY <1>1, <1>2
<1>4. d.session.status \notin Final
  BY DEF OpenRows, Open, Final
<1>. QED
  BY <1>1, <1>3, <1>4 DEF FinalRows, OpenRows, p

LEMMA FinalRowsEvent ==
  ASSUME NEW q \in Seq(Writes), NEW d, NEW s, FinalRows(q, d, s), NEW w \in Writes,
         w.kind = "event"
  PROVE  FinalRows(Append(q, w), d, s)
<1> DEFINE p == Append(q, w)
           n == Len(q) + 1
<1>1. /\ Len(p) = n /\ p[n] = w
      /\ \A i \in 1..Len(q) : i \in 1..n /\ p[i] = q[i]
      /\ \A i \in 1..n : i \in 1..Len(q) \/ i = n
  BY AppendFacts
<1> HIDE DEF p, n
<1>. QED
  BY <1>1 DEF FinalRows, p

(* _finalize *)
LEMMA FinalizeFields ==
  ASSUME NEW m, NEW d, OpenState(m, d), NEW status \in Final, NEW result \in 0..MaxProposals
  PROVE  LET u == Finalize(m, status, result)
         IN  /\ LiveType(u)
             /\ u.session = [status |-> status, result |-> result]
             /\ u.engine = m.engine
             /\ FinalRows(u.queue, d, u.session)
             /\ Ahead(u.queue, d, 0, u.session)
             /\ SameRows(m.queue, u.queue, d)
<1> DEFINE s == [status |-> status, result |-> result]
           m1 == [m EXCEPT !.session = s]
           w == [kind |-> "session", row |-> s]
           m2 == PersistSession(m1)
           m3 == Emit(m2, status)
           m4 == Emit(m3, "result")
           u == Finalize(m, status, result)
<1>0. m \in Live /\ m.engine.version <= MaxProposals /\ m.queue \in Seq(Writes)
      /\ OpenRows(m.queue, d) /\ ~Terminal(m)
  BY LiveFields DEF OpenState, LiveType, Terminal, Open, Final
<1>1. u = IF status = "completed" THEN m4 ELSE m3
  BY <1>0 DEF Finalize
<1>2. s \in Sessions
  BY DEF Sessions
<1>3. m1 \in Live /\ m1.session = s /\ m1.engine = m.engine /\ m1.queue = m.queue
  BY <1>0, <1>2 DEF Live
<1>4. w \in Writes /\ w.kind = "session" /\ w.row = s
  BY <1>2, WritesOfKind
<1> HIDE DEF s, m1
<1>5. m2 = Enqueue(m1, w)
  BY <1>3 DEF PersistSession
<1> HIDE DEF w, m2
<1>6. m2 \in Live /\ m2.session = s /\ m2.engine = m.engine /\ m2.queue = Append(m.queue, w)
  BY <1>3, <1>4, <1>5, EnqueueFields
<1>7. status \in Bodies /\ "result" \in Bodies
  BY DEF Bodies
<1> DEFINE Good(x) == /\ x \in Live /\ x.session = s /\ x.engine = m.engine
                      /\ x.queue \in Seq(Writes)
                      /\ FinalRows(x.queue, d, s)
                      /\ Ahead(x.queue, d, 0, s)
                      /\ SameRows(m.queue, x.queue, d)
<1>8. Good(m2)
  <2>1. IsOf(w, 0) /\ Value(w) = s /\ 0 \in Keys
    BY <1>4, BoundsType DEF IsOf, Value, Keys
  <2>2. Ahead(Append(m.queue, w), d, 0, s)
    BY <1>0, <1>4, <2>1, AppendToRow
  <2>3. FinalRows(Append(m.queue, w), d, s)
    BY <1>0, <1>4, FinalRowsAppend
  <2>4. SameRows(m.queue, Append(m.queue, w), d)
    BY <1>0, <1>4, AppendElsewhere
  <2>. QED
    BY <1>0, <1>4, <1>6, <2>2, <2>3, <2>4, AppendFacts
<1>9. ASSUME NEW x, Good(x), NEW body \in Bodies
      PROVE  Good(Emit(x, body))
  <2> DEFINE y == Emit(x, body)
  <2>1. /\ y \in Live /\ y.session = s /\ y.engine = m.engine
        /\ \E e \in Writes : e.kind = "event" /\ y.queue = Append(x.queue, e)
    BY <1>9, EmitFields
  <2> HIDE DEF y
  <2>2. PICK e \in Writes : e.kind = "event" /\ y.queue = Append(x.queue, e)
    BY <2>1
  <2>3. ~IsOf(e, 0) /\ 0 \in Keys
    BY <2>2, BoundsType DEF IsOf, Keys
  <2>4. Ahead(y.queue, d, 0, s)
    BY <1>9, <2>2, <2>3, AppendToOther
  <2>5. FinalRows(y.queue, d, s)
    BY <1>9, <2>2, FinalRowsEvent
  <2>6. SameRows(m.queue, y.queue, d)
    BY <1>9, <2>2, AppendElsewhere, SameRowsTrans
  <2>7. y.queue \in Seq(Writes)
    BY <2>1, LiveFields
  <2>. QED
    BY <2>1, <2>4, <2>5, <2>6, <2>7 DEF y
<1> HIDE DEF Good
<1>10. Good(m3) /\ Good(m4)
  BY <1>7, <1>8, <1>9
<1>11. Good(u)
  BY <1>1, <1>10
<1> HIDE DEF u, m3, m4
<1>12. /\ LiveType(u) /\ u.session = s /\ u.engine = m.engine
       /\ FinalRows(u.queue, d, u.session) /\ Ahead(u.queue, d, 0, u.session)
       /\ SameRows(m.queue, u.queue, d)
  BY <1>0, <1>11 DEF Good, LiveType
<1>. QED
  BY <1>12 DEF u, s

(* _persist_proposal: one proposal has a new status. *)
LEMMA PersistProposalFields ==
  ASSUME NEW m, NEW d, OpenState(m, d), NEW n \in 1..MaxProposals, NEW status \in Statuses
  PROVE  LET u == PersistProposal(m, n, status)
         IN  /\ OpenState(u, d)
             /\ u.session = m.session /\ u.engine = m.engine
             /\ Ahead(u.queue, d, n, status)
             /\ \A x \in Keys : \A value :
                  x # n /\ Ahead(m.queue, d, x, value) => Ahead(u.queue, d, x, value)
             /\ \A row \in Votes : VoteAhead(u.queue, d, row) <=> VoteAhead(m.queue, d, row)
<1> DEFINE w == [kind |-> "proposal", version |-> n, status |-> status]
           u == PersistProposal(m, n, status)
<1>1. w \in Writes /\ w.kind = "proposal" /\ w.version = n /\ w.status = status
  BY WritesOfKind
<1>2. u = Enqueue(m, w)
  BY DEF PersistProposal
<1>3. m \in Live /\ m.queue \in Seq(Writes)
  BY LiveFields DEF OpenState, LiveType
<1> HIDE DEF w, u
<1>4. OpenState(u, d) /\ u.session = m.session /\ u.engine = m.engine
      /\ u.queue = Append(m.queue, w)
  BY <1>1, <1>2, <1>3, EnqueueFields, EnqueueOpen
<1>5. n \in Keys /\ n # 0
  BY BoundsType DEF Keys
<1>6. IsOf(w, n) /\ Value(w) = status /\ \A x \in Keys : x # n => ~IsOf(w, x)
  BY <1>1, <1>5 DEF IsOf, Value
<1>7. Ahead(u.queue, d, n, status)
  BY <1>1, <1>3, <1>4, <1>5, <1>6, AppendToRow
<1>8. ASSUME NEW x \in Keys, NEW value, x # n, Ahead(m.queue, d, x, value)
      PROVE  Ahead(u.queue, d, x, value)
  BY <1>1, <1>3, <1>4, <1>6, <1>8, AppendToOther
<1>9. \A row \in Votes : VoteAhead(u.queue, d, row) <=> VoteAhead(m.queue, d, row)
  BY <1>1, <1>3, <1>4, AppendVotes
<1>. QED
  BY <1>4, <1>7, <1>8, <1>9 DEF u

(* What the proposals and votes of a session look like depends on the queue only
   as far as SameRows goes. *)
LEMMA ChainSame ==
  ASSUME NEW q, NEW p, NEW d, NEW n, Chain(q, d, n), SameRows(q, p, d)
  PROVE  Chain(p, d, n)
<1>1. \A v \in 1..MaxProposals, a \in Agents, c \in Decisions : VoteRow(v, a, c) \in Votes
  BY DEF VoteRow, Votes
<1>. QED
  BY <1>1 DEF Chain, SameRows, Statuses

LEMMA BallotSame ==
  ASSUME NEW q, NEW p, NEW d, NEW e, e.version \in 1..MaxProposals,
         Ballot(q, d, e), SameRows(q, p, d)
  PROVE  Ballot(p, d, e)
<1>1. \A a \in Agents, c \in Decisions : VoteRow(e.version, a, c) \in Votes
  BY DEF VoteRow, Votes
<1>. QED
  BY <1>1 DEF Ballot, SameRows, Decisions

(* A session whose latest proposal is under vote, decided or not. *)
UnderVote(m, d, n) ==
  /\ OpenState(m, d)
  /\ m.session.status = "voting"
  /\ m.engine.open
  /\ Snapshot(m.engine)
  /\ n = 0 =>
       /\ Ahead(m.queue, d, 0, m.session)
       /\ Chain(m.queue, d, m.engine.version)
       /\ Ballot(m.queue, d, m.engine)
       /\ Ahead(m.queue, d, m.engine.version, "pending")

(* The rows of the latest proposal and the votes do not say who is asked. *)
LEMMA ResolvedFields ==
  ASSUME NEW m \in Live
  PROVE  LET u == Resolved(m)
         IN  /\ u \in Live
             /\ u.session = m.session /\ u.queue = m.queue
             /\ u.engine \in Engine /\ ~u.engine.open
             /\ u.engine.version = m.engine.version
             /\ u.engine.proposer = m.engine.proposer
             /\ u.engine.tally = m.engine.tally
             /\ u.engine.outcome = m.engine.outcome
             /\ m.engine.outcome # "approved" => u.engine.waiting = m.engine.version
<1> DEFINE e == Resolve(m.engine)
<1>1. m.engine \in Engine
  BY LiveFields
<1>2. /\ e \in Engine /\ ~e.open /\ e.version = m.engine.version
      /\ e.proposer = m.engine.proposer /\ e.tally = m.engine.tally
      /\ e.outcome = m.engine.outcome
      /\ m.engine.outcome # "approved" => e.waiting = m.engine.version
  BY <1>1 DEF Resolve, Engine
<1> HIDE DEF e
<1>3. Resolved(m) = [m EXCEPT !.engine = e]
  BY DEF Resolved, e
<1>. QED
  BY <1>2, <1>3 DEF Live

(* The proposal under vote gets its verdict. *)
LEMMA VerdictFields ==
  ASSUME NEW m, NEW d, NEW n, UnderVote(m, d, n), NEW status \in {"approved", "rejected"}
  PROVE  LET u == PersistProposal(Resolved(m), m.engine.version, status)
         IN  /\ OpenState(u, d)
             /\ u.session = m.session
             /\ ~u.engine.open
             /\ u.engine.version = m.engine.version
             /\ u.engine.outcome = m.engine.outcome
             /\ Snapshot(u.engine)
             /\ m.engine.outcome # "approved" => u.engine.waiting = u.engine.version
             /\ n = 0 => /\ Chain(u.queue, d, u.engine.version)
                         /\ Ballot(u.queue, d, u.engine)
                         /\ Ahead(u.queue, d, u.engine.version, status)
<1> DEFINE r == Resolved(m)
           v == m.engine.version
           u == PersistProposal(r, v, status)
<1>1. m \in Live /\ v <= MaxProposals /\ v \in Nat /\ v # 0
  BY LiveFields DEF UnderVote, OpenState, LiveType, Snapshot
<1>2. v \in 1..MaxProposals /\ status \in Statuses
  BY <1>1, BoundsType DEF Statuses
<1>3. /\ r \in Live /\ r.session = m.session /\ r.queue = m.queue
      /\ ~r.engine.open /\ r.engine.version = v
      /\ r.engine.proposer = m.engine.proposer
      /\ r.engine.tally = m.engine.tally
      /\ r.engine.outcome = m.engine.outcome
      /\ m.engine.outcome # "approved" => r.engine.waiting = v
  BY <1>1, ResolvedFields
<1> HIDE DEF r
<1>4. OpenState(r, d) /\ Snapshot(r.engine)
  BY <1>1, <1>3 DEF UnderVote, OpenState, LiveType, Snapshot
<1>5. /\ OpenState(u, d) /\ u.session = r.session /\ u.engine = r.engine
      /\ Ahead(u.queue, d, v, status)
      /\ \A x \in Keys : \A value : x # v /\ Ahead(r.queue, d, x, value)
                                 => Ahead(u.queue, d, x, value)
      /\ \A row \in Votes : VoteAhead(u.queue, d, row) <=> VoteAhead(r.queue, d, row)
  BY <1>2, <1>4, PersistProposalFields
<1> HIDE DEF u
<1>6. ASSUME n = 0
      PROVE  Chain(u.queue, d, v) /\ Ballot(u.queue, d, u.engine)
  <2>1. Chain(m.queue, d, v) /\ Ballot(m.queue, d, m.engine)
    BY <1>6 DEF UnderVote
  <2>2. \A x \in 1..MaxProposals, a \in Agents, c \in Decisions : VoteRow(x, a, c) \in Votes
    BY DEF VoteRow, Votes
  <2>3. \A x \in 1..MaxProposals : x \in Keys /\ x \in Int
    BY BoundsType DEF Keys
  <2>4. Chain(u.queue, d, v)
    <3>1. \A x \in 1..MaxProposals :
            (x < v => x # v) /\ (x > v => x # v)
      BY <1>1, <2>3
    <3>. QED
      BY <1>3, <1>5, <2>1, <2>2, <2>3, <3>1 DEF Chain
  <2>5. Ballot(u.queue, d, u.engine)
    <3>1. \A a \in Agents, c \in Decisions : VoteRow(v, a, c) \in Votes
      BY <1>2, <2>2
    <3>. QED
      BY <1>3, <1>5, <2>1, <3>1 DEF Ballot, Decisions
  <2>. QED
    BY <2>4, <2>5
<1>. QED
  BY <1>3, <1>4, <1>5, <1>6 DEF u, r

LEMMA FinalizeOK ==
  ASSUME NEW m, NEW d, NEW n, OpenState(m, d),
         NEW status \in {"failed", "cancelled", "interrupted"}
  PROVE  /\ LiveOK(Finalize(m, status, 0), d, n)
         /\ Finalize(m, status, 0).session.status = status
<1> DEFINE u == Finalize(m, status, 0)
<1>1. 0 \in 0..MaxProposals /\ status \in Final
  BY BoundsType DEF Final
<1>2. /\ LiveType(u) /\ u.session = [status |-> status, result |-> 0]
      /\ FinalRows(u.queue, d, u.session) /\ Ahead(u.queue, d, 0, u.session)
  BY <1>1, FinalizeFields
<1>3. u.session.status = status
  BY <1>2
<1> HIDE DEF u
<1>4. Rows(u, d) /\ Shape(u) /\ Complements(u, d)
  BY <1>2, <1>3 DEF Rows, Shape, Complements, Open
<1>5. LiveOK(u, d, n)
  BY <1>2, <1>4 DEF LiveOK
<1>. QED
  BY <1>3, <1>5 DEF u

(* _apply_outcome *)
LEMMA ApplyOutcomeOK ==
  ASSUME NEW m, NEW d, NEW n, UnderVote(m, d, n)
  PROVE  /\ LiveOK(ApplyOutcome(m), d, n)
         /\ ApplyOutcome(m).session.status # "none"
<1> DEFINE v == m.engine.version
           rejected == PersistProposal(Resolved(m), v, "rejected")
<1>0. m \in Live /\ v <= MaxProposals /\ v \in Nat /\ v # 0 /\ m.engine.outcome \in Outcomes
      /\ v \in 1..MaxProposals
  <2>1. m \in Live /\ v <= MaxProposals /\ v \in Nat /\ v # 0
    BY LiveFields DEF UnderVote, OpenState, LiveType, Snapshot
  <2>2. m.engine.outcome \in Outcomes
    BY <2>1, LiveFields DEF Engine
  <2>. QED
    BY <2>1, <2>2, BoundsType
<1>1. CASE m.engine.outcome = "pending"
  <2>1. ApplyOutcome(m) = m
    BY <1>1 DEF ApplyOutcome
  <2>2. Rows(m, d) /\ Shape(m)
    BY <1>1 DEF UnderVote, OpenState, Rows, Shape, Open, Final
  <2>3. n = 0 => Complements(m, d)
    BY DEF UnderVote, Complements
  <2>4. LiveOK(m, d, n)
    BY <2>2, <2>3 DEF LiveOK, UnderVote, OpenState
  <2>. QED
    BY <2>1, <2>4 DEF UnderVote
<1>2. CASE m.engine.outcome = "approved"
  <2> DEFINE a == PersistProposal(Resolved(m), v, "approved")
             u == Finalize(a, "completed", v)
  <2>1. ApplyOutcome(m) = u
    BY <1>2 DEF ApplyOutcome, Complete
  <2>2. /\ OpenState(a, d) /\ a.engine.version = v
        /\ a.engine.outcome = "approved" /\ Snapshot(a.engine)
        /\ n = 0 => /\ Chain(a.queue, d, v) /\ Ballot(a.queue, d, a.engine)
                    /\ Ahead(a.queue, d, v, "approved")
    BY <1>2, VerdictFields
  <2> HIDE DEF a
  <2>3. v \in 0..MaxProposals /\ "completed" \in Final
    BY <1>0 DEF Final
  <2>4. /\ LiveType(u) /\ u.session = [status |-> "completed", result |-> v]
        /\ u.engine = a.engine
        /\ FinalRows(u.queue, d, u.session) /\ Ahead(u.queue, d, 0, u.session)
        /\ SameRows(a.queue, u.queue, d)
    BY <2>2, <2>3, FinalizeFields
  <2> HIDE DEF u
  <2>5. u.session.status = "completed" /\ u.session.result = v
    BY <2>4
  <2>6. Rows(u, d) /\ Shape(u)
    BY <2>2, <2>4, <2>5 DEF Rows, Shape, Open
  <2>7. ASSUME n = 0
        PROVE  Complements(u, d)
    <3>1. Chain(u.queue, d, v) /\ Ballot(u.queue, d, u.engine)
      BY <1>0, <2>2, <2>4, <2>7, ChainSame, BallotSame
    <3>2. Ahead(u.queue, d, v, "approved")
      BY <1>0, <2>2, <2>4, <2>7 DEF SameRows, Statuses
    <3>. QED
      BY <2>2, <2>4, <2>5, <3>1, <3>2 DEF Complements
  <2>8. LiveOK(u, d, n)
    BY <2>4, <2>6, <2>7 DEF LiveOK
  <2>. QED
    BY <2>1, <2>5, <2>8
<1>3. CASE m.engine.outcome \in {"rejected", "no_quorum"}
  <2>1. /\ OpenState(rejected, d) /\ ~rejected.engine.open
        /\ rejected.engine.version = v /\ rejected.engine.waiting = v
        /\ n = 0 => Chain(rejected.queue, d, v)
    BY <1>3, VerdictFields
  <2> HIDE DEF rejected
  <2>2. CASE ApplyOutcome(m) = Finalize(rejected, "failed", 0)
    BY <2>1, <2>2, FinalizeOK
  <2>3. CASE ApplyOutcome(m) = Transition(rejected, "running")
    <3> DEFINE u == Transition(rejected, "running")
    <3>1. rejected \in Live /\ rejected.engine.version <= MaxProposals
          /\ OpenRows(rejected.queue, d) /\ "running" \in Open
      BY <2>1 DEF OpenState, LiveType, Open
    <3>2. /\ OpenState(u, d) /\ u.session.status = "running" /\ u.engine = rejected.engine
          /\ Ahead(u.queue, d, 0, u.session) /\ SameRows(rejected.queue, u.queue, d)
      BY <3>1, TransitionFields
    <3> HIDE DEF u
    <3>3. Rows(u, d) /\ Shape(u)
      BY <2>1, <3>2 DEF OpenState, Rows, Shape, Open, Final
    <3>4. n = 0 => Complements(u, d)
      BY <2>1, <3>2, ChainSame DEF Complements
    <3>5. LiveOK(u, d, n) /\ u.session.status # "none"
      BY <3>2, <3>3, <3>4 DEF LiveOK, OpenState
    <3>. QED
      BY <2>3, <3>5 DEF u
  <2>. QED
    BY <1>3, <2>2, <2>3 DEF ApplyOutcome, rejected
<1>. QED
  BY <1>0, <1>1, <1>2, <1>3 DEF Outcomes

-----------------------------------------------------------------------------
(* The handlers of the session *)

(* The votes or the ballot change together. *)
LEMMA VotingState ==
  ASSUME NEW m, NEW d, NEW n, LiveOK(m, d, n), m.session.status = "voting"
  PROVE  /\ UnderVote(m, d, n)
         /\ m.engine.outcome = "pending"
         /\ m \in Live /\ m.engine \in Engine /\ m.engine.tally \in Tally
         /\ m.engine.version \in 1..MaxProposals
<1>1. m \in Live /\ m.engine.version <= MaxProposals /\ m.engine.version # 0
      /\ m.engine.version \in Nat /\ m.engine \in Engine /\ m.engine.tally \in Tally
  BY LiveFields DEF LiveOK, LiveType, Shape, Snapshot
<1>2. m.engine.version \in 1..MaxProposals
  BY <1>1, BoundsType
<1>3. OpenState(m, d)
  BY DEF LiveOK, Rows, OpenState, Open
<1>4. UnderVote(m, d, n)
  BY <1>3 DEF LiveOK, Shape, Complements, UnderVote
<1>. QED
  BY <1>1, <1>2, <1>4 DEF LiveOK, Shape

(* A ballot that has grown, with the engine's verdict on it. *)
LEMMA RetallySnapshot ==
  ASSUME NEW e \in Engine, Snapshot(e), NEW t \in Tally, TallyOK(t), t.voters = e.tally.voters
  PROVE  LET f == Retally(e, t, Approval)
         IN  /\ f \in Engine /\ Snapshot(f) /\ f.tally = t
             /\ f.version = e.version /\ f.open = e.open
<1> DEFINE f == Retally(e, t, Approval)
<1>1. /\ f \in Engine /\ f.tally = t /\ f.outcome = Decide(t, Approval)
      /\ f.version = e.version /\ f.open = e.open /\ f.proposer = e.proposer
  BY RetallyType
<1> HIDE DEF f
<1>2. Snapshot(f)
  BY <1>1 DEF Snapshot
<1>. QED
  BY <1>1, <1>2 DEF f

LEMMA EngineReplaced ==
  ASSUME NEW m \in Live, NEW e \in Engine
  PROVE  LET u == [m EXCEPT !.engine = e]
         IN  /\ u \in Live /\ u.engine = e
             /\ u.session = m.session /\ u.queue = m.queue /\ u.log = m.log
  BY DEF Live

(* _record_abstention and _expire: the ballot grows, nothing is written. *)
LEMMA AbstentionOK ==
  ASSUME NEW m, NEW d, NEW n, LiveOK(m, d, n), m.session.status = "voting",
         NEW S \in SUBSET Agents,
         NEW e, e = Retally(m.engine, WithAbstained(m.engine.tally, S), Approval)
  PROVE  UnderVote([m EXCEPT !.engine = e], d, n)
<1> DEFINE t == WithAbstained(m.engine.tally, S)
           u == [m EXCEPT !.engine = e]
<1>1. /\ UnderVote(m, d, n) /\ m \in Live /\ m.engine \in Engine /\ m.engine.tally \in Tally
      /\ TallyOK(m.engine.tally) /\ Snapshot(m.engine)
  BY VotingState DEF UnderVote, Snapshot
<1>2. t \in Tally /\ TallyOK(t) /\ t.voters = m.engine.tally.voters
  BY <1>1, WithAbstainedSound DEF Later
<1>3. t.approvals = m.engine.tally.approvals /\ t.rejections = m.engine.tally.rejections
  BY <1>1 DEF WithAbstained, Tally
<1> HIDE DEF t
<1>4. /\ e \in Engine /\ Snapshot(e) /\ e.tally = t
      /\ e.version = m.engine.version /\ e.open = m.engine.open
  BY <1>1, <1>2, RetallySnapshot DEF t
<1>5. u \in Live /\ u.engine = e /\ u.session = m.session /\ u.queue = m.queue
  BY <1>1, <1>4, EngineReplaced
<1> HIDE DEF u
<1>6. n = 0 => Ballot(u.queue, d, u.engine)
  BY <1>1, <1>3, <1>4, <1>5 DEF UnderVote, Ballot
<1>7. OpenState(u, d)
  BY <1>1, <1>4, <1>5 DEF UnderVote, OpenState, LiveType
<1>8. UnderVote(u, d, n)
  BY <1>1, <1>4, <1>5, <1>6, <1>7 DEF UnderVote
<1>. QED
  BY <1>8 DEF u

(* _on_vote: the vote is in the ballot and on its way to the store. *)
LEMMA VoteOK ==
  ASSUME NEW m, NEW d, NEW n, LiveOK(m, d, n), m.session.status = "voting",
         NEW voter \in Agents, NEW decision \in Decisions,
         VoteAccepted(m.engine, voter, decision, TRUE)
  PROVE  UnderVote(
           Enqueue([m EXCEPT !.engine = ApplyVote(m.engine, voter, decision, Approval)],
                   [kind |-> "vote", row |-> VoteRow(m.engine.version, voter, decision)]),
           d, n)
<1> DEFINE v == m.engine.version
           t == WithVote(m.engine.tally, voter, decision)
           e == ApplyVote(m.engine, voter, decision, Approval)
           row == VoteRow(v, voter, decision)
           w == [kind |-> "vote", row |-> row]
           x == [m EXCEPT !.engine = e]
           u == Enqueue(x, w)
<1>1. /\ UnderVote(m, d, n) /\ m \in Live /\ m.engine \in Engine /\ m.engine.tally \in Tally
      /\ TallyOK(m.engine.tally) /\ Snapshot(m.engine) /\ v \in 1..MaxProposals
  BY VotingState DEF UnderVote, Snapshot
<1>2. voter \in Pending(m.engine.tally)
  BY DEF VoteAccepted, Pending
<1>3. t \in Tally /\ TallyOK(t) /\ t.voters = m.engine.tally.voters
  BY <1>1, <1>2, WithVoteSound DEF Later
<1>4. /\ t.approvals = IF decision = "approve" THEN m.engine.tally.approvals \cup {voter}
                       ELSE m.engine.tally.approvals
      /\ t.rejections = IF decision = "approve" THEN m.engine.tally.rejections
                        ELSE m.engine.tally.rejections \cup {voter}
  BY <1>1 DEF WithVote, Tally
<1>5. e = Retally(m.engine, t, Approval)
  BY DEF ApplyVote
<1>6. row \in Votes /\ w \in Writes /\ w.kind = "vote" /\ w.row = row
  BY <1>1, WritesOfKind DEF VoteRow, Votes
<1>7. /\ \A a \in Agents, c \in Decisions, y \in 1..MaxProposals :
           row = VoteRow(y, a, c) <=> (y = v /\ a = voter /\ c = decision)
  BY DEF VoteRow
<1> HIDE DEF t, e, row, w
<1>8. /\ e \in Engine /\ Snapshot(e) /\ e.tally = t /\ e.version = v /\ e.open = m.engine.open
  BY <1>1, <1>3, <1>5, RetallySnapshot
<1>9. x \in Live /\ x.engine = e /\ x.session = m.session /\ x.queue = m.queue
  BY <1>1, <1>8, EngineReplaced
<1> HIDE DEF x
<1>10. /\ OpenState(x, d) /\ x.queue \in Seq(Writes)
  BY <1>1, <1>8, <1>9, LiveFields DEF UnderVote, OpenState, LiveType
<1>11. /\ u \in Live /\ u.engine = e /\ u.session = m.session
       /\ u.queue = Append(m.queue, w) /\ OpenState(u, d)
  BY <1>6, <1>9, <1>10, EnqueueFields, EnqueueOpen
<1> HIDE DEF u
<1>12. \A z \in Keys : ~IsOf(w, z)
  BY <1>6 DEF IsOf
<1>13. \A z \in Keys : \A value : Ahead(m.queue, d, z, value) => Ahead(u.queue, d, z, value)
  BY <1>6, <1>9, <1>10, <1>11, <1>12, AppendToOther
<1>14. \A r : VoteAhead(u.queue, d, r) <=> VoteAhead(m.queue, d, r) \/ row = r
  BY <1>6, <1>9, <1>10, <1>11, AppendVotes
<1>15. \A y \in 1..MaxProposals : y \in Keys
  BY BoundsType DEF Keys
<1>16. ASSUME n = 0
       PROVE  /\ Ahead(u.queue, d, 0, u.session)
              /\ Chain(u.queue, d, v)
              /\ Ballot(u.queue, d, e)
              /\ Ahead(u.queue, d, v, "pending")
  <2>1. /\ Ahead(m.queue, d, 0, m.session) /\ Chain(m.queue, d, v)
        /\ Ballot(m.queue, d, m.engine) /\ Ahead(m.queue, d, v, "pending")
    BY <1>16, <1>1 DEF UnderVote
  <2>2. Chain(u.queue, d, v)
    <3>1. \A y \in 1..MaxProposals : y > v => y # v
      BY <1>1, BoundsType
    <3>. QED
      BY <1>7, <1>13, <1>14, <1>15, <2>1, <3>1 DEF Chain
  <2>3. Ballot(u.queue, d, e)
    <3> SUFFICES ASSUME NEW a \in Agents
                 PROVE  /\ VoteAhead(u.queue, d, VoteRow(v, a, "approve")) <=> a \in t.approvals
                        /\ VoteAhead(u.queue, d, VoteRow(v, a, "reject")) <=> a \in t.rejections
      BY <1>8 DEF Ballot
    <3>1. /\ VoteAhead(m.queue, d, VoteRow(v, a, "approve")) <=> a \in m.engine.tally.approvals
          /\ VoteAhead(m.queue, d, VoteRow(v, a, "reject")) <=> a \in m.engine.tally.rejections
      BY <2>1 DEF Ballot
    <3>2. /\ row = VoteRow(v, a, "approve") <=> (a = voter /\ decision = "approve")
          /\ row = VoteRow(v, a, "reject") <=> (a = voter /\ decision = "reject")
      BY <1>1, <1>7 DEF Decisions
    <3>3. decision = "approve" \/ decision = "reject"
      BY DEF Decisions
    <3>4. VoteAhead(u.queue, d, VoteRow(v, a, "approve")) <=> a \in t.approvals
      BY <1>4, <1>14, <3>1, <3>2, <3>3
    <3>5. VoteAhead(u.queue, d, VoteRow(v, a, "reject")) <=> a \in t.rejections
      BY <1>4, <1>14, <3>1, <3>2, <3>3
    <3>. QED
      BY <3>4, <3>5
  <2>4. 0 \in Keys
    BY BoundsType DEF Keys
  <2>. QED
    BY <1>1, <1>11, <1>13, <1>15, <2>1, <2>2, <2>3, <2>4
<1>17. UnderVote(u, d, n)
  BY <1>1, <1>8, <1>11, <1>16 DEF UnderVote
<1>. QED
  BY <1>17 DEF u, x, w, row, e

(* open_proposal *)
LEMMA OpenedFields ==
  ASSUME NEW e \in Engine, NEW p \in Proposers
  PROVE  LET f == OpenProposal(e, p, Voters, Approval)
         IN  /\ f \in Engine /\ f.version = e.version + 1 /\ f.replaced = e.waiting
             /\ f.open /\ Snapshot(f)
             /\ f.tally.approvals = {} /\ f.tally.rejections = {}
<1> DEFINE f == OpenProposal(e, p, Voters, Approval)
           ballot == NewTally(Voters \ {p})
<1>1. p \in Agents /\ Voters \in SUBSET Agents
  BY RolesAssumption
<1>2. /\ f \in Engine /\ f.version = e.version + 1 /\ f.replaced = e.waiting
      /\ f.proposer = p /\ f.tally = ballot /\ f.outcome = Decide(f.tally, Approval)
  BY <1>1, OpenProposalType
<1>3. f.open
  BY <1>1, NextVersionType DEF OpenProposal, Engine
<1>4. ballot \in Tally /\ TallyOK(ballot)
  BY <1>1, NewTallySound
<1>5. ballot.voters = Voters \ {p} /\ ballot.approvals = {} /\ ballot.rejections = {}
  BY DEF NewTally
<1>6. e.version + 1 # 0
  BY DEF Engine
<1> HIDE DEF f, ballot
<1>7. Snapshot(f)
  BY <1>2, <1>4, <1>5, <1>6 DEF Snapshot
<1>. QED
  BY <1>2, <1>3, <1>5, <1>7 DEF f

(* _submit_proposal: the proposal is under vote, the one before superseded. *)
LEMMA SubmitOK ==
  ASSUME NEW m, NEW d, NEW n, LiveOK(m, d, n), m.session.status = "running",
         m.engine.version < MaxProposals, NEW proposer \in Proposers,
         NEW opened, opened = OpenProposal(m.engine, proposer, Voters, Approval),
         NEW saved, saved = PersistProposal([m EXCEPT !.engine = opened], opened.version, "pending"),
         NEW closed, closed = IF opened.replaced # 0
                              THEN PersistProposal(saved, opened.replaced, "superseded")
                              ELSE saved
  PROVE  UnderVote(Transition(closed, "voting"), d, n)
<1> DEFINE v == m.engine.version
           k == v + 1
           x == [m EXCEPT !.engine = opened]
           u == Transition(closed, "voting")
<1>1. /\ m \in Live /\ m.engine \in Engine /\ v \in Nat /\ v < MaxProposals
      /\ MaxProposals \in Nat /\ m.engine.waiting = v
      /\ m.queue \in Seq(Writes) /\ OpenRows(m.queue, d)
  BY LiveFields, BoundsType DEF LiveOK, LiveType, Shape, Rows, Open
<1>2. n = 0 => Ahead(m.queue, d, 0, m.session) /\ Chain(m.queue, d, v)
  BY DEF LiveOK, Complements
<1>4. /\ opened \in Engine /\ opened.version = k /\ opened.replaced = v
      /\ opened.open /\ Snapshot(opened)
      /\ opened.tally.approvals = {} /\ opened.tally.rejections = {}
  <2> DEFINE e == m.engine
             f == OpenProposal(e, proposer, Voters, Approval)
  <2>1. e \in Engine
    BY <1>1
  <2> HIDE DEF e
  <2>2. /\ f \in Engine /\ f.version = e.version + 1 /\ f.replaced = e.waiting
        /\ f.open /\ Snapshot(f)
        /\ f.tally.approvals = {} /\ f.tally.rejections = {}
    BY <2>1, OpenedFields
  <2>3. opened = f
    BY DEF e
  <2> HIDE DEF f
  <2>. QED
    BY <1>1, <2>2, <2>3 DEF e
<1>8. k \in 1..MaxProposals /\ k # 0 /\ k <= MaxProposals
  BY <1>1
<1>10. x \in Live /\ x.engine = opened /\ x.session = m.session /\ x.queue = m.queue
  BY <1>1, <1>4, EngineReplaced
<1> HIDE DEF x
<1>11. OpenState(x, d)
  BY <1>1, <1>4, <1>8, <1>10 DEF OpenState, LiveType, Open
<1>12. "pending" \in Statuses /\ "superseded" \in Statuses
  BY DEF Statuses
<1>13. /\ OpenState(saved, d) /\ saved.session = m.session /\ saved.engine = opened
       /\ Ahead(saved.queue, d, k, "pending")
       /\ \A z \in Keys : \A value : z # k /\ Ahead(m.queue, d, z, value)
                                  => Ahead(saved.queue, d, z, value)
       /\ \A row \in Votes : VoteAhead(saved.queue, d, row) <=> VoteAhead(m.queue, d, row)
  <2>1. saved = PersistProposal(x, k, "pending")
    BY <1>4 DEF x
  <2> DEFINE y == PersistProposal(x, k, "pending")
  <2>2. /\ OpenState(y, d) /\ y.session = x.session /\ y.engine = x.engine
        /\ Ahead(y.queue, d, k, "pending")
        /\ \A z \in Keys : \A value : z # k /\ Ahead(x.queue, d, z, value)
                                   => Ahead(y.queue, d, z, value)
        /\ \A row \in Votes : VoteAhead(y.queue, d, row) <=> VoteAhead(x.queue, d, row)
    <3> HIDE DEF k
    <3>. QED
      BY <1>8, <1>11, <1>12, PersistProposalFields
  <2>3. saved = y
    BY <2>1
  <2> HIDE DEF y, k
  <2>. QED
    BY <1>10, <2>2, <2>3
<1>14. /\ OpenState(closed, d) /\ closed.session = m.session /\ closed.engine = opened
       /\ v # 0 => Ahead(closed.queue, d, v, "superseded")
       /\ \A z \in Keys : \A value : z # v /\ Ahead(saved.queue, d, z, value)
                                  => Ahead(closed.queue, d, z, value)
       /\ \A row \in Votes : VoteAhead(closed.queue, d, row) <=> VoteAhead(m.queue, d, row)
  <2>1. CASE v = 0
    BY <1>4, <1>13, <2>1
  <2>2. CASE v # 0
    <3>1. v \in 1..MaxProposals
      BY <1>1, <2>2
    <3>2. closed = PersistProposal(saved, v, "superseded")
      BY <1>4, <2>2
    <3> DEFINE y == PersistProposal(saved, v, "superseded")
    <3>3. /\ OpenState(y, d) /\ y.session = saved.session /\ y.engine = saved.engine
          /\ Ahead(y.queue, d, v, "superseded")
          /\ \A z \in Keys : \A value : z # v /\ Ahead(saved.queue, d, z, value)
                                     => Ahead(y.queue, d, z, value)
          /\ \A row \in Votes : VoteAhead(y.queue, d, row) <=> VoteAhead(saved.queue, d, row)
      <4>1. OpenState(saved, d) /\ "superseded" \in Statuses
        BY <1>12, <1>13
      <4> HIDE DEF v
      <4>. QED
        BY <3>1, <4>1, PersistProposalFields
    <3>4. closed = y
      BY <3>2
    <3> HIDE DEF y, v
    <3>. QED
      BY <1>13, <3>3, <3>4
  <2>. QED
    BY <2>1, <2>2
<1>15. ASSUME n = 0
       PROVE  /\ Ahead(closed.queue, d, k, "pending")
              /\ Chain(closed.queue, d, k)
              /\ Ballot(closed.queue, d, opened)
  <2>1. /\ \A z \in 1..MaxProposals : z < v => Ahead(m.queue, d, z, "superseded")
        /\ \A z \in 1..MaxProposals : z > v => Ahead(m.queue, d, z, "none")
        /\ \A z \in 1..MaxProposals, a \in Agents, c \in Decisions :
              z > v => ~VoteAhead(m.queue, d, VoteRow(z, a, c))
    BY <1>2, <1>15 DEF Chain
  <2>2. \A z \in 1..MaxProposals : z \in Keys /\ z \in Nat
    BY <1>1 DEF Keys
  <2>3. \A z \in 1..MaxProposals, a \in Agents, c \in Decisions : VoteRow(z, a, c) \in Votes
    BY DEF VoteRow, Votes
  <2>4. Ahead(closed.queue, d, k, "pending")
    <3>1. k # v /\ k \in Keys
      BY <1>1, <1>8, <2>2
    <3>. QED
      BY <1>13, <1>14, <3>1
  <2>5. ASSUME NEW z \in 1..MaxProposals, z < k
        PROVE  Ahead(closed.queue, d, z, "superseded")
    <3>1. CASE z = v
      <4>1. v # 0
        BY <3>1, BoundsType
      <4>. QED
        BY <1>14, <3>1, <4>1
    <3>2. CASE z # v
      <4>1. z < v /\ z # k
        BY <1>1, <2>2, <2>5, <3>2
      <4>. QED
        BY <1>13, <1>14, <2>1, <2>2, <3>2, <4>1
    <3>. QED
      BY <3>1, <3>2
  <2>6. ASSUME NEW z \in 1..MaxProposals, z > k
        PROVE  Ahead(closed.queue, d, z, "none")
    <3>1. z > v /\ z # v /\ z # k
      BY <1>1, <2>2, <2>6
    <3>. QED
      BY <1>13, <1>14, <2>1, <2>2, <3>1
  <2>7. \A z \in 1..MaxProposals : (z > k => z > v) /\ (z = k => z > v)
    BY <1>1, <2>2
  <2>8. Chain(closed.queue, d, k)
    BY <1>14, <2>1, <2>3, <2>5, <2>6, <2>7 DEF Chain
  <2>9. Ballot(closed.queue, d, opened)
    BY <1>4, <1>8, <1>14, <2>1, <2>3, <2>7 DEF Ballot, Decisions
  <2>. QED
    BY <2>4, <2>8, <2>9
<1>16. /\ OpenState(u, d) /\ u.session.status = "voting" /\ u.engine = opened
       /\ Ahead(u.queue, d, 0, u.session) /\ SameRows(closed.queue, u.queue, d)
  <2>1. closed \in Live /\ closed.engine.version <= MaxProposals /\ OpenRows(closed.queue, d)
        /\ "voting" \in Open
    BY <1>14 DEF OpenState, LiveType, Open
  <2>. QED
    BY <1>14, <2>1, TransitionFields
<1> HIDE DEF u
<1>17. ASSUME n = 0
       PROVE  /\ Chain(u.queue, d, k) /\ Ballot(u.queue, d, opened)
              /\ Ahead(u.queue, d, k, "pending")
  BY <1>4, <1>8, <1>12, <1>15, <1>16, <1>17, ChainSame, BallotSame DEF SameRows
<1>18. UnderVote(u, d, n)
  BY <1>4, <1>16, <1>17 DEF UnderVote
<1>. QED
  BY <1>18 DEF u

LEMMA NoLiveFields ==
  /\ NoLive \in Live
  /\ NoLive.session = NoSession /\ NoLive.session.status = "none"
  /\ NoLive.engine = NewEngine /\ NoLive.queue = <<>>
  BY NoLiveType DEF NoLive, NoSession

LEMMA NoLiveOK ==
  ASSUME NEW d, NEW n
  PROVE  LiveOK(NoLive, d, n)
<1>1. NewEngine.version = 0
  BY DEF NewEngine
<1>2. LiveType(NoLive)
  BY <1>1, NoLiveFields, BoundsType DEF LiveType
<1>. QED
  BY <1>2, NoLiveFields DEF LiveOK, Rows, Shape, Open, Final

(* create_session and the beginning of run(), for an empty store. *)
LEMMA CreateOK ==
  ASSUME NEW n
  PROVE  LET u == Transition(Enqueue(NoLive, [kind |-> "team"]), "running")
         IN  LiveOK(u, EmptyDatabase, n) /\ u.session.status # "none"
<1> DEFINE d == EmptyDatabase
           w == [kind |-> "team"]
           m == Enqueue(NoLive, w)
           u == Transition(m, "running")
<1>1. /\ w \in Writes /\ w.kind = "team"
  BY WritesOfKind
<1>2. /\ NewEngine.version = 0 /\ NewEngine.waiting = 0 /\ ~NewEngine.open
  BY DEF NewEngine
<1>3. /\ d.session.status = "none" /\ d.votes = {}
      /\ \A v \in 1..MaxProposals : d.proposals[v] = "none"
  BY DEF EmptyDatabase, NoSession
<1> HIDE DEF d, w
<1>4. /\ m \in Live /\ m.engine = NewEngine /\ m.queue = Append(<<>>, w)
  BY <1>1, EnqueueFields, NoLiveFields
<1> HIDE DEF m
<1>5. <<>> \in Seq(Writes) /\ Len(<<>>) = 0 /\ 1..0 = {}
  BY EmptySeq
<1>6. OpenRows(<<>>, d)
  BY <1>3, <1>5 DEF OpenRows
<1>7. OpenRows(m.queue, d)
  BY <1>1, <1>4, <1>5, <1>6, AppendOpenRows
<1>8. "running" \in Open /\ m.engine.version <= MaxProposals
  BY <1>2, <1>4, BoundsType DEF Open
<1>9. /\ OpenState(u, d) /\ u.session.status = "running" /\ u.engine = NewEngine
      /\ Ahead(u.queue, d, 0, u.session) /\ SameRows(m.queue, u.queue, d)
  BY <1>4, <1>7, <1>8, TransitionFields
<1>10. SameRows(<<>>, u.queue, d)
  <2>1. SameRows(<<>>, m.queue, d)
    BY <1>1, <1>4, <1>5, AppendElsewhere
  <2>. QED
    BY <1>9, <2>1, SameRowsTrans
<1>11. Chain(<<>>, d, 0)
  <2>1. \A v \in 1..MaxProposals : v # 0 /\ ~(v < 0)
    BY BoundsType
  <2>. QED
    BY <1>3, <1>5, <2>1 DEF Chain, Ahead, VoteAhead, Stored
<1>12. Chain(u.queue, d, 0)
  BY <1>10, <1>11, ChainSame
<1> HIDE DEF u
<1>13. Rows(u, d) /\ Shape(u) /\ Complements(u, d)
  BY <1>2, <1>9, <1>12 DEF OpenState, Rows, Shape, Complements, Open, Final
<1>14. LiveOK(u, d, n) /\ u.session.status # "none"
  BY <1>9, <1>13 DEF LiveOK, OpenState
<1>. QED
  BY <1>14 DEF u, m, w, d

-----------------------------------------------------------------------------
(* The writer *)

LEMMA QueueReplaced ==
  ASSUME NEW m \in Live, NEW q \in Seq(Writes)
  PROVE  LET u == [m EXCEPT !.queue = q]
         IN  /\ u \in Live /\ u.queue = q
             /\ u.session = m.session /\ u.engine = m.engine /\ u.log = m.log
  BY DEF Live

(* The order of the rows, when the oldest has been written or lost. *)
LEMMA DequeueRows ==
  ASSUME NEW m \in Live, NEW d \in Database, Rows(m, d), m.queue # <<>>,
         NEW e \in Database, e = d \/ e = Written(d, Head(m.queue))
  PROVE  Rows([m EXCEPT !.queue = Tail(m.queue)], e)
<1> DEFINE q == m.queue
           t == Tail(q)
           w == Head(q)
           u == [m EXCEPT !.queue = t]
<1>0. q \in Seq(Writes) /\ q # <<>>
  BY LiveFields
<1>1. /\ w \in Writes /\ w = q[1] /\ 1 \in 1..Len(q) /\ t \in Seq(Writes)
      /\ \A i \in 1..Len(t) : i + 1 \in 1..Len(q) /\ t[i] = q[i + 1]
  BY <1>0, TailFacts
<1>2. u \in Live /\ u.queue = t /\ u.session = m.session
  BY <1>1, QueueReplaced
<1>3. e.session = d.session \/ (e.session = w.row /\ w.kind = "session")
  <2> DEFINE x == Written(d, w)
  <2>1. w \in Writes /\ (e = d \/ e = x)
    BY <1>1
  <2>2. x.session = IF w.kind = "session" THEN w.row ELSE d.session
    <3> HIDE DEF w
    <3>. QED
      BY <2>1, WrittenFields
  <2> HIDE DEF x, w
  <2>. QED
    BY <2>1, <2>2
<1> HIDE DEF q, t, w, u
<1>4. ASSUME OpenRows(q, d)
      PROVE  OpenRows(t, e)
  BY <1>1, <1>3, <1>4 DEF OpenRows
<1>5. ASSUME FinalRows(q, d, m.session)
      PROVE  FinalRows(t, e, m.session)
  <2>1. \A i \in 1..Len(t), j \in 1..Len(t) : j > i => j + 1 > i + 1
    OBVIOUS
  <2>2. \A j \in 1..Len(t) : j + 1 > 1
    OBVIOUS
  <2>3. ASSUME NEW i \in 1..Len(t), t[i].kind = "session"
        PROVE  \/ t[i].row.status \in Open
               \/ t[i].row = m.session /\ \A j \in 1..Len(t) : j > i => t[j].kind = "event"
    <3>1. i + 1 \in 1..Len(q) /\ q[i + 1] = t[i] /\ q[i + 1].kind = "session"
      BY <1>1, <2>3
    <3>2. CASE q[i + 1].row.status \in Open
      BY <3>1, <3>2
    <3>3. CASE q[i + 1].row.status \notin Open
      <4>1. /\ q[i + 1].row = m.session
            /\ \A k \in 1..Len(q) : k > i + 1 => q[k].kind = "event"
        BY <1>5, <3>1, <3>3 DEF FinalRows
      <4>2. \A j \in 1..Len(t) : j > i => q[j + 1].kind = "event"
        BY <1>1, <2>1, <4>1
      <4>. QED
        BY <1>1, <3>1, <4>1, <4>2
    <3>. QED
      BY <3>2, <3>3
  <2>4. ASSUME e.session.status \in Final
        PROVE  e.session = m.session /\ \A j \in 1..Len(t) : t[j].kind = "event"
    <3>1. CASE e.session = d.session
      BY <1>1, <1>5, <2>4, <3>1 DEF FinalRows
    <3>2. CASE e.session = w.row /\ w.kind = "session"
      <4>1. w.row.status \notin Open
        BY <2>4, <3>2 DEF Open, Final
      <4>. QED
        BY <1>1, <1>5, <2>2, <3>2, <4>1 DEF FinalRows
    <3>. QED
      BY <1>3, <3>1, <3>2
  <2>. QED
    BY <2>3, <2>4 DEF FinalRows
<1>6. Rows(u, e)
  BY <1>2, <1>4, <1>5 DEF Rows, q
<1>. QED
  BY <1>6 DEF u, t, q

LEMMA CommitOK ==
  ASSUME NEW m, NEW d \in Database, NEW n, LiveOK(m, d, n), m.queue # <<>>
  PROVE  LiveOK([m EXCEPT !.queue = Tail(m.queue)], Written(d, Head(m.queue)), n)
<1> DEFINE q == m.queue
           t == Tail(q)
           e == Written(d, Head(q))
           u == [m EXCEPT !.queue = t]
<1>0. m \in Live /\ q \in Seq(Writes) /\ q # <<>> /\ t \in Seq(Writes) /\ e \in Database
  <2>1. m \in Live /\ q \in Seq(Writes) /\ q # <<>>
    BY LiveFields DEF LiveOK, LiveType
  <2>. QED
    BY <2>1, TailFacts, WrittenFields
<1>1. u \in Live /\ u.queue = t /\ u.session = m.session /\ u.engine = m.engine
  BY <1>0, QueueReplaced
<1>2. Rows(u, e)
  BY <1>0, DequeueRows DEF LiveOK
<1>3. \A x \in Keys : \A value : Ahead(q, d, x, value) => Ahead(t, e, x, value)
  BY <1>0, CommitRow
<1>4. \A row : VoteAhead(t, e, row) <=> VoteAhead(q, d, row)
  BY <1>0, CommitVotes
<1> HIDE DEF u, e, t
<1>5. LiveType(u) /\ Shape(u)
  BY <1>1 DEF LiveOK, LiveType, Shape
<1>6. ASSUME n = 0, m.session.status # "none"
      PROVE  Complements(u, e)
  <2>1. Complements(m, d)
    BY <1>6 DEF LiveOK
  <2>2. 0 \in Keys /\ \A v \in 1..MaxProposals : v \in Keys
    BY BoundsType DEF Keys
  <2>3. \A v : Chain(q, d, v) => Chain(t, e, v)
    BY <1>3, <1>4, <2>2 DEF Chain
  <2>4. \A f : Ballot(q, d, f) => Ballot(t, e, f)
    BY <1>4 DEF Ballot
  <2>5. m.session.status \in {"voting", "completed"} => m.engine.version \in Keys
    BY <1>0, LiveFields, BoundsType DEF LiveOK, LiveType, Keys
  <2>. QED
    BY <1>1, <1>3, <2>1, <2>2, <2>3, <2>4, <2>5 DEF Complements
<1>7. LiveOK(u, e, n)
  BY <1>1, <1>2, <1>5, <1>6 DEF LiveOK
<1>. QED
  BY <1>7 DEF u, e, t

LEMMA LossOK ==
  ASSUME NEW m, NEW d \in Database, NEW n, LiveOK(m, d, n), m.queue # <<>>,
         NEW k \in Nat \ {0}
  PROVE  LiveOK([m EXCEPT !.queue = Tail(m.queue)], d, k)
<1> DEFINE t == Tail(m.queue)
           u == [m EXCEPT !.queue = t]
<1>0. m \in Live /\ m.queue \in Seq(Writes)
  BY LiveFields DEF LiveOK, LiveType
<1>1. u \in Live /\ u.session = m.session /\ u.engine = m.engine
  BY <1>0, TailFacts, QueueReplaced
<1>2. Rows(u, d)
  BY <1>0, DequeueRows DEF LiveOK
<1> HIDE DEF u
<1>3. LiveType(u) /\ Shape(u)
  BY <1>1 DEF LiveOK, LiveType, Shape
<1>4. LiveOK(u, d, k)
  BY <1>2, <1>3 DEF LiveOK
<1>. QED
  BY <1>4 DEF u

-----------------------------------------------------------------------------
(* The record of a decision *)

Cast(d, c) == {a \in Agents : VoteRow(d.session.result, a, c) \in d.votes}

Restored(d, p) ==
  [voters     |-> Voters \ {p},
   approvals  |-> Cast(d, "approve"),
   rejections |-> Cast(d, "reject"),
   abstained  |-> (Voters \ {p}) \ (Cast(d, "approve") \cup Cast(d, "reject"))]

Restorable(d) ==
  d.session.status = "completed" =>
    /\ d.session.result # 0
    /\ d.proposals[d.session.result] = "approved"
    /\ \A v \in 1..MaxProposals : v < d.session.result => d.proposals[v] = "superseded"
    /\ \E p \in Proposers \ (Cast(d, "approve") \cup Cast(d, "reject")) :
         Decide(Restored(d, p), Approval) = "approved"

LEMMA RestorableIs == DecisionRestorable <=> (failures = 0 => Restorable(db))
  BY DEF DecisionRestorable, Restorable, Restored, Cast, VoteRow

(* When a completed session is in the store, everything it decided with is. *)
LEMMA CompletedRestorable ==
  ASSUME NEW m, NEW d \in Database, LiveOK(m, d, 0), m.session.status # "none",
         d.session.status = "completed"
  PROVE  Restorable(d)
<1> DEFINE v == m.engine.version
           t == m.engine.tally
           p == m.engine.proposer
           r == Restored(d, p)
<1>1. /\ m \in Live /\ v \in Nat /\ v <= MaxProposals /\ t \in Tally
      /\ m.session.status \in Open \cup Final
  BY LiveFields DEF LiveOK, LiveType
<1>2. m.session.status \in Final
  BY <1>1 DEF LiveOK, Rows, OpenRows, Open
<1>3. d.session = m.session /\ \A j \in 1..Len(m.queue) : m.queue[j].kind = "event"
  BY <1>2 DEF LiveOK, Rows, FinalRows, Final
<1>4. m.session.status = "completed"
  BY <1>3
<1>5. /\ m.engine.outcome = "approved" /\ Snapshot(m.engine) /\ m.session.result = v
      /\ Chain(m.queue, d, v) /\ Ballot(m.queue, d, m.engine)
      /\ Ahead(m.queue, d, v, "approved")
  BY <1>4 DEF LiveOK, Shape, Complements
<1>6. v \in 1..MaxProposals /\ v # 0
  BY <1>1, <1>5, BoundsType DEF Snapshot
<1>7. ASSUME NEW x \in 1..MaxProposals, NEW value, Ahead(m.queue, d, x, value)
      PROVE  d.proposals[x] = value
  <2>1. x # 0 /\ \A j \in 1..Len(m.queue) : ~IsOf(m.queue[j], x)
    BY <1>3, BoundsType DEF IsOf
  <2>. QED
    BY <1>7, <2>1 DEF Ahead, Stored
<1>8. \A row : VoteAhead(m.queue, d, row) <=> row \in d.votes
  BY <1>3 DEF VoteAhead
<1>9. d.proposals[v] = "approved"
  BY <1>5, <1>6, <1>7
<1>10. \A x \in 1..MaxProposals : x < v => d.proposals[x] = "superseded"
  BY <1>5, <1>7 DEF Chain
<1>11. Cast(d, "approve") = t.approvals /\ Cast(d, "reject") = t.rejections
  BY <1>1, <1>3, <1>5, <1>8 DEF Cast, Ballot, Tally
<1>12. /\ TallyOK(t) /\ p \in Proposers /\ t.voters = Voters \ {p}
       /\ Decide(t, Approval) = "approved"
  BY <1>5 DEF Snapshot
<1>13. p \notin t.approvals \cup t.rejections
  BY <1>12 DEF TallyOK, Responded
<1>14. r \in Tally /\ TallyOK(r) /\ Later(t, r)
  BY <1>1, <1>11, <1>12 DEF Restored, Tally, TallyOK, Later, Responded
<1>15. Decide(r, Approval) = "approved"
  <2> HIDE DEF r, t
  <2>. QED
    BY <1>1, <1>12, <1>14, VerdictStable, ApprovalAssumption
<1>. QED
  BY <1>3, <1>5, <1>6, <1>9, <1>10, <1>11, <1>12, <1>13, <1>15 DEF Restorable

(* The stored log has a largest sequence, so that the next one is a number. *)
Numbered(d) ==
  d.events # {} => \E top \in d.events : \A e \in d.events : e.sequence <= top.sequence

LEMMA NextSequenceType ==
  ASSUME db \in Database, Numbered(db)
  PROVE  NextSequence \in Nat
<1> DEFINE used == {e.sequence : e \in db.events}
<1>1. \A e \in db.events : e.sequence \in Nat
  BY DEF Database, Events
<1>2. used # {} => \E n \in used : \A m \in used : m <= n
  BY DEF Numbered
<1>3. used \subseteq Nat
  BY <1>1
<1>4. NextSequence = IF used = {} THEN 0 ELSE 1 + CHOOSE n \in used : \A m \in used : m <= n
  BY DEF NextSequence
<1> HIDE DEF used
<1>5. CASE used # {}
  <2> DEFINE c == CHOOSE n \in used : \A m \in used : m <= n
  <2>2. c \in Nat
    BY <1>2, <1>3, <1>5
  <2>3. NextSequence = 1 + c
    BY <1>4, <1>5
  <2> HIDE DEF c
  <2>. QED
    BY <2>2, <2>3
<1>. QED
  BY <1>4, <1>5

LEMMA AppendNumbered ==
  ASSUME NEW d, Numbered(d), NEW row, row.sequence \in Nat,
         NEW u, u.events = d.events \cup {row}, \A e \in d.events : e.sequence \in Nat
  PROVE  Numbered(u)
<1>1. CASE \A e \in d.events : e.sequence <= row.sequence
  BY <1>1 DEF Numbered
<1>2. CASE \E e \in d.events : ~(e.sequence <= row.sequence)
  <2>1. PICK top \in d.events : \A e \in d.events : e.sequence <= top.sequence
    BY <1>2 DEF Numbered
  <2>2. row.sequence <= top.sequence
    BY <1>2, <2>1
  <2>. QED
    BY <2>1, <2>2 DEF Numbered
<1>. QED
  BY <1>1, <1>2

LEMMA WrittenNumbered ==
  ASSUME NEW d \in Database, NEW w \in Writes, Numbered(d)
  PROVE  Numbered(Written(d, w))
<1>1. \A e \in d.events : e.sequence \in Nat
  BY DEF Database, Events
<1>2. CASE w.kind = "event"
  <2>1. Written(d, w).events = d.events \cup {w.row} /\ w.row.sequence \in Nat
    BY <1>2, WriteFields DEF Written, AppendEvent, Database, Events
  <2>. QED
    BY <1>1, <2>1, AppendNumbered
<1>3. CASE w.kind # "event"
  <2>1. Written(d, w).events = d.events
    BY <1>3, WriteFields
       DEF Written, SaveTeamSnapshot, SaveSession, SaveProposal, AppendVote, Database
  <2>. QED
    BY <2>1 DEF Numbered
<1>. QED
  BY <1>2, <1>3

-----------------------------------------------------------------------------
(* The inductive invariant *)

ServerOK ==
  /\ NoRunner => live = NoLive
  /\ pc \in {"down", "running", "voting", "announce"} => live = NoLive
  /\ done => Terminal(live) /\ live.queue = <<>>
  /\ pc = "announce" => db.session.status = "interrupted"
  /\ pc = "voting" /\ failures = 0 => db.session.status # "running"
  /\ Numbered(db)

ToldOK ==
  /\ told # NoSession => told.status \in Final
  /\ ToldIsDurable

IInv ==
  /\ TypeOK
  /\ LiveOK(live, db, failures)
  /\ ServerOK
  /\ ToldOK
  /\ NothingOpen
  /\ DecisionRestorable

(* What a step may do to the session in the store. *)
Entered ==
  \/ db'.session = db.session
  \/ db.session.status \in {"none"} \cup Open /\ db'.session.status \in Open \cup Final

LEMMA InitIInv == Init => IInv
<1> SUFFICES ASSUME Init PROVE IInv
  OBVIOUS
<1>1. /\ pc = "down" /\ live = NoLive /\ done = FALSE /\ db = EmptyDatabase
      /\ told = NoSession /\ crashes = 0 /\ shutdowns = 0 /\ failures = 0
  BY DEF Init
<1>2. NoSession \in Sessions /\ NoSession.status = "none"
  BY BoundsType DEF NoSession, Sessions
<1>3. EmptyDatabase \in Database /\ EmptyDatabase.session.status = "none"
  BY <1>2 DEF EmptyDatabase, Database
<1>4. NoLive.engine.version = 0
  BY NoLiveFields DEF NewEngine
<1>5. TypeOK
  <2>1. 0 <= MaxProposals /\ 0 \in 0..MaxCrashes /\ 0 \in 0..MaxShutdowns /\ 0 \in 0..MaxFailures
    BY BoundsType
  <2>. QED
    BY <1>1, <1>2, <1>3, <1>4, <2>1, NoLiveFields DEF TypeOK
<1>6. LiveOK(live, db, failures)
  BY <1>1, NoLiveOK
<1>7. ServerOK /\ ToldOK /\ NothingOpen /\ DecisionRestorable
  <2>1. Numbered(db)
    BY <1>1 DEF Numbered, EmptyDatabase
  <2>. QED
    BY <1>1, <1>3, <2>1 DEF ServerOK, ToldOK, ToldIsDurable, NothingOpen, DecisionRestorable
<1>. QED
  BY <1>5, <1>6, <1>7 DEF IInv

(* What a REST detail has told is not touched while the rows only move on. *)
LEMMA ToldStays ==
  ASSUME IInv, Entered, told' = told, failures' # 0 \/ failures = 0
  PROVE  ToldOK'
<1>1. \A x \in Final : x # "none" /\ x \notin Open
  BY DEF Final, Open
<1>. QED
  BY <1>1 DEF IInv, ToldOK, ToldIsDurable, Entered

(* The handlers write to the queue only. *)
LEMMA HandlerKeeps ==
  ASSUME IInv, pc = "up", ~done, LiveOK(live', db, failures), live'.session.status # "none",
         UNCHANGED <<pc, done, db, told, crashes, shutdowns, failures>>
  PROVE  IInv' /\ Entered
<1>1. Entered /\ ToldOK' /\ DecisionRestorable'
  BY ToldStays DEF Entered, IInv, ToldOK, DecisionRestorable
<1>2. TypeOK'
  BY DEF IInv, TypeOK, LiveOK, LiveType
<1>3. ServerOK' /\ NothingOpen'
  BY DEF IInv, ServerOK, NothingOpen, NoRunner, Numbered
<1>4. LiveOK(live', db', failures')
  OBVIOUS
<1>. QED
  BY <1>1, <1>2, <1>3, <1>4 DEF IInv

LEMMA CreateKeeps ==
  ASSUME IInv, Create
  PROVE  IInv' /\ Entered
<1>1. /\ pc = "up" /\ live = NoLive /\ db = EmptyDatabase
      /\ live' = Transition(Enqueue(NoLive, [kind |-> "team"]), "running")
      /\ UNCHANGED <<pc, done, db, told, crashes, shutdowns, failures>>
  BY DEF Create, IInv, ServerOK
<1>2. ~done
  BY <1>1, NoLiveFields DEF IInv, ServerOK, Terminal, Final
<1>3. LiveOK(live', db, failures) /\ live'.session.status # "none"
  BY <1>1, CreateOK
<1>. QED
  BY <1>1, <1>2, <1>3, HandlerKeeps

LEMMA SessionKeeps ==
  ASSUME IInv, SessionStep \/ Cancel
  PROVE  IInv' /\ Entered
<1>1. LiveOK(live, db, failures) /\ db \in Database
  BY DEF IInv, TypeOK
<1>3. live.session.status \in Open /\ live.engine.open => live.session.status = "voting"
  BY <1>1 DEF LiveOK, Shape, Open
<1>4. ASSUME NEW m, Handler(m), LiveOK(m, db, failures), m.session.status # "none"
      PROVE  IInv' /\ Entered
  <2>1. /\ pc = "up" /\ live.session.status \in Open /\ live' = m
        /\ UNCHANGED <<pc, done, db, told, crashes, shutdowns, failures>>
    BY <1>4 DEF Handler
  <2>2. ~done
    BY <2>1 DEF IInv, ServerOK, Terminal, Open, Final
  <2>. QED
    BY <1>4, <2>1, <2>2, HandlerKeeps
<1>5. ASSUME NEW m, UnderVote(m, db, failures), Handler(ApplyOutcome(m))
      PROVE  IInv' /\ Entered
  BY <1>4, <1>5, ApplyOutcomeOK
<1>6. ASSUME NEW a \in Proposers, Submit(a)
      PROVE  IInv' /\ Entered
  <2> DEFINE opened == OpenProposal(live.engine, a, Voters, Approval)
             saved  == PersistProposal([live EXCEPT !.engine = opened],
                                       opened.version, "pending")
             closed == IF opened.replaced # 0
                       THEN PersistProposal(saved, opened.replaced, "superseded")
                       ELSE saved
             m == Transition(closed, "voting")
  <2>1. /\ live.session.status = "running" /\ live.engine.version < MaxProposals
        /\ Handler(ApplyOutcome(m))
    BY <1>6 DEF Submit
  <2>2. UnderVote(m, db, failures)
    BY <1>1, <2>1, SubmitOK
  <2> HIDE DEF m
  <2>. QED
    BY <1>5, <2>1, <2>2
<1>7. ASSUME NEW a \in Voters, NEW decision \in Decisions, Vote(a, decision)
      PROVE  IInv' /\ Entered
  <2> DEFINE row == VoteRow(live.engine.version, a, decision)
             m == Enqueue([live EXCEPT !.engine = ApplyVote(live.engine, a, decision, Approval)],
                          [kind |-> "vote", row |-> row])
  <2>1. /\ live.engine.open /\ VoteAccepted(live.engine, a, decision, TRUE)
        /\ Handler(ApplyOutcome(m))
    BY <1>7 DEF Vote, VoteRow
  <2>2. live.session.status = "voting"
    BY <1>3, <2>1 DEF Handler
  <2>3. a \in Agents
    BY RolesAssumption
  <2>4. UnderVote(m, db, failures)
    BY <1>1, <2>1, <2>2, <2>3, VoteOK
  <2> HIDE DEF m
  <2>. QED
    BY <1>5, <2>1, <2>4
<1>8. ASSUME NEW a \in Voters, Abstain(a)
      PROVE  IInv' /\ Entered
  <2> DEFINE e == Retally(live.engine, WithAbstained(live.engine.tally, {a}), Approval)
             m == [live EXCEPT !.engine = e]
  <2>1. live.engine.open /\ Handler(ApplyOutcome(m))
    BY <1>8 DEF Abstain, RegisterAbstention
  <2>2. live.session.status = "voting"
    BY <1>3, <2>1 DEF Handler
  <2>3. {a} \in SUBSET Agents
    BY RolesAssumption
  <2>4. UnderVote(m, db, failures)
    BY <1>1, <2>2, <2>3, AbstentionOK
  <2> HIDE DEF m
  <2>. QED
    BY <1>5, <2>1, <2>4
<1>9. CASE Expire
  <2> DEFINE S == Pending(live.engine.tally)
             e == Retally(live.engine, WithAbstained(live.engine.tally, S), Approval)
             m == [live EXCEPT !.engine = e]
  <2>1. live.engine.open /\ Handler(ApplyOutcome(m))
    BY <1>9 DEF Expire, ExpirePending
  <2>2. live.session.status = "voting"
    BY <1>3, <2>1 DEF Handler
  <2>3. S \in SUBSET Agents
    BY <1>1, <2>2, VotingState DEF Pending, Tally
  <2>4. UnderVote(m, db, failures)
    BY <1>1, <2>2, <2>3, AbstentionOK
  <2> HIDE DEF m
  <2>. QED
    BY <1>5, <2>1, <2>4
<1>10. ASSUME NEW status \in {"failed", "cancelled", "interrupted"},
              Handler(Finalize(live, status, 0))
       PROVE  IInv' /\ Entered
  <2>1. OpenState(live, db)
    BY <1>1, <1>10 DEF Handler, LiveOK, Rows, OpenState
  <2>2. LiveOK(Finalize(live, status, 0), db, failures)
        /\ Finalize(live, status, 0).session.status # "none"
    BY <2>1, FinalizeOK
  <2>. QED
    BY <1>4, <1>10, <2>2
<1>. QED
  BY <1>6, <1>7, <1>8, <1>9, <1>10 DEF SessionStep, Fail, Cancel

LEMMA WriterKeeps ==
  ASSUME IInv, Commit \/ WriteFails
  PROVE  IInv' /\ Entered
<1>1. /\ LiveOK(live, db, failures) /\ db \in Database /\ live \in Live /\ live.queue # <<>>
      /\ pc \in {"up", "closing"} /\ failures \in 0..MaxFailures
      /\ live.queue \in Seq(Writes)
  BY LiveFields DEF Commit, WriteFails, WriterRuns, IInv, TypeOK
<1> DEFINE q == live.queue
           w == Head(q)
           m == [live EXCEPT !.queue = Tail(q)]
<1>2. /\ m \in Live /\ m.session = live.session /\ m.engine = live.engine
      /\ w \in Writes /\ w = q[1] /\ 1 \in 1..Len(q)
  BY <1>1, TailFacts, QueueReplaced
<1>3. ~NoRunner /\ ~done
  BY <1>1, NoLiveFields DEF IInv, ServerOK
<1>4. CASE Commit
  <2> DEFINE e == Written(db, w)
  <2>1. /\ live' = m /\ db' = e
        /\ UNCHANGED <<pc, done, told, crashes, shutdowns, failures>>
    BY <1>4 DEF Commit
  <2>2. LiveOK(m, e, failures)
    BY <1>1, CommitOK
  <2>9. Numbered(e)
    <3> HIDE DEF w
    <3>. QED
      BY <1>1, <1>2, WrittenNumbered DEF IInv, ServerOK
  <2>3. /\ e \in Database
        /\ e.session = IF w.kind = "session" THEN w.row ELSE db.session
    <3> HIDE DEF w
    <3>. QED
      BY <1>1, <1>2, WrittenFields
  <2> HIDE DEF e, m, w
  <2>4. Entered
    <3>1. CASE w.kind # "session"
      BY <2>1, <2>3, <3>1 DEF Entered
    <3>2. CASE w.kind = "session"
      <4>1. live.session.status \in Open \cup Final
        BY <1>1, <1>3, LiveFields DEF NoRunner
      <4>2. /\ w.row.status \in Open \/ (w.row = live.session /\ live.session.status \in Final)
            /\ db.session.status \notin Final
        BY <1>1, <1>2, <3>2, <4>1 DEF LiveOK, Rows, OpenRows, FinalRows, Open, Final
      <4>. QED
        BY <1>1, <2>1, <2>3, <3>2, <4>2 DEF Entered, Database, Sessions
    <3>. QED
      BY <3>1, <3>2
  <2>5. TypeOK'
    BY <1>2, <2>1, <2>3 DEF IInv, TypeOK
  <2>6. ServerOK' /\ NothingOpen'
    BY <1>1, <1>2, <1>3, <2>1, <2>9 DEF ServerOK, NothingOpen, NoRunner, Numbered
  <2>7. ToldOK'
    BY <2>1, <2>4, ToldStays
  <2>8. DecisionRestorable'
    <3>1. failures = 0 => Restorable(e)
      <4>1. CASE failures = 0 /\ e.session.status = "completed"
        <5>1. LiveOK(m, e, 0) /\ m.session.status # "none"
          BY <1>2, <1>3, <2>2, <4>1 DEF NoRunner
        <5>. QED
          BY <2>3, <4>1, <5>1, CompletedRestorable
      <4>2. CASE e.session.status # "completed"
        BY <4>2 DEF Restorable
      <4>. QED
        BY <4>1, <4>2
    <3>2. DecisionRestorable' <=> (failures' = 0 => Restorable(db'))
      BY DEF DecisionRestorable, Restorable, Restored, Cast, VoteRow
    <3>. QED
      BY <2>1, <3>1, <3>2
  <2>. QED
    BY <2>1, <2>2, <2>4, <2>5, <2>6, <2>7, <2>8 DEF IInv
<1>5. CASE WriteFails
  <2>1. /\ live' = m /\ failures' = failures + 1 /\ failures < MaxFailures
        /\ UNCHANGED <<pc, done, db, told, crashes, shutdowns>>
    BY <1>5 DEF WriteFails
  <2>2. failures' \in Nat \ {0} /\ failures' \in 0..MaxFailures
    BY <1>1, <2>1, BoundsType
  <2>3. LiveOK(m, db, failures')
    BY <1>1, <2>2, LossOK
  <2> HIDE DEF m
  <2>4. Entered
    BY <2>1 DEF Entered
  <2>5. TypeOK'
    BY <1>2, <2>1, <2>2 DEF IInv, TypeOK
  <2>6. ServerOK' /\ NothingOpen' /\ DecisionRestorable'
    BY <1>1, <1>2, <1>3, <2>1, <2>2
    DEF IInv, ServerOK, NothingOpen, NoRunner, DecisionRestorable, Numbered
  <2>7. ToldOK'
    BY <2>1, <2>2, <2>4, ToldStays
  <2>. QED
    BY <2>1, <2>3, <2>4, <2>5, <2>6, <2>7 DEF IInv
<1>. QED
  BY <1>4, <1>5

-----------------------------------------------------------------------------
(* The runner and the process *)

LEMMA FinishKeeps ==
  ASSUME IInv, Finish
  PROVE  IInv' /\ Entered
<1>1. /\ pc \in {"up", "closing"} /\ Terminal(live) /\ live.queue = <<>> /\ done' = TRUE
      /\ UNCHANGED <<pc, live, db, told, crashes, shutdowns, failures>>
  BY DEF Finish, Flushed
<1>2. TypeOK' /\ Entered
  BY <1>1 DEF IInv, TypeOK, Entered
<1>3. ServerOK' /\ NothingOpen' /\ DecisionRestorable'
  BY <1>1 DEF IInv, ServerOK, NothingOpen, NoRunner, Terminal, DecisionRestorable, Numbered
<1>4. ToldOK'
  BY <1>1, <1>2, ToldStays
<1>. QED
  BY <1>1, <1>2, <1>3, <1>4 DEF IInv

LEMMA DetailKeeps ==
  ASSUME IInv, Detail
  PROVE  IInv' /\ Entered
<1>1. /\ pc = "up" /\ UNCHANGED <<pc, live, done, db, crashes, shutdowns, failures>>
  BY DEF Detail
<1>2. /\ live \in Live /\ db \in Database /\ LiveOK(live, db, failures)
      /\ live.session \in Sessions /\ db.session \in Sessions
  BY LiveFields DEF IInv, TypeOK, Database
<1>3. CASE Settled /\ told' = live.session
  <2>1. Terminal(live) /\ live.queue = <<>>
    BY <1>3 DEF IInv, ServerOK, Settled
  <2>2. live.session.status \in Final /\ live.session.status # "none"
    BY <2>1 DEF Terminal, Final
  <2>3. ASSUME failures = 0
        PROVE  db.session = live.session
    <3>1. Ahead(<<>>, db, 0, live.session)
      BY <1>2, <2>1, <2>2, <2>3 DEF LiveOK, Complements
    <3>2. Len(<<>>) = 0 /\ 1..0 = {}
      OBVIOUS
    <3>. QED
      BY <3>1, <3>2 DEF Ahead, Stored
  <2>4. told' \in Sessions /\ ToldOK'
    BY <1>1, <1>2, <1>3, <2>2, <2>3 DEF ToldOK, ToldIsDurable
  <2>. QED
    BY <1>1, <2>4 DEF IInv, TypeOK, ServerOK, NothingOpen, NoRunner, Terminal,
                      DecisionRestorable, Entered
<1>4. CASE NoRunner /\ db.session.status \in Final /\ told' = db.session
  <2>1. told' \in Sessions /\ ToldOK'
    BY <1>1, <1>2, <1>4 DEF ToldOK, ToldIsDurable
  <2>. QED
    BY <1>1, <2>1 DEF IInv, TypeOK, ServerOK, NothingOpen, NoRunner, Terminal,
                      DecisionRestorable, Entered
<1>. QED
  BY <1>3, <1>4 DEF Detail

(* The process dies: what is in the store remains. *)
LEMMA DiesKeeps ==
  ASSUME IInv, Crash \/ CloseStore
  PROVE  IInv' /\ Entered
<1>1. /\ pc' = "down" /\ live' = NoLive /\ done' = FALSE
      /\ UNCHANGED <<db, told, shutdowns, failures>>
      /\ crashes' \in 0..MaxCrashes
  BY BoundsType DEF Crash, CloseStore, Dies, IInv, TypeOK
<1>2. NoLive.engine.version <= MaxProposals
  BY NoLiveFields, BoundsType DEF NewEngine
<1>3. TypeOK' /\ Entered
  BY <1>1, <1>2, NoLiveFields DEF IInv, TypeOK, Entered
<1>4. LiveOK(live', db', failures')
  BY <1>1, NoLiveOK
<1>5. ServerOK' /\ NothingOpen' /\ DecisionRestorable'
  BY <1>1 DEF IInv, ServerOK, NothingOpen, DecisionRestorable, Numbered
<1>6. ToldOK'
  BY <1>1, <1>3, ToldStays
<1>. QED
  BY <1>3, <1>4, <1>5, <1>6 DEF IInv

LEMMA ShutdownKeeps ==
  ASSUME IInv, Shutdown
  PROVE  IInv' /\ Entered
<1>1. /\ pc = "up" /\ pc' = "closing"
      /\ live' = IF NoRunner THEN live ELSE Finalize(live, "interrupted", 0)
      /\ UNCHANGED <<done, db, told, crashes, failures>>
      /\ shutdowns' \in 0..MaxShutdowns
  BY BoundsType DEF Shutdown, IInv, TypeOK
<1>2. LiveOK(live, db, failures) /\ live \in Live
  BY DEF IInv, TypeOK
<1>3. Entered
  BY <1>1 DEF Entered
<1>4. live.session.status \in {"none"} \cup Open \cup Final
  BY <1>2, LiveFields
<1>5. /\ LiveOK(live', db, failures)
      /\ NoRunner' => live' = NoLive
      /\ done => Terminal(live') /\ live'.queue = <<>>
  <2>1. CASE NoRunner \/ Terminal(live)
    <3>1. live' = live
      BY <1>1, <2>1 DEF Finalize
    <3>. QED
      BY <1>2, <3>1 DEF IInv, ServerOK, NoRunner
  <2>2. CASE ~NoRunner /\ ~Terminal(live)
    <3>1. live.session.status \in Open
      BY <1>4, <2>2 DEF NoRunner, Terminal
    <3>2. OpenState(live, db)
      BY <1>2, <3>1 DEF LiveOK, Rows, OpenState
    <3>3. LiveOK(Finalize(live, "interrupted", 0), db, failures)
          /\ Finalize(live, "interrupted", 0).session.status = "interrupted"
      BY <3>2, FinalizeOK
    <3>4. ~done
      BY <2>2 DEF IInv, ServerOK
    <3>. QED
      BY <1>1, <2>2, <3>3, <3>4 DEF NoRunner
  <2>. QED
    BY <2>1, <2>2
<1>6. TypeOK'
  BY <1>1, <1>5 DEF IInv, TypeOK, LiveOK, LiveType
<1>7. ServerOK' /\ NothingOpen' /\ DecisionRestorable'
  BY <1>1, <1>5 DEF IInv, ServerOK, NothingOpen, DecisionRestorable, Numbered
<1>8. ToldOK'
  BY <1>1, <1>3, ToldStays
<1>. QED
  BY <1>1, <1>3, <1>5, <1>6, <1>7, <1>8 DEF IInv

(* mark_interrupted_sessions: nothing runs while it does. *)
LEMMA StartKeeps ==
  ASSUME IInv, StartStep
  PROVE  IInv' /\ Entered
<1>1. live = NoLive /\ UNCHANGED <<live, done, told, crashes, shutdowns>> /\ db \in Database
      /\ ~done /\ failures \in 0..MaxFailures /\ NoLive.session.status = "none"
  <2>1. live = NoLive
    BY DEF StartStep, Start, Mark, Announce, StartFails, Open, IInv, ServerOK
  <2>2. UNCHANGED <<live, done, told, crashes, shutdowns>>
    BY DEF StartStep, Start, Mark, Announce, StartFails
  <2>. QED
    BY <2>1, <2>2, NoLiveFields DEF IInv, TypeOK, ServerOK, Terminal, Final
<1>2. LiveOK(live', db', failures')
  BY <1>1, NoLiveOK
<1>3. ASSUME db' \in Database, Entered,
             pc' \in {"down", "running", "voting", "announce", "up"},
             failures' \in 0..MaxFailures, failures' # 0 \/ failures = 0,
             pc' = "announce" => db'.session.status = "interrupted",
             pc' = "voting" /\ failures' = 0 => db'.session.status # "running",
             pc' = "up" /\ failures' = 0 => db'.session.status \notin Open,
             failures' = 0 => Restorable(db'),
             Numbered(db')
      PROVE  IInv' /\ Entered
  <2>1. TypeOK'
    BY <1>1, <1>3 DEF IInv, TypeOK
  <2>2. ServerOK' /\ NothingOpen'
    BY <1>1, <1>3 DEF ServerOK, NothingOpen, NoRunner, Numbered
  <2>3. DecisionRestorable'
    BY <1>3 DEF DecisionRestorable, Restorable, Restored, Cast, VoteRow
  <2>4. ToldOK'
    BY <1>1, <1>3, ToldStays
  <2>. QED
    BY <1>2, <1>3, <2>1, <2>2, <2>3, <2>4 DEF IInv
<1>4. (failures = 0 => Restorable(db)) /\ Numbered(db)
  BY RestorableIs DEF IInv, ServerOK
<1>5. CASE Start
  <2>1. pc' = "running" /\ db' = db /\ failures' = failures
    BY <1>5 DEF Start
  <2>. QED
    BY <1>1, <1>3, <1>4, <2>1 DEF Entered
<1>6. CASE Mark
  <2>1. CASE Found
    <3> DEFINE row == [status |-> "interrupted", result |-> 0]
               e == SaveSession(db, row)
    <3>1. /\ db' = e /\ pc' = "announce" /\ failures' = failures
          /\ db.session.status \in Open
      BY <1>6, <2>1 DEF Mark, Found
    <3>2. row \in Sessions
      BY BoundsType DEF Sessions, Final
    <3>3. e \in Database /\ e.session.status = "interrupted" /\ e.events = db.events
      BY <1>1, <3>2 DEF SaveSession, Database
    <3>6. Numbered(e)
      BY <1>4, <3>3 DEF Numbered
    <3> HIDE DEF e
    <3>4. Restorable(e)
      BY <3>3 DEF Restorable
    <3>5. Entered
      BY <3>1, <3>3 DEF Entered, Final
    <3>. QED
      BY <1>1, <1>3, <3>1, <3>3, <3>4, <3>5, <3>6
  <2>2. CASE ~Found
    <3>1. /\ pc' = NextPass /\ db' = db /\ failures' = failures /\ pc \in Open
          /\ db.session.status # pc
      BY <1>6, <2>2 DEF Mark, Found
    <3>2. CASE pc = "running"
      BY <1>1, <1>3, <1>4, <3>1, <3>2 DEF NextPass, Entered
    <3>3. CASE pc = "voting"
      <4>1. failures = 0 => db.session.status # "running"
        BY <3>3 DEF IInv, ServerOK
      <4>. QED
        BY <1>1, <1>3, <1>4, <3>1, <3>3, <4>1 DEF NextPass, Entered, Open
    <3>. QED
      BY <3>1, <3>2, <3>3 DEF Open
  <2>. QED
    BY <2>1, <2>2
<1>7. CASE Announce
  <2> DEFINE row == [sequence |-> NextSequence, body |-> "interrupted"]
             e == AppendEvent(db, row)
  <2>1. /\ pc = "announce" /\ pc' = "voting" /\ db' = e /\ failures' = failures
    BY <1>7 DEF Announce
  <2>2. db.session.status = "interrupted"
    BY <2>1 DEF IInv, ServerOK
  <2>3. row \in Events
    BY <1>1, <1>4, NextSequenceType DEF Events, Bodies, Final
  <2>4. e \in Database /\ e.session = db.session /\ e.events = db.events \cup {row}
    BY <1>1, <2>3 DEF AppendEvent, Database
  <2>6. \A x \in db.events : x.sequence \in Nat
    BY <1>1 DEF Database, Events
  <2>7. row.sequence \in Nat
    BY <1>1, <1>4, NextSequenceType
  <2> HIDE DEF e
  <2>5. Restorable(e)
    BY <2>2, <2>4 DEF Restorable
  <2> HIDE DEF row
  <2>8. Numbered(e)
    BY <1>4, <2>4, <2>6, <2>7, AppendNumbered
  <2>. QED
    BY <1>1, <1>3, <2>1, <2>2, <2>4, <2>5, <2>8 DEF Entered
<1>8. CASE StartFails
  <2>1. pc' = "up" /\ db' = db /\ failures' = failures + 1 /\ failures < MaxFailures
    BY <1>8 DEF StartFails
  <2>2. failures' \in 0..MaxFailures /\ failures' # 0
    BY <1>1, <2>1, BoundsType
  <2>. QED
    BY <1>1, <1>3, <1>4, <2>1, <2>2 DEF Entered
<1>. QED
  BY <1>5, <1>6, <1>7, <1>8 DEF StartStep

LEMMA NextIInv == IInv /\ [Next]_vars => IInv' /\ Entered
<1> SUFFICES ASSUME IInv, [Next]_vars PROVE IInv' /\ Entered
  OBVIOUS
<1>1. CASE UNCHANGED vars
  <2>1. UNCHANGED <<pc, live, done, db, told, crashes, shutdowns, failures>>
    BY <1>1 DEF vars
  <2>. QED
    BY SMTT(20), <2>1 DEF IInv, TypeOK, ServerOK, ToldOK, ToldIsDurable, NothingOpen, NoRunner,
                Terminal, DecisionRestorable, Numbered, Entered
<1>2. CASE Next
  BY <1>2, CreateKeeps, SessionKeeps, WriterKeeps, FinishKeeps, DetailKeeps, DiesKeeps,
     ShutdownKeeps, StartKeeps DEF Next
<1>. QED
  BY <1>1, <1>2

THEOREM Invariant == Spec => []IInv
<1>1. IInv /\ [Next]_vars => IInv'
  BY NextIInv
<1>. QED
  BY <1>1, InitIInv, PTL DEF Spec

(* Types of the session in memory and of the rows in the store. *)
THEOREM TypeCorrect == Spec => []TypeOK
<1>1. IInv => TypeOK
  BY DEF IInv
<1>. QED
  BY <1>1, Invariant, PTL

(* The record of a decision can be put together again from the store, whenever
   the process died. *)
THEOREM DecisionsAreRestorable == Spec => []DecisionRestorable
<1>1. IInv => DecisionRestorable
  BY DEF IInv
<1>. QED
  BY <1>1, Invariant, PTL

(* mark_interrupted_sessions leaves no session open. *)
THEOREM NothingStaysOpen == Spec => []NothingOpen
<1>1. IInv => NothingOpen
  BY DEF IInv
<1>. QED
  BY <1>1, Invariant, PTL

(* A final session that a client was told of is the one in the store. *)
THEOREM ToldStaysDurable == Spec => []ToldIsDurable
<1>1. IInv => ToldIsDurable
  BY DEF IInv, ToldOK
<1>. QED
  BY <1>1, Invariant, PTL

(* The store implements the ledger: whatever fails and whenever the process dies,
   a session is entered once and its end stands. *)
THEOREM LedgerImplemented == Spec => ImplementsLedger
<1>1. Init => Record!Init
  BY DEF Init, Record!Init, Entry, EmptyDatabase, NoSession, Open
<1>2. IInv /\ [Next]_vars => [Record!Next]_Entry
  <2> SUFFICES ASSUME IInv, [Next]_vars PROVE [Record!Next]_Entry
    OBVIOUS
  <2>1. Entered
    BY NextIInv
  <2>. QED
    BY <2>1 DEF Entered, Entry, Open, Final, Record!Next, Record!Enter, Record!Close,
                Record!Ends
<1>. QED
  BY <1>1, <1>2, Invariant, PTL DEF Spec, ImplementsLedger, Record!Spec
=============================================================================
