--------------------------- MODULE DashboardProofs ---------------------------
(***************************************************************************)
(* The page of a session never shows what is not so, and never takes back  *)
(* what it has shown: the invariants and the action property of            *)
(* Dashboard.tla, for every set of voters and every bound.                 *)
(*                                                                         *)
(* The argument rests on one order.  What the server, the store, an        *)
(* answer on its way and a page know of the session are records of the     *)
(* same form; one is Within another when everything it says is said by the *)
(* other too, as far as it cannot change any more.  Each event takes the   *)
(* session to one that is above it (EmitKeeps); rows, answers and pages    *)
(* are always below the session.                                           *)
(***************************************************************************)
EXTENDS Dashboard, FiniteSetTheorems, SequenceTheorems, TLAPS

-----------------------------------------------------------------------------
(* What is known of a session *)

(* Ends, results, votes and proposals stay. *)
Kept(old, new) ==
  /\ old.status \in TERMINAL => new.status = old.status
  /\ old.result # 0 => new.result = old.result
  /\ old.votes \subseteq new.votes
  /\ Known(old) \subseteq Known(new)

Within(old, new) ==
  /\ Kept(old, new)
  /\ \A p \in Versions : old.proposals[p].status = "approved" =>
                           new.proposals[p].status = "approved"

(* Proposals are numbered from one on, without a gap. *)
Sane(data) ==
  /\ data \in Data
  /\ \A p \in Known(data) : data.proposals[p].number = p /\ 1..p \subseteq Known(data)
  /\ \A p \in Versions \ Known(data) : data.proposals[p].number = 0

(* Only a completed session has approved anything, and there is something to
   vote about. *)
Settled(data) ==
  /\ data.status = "voting" => Known(data) # {}
  /\ \A p \in Versions : data.proposals[p].status = "approved" =>
                           data.status = "completed"
  /\ data.result # 0 => data.status = "completed"

(* After the first n events of l, the vote is about v. *)
LastVote(l, n, v) ==
  \E j \in 1..n : /\ l[j] = VoteStatus(v)
                  /\ \A k \in (j + 1)..n : l[k].type # "vote_status"

(* What the events of l say is so in data. *)
Sound(l, data) ==
  /\ \A p \in Known(data) : \E j \in 1..Len(l) : l[j] = Proposal(p)
  /\ \A i \in 1..Len(l) :
       /\ l[i].type = "vote" =>
            [version |-> l[i].of, voter |-> l[i].voter] \in data.votes
       /\ l[i].type = "proposal" =>
            /\ l[i].of \in Known(data)
            /\ \A p \in 1..(l[i].of - 1) : \E j \in 1..(i - 1) : l[j] = Proposal(p)
       /\ l[i].type = "result" => l[i].of = data.result
       /\ l[i].type = "session_status" /\ l[i].status \in TERMINAL =>
            data.status = l[i].status
       /\ l[i].type = "session_status" /\ l[i].status = "completed" =>
            /\ l[i].of \in Versions
            /\ data.proposals[l[i].of].status = "approved"
            /\ LastVote(l, i - 1, l[i].of)

(* f[i] is what the first i events of l make of a session. *)
IsReplay(f, l) ==
  /\ f \in [0..Len(l) -> Data]
  /\ f[0] = Blank
  /\ \A i \in 1..Len(l) : f[i] = Recorded(f[i - 1], l[i])

Replay(f, l, data) ==
  /\ IsReplay(f, l)
  /\ f[Len(l)] = data
  /\ \A i \in 0..Len(l) : Sane(f[i]) /\ Within(f[i], data)

(* The session is what its events make of it; the rows are what those that are
   stored make of it. *)
Replayed == \E f : Replay(f, log, session) /\ rows = f[stored]

-----------------------------------------------------------------------------
(* The invariant *)

ServerInv == Sane(session) /\ Settled(session) /\ Sound(log, session)

(* A page says only what is so.  It knows the proposals of the events it has
   seen, and which was the last vote. *)
TruePage(c) ==
  /\ Sane(c.data)
  /\ Within(c.data, session)
  /\ \A i \in 1..c.seen : log[i].type = "proposal" => log[i].of \in Known(c.data)
  /\ c.vote # 0 => LastVote(log, c.seen, c.vote)

PagesTrue == \A v \in 1..MaxRoutes : TruePage(context[v])

(* The session without its rows, as ReadSession returns it. *)
Bare(data) == [data EXCEPT !.proposals = Blank.proposals, !.votes = {}]

TrueRequest(r) ==
  /\ Sane(r.data)
  /\ Within(r.data, session)
  /\ r.kind = "refresh" => session.status \in TERMINAL
  /\ r.kind = "ending" => Done /\ r.data = Bare(session)

RequestsTrue == \A r \in requests : TrueRequest(r)

FreshFinal ==
  \A v \in 1..MaxRoutes :
    context[v].fresh => Done /\ context[v].data = session /\ context[v].open

(* A page is opened by one answer, once; an error page waits for none. *)
OpenedOnce ==
  /\ \A r \in requests : r.kind \in Loading =>
       /\ ~context[r.version].open
       /\ \A s \in requests : s.kind \in Loading /\ s.version = r.version => s = r
       /\ view.page = "error" => r.version # version
  /\ view.page = "error" => ~context[version].open

(* The current page does not listen before it is opened or after it has begun
   to ask for the last detail. *)
StreamFits ==
  /\ stream = version => context[version].open /\ ~context[version].fresh
  /\ \A r \in requests : r.kind \in {"refresh", "ending"} /\ r.version = version =>
       stream # version /\ context[version].open

PageInv ==
  /\ PagesTrue
  /\ RequestsTrue
  /\ FreshFinal
  /\ OpenedOnce
  /\ StreamFits

IInv == TypeOK /\ ServerInv /\ Replayed /\ PageInv

-----------------------------------------------------------------------------
(* The order of what is known *)

LEMMA KnownIsKnown ==
  ASSUME NEW data
  PROVE  Known(data) \subseteq Versions
BY DEF Known

LEMMA BlankIsSane == Sane(Blank) /\ Settled(Blank) /\ Known(Blank) = {}
<1>1. Blank \in Data
  BY BoundsAssumption DEF Blank, Data, Proposals, Open, Versions
<1>2. Known(Blank) = {}
  BY DEF Known, Blank
<1>3. QED  BY <1>1, <1>2 DEF Sane, Settled, Blank

LEMMA BlankIsWithin == ASSUME NEW data PROVE Within(Blank, data)
BY BlankIsSane DEF Within, Kept, Blank, TERMINAL

LEMMA WithinItself == ASSUME NEW data PROVE Within(data, data)
BY DEF Within, Kept

LEMMA WithinTransitive ==
  ASSUME NEW d1 \in Data, NEW d2 \in Data, NEW d3 \in Data,
         Within(d1, d2), Within(d2, d3)
  PROVE  Within(d1, d3)
BY DEF Within, Kept

(* The number of the known proposals is the latest of them, and the next one
   is the first that is not known. *)
LEMMA KnownCounted ==
  ASSUME NEW data, Sane(data)
  PROVE  /\ Cardinality(Known(data)) \in Nat
         /\ Known(data) = 1..Cardinality(Known(data))
<1> DEFINE K == Known(data)
<1>1. K \subseteq Versions  BY KnownIsKnown
<1>2. IsFiniteSet(Versions)
  BY FS_Interval, BoundsAssumption DEF Versions
<1>3. IsFiniteSet(K) /\ Cardinality(K) \in Nat
  BY <1>1, <1>2, FS_Subset, FS_CardinalityType
<1>4. CASE K = {}
  BY <1>4, FS_EmptySet
<1>5. CASE K # {}
  <2>1. \E m \in K : \A p \in K : p <= m
    <3>1. PICK p0 \in K : TRUE  BY <1>5
    <3> DEFINE T == {MaxProposals - p : p \in K}
    <3>2. T \subseteq Nat /\ T # {}
      BY <1>1, <3>1, BoundsAssumption DEF Versions
    <3>3. PICK x \in T : \A y \in T : ~(<<y, x>> \in OpToRel(<, Nat))
      BY <3>2, NatLessThanWellFounded, WFMin
    <3>4. PICK m \in K : x = MaxProposals - m  OBVIOUS
    <3>5. ASSUME NEW p \in K PROVE p <= m
      <4>1. MaxProposals - p \in T  OBVIOUS
      <4>2. <<MaxProposals - p, x>> \notin OpToRel(<, Nat)  BY <3>3, <4>1
      <4>3. ~(MaxProposals - p < x)  BY <4>1, <4>2, <3>2 DEF OpToRel
      <4>4. QED  BY <4>3, <3>4, <1>1, BoundsAssumption DEF Versions
    <3>6. QED  BY <3>4, <3>5
  <2>2. PICK m \in K : \A p \in K : p <= m  BY <2>1
  <2>3. K = 1..m
    <3>1. 1..m \subseteq K  BY <2>2 DEF Sane
    <3>2. \A p \in K : p \in 1..m
      BY <2>2, <1>1, BoundsAssumption DEF Versions
    <3>3. QED  BY <3>1, <3>2
  <2>4. m \in Nat  BY <1>1, <2>2 DEF Versions
  <2>5. Cardinality(K) = m
    BY <2>3, <2>4, FS_Interval
  <2>6. QED  BY <2>3, <2>4, <2>5
<1>6. QED  BY <1>4, <1>5

-----------------------------------------------------------------------------
(* An event is emitted *)

(* When the handlers emit an event. *)
Fits(data, event) ==
  /\ event.type = "session_status" =>
       /\ data.status \in Open
       /\ event.verdict # "none" => event.of \in Known(data)
       /\ event.status = "voting" => Known(data) # {}
       /\ event.verdict = "approved" <=> event.status = "completed"
  /\ event.type = "proposal" =>
       /\ data.status \in Open
       /\ event.of = Cardinality(Known(data)) + 1
  /\ event.type = "result" => data.status = "completed" /\ data.result = 0

LEMMA EventKinds ==
  ASSUME NEW e \in Events
  PROVE  \/ /\ e.type = "session_status"
            /\ e.status \in Open \cup TERMINAL
            /\ e.of \in 0..MaxProposals
            /\ e.verdict \in {"none", "approved", "rejected"}
            /\ e = Status(e.status, e.of, e.verdict)
         \/ e.type = "proposal" /\ e.of \in Versions /\ e = Proposal(e.of)
         \/ e.type = "vote_status" /\ e.of \in Versions /\ e = VoteStatus(e.of)
         \/ e.type = "result" /\ e.of \in Versions /\ e = Result(e.of)
         \/ /\ e.type = "vote"
            /\ e.of \in Versions /\ e.voter \in Voters
            /\ e = VoteOf(e.of, e.voter)
         \/ e.type = "usage" /\ e = Usage
<1>1. CASE e \in [type : {"session_status"}, status : Open \cup TERMINAL,
                  of : 0..MaxProposals, verdict : {"none", "approved", "rejected"}]
  BY <1>1 DEF Status
<1>2. CASE e \in [type : {"proposal", "vote_status", "result"}, of : Versions]
  BY <1>2 DEF Proposal, VoteStatus, Result
<1>3. CASE e \in [type : {"vote"}, of : Versions, voter : Voters]
  BY <1>3 DEF VoteOf
<1>4. CASE e = Usage
  BY <1>4 DEF Usage
<1>5. QED  BY <1>1, <1>2, <1>3, <1>4 DEF Events

LEMMA EventTypes ==
  /\ \A v \in Versions : /\ Proposal(v) \in Events
                         /\ VoteStatus(v) \in Events
                         /\ Result(v) \in Events
  /\ \A v \in Versions, a \in Voters : VoteOf(v, a) \in Events
  /\ \A s \in Open \cup TERMINAL, v \in 0..MaxProposals,
        x \in {"none", "approved", "rejected"} : Status(s, v, x) \in Events
  /\ Usage \in Events
BY DEF Events, Proposal, VoteStatus, Result, VoteOf, Status

LEMMA StatusRecorded ==
  ASSUME NEW data, Sane(data), Settled(data), NEW e \in Events,
         e.type = "session_status", Fits(data, e),
         NEW new, new = Recorded(data, e)
  PROVE  /\ Sane(new) /\ Settled(new) /\ Within(data, new)
         /\ Known(new) = Known(data)
         /\ new.status = e.status
         /\ e.status = "completed" => new.proposals[e.of].status = "approved"
<1>0. /\ e.status \in Open \cup TERMINAL
      /\ e.verdict \in {"none", "approved", "rejected"}
      /\ data \in Data
  BY EventKinds DEF Sane
<1> DEFINE P == IF e.verdict = "none" THEN data.proposals
                ELSE [data.proposals EXCEPT ![e.of].status = e.verdict]
<1>1. new = [data EXCEPT !.status = e.status, !.proposals = P]
  BY DEF Recorded
<1>2. /\ data.status \in Open
      /\ e.verdict # "none" => e.of \in Known(data)
      /\ e.status = "voting" => Known(data) # {}
      /\ e.verdict = "approved" <=> e.status = "completed"
  BY DEF Fits
<1>3. P \in [Versions -> Proposals]
  BY <1>0, <1>2 DEF Data, Proposals, Known
<1>4. /\ new \in Data /\ new.status = e.status /\ new.proposals = P
      /\ new.votes = data.votes /\ new.result = data.result
  BY <1>0, <1>1, <1>3 DEF Data
<1>5. \A p \in Versions :
        /\ P[p].number = data.proposals[p].number
        /\ P[p].status = IF e.verdict # "none" /\ p = e.of
                         THEN e.verdict ELSE data.proposals[p].status
  BY <1>0, <1>2 DEF Data, Proposals
<1>6. Known(new) = Known(data)
  BY <1>0, <1>2, <1>4, <1>5 DEF Known
<1>7. Sane(new)
  BY <1>4, <1>5, <1>6, KnownIsKnown DEF Sane
<1>8. \A p \in Versions : data.proposals[p].status # "approved"
  BY <1>2 DEF Settled, Open
<1>9. data.status \notin TERMINAL /\ data.status # "completed" /\ data.result = 0
  BY <1>2 DEF Settled, Open, TERMINAL
<1>10. Settled(new)
  BY <1>2, <1>4, <1>5, <1>6, <1>8, <1>9 DEF Settled
<1>11. Within(data, new)
  BY <1>4, <1>6, <1>8, <1>9 DEF Within, Kept
<1>12. e.status = "completed" => P[e.of].status = "approved"
  BY <1>2, <1>5, KnownIsKnown
<1>13. QED  BY <1>4, <1>6, <1>7, <1>10, <1>11, <1>12

LEMMA ProposalRecorded ==
  ASSUME NEW data, Sane(data), Settled(data), NEW e \in Events,
         e.type = "proposal", Fits(data, e),
         NEW new, new = Recorded(data, e)
  PROVE  /\ Sane(new) /\ Settled(new) /\ Within(data, new)
         /\ Known(new) = Known(data) \cup {e.of}
         /\ Known(data) = 1..(e.of - 1)
<1>0. e.of \in Versions /\ data \in Data  BY EventKinds DEF Sane
<1> DEFINE P == [v \in Versions |->
                   IF v = e.of THEN [status |-> "pending", number |-> v]
                   ELSE IF v + 1 = e.of
                        THEN [data.proposals[v] EXCEPT !.status = "superseded"]
                        ELSE data.proposals[v]]
<1>1. new = [data EXCEPT !.proposals = P]
  BY DEF Recorded
<1>2. data.status \in Open /\ e.of = Cardinality(Known(data)) + 1
  BY DEF Fits
<1>3. Known(data) = 1..(e.of - 1)
  BY <1>2, KnownCounted
<1>4. \A v \in Versions : data.proposals[v] \in Proposals /\ v \in 0..MaxProposals /\ v \in Nat
  BY <1>0, BoundsAssumption DEF Data, Versions
<1>5. P \in [Versions -> Proposals]
  BY <1>4 DEF Proposals
<1>6. /\ new \in Data /\ new.status = data.status /\ new.proposals = P
      /\ new.votes = data.votes /\ new.result = data.result
  BY <1>0, <1>1, <1>5 DEF Data
<1>7. \A p \in Versions :
        /\ P[p].number = IF p = e.of THEN p ELSE data.proposals[p].number
        /\ P[p].status = IF p = e.of THEN "pending"
                         ELSE IF p + 1 = e.of THEN "superseded"
                         ELSE data.proposals[p].status
  BY <1>4 DEF Proposals
<1>8. Known(new) = Known(data) \cup {e.of}
  <2>1. \A p \in Versions : p + 1 = e.of => p \in Known(data)
    BY <1>0, <1>3, <1>4, BoundsAssumption DEF Versions
  <2>2. QED  BY <1>0, <1>6, <1>7, <2>1 DEF Known
<1>9. Known(new) = 1..e.of
  <2>1. e.of \in Nat /\ e.of >= 1  BY <1>0, BoundsAssumption DEF Versions
  <2>2. (1..(e.of - 1)) \cup {e.of} = 1..e.of  BY <2>1
  <2>3. QED  BY <1>3, <1>8, <2>2
<1>10. Sane(new)
  <2>1. \A p \in Known(new) : P[p].number = p /\ 1..p \subseteq Known(new)
    BY <1>0, <1>4, <1>7, <1>8, <1>9, KnownIsKnown DEF Sane
  <2>2. \A p \in Versions \ Known(new) : P[p].number = 0
    BY <1>7, <1>8 DEF Sane
  <2>3. QED  BY <1>6, <2>1, <2>2 DEF Sane
<1>11. \A p \in Versions : data.proposals[p].status # "approved"
  BY <1>2 DEF Settled, Open
<1>12. data.status \notin TERMINAL /\ data.status # "completed" /\ data.result = 0
  BY <1>2 DEF Settled, Open, TERMINAL
<1>13. Settled(new)
  BY <1>6, <1>7, <1>8, <1>11, <1>12 DEF Settled
<1>14. Within(data, new)
  BY <1>6, <1>8, <1>11, <1>12 DEF Within, Kept
<1>15. QED  BY <1>3, <1>8, <1>10, <1>13, <1>14

LEMMA OtherRecorded ==
  ASSUME NEW data, Sane(data), Settled(data), NEW e \in Events,
         e.type \notin {"session_status", "proposal"}, Fits(data, e),
         NEW new, new = Recorded(data, e)
  PROVE  /\ Sane(new) /\ Settled(new) /\ Within(data, new)
         /\ Known(new) = Known(data)
         /\ e.type = "vote" => [version |-> e.of, voter |-> e.voter] \in new.votes
         /\ e.type = "result" => e.of = new.result
<1>0. data \in Data  BY DEF Sane
<1>1. CASE e.type = "vote"
  <2>1. [version |-> e.of, voter |-> e.voter] \in Votes
    BY <1>1, EventKinds DEF Votes
  <2>2. new = [data EXCEPT !.votes = @ \cup {[version |-> e.of, voter |-> e.voter]}]
    BY <1>1 DEF Recorded
  <2>3. /\ new \in Data /\ new.proposals = data.proposals /\ new.status = data.status
        /\ new.result = data.result
        /\ new.votes = data.votes \cup {[version |-> e.of, voter |-> e.voter]}
    BY <1>0, <2>1, <2>2 DEF Data
  <2>4. Known(new) = Known(data)  BY <2>3 DEF Known
  <2>5. QED  BY <1>1, <2>3, <2>4 DEF Sane, Settled, Within, Kept
<1>2. CASE e.type = "result"
  <2>1. e.of \in 1..MaxProposals /\ data.status = "completed" /\ data.result = 0
    BY <1>2, EventKinds DEF Fits, Versions
  <2>2. new = [data EXCEPT !.result = e.of]
    BY <1>2 DEF Recorded
  <2>3. /\ new \in Data /\ new.proposals = data.proposals /\ new.status = data.status
        /\ new.result = e.of /\ new.votes = data.votes
    BY <1>0, <2>1, <2>2, BoundsAssumption DEF Data
  <2>4. Known(new) = Known(data)  BY <2>3 DEF Known
  <2>5. QED  BY <1>2, <2>1, <2>3, <2>4 DEF Sane, Settled, Within, Kept
<1>3. CASE e.type \notin {"vote", "result"}
  <2>1. new = data  BY <1>3 DEF Recorded
  <2>2. QED  BY <1>3, <2>1, WithinItself
<1>4. QED  BY <1>1, <1>2, <1>3

LEMMA RecordedIsWithin ==
  ASSUME NEW data, Sane(data), Settled(data), NEW e \in Events, Fits(data, e)
  PROVE  /\ Sane(Recorded(data, e)) /\ Settled(Recorded(data, e))
         /\ Within(data, Recorded(data, e))
BY StatusRecorded, ProposalRecorded, OtherRecorded

(* How far a handler is. *)
Fine(h) ==
  /\ h.log \in Seq(Events)
  /\ Sane(h.session) /\ Settled(h.session)
  /\ Sound(h.log, h.session)
  /\ \E f : Replay(f, h.log, h.session)

(* k is where a handler has got to from h on. *)
After(h, k) ==
  /\ Len(h.log) <= Len(k.log)
  /\ \A i \in 1..Len(h.log) : k.log[i] = h.log[i]
  /\ Within(h.session, k.session)
  /\ \A f : Replay(f, h.log, h.session) =>
       \E g : Replay(g, k.log, k.session) /\ \A i \in 0..Len(h.log) : g[i] = f[i]

LEMMA LastVoteStays ==
  ASSUME NEW l, NEW l2, NEW m \in Nat, NEW n \in 0..m, NEW v,
         \A i \in 1..m : l2[i] = l[i], LastVote(l, n, v)
  PROVE  LastVote(l2, n, v)
BY DEF LastVote

LEMMA LastVoteUnique ==
  ASSUME NEW l, NEW n \in Nat, NEW v, NEW w, LastVote(l, n, v), LastVote(l, n, w)
  PROVE  v = w
<1>1. PICK j \in 1..n : l[j] = VoteStatus(v) /\ \A k \in (j + 1)..n : l[k].type # "vote_status"
  BY DEF LastVote
<1>2. PICK i \in 1..n : l[i] = VoteStatus(w) /\ \A k \in (i + 1)..n : l[k].type # "vote_status"
  BY DEF LastVote
<1>3. l[j].type = "vote_status" /\ l[i].type = "vote_status"
  BY <1>1, <1>2 DEF VoteStatus
<1>4. i = j  BY <1>1, <1>2, <1>3
<1>5. VoteStatus(v).of = v /\ VoteStatus(w).of = w  BY DEF VoteStatus
<1>6. QED  BY <1>1, <1>2, <1>4, <1>5

LEMMA LastVoteGoesOn ==
  ASSUME NEW l, NEW n \in Nat \ {0}, NEW v, LastVote(l, n - 1, v), l[n].type # "vote_status"
  PROVE  LastVote(l, n, v)
<1>1. PICK j \in 1..(n - 1) : l[j] = VoteStatus(v)
                           /\ \A k \in (j + 1)..(n - 1) : l[k].type # "vote_status"
  BY DEF LastVote
<1>2. \A k \in (j + 1)..n : l[k].type # "vote_status"  BY <1>1
<1>3. j \in 1..n  OBVIOUS
<1>4. QED  BY <1>1, <1>2, <1>3 DEF LastVote

LEMMA LastVoteBegins ==
  ASSUME NEW l, NEW n \in Nat \ {0}, NEW v, l[n] = VoteStatus(v)
  PROVE  LastVote(l, n, v)
BY DEF LastVote

LEMMA AppendedLog ==
  ASSUME NEW l \in Seq(Events), NEW e \in Events
  PROVE  /\ Append(l, e) \in Seq(Events)
         /\ Len(l) \in Nat /\ Len(Append(l, e)) = Len(l) + 1
         /\ \A i \in 1..Len(l) : Append(l, e)[i] = l[i] /\ l[i] \in Events
         /\ Append(l, e)[Len(l) + 1] = e
BY AppendProperties, LenProperties, ElementOfSeq

LEMMA EmitSound ==
  ASSUME NEW l \in Seq(Events), NEW data, Sane(data), Settled(data), Sound(l, data),
         NEW e \in Events, Fits(data, e),
         e.type = "session_status" /\ e.status = "completed" =>
           LastVote(l, Len(l), e.of)
  PROVE  Sound(Append(l, e), Recorded(data, e))
<1> DEFINE l2 == Append(l, e)
           n == Len(l)
           new == Recorded(data, e)
<1>0. /\ n \in Nat /\ Len(l2) = n + 1 /\ l2[n + 1] = e
      /\ \A i \in 1..n : l2[i] = l[i] /\ l[i] \in Events
  BY AppendedLog
<1>1. Within(data, new)  BY RecordedIsWithin
<1> HIDE DEF l2, n, new
<1>2. ASSUME NEW p \in Known(new) PROVE \E j \in 1..(n + 1) : l2[j] = Proposal(p)
  <2>1. CASE p \in Known(data)
    <3>1. PICK j \in 1..n : l[j] = Proposal(p)  BY <2>1 DEF Sound, n
    <3>2. l2[j] = Proposal(p) /\ j \in 1..(n + 1)  BY <1>0, <3>1
    <3>3. QED  BY <3>2
  <2>2. CASE p \notin Known(data)
    <3>1. e.type = "proposal"
      <4>1. e.type = "session_status" => Known(new) = Known(data)
        BY StatusRecorded DEF new
      <4>2. e.type \notin {"session_status", "proposal"} => Known(new) = Known(data)
        BY OtherRecorded DEF new
      <4>3. QED  BY <2>2, <4>1, <4>2
    <3>2. p = e.of  BY <2>2, <3>1, ProposalRecorded DEF new
    <3>3. l2[n + 1] = Proposal(p)  BY <1>0, <3>1, <3>2, EventKinds
    <3>4. QED  BY <1>0, <3>3
  <2>3. QED  BY <2>1, <2>2
<1>3. ASSUME NEW i \in 1..n
      PROVE  /\ l2[i].type = "vote" =>
                  [version |-> l2[i].of, voter |-> l2[i].voter] \in new.votes
             /\ l2[i].type = "proposal" =>
                  /\ l2[i].of \in Known(new)
                  /\ \A p \in 1..(l2[i].of - 1) : \E j \in 1..(i - 1) : l2[j] = Proposal(p)
             /\ l2[i].type = "result" => l2[i].of = new.result
             /\ l2[i].type = "session_status" /\ l2[i].status \in TERMINAL =>
                  new.status = l2[i].status
             /\ l2[i].type = "session_status" /\ l2[i].status = "completed" =>
                  /\ l2[i].of \in Versions
                  /\ new.proposals[l2[i].of].status = "approved"
                  /\ LastVote(l2, i - 1, l2[i].of)
  <2>0. l2[i] = l[i] /\ l[i] \in Events /\ i \in 1..Len(l)  BY <1>0 DEF n
  <2>1. l[i].type = "vote" => [version |-> l[i].of, voter |-> l[i].voter] \in new.votes
    BY <2>0, <1>1 DEF Sound, Within, Kept
  <2>2. ASSUME l[i].type = "proposal"
        PROVE  /\ l[i].of \in Known(new)
               /\ \A p \in 1..(l[i].of - 1) : \E j \in 1..(i - 1) : l2[j] = Proposal(p)
    <3>1. /\ l[i].of \in Known(data)
          /\ \A p \in 1..(l[i].of - 1) : \E j \in 1..(i - 1) : l[j] = Proposal(p)
      BY <2>0, <2>2 DEF Sound
    <3>2. \A j \in 1..(i - 1) : l2[j] = l[j]  BY <1>0
    <3>3. QED  BY <3>1, <3>2, <1>1 DEF Within, Kept
  <2>3. l[i].type = "result" => l[i].of = new.result
    <3>1. l[i].type = "result" => l[i].of \in Versions
      BY <2>0, EventKinds
    <3>2. l[i].type = "result" => l[i].of = data.result
      BY <2>0 DEF Sound
    <3>3. QED  BY <3>1, <3>2, <1>1, BoundsAssumption DEF Within, Kept, Versions
  <2>4. l[i].type = "session_status" /\ l[i].status \in TERMINAL => new.status = l[i].status
    BY <2>0, <1>1 DEF Sound, Within, Kept
  <2>5. ASSUME l[i].type = "session_status", l[i].status = "completed"
        PROVE  /\ l[i].of \in Versions
               /\ new.proposals[l[i].of].status = "approved"
               /\ LastVote(l2, i - 1, l[i].of)
    <3>1. /\ l[i].of \in Versions
          /\ data.proposals[l[i].of].status = "approved"
          /\ LastVote(l, i - 1, l[i].of)
      BY <2>0, <2>5 DEF Sound
    <3>2. LastVote(l2, i - 1, l[i].of)
      BY <3>1, <1>0, LastVoteStays, i - 1 \in 0..n
    <3>3. QED  BY <3>1, <3>2, <1>1 DEF Within
  <2>6. QED  BY <2>0, <2>1, <2>2, <2>3, <2>4, <2>5
<1>4. /\ e.type = "vote" => [version |-> e.of, voter |-> e.voter] \in new.votes
      /\ e.type = "proposal" =>
           /\ e.of \in Known(new)
           /\ \A p \in 1..(e.of - 1) : \E j \in 1..n : l2[j] = Proposal(p)
      /\ e.type = "result" => e.of = new.result
      /\ e.type = "session_status" /\ e.status \in TERMINAL => new.status = e.status
      /\ e.type = "session_status" /\ e.status = "completed" =>
           /\ e.of \in Versions
           /\ new.proposals[e.of].status = "approved"
           /\ LastVote(l2, n, e.of)
  <2>1. /\ e.type = "vote" => [version |-> e.of, voter |-> e.voter] \in new.votes
        /\ e.type = "result" => e.of = new.result
    BY OtherRecorded DEF new
  <2>2. ASSUME e.type = "proposal"
        PROVE  /\ e.of \in Known(new)
               /\ \A p \in 1..(e.of - 1) : \E j \in 1..n : l2[j] = Proposal(p)
    <3>1. Known(new) = Known(data) \cup {e.of} /\ Known(data) = 1..(e.of - 1)
      BY <2>2, ProposalRecorded DEF new
    <3>2. ASSUME NEW p \in 1..(e.of - 1) PROVE \E j \in 1..n : l2[j] = Proposal(p)
      <4>1. PICK j \in 1..n : l[j] = Proposal(p)  BY <3>1, <3>2 DEF Sound, n
      <4>2. QED  BY <4>1, <1>0
    <3>3. QED  BY <3>1, <3>2
  <2>3. ASSUME e.type = "session_status"
        PROVE  new.status = e.status
               /\ (e.status = "completed" => new.proposals[e.of].status = "approved")
    BY <2>3, StatusRecorded DEF new
  <2>4. ASSUME e.type = "session_status", e.status = "completed"
        PROVE  e.of \in Versions /\ LastVote(l2, n, e.of)
    <3>1. e.of \in Known(data)  BY <2>4 DEF Fits
    <3>2. LastVote(l, n, e.of)  BY <2>4 DEF n
    <3>3. LastVote(l2, n, e.of)  BY <3>2, <1>0, LastVoteStays, n \in 0..n
    <3>4. QED  BY <3>1, <3>3, KnownIsKnown
  <2>5. QED  BY <2>1, <2>2, <2>3, <2>4
<1>5. ASSUME NEW i \in 1..(n + 1) PROVE i \in 1..n \/ (i = n + 1 /\ l2[i] = e /\ i - 1 = n)
  BY <1>0
<1>6. QED  BY <1>0, <1>2, <1>3, <1>4, <1>5 DEF Sound, l2, new

LEMMA EmitReplay ==
  ASSUME NEW l \in Seq(Events), NEW data, Sane(data), Settled(data),
         NEW e \in Events, Fits(data, e), NEW f, Replay(f, l, data)
  PROVE  \E g : /\ Replay(g, Append(l, e), Recorded(data, e))
                /\ \A i \in 0..Len(l) : g[i] = f[i]
<1> DEFINE l2 == Append(l, e)
           n == Len(l)
           new == Recorded(data, e)
           g == [i \in 0..(n + 1) |-> IF i = n + 1 THEN new ELSE f[i]]
<1>0. /\ n \in Nat /\ Len(l2) = n + 1 /\ l2[n + 1] = e
      /\ \A i \in 1..n : l2[i] = l[i]
  BY AppendedLog
<1>1. Sane(new) /\ Within(data, new) /\ new \in Data
  BY RecordedIsWithin DEF Sane
<1>2. /\ f \in [0..n -> Data] /\ f[0] = Blank /\ f[n] = data
      /\ \A i \in 1..n : f[i] = Recorded(f[i - 1], l[i])
      /\ \A i \in 0..n : Sane(f[i]) /\ Within(f[i], data)
  BY DEF Replay, IsReplay
<1> HIDE DEF l2, n
<1>3. g \in [0..(n + 1) -> Data]
  BY <1>0, <1>1, <1>2
<1>4. (\A i \in 0..n : g[i] = f[i]) /\ g[n + 1] = new
  BY <1>0
<1> HIDE DEF g
<1>5. g[0] = Blank  BY <1>0, <1>2, <1>4
<1>6. ASSUME NEW i \in 1..(n + 1) PROVE g[i] = Recorded(g[i - 1], l2[i])
  <2>1. CASE i = n + 1
    BY <2>1, <1>0, <1>2, <1>4 DEF new
  <2>2. CASE i \in 1..n
    BY <2>2, <1>0, <1>2, <1>4
  <2>3. QED  BY <2>1, <2>2, <1>0
<1>7. ASSUME NEW i \in 0..(n + 1) PROVE Sane(g[i]) /\ Within(g[i], new)
  <2>1. CASE i = n + 1
    BY <2>1, <1>1, <1>4, WithinItself
  <2>2. CASE i \in 0..n
    <3>1. Sane(f[i]) /\ Within(f[i], data) /\ f[i] \in Data /\ data \in Data
      BY <2>2, <1>2 DEF Sane
    <3>2. Within(f[i], new)  BY <3>1, <1>1, WithinTransitive
    <3>3. QED  BY <2>2, <3>1, <3>2, <1>4
  <2>3. QED  BY <2>1, <2>2, <1>0
<1>8. Replay(g, l2, new)
  BY <1>0, <1>3, <1>4, <1>5, <1>6, <1>7 DEF Replay, IsReplay
<1>9. QED  BY <1>4, <1>8 DEF l2, n, new

(* An event that fits takes a handler on, with everything that is true of the
   session and its events. *)
LEMMA EmitKeeps ==
  ASSUME NEW h, Fine(h), NEW e \in Events, Fits(h.session, e),
         e.type = "session_status" /\ e.status = "completed" =>
           LastVote(h.log, Len(h.log), e.of)
  PROVE  Fine(Emit(h, e)) /\ After(h, Emit(h, e))
<1> DEFINE k == Emit(h, e)
<1>1. k.log = Append(h.log, e) /\ k.session = Recorded(h.session, e)
  BY DEF Emit
<1> HIDE DEF k
<1>2. h.log \in Seq(Events) /\ Sane(h.session) /\ Settled(h.session)
      /\ Sound(h.log, h.session)
  BY DEF Fine
<1>3. Sound(k.log, k.session)
  BY <1>1, <1>2, EmitSound
<1>4. /\ k.log \in Seq(Events)
      /\ Len(h.log) \in Nat /\ Len(k.log) = Len(h.log) + 1
      /\ \A i \in 1..Len(h.log) : k.log[i] = h.log[i]
  BY <1>1, <1>2, AppendedLog
<1>5. Sane(k.session) /\ Settled(k.session) /\ Within(h.session, k.session)
  BY <1>1, <1>2, RecordedIsWithin
<1>6. \A f : Replay(f, h.log, h.session) =>
        \E g : Replay(g, k.log, k.session) /\ \A i \in 0..Len(h.log) : g[i] = f[i]
  BY <1>1, <1>2, EmitReplay
<1>7. \E f : Replay(f, k.log, k.session)
  BY <1>6 DEF Fine
<1>8. QED  BY <1>3, <1>4, <1>5, <1>6, <1>7 DEF Fine, After, k

LEMMA AfterTransitive ==
  ASSUME NEW h, NEW j, NEW k, Fine(h), Fine(j), Fine(k), After(h, j), After(j, k)
  PROVE  After(h, k)
<1>1. Len(h.log) \in Nat /\ Len(j.log) \in Nat /\ Len(k.log) \in Nat
  BY LenProperties DEF Fine
<1>2. Len(h.log) <= Len(k.log) /\ \A i \in 1..Len(h.log) : k.log[i] = h.log[i]
  BY <1>1 DEF After
<1>3. Within(h.session, k.session)
  BY WithinTransitive DEF Fine, Sane, After
<1>4. ASSUME NEW f, Replay(f, h.log, h.session)
      PROVE  \E g : Replay(g, k.log, k.session) /\ \A i \in 0..Len(h.log) : g[i] = f[i]
  <2>1. PICK e : Replay(e, j.log, j.session) /\ \A i \in 0..Len(h.log) : e[i] = f[i]
    BY <1>4 DEF After
  <2>2. PICK g : Replay(g, k.log, k.session) /\ \A i \in 0..Len(j.log) : g[i] = e[i]
    BY <2>1 DEF After
  <2>3. \A i \in 0..Len(h.log) : g[i] = f[i]
    BY <1>1, <2>1, <2>2 DEF After
  <2>4. QED  BY <2>2, <2>3
<1>5. QED  BY <1>2, <1>3, <1>4 DEF After

-----------------------------------------------------------------------------
(* The handlers of the session *)

(* The emission of an event that is neither a status nor a result. *)
LEMMA EmitPlain ==
  ASSUME NEW h, Fine(h), NEW e \in Events, e.type \notin {"session_status", "result"},
         Fits(h.session, e), NEW k, k = Emit(h, e)
  PROVE  /\ Fine(k) /\ After(h, k)
         /\ k.session.status = h.session.status
         /\ Known(h.session) \subseteq Known(k.session)
         /\ \A v : e = VoteStatus(v) => LastVote(k.log, Len(k.log), v)
         /\ e.type = "proposal" => e.of \in Known(k.session)
<1>1. k.log = Append(h.log, e) /\ k.session = Recorded(h.session, e)
  BY DEF Emit
<1>2. Fine(k) /\ After(h, k)  BY EmitKeeps
<1>3. k.session.status = h.session.status
  BY <1>1, EventKinds DEF Recorded, Fine, Sane, Data
<1>4. \A v : e = VoteStatus(v) => LastVote(k.log, Len(k.log), v)
  <2>1. /\ Len(k.log) \in Nat \ {0} /\ k.log[Len(k.log)] = e
    BY <1>1, AppendedLog DEF Fine
  <2>2. QED  BY <2>1, LastVoteBegins
<1>5. e.type = "proposal" => e.of \in Known(k.session)
  BY <1>1, ProposalRecorded DEF Fine
<1>6. QED  BY <1>2, <1>3, <1>4, <1>5 DEF After, Within, Kept

LEMMA VerdictsFit ==
  ASSUME NEW h, Fine(h), h.session.status \in Open, NEW v \in Known(h.session),
         LastVote(h.log, Len(h.log), v), NEW k \in Verdicts(h, v)
  PROVE  Fine(k) /\ After(h, k)
<1>0. v \in Versions /\ v \in 0..MaxProposals
  BY KnownIsKnown, BoundsAssumption DEF Versions
<1>1. CASE k = Approval(h, v)
  <2> DEFINE e == Status("completed", v, "approved")
             j == Emit(h, e)
  <2>1. e \in Events /\ e.type = "session_status" /\ e.of = v /\ Fits(h.session, e)
    BY <1>0, EventTypes DEF Fits, Status, TERMINAL
  <2>2. Fine(j) /\ After(h, j)
    BY <2>1, EmitKeeps
  <2>3. j.session.status = "completed" /\ j.session.result = 0
    <3>1. h.session.result = 0
      BY DEF Fine, Settled, Open
    <3>2. QED  BY <3>1 DEF Emit, Recorded, Status, Fine, Sane, Data
  <2>4. Result(v) \in Events /\ Fits(j.session, Result(v)) /\ Result(v).type = "result"
    BY <1>0, <2>3, EventTypes DEF Fits, Result
  <2>5. Fine(k) /\ After(j, k)
    BY <1>1, <2>2, <2>4, EmitKeeps DEF Approval
  <2>6. QED  BY <2>2, <2>5, AfterTransitive
<1>2. CASE k = Failure(h, v)
  <2> DEFINE e == Status("failed", v, "rejected")
  <2>1. /\ e \in Events /\ e.type = "session_status" /\ e.status = "failed"
        /\ Fits(h.session, e)
    BY <1>0, EventTypes DEF Fits, Status, TERMINAL
  <2>2. QED  BY <1>2, <2>1, EmitKeeps DEF Failure
<1>3. CASE k = Rejection(h, v)
  <2> DEFINE e == Status("running", v, "rejected")
             j == Emit(h, e)
  <2>1. /\ e \in Events /\ e.type = "session_status" /\ e.status = "running"
        /\ Fits(h.session, e)
    BY <1>0, EventTypes DEF Fits, Status, Open
  <2>2. Fine(j) /\ After(h, j)
    BY <2>1, EmitKeeps
  <2>3. Usage \in Events /\ Usage.type = "usage" /\ Fits(j.session, Usage)
    BY EventTypes DEF Fits, Usage
  <2>4. Fine(k) /\ After(j, k)
    BY <1>3, <2>2, <2>3, EmitPlain DEF Rejection
  <2>5. QED  BY <2>2, <2>4, AfterTransitive
<1>4. QED  BY <1>1, <1>2, <1>3 DEF Verdicts

LEMMA OpeningFits ==
  ASSUME NEW v \in Versions, Fine(Now), session.status = "running",
         v = Cardinality(Known(session)) + 1, NEW k, k = Opening(v)
  PROVE  /\ Fine(k) /\ After(Now, k)
         /\ k.session.status \in Open /\ v \in Known(k.session)
         /\ LastVote(k.log, Len(k.log), v)
<1> DEFINE e1 == Proposal(v)
           e2 == Status("voting", v, "none")
           e3 == Usage
           e4 == VoteStatus(v)
           h1 == Emit(Now, e1)
           h2 == Emit(h1, e2)
           h3 == Emit(h2, e3)
           h4 == Emit(h3, e4)
<1>0. /\ v \in 0..MaxProposals /\ Now.session = session
      /\ h1 = Emit(Now, e1) /\ h2 = Emit(h1, e2) /\ h3 = Emit(h2, e3)
      /\ h4 = Emit(h3, e4) /\ h4 = k
  BY BoundsAssumption DEF Versions, Now, Opening
<1> HIDE DEF h1, h2, h3, h4
<1>1. e1 \in Events /\ e1.type = "proposal" /\ e1.of = v /\ Fits(Now.session, e1)
  BY <1>0, EventTypes DEF Fits, Proposal, Open
<1>2. /\ Fine(h1) /\ After(Now, h1) /\ h1.session.status = "running"
      /\ v \in Known(h1.session)
  BY <1>0, <1>1, EmitPlain
<1>3. /\ e2 \in Events /\ e2.type = "session_status" /\ e2.status = "voting"
      /\ Fits(h1.session, e2)
  BY <1>0, <1>2, EventTypes DEF Fits, Status, Open
<1>4. /\ Fine(h2) /\ After(h1, h2) /\ h2.session = Recorded(h1.session, e2)
  BY <1>0, <1>2, <1>3, EmitKeeps DEF Emit
<1>5. h2.session.status = "voting" /\ v \in Known(h2.session)
  BY <1>2, <1>3, <1>4, StatusRecorded DEF Fine
<1>6. e3 \in Events /\ e3.type = "usage" /\ Fits(h2.session, e3)
  BY EventTypes DEF Fits, Usage
<1>7. /\ Fine(h3) /\ After(h2, h3) /\ h3.session.status = "voting"
      /\ v \in Known(h3.session)
  <2>1. e3.type \notin {"session_status", "result"}  BY <1>6
  <2>2. /\ Fine(h3) /\ After(h2, h3) /\ h3.session.status = h2.session.status
        /\ Known(h2.session) \subseteq Known(h3.session)
    BY <1>0, <1>4, <1>6, <2>1, EmitPlain
  <2>3. QED  BY <1>5, <2>2
<1>8. e4 \in Events /\ e4.type = "vote_status" /\ Fits(h3.session, e4)
  BY EventTypes DEF Fits, VoteStatus
<1>9. /\ Fine(h4) /\ After(h3, h4) /\ h4.session.status = "voting"
      /\ v \in Known(h4.session) /\ LastVote(h4.log, Len(h4.log), v)
  BY <1>0, <1>7, <1>8, EmitPlain
<1>10. After(Now, h4)
  BY <1>2, <1>4, <1>7, <1>9, AfterTransitive
<1>11. QED  BY <1>0, <1>9, <1>10 DEF Open

(* A step of the session's handlers. *)
Handled == \E k : Fine(Now) /\ Fine(k) /\ After(Now, k) /\ Return(k)

LEMMA SubmitHandled == Fine(Now) /\ Submit => Handled /\ session.status \in Open
<1> SUFFICES ASSUME Fine(Now), Submit PROVE Handled /\ session.status \in Open
  OBVIOUS
<1> DEFINE v == Cardinality(Known(session)) + 1
           h == Opening(v)
<1>1. /\ session.status = "running" /\ v <= MaxProposals
      /\ Return(h) \/ Return(Approval(h, v)) \/ Return(Failure(h, v))
  BY DEF Submit
<1>2. v \in Versions
  BY <1>1, KnownCounted, BoundsAssumption DEF Fine, Now, Versions
<1>3. /\ Fine(h) /\ After(Now, h) /\ h.session.status \in Open
      /\ v \in Known(h.session) /\ LastVote(h.log, Len(h.log), v)
  BY <1>1, <1>2, OpeningFits
<1>4. \A k \in Verdicts(h, v) : Fine(k) /\ After(Now, k)
  <2> SUFFICES ASSUME NEW k \in Verdicts(h, v) PROVE Fine(k) /\ After(Now, k)
    OBVIOUS
  <2> HIDE DEF h, v
  <2>1. Fine(k) /\ After(h, k)  BY <1>3, VerdictsFit
  <2>2. QED  BY <1>3, <2>1, AfterTransitive
<1>5. Approval(h, v) \in Verdicts(h, v) /\ Failure(h, v) \in Verdicts(h, v)
  BY DEF Verdicts
<1>6. QED  BY <1>1, <1>3, <1>4, <1>5 DEF Handled, Open

LEMMA LatestKnown ==
  ASSUME NEW h, Fine(h), h.session.status = "voting",
         NEW v, v = Cardinality(Known(h.session))
  PROVE  v \in Known(h.session) /\ v \in Versions
<1>1. v \in Nat /\ Known(h.session) = 1..v /\ Known(h.session) # {}
  BY KnownCounted DEF Fine, Settled
<1>2. PICK p : p \in 1..v  BY <1>1
<1>3. v \in 1..v  BY <1>1, <1>2
<1>4. QED  BY <1>1, <1>3, KnownIsKnown

LEMMA VoteHandled ==
  ASSUME Fine(Now), NEW a \in Voters, Vote(a)
  PROVE  Handled /\ session.status \in Open
<1> DEFINE v == Cardinality(Known(session))
           h1 == Emit(Now, VoteOf(v, a))
           h == Emit(h1, VoteStatus(v))
<1>1. /\ session.status = "voting" /\ Now.session = session
      /\ \/ Return(h)
         \/ \E verdict \in Verdicts(h, v) : Return(verdict)
  BY DEF Vote, Now
<1>2. v \in Versions /\ v \in Known(session)
  BY <1>1, LatestKnown
<1>3. h1 = Emit(Now, VoteOf(v, a)) /\ h = Emit(h1, VoteStatus(v))
  OBVIOUS
<1> HIDE DEF v, h1, h
<1>4. /\ VoteOf(v, a) \in Events /\ Fits(Now.session, VoteOf(v, a))
      /\ VoteOf(v, a).type \notin {"session_status", "result"}
  BY <1>2, EventTypes DEF Fits, VoteOf
<1>5. Fine(h1) /\ After(Now, h1) /\ h1.session.status = "voting" /\ v \in Known(h1.session)
  BY <1>1, <1>2, <1>3, <1>4, EmitPlain
<1>6. /\ VoteStatus(v) \in Events /\ Fits(h1.session, VoteStatus(v))
      /\ VoteStatus(v).type \notin {"session_status", "result"}
  BY <1>2, EventTypes DEF Fits, VoteStatus
<1>7. /\ Fine(h) /\ After(h1, h) /\ h.session.status = "voting"
      /\ v \in Known(h.session) /\ LastVote(h.log, Len(h.log), v)
  BY <1>3, <1>5, <1>6, EmitPlain
<1>8. After(Now, h)  BY <1>5, <1>7, AfterTransitive
<1>9. ASSUME NEW k \in Verdicts(h, v) PROVE Fine(k) /\ After(Now, k)
  <2>1. Fine(k) /\ After(h, k)  BY <1>7, VerdictsFit DEF Open
  <2>2. QED  BY <1>7, <1>8, <2>1, AfterTransitive
<1>10. QED  BY <1>1, <1>7, <1>8, <1>9 DEF Handled, Open

LEMMA ExpireHandled == Fine(Now) /\ Expire => Handled /\ session.status \in Open
<1> SUFFICES ASSUME Fine(Now), Expire PROVE Handled /\ session.status \in Open
  OBVIOUS
<1> DEFINE v == Cardinality(Known(session))
           h == Emit(Now, VoteStatus(v))
<1>1. /\ session.status = "voting" /\ Now.session = session
      /\ \E verdict \in Verdicts(h, v) : Return(verdict)
  BY DEF Expire, Now
<1>2. v \in Versions /\ v \in Known(session)
  BY <1>1, LatestKnown
<1>3. h = Emit(Now, VoteStatus(v))
  OBVIOUS
<1> HIDE DEF v, h
<1>4. /\ VoteStatus(v) \in Events /\ Fits(Now.session, VoteStatus(v))
      /\ VoteStatus(v).type \notin {"session_status", "result"}
  BY <1>2, EventTypes DEF Fits, VoteStatus
<1>5. /\ Fine(h) /\ After(Now, h) /\ h.session.status = "voting"
      /\ v \in Known(h.session) /\ LastVote(h.log, Len(h.log), v)
  BY <1>1, <1>2, <1>3, <1>4, EmitPlain
<1>6. ASSUME NEW k \in Verdicts(h, v) PROVE Fine(k) /\ After(Now, k)
  <2>1. Fine(k) /\ After(h, k)  BY <1>5, VerdictsFit DEF Open
  <2>2. QED  BY <1>5, <2>1, AfterTransitive
<1>7. QED  BY <1>1, <1>6 DEF Handled, Open

(* The session fails or is cancelled. *)
LEMMA EndHandled ==
  ASSUME Fine(Now), session.status \in Open, NEW s \in {"failed", "cancelled"},
         Return(Emit(Now, Status(s, 0, "none")))
  PROVE  Handled
<1> DEFINE e == Status(s, 0, "none")
<1>0. /\ e.type = "session_status" /\ e.status = s /\ e.verdict = "none"
      /\ s \in TERMINAL /\ s \notin Open /\ Now.session = session
  BY DEF Status, TERMINAL, Open, Now
<1>1. /\ e \in Events /\ e.type = "session_status" /\ e.status # "completed"
      /\ Fits(Now.session, e)
  <2>1. e \in Events
    BY <1>0, EventTypes, BoundsAssumption, 0 \in 0..MaxProposals
  <2>2. QED  BY <1>0, <2>1 DEF Fits, Open
<1> HIDE DEF e
<1>2. Fine(Emit(Now, e)) /\ After(Now, Emit(Now, e))
  BY <1>1, EmitKeeps
<1>3. QED  BY <1>2 DEF Handled, e

(* What a handler leaves behind. *)
LEMMA HandledServer ==
  ASSUME TypeOK, Replayed, Handled
  PROVE  /\ log' \in Seq(Events) /\ Len(log) <= Len(log')
         /\ Len(log) \in Nat /\ Len(log') \in Nat
         /\ \A i \in 1..Len(log) : log'[i] = log[i]
         /\ session' \in Data /\ ServerInv' /\ Replayed'
         /\ Within(session, session')
         /\ UNCHANGED <<stored, rows>>
<1>1. PICK k : Fine(Now) /\ Fine(k) /\ After(Now, k) /\ Return(k)
  BY DEF Handled
<1>2. /\ log' = k.log /\ session' = k.session /\ UNCHANGED <<stored, rows>>
      /\ Now.log = log /\ Now.session = session
  BY <1>1 DEF Return, Now
<1>3. /\ log' \in Seq(Events) /\ Len(log) <= Len(log')
      /\ Len(log) \in Nat /\ Len(log') \in Nat
      /\ \A i \in 1..Len(log) : log'[i] = log[i]
      /\ Within(session, session')
  BY <1>1, <1>2, LenProperties DEF Fine, After
<1>4. session' \in Data /\ ServerInv'
  BY <1>1, <1>2 DEF Fine, ServerInv, Sane
<1>5. Replayed'
  <2>1. PICK f : Replay(f, log, session) /\ rows = f[stored]
    BY DEF Replayed
  <2>2. PICK g : Replay(g, log', session') /\ \A i \in 0..Len(log) : g[i] = f[i]
    BY <1>1, <1>2, <2>1 DEF After
  <2>3. rows' = g[stored']
    BY <1>2, <2>1, <2>2 DEF TypeOK
  <2>4. QED  BY <2>2, <2>3 DEF Replayed
<1>6. QED  BY <1>2, <1>3, <1>4, <1>5

-----------------------------------------------------------------------------
(* An event is shown *)

LEMMA FineNow == TypeOK /\ ServerInv /\ Replayed => Fine(Now)
BY DEF TypeOK, ServerInv, Replayed, Fine, Now

LEMMA RowsTrue ==
  ASSUME TypeOK, Replayed
  PROVE  /\ Sane(rows) /\ Within(rows, session)
         /\ stored = Len(log) => rows = session
<1>1. PICK f : Replay(f, log, session) /\ rows = f[stored]
  BY DEF Replayed
<1>2. stored \in 0..Len(log)  BY DEF TypeOK
<1>3. QED  BY <1>1, <1>2 DEF Replay

(* The next event of a page. *)
LEMMA ShownEvent ==
  ASSUME TypeOK, NEW n \in Nat, n < Len(log)
  PROVE  log[n + 1] \in Events /\ n + 1 \in 1..Len(log)
BY LenProperties, ElementOfSeq DEF TypeOK

LEMMA VerdictShown ==
  ASSUME NEW data, Sane(data), NEW v \in 0..MaxProposals,
         NEW status \in Open \cup TERMINAL,
         Within(data, session),
         status = "completed" /\ v \in Versions => session.proposals[v].status = "approved",
         NEW P, P = Verdicted(data.proposals, v, status)
  PROVE  /\ P \in [Versions -> Proposals]
         /\ \A p \in Versions : /\ P[p].number = data.proposals[p].number
                                /\ P[p].status = "none" <=> data.proposals[p].status = "none"
                                /\ P[p].status = "approved" =>
                                     session.proposals[p].status = "approved"
<1>1. data.proposals \in [Versions -> Proposals]  BY DEF Sane, Data
<1>2. CASE P = data.proposals
  BY <1>1, <1>2 DEF Within
<1>3. ASSUME NEW s \in {"approved", "rejected"}, v \in Versions,
             data.proposals[v].status # "none",
             P = [data.proposals EXCEPT ![v].status = s],
             s = "approved" => session.proposals[v].status = "approved"
      PROVE  /\ P \in [Versions -> Proposals]
             /\ \A p \in Versions : /\ P[p].number = data.proposals[p].number
                                    /\ P[p].status = "none" <=> data.proposals[p].status = "none"
                                    /\ P[p].status = "approved" =>
                                         session.proposals[p].status = "approved"
  <2>1. P \in [Versions -> Proposals]
    BY <1>1, <1>3 DEF Proposals
  <2>2. \A p \in Versions : /\ P[p].number = data.proposals[p].number
                            /\ P[p].status = IF p = v THEN s ELSE data.proposals[p].status
    BY <1>1, <1>3 DEF Proposals
  <2>3. QED  BY <2>1, <2>2, <1>3 DEF Within
<1>4. \/ P = data.proposals
      \/ /\ v \in Versions /\ data.proposals[v].status # "none"
         /\ \/ status = "running" /\ P = [data.proposals EXCEPT ![v].status = "rejected"]
            \/ status = "completed" /\ P = [data.proposals EXCEPT ![v].status = "approved"]
  BY DEF Verdicted
<1>5. QED  BY <1>2, <1>3, <1>4

LEMMA StatusShown ==
  ASSUME TypeOK, ServerInv, NEW c \in Contexts, TruePage(c), c.seen < Len(log),
         NEW e, e = log[c.seen + 1], e.type = "session_status",
         NEW new, new = Applied(c, e).data
  PROVE  Sane(new) /\ Within(new, session) /\ Kept(c.data, new) /\ Known(new) = Known(c.data)
<1> DEFINE data == c.data
<1>0. /\ Sane(data) /\ Within(data, session) /\ data \in Data
      /\ c.seen \in Nat /\ c.vote \in 0..MaxProposals
      /\ e \in Events /\ c.seen + 1 \in 1..Len(log)
  BY ShownEvent DEF TruePage, Sane, Contexts
<1>1. CASE ~CanAdvance(data, e.status)
  BY <1>0, <1>1, WithinItself DEF Applied, Within, Contexts
<1>2. CASE CanAdvance(data, e.status)
  <2> DEFINE P == Verdicted(data.proposals, c.vote, e.status)
  <2>1. e.status \in Open \cup TERMINAL  BY <1>0, EventKinds
  <2>2. new = [data EXCEPT !.status = e.status, !.proposals = P]
    BY <1>0, <1>2 DEF Applied, Contexts, Data
  <2>3. e.status = "completed" /\ c.vote \in Versions =>
          session.proposals[c.vote].status = "approved"
    <3> SUFFICES ASSUME e.status = "completed", c.vote \in Versions
                 PROVE  session.proposals[c.vote].status = "approved"
      OBVIOUS
    <3>1. /\ session.proposals[e.of].status = "approved"
          /\ LastVote(log, (c.seen + 1) - 1, e.of)
      BY <1>0 DEF ServerInv, Sound
    <3>2. LastVote(log, c.seen, c.vote)
      BY BoundsAssumption DEF TruePage, Versions
    <3>3. (c.seen + 1) - 1 = c.seen  BY <1>0
    <3>4. c.vote = e.of
      BY <1>0, <3>1, <3>2, <3>3, LastVoteUnique
    <3>5. QED  BY <3>1, <3>4
  <2>4. /\ P \in [Versions -> Proposals]
        /\ \A p \in Versions : /\ P[p].number = data.proposals[p].number
                               /\ P[p].status = "none" <=> data.proposals[p].status = "none"
                               /\ P[p].status = "approved" =>
                                    session.proposals[p].status = "approved"
    BY <1>0, <2>1, <2>3, VerdictShown
  <2> HIDE DEF P
  <2>5. /\ new \in Data /\ new.status = e.status /\ new.proposals = P
        /\ new.votes = data.votes /\ new.result = data.result
    BY <1>0, <2>1, <2>2, <2>4 DEF Data
  <2>6. Known(new) = Known(data)
    BY <2>4, <2>5 DEF Known
  <2>7. Sane(new)
    BY <1>0, <2>4, <2>5, <2>6, KnownIsKnown DEF Sane
  <2>8. e.status \in TERMINAL => session.status = e.status
    BY <1>0 DEF ServerInv, Sound
  <2>9. Within(new, session)
    BY <1>0, <2>4, <2>5, <2>6, <2>8 DEF Within, Kept
  <2>10. Kept(data, new)
    BY <1>2, <2>5, <2>6 DEF Kept, CanAdvance
  <2>11. QED  BY <2>6, <2>7, <2>9, <2>10
<1>3. QED  BY <1>1, <1>2

LEMMA NextNumber ==
  ASSUME NEW data, Sane(data), NEW k \in Nat, Known(data) = 1..k
  PROVE  1 + Max({0} \cup {data.proposals[w].number : w \in Known(data)}) = k + 1
<1> DEFINE S == {0} \cup {data.proposals[w].number : w \in Known(data)}
<1>1. S = 0..k
  <2>1. \A w \in 1..k : data.proposals[w].number = w  BY DEF Sane
  <2>2. {data.proposals[w].number : w \in Known(data)} = 1..k
    BY <2>1
  <2>3. {0} \cup (1..k) = 0..k  OBVIOUS
  <2>4. QED  BY <2>2, <2>3
<1> HIDE DEF S
<1>2. \E x \in S : \A y \in S : x >= y
  <2>1. k \in 0..k /\ \A y \in 0..k : k >= y  OBVIOUS
  <2>2. QED  BY <1>1, <2>1
<1>3. Max(S) \in S /\ \A y \in S : Max(S) >= y
  BY <1>2 DEF Max
<1>4. Max(S) = k
  <2>1. Max(S) \in 0..k /\ Max(S) >= k  BY <1>1, <1>3
  <2>2. QED  BY <2>1
<1>5. QED  BY <1>4 DEF S

LEMMA ProposalShown ==
  ASSUME TypeOK, ServerInv, NEW c \in Contexts, TruePage(c), c.seen < Len(log),
         NEW e, e = log[c.seen + 1], e.type = "proposal",
         NEW new, new = Applied(c, e).data
  PROVE  /\ Sane(new) /\ Within(new, session) /\ Kept(c.data, new)
         /\ e.of \in Known(new) /\ Known(c.data) \subseteq Known(new)
<1> DEFINE data == c.data
           v == e.of
<1>0. /\ Sane(data) /\ Within(data, session) /\ data \in Data
      /\ c.seen \in Nat /\ e \in Events /\ c.seen + 1 \in 1..Len(log)
      /\ v \in Versions /\ v \in Nat /\ v >= 1
  BY ShownEvent, EventKinds, BoundsAssumption DEF TruePage, Sane, Contexts, Versions
<1>1. new = Numbered(data, v)
  BY DEF Applied, Contexts
<1>2. v \in Known(session)
  BY <1>0 DEF ServerInv, Sound
<1>3. CASE v \in Known(data)
  BY <1>0, <1>1, <1>3, WithinItself DEF Numbered, Within
<1>4. CASE v \notin Known(data)
  <2>1. \A p \in 1..(v - 1) : p \in Known(data)
    <3> SUFFICES ASSUME NEW p \in 1..(v - 1) PROVE p \in Known(data)
      OBVIOUS
    <3>1. PICK j \in 1..((c.seen + 1) - 1) : log[j] = Proposal(p)
      BY <1>0 DEF ServerInv, Sound
    <3>2. j \in 1..c.seen /\ log[j].type = "proposal" /\ log[j].of = p
      BY <1>0, <3>1 DEF Proposal
    <3>3. QED  BY <3>2 DEF TruePage
  <2>2. \A p \in Known(data) : p <= v - 1
    <3> SUFFICES ASSUME NEW p \in Known(data), ~(p <= v - 1) PROVE FALSE
      OBVIOUS
    <3>1. p \in Nat /\ p >= v
      BY <1>0, KnownIsKnown, BoundsAssumption DEF Versions
    <3>2. v \in 1..p  BY <1>0, <3>1
    <3>3. QED  BY <1>0, <1>4, <3>2 DEF Sane
  <2>3. Known(data) = 1..(v - 1)
    <3>1. \A p \in Known(data) : p \in Nat /\ p >= 1
      BY KnownIsKnown, BoundsAssumption DEF Versions
    <3>2. \A p \in Known(data) : p \in 1..(v - 1)
      BY <1>0, <2>2, <3>1
    <3>3. QED  BY <2>1, <3>2
  <2>4. 1 + Max({0} \cup {data.proposals[w].number : w \in Known(data)}) = v
    BY <1>0, <2>3, NextNumber
  <2> DEFINE P == [data.proposals EXCEPT ![v] = [status |-> "pending", number |-> v]]
  <2>5. new = [data EXCEPT !.proposals = P]
    BY <1>0, <1>1, <1>4, <2>4 DEF Numbered, Data
  <2>6. P \in [Versions -> Proposals]
    BY <1>0, BoundsAssumption DEF Data, Proposals, Versions
  <2>7. \A p \in Versions :
          P[p] = IF p = v THEN [status |-> "pending", number |-> v] ELSE data.proposals[p]
    BY <1>0 DEF Data
  <2> HIDE DEF P
  <2>8. /\ new \in Data /\ new.status = data.status /\ new.proposals = P
        /\ new.votes = data.votes /\ new.result = data.result
    BY <1>0, <2>5, <2>6 DEF Data
  <2>9. Known(new) = Known(data) \cup {v}
    BY <1>0, <2>7, <2>8 DEF Known
  <2>10. Known(new) = 1..v
    <3>1. (1..(v - 1)) \cup {v} = 1..v  BY <1>0
    <3>2. QED  BY <2>3, <2>9, <3>1
  <2>11. Sane(new)
    <3>1. \A p \in Known(new) : P[p].number = p
      BY <1>0, <2>7, <2>9, KnownIsKnown DEF Sane
    <3>2. \A p \in Known(new) : 1..p \subseteq Known(new)
      BY <1>0, <2>10
    <3>3. \A p \in Versions \ Known(new) : P[p].number = 0
      BY <1>0, <2>7, <2>9 DEF Sane
    <3>4. QED  BY <2>8, <3>1, <3>2, <3>3 DEF Sane
  <2>12. \A p \in Versions : P[p].status = "approved" => session.proposals[p].status = "approved"
    BY <1>0, <2>7 DEF Within
  <2>13. Within(new, session)
    BY <1>0, <1>2, <2>8, <2>9, <2>12 DEF Within, Kept
  <2>14. Kept(data, new)
    BY <2>8, <2>9 DEF Kept
  <2>15. QED  BY <2>9, <2>11, <2>13, <2>14
<1>5. QED  BY <1>3, <1>4

LEMMA OtherShown ==
  ASSUME TypeOK, ServerInv, NEW c \in Contexts, TruePage(c), c.seen < Len(log),
         NEW e, e = log[c.seen + 1], e.type \notin {"session_status", "proposal"},
         NEW new, new = Applied(c, e).data
  PROVE  Sane(new) /\ Within(new, session) /\ Kept(c.data, new) /\ Known(new) = Known(c.data)
<1> DEFINE data == c.data
<1>0. /\ Sane(data) /\ Within(data, session) /\ data \in Data
      /\ c.seen \in Nat /\ e \in Events /\ c.seen + 1 \in 1..Len(log)
  BY ShownEvent DEF TruePage, Sane, Contexts
<1>1. CASE e.type = "vote"
  <2> DEFINE ballot == [version |-> e.of, voter |-> e.voter]
  <2>1. ballot \in Votes /\ ballot \in session.votes
    BY <1>0, <1>1, EventKinds DEF Votes, ServerInv, Sound
  <2> HIDE DEF ballot
  <2>2. new = [data EXCEPT !.votes = @ \cup {ballot}]
    BY <1>0, <1>1 DEF Applied, Contexts, Data, ballot
  <2>3. /\ new \in Data /\ new.proposals = data.proposals /\ new.status = data.status
        /\ new.result = data.result /\ new.votes = data.votes \cup {ballot}
    BY <1>0, <2>1, <2>2 DEF Data
  <2>4. Known(new) = Known(data)  BY <2>3 DEF Known
  <2>5. QED  BY <1>0, <2>1, <2>3, <2>4 DEF Sane, Within, Kept
<1>2. CASE e.type = "result"
  <2>1. e.of \in 0..MaxProposals /\ e.of = session.result
    <3>1. e.of \in Versions  BY <1>0, <1>2, EventKinds
    <3>2. e.of = session.result  BY <1>0, <1>2 DEF ServerInv, Sound
    <3>3. QED  BY <3>1, <3>2, BoundsAssumption DEF Versions
  <2>2. new = [data EXCEPT !.result = e.of]
    BY <1>0, <1>2 DEF Applied, Contexts, Data
  <2>3. /\ new \in Data /\ new.proposals = data.proposals /\ new.status = data.status
        /\ new.result = e.of /\ new.votes = data.votes
    BY <1>0, <2>1, <2>2 DEF Data
  <2>4. Known(new) = Known(data)  BY <2>3 DEF Known
  <2>5. QED  BY <1>0, <2>1, <2>3, <2>4 DEF Sane, Within, Kept
<1>3. CASE e.type \in {"vote_status", "usage"}
  <2>1. new = data  BY <1>0, <1>3 DEF Applied, Contexts
  <2>2. QED  BY <1>0, <2>1, WithinItself DEF Within
<1>4. QED  BY <1>0, <1>1, <1>2, <1>3, EventKinds

(* Showing the next event keeps the page true and takes nothing back. *)
LEMMA EventShown ==
  ASSUME TypeOK, ServerInv, NEW c \in Contexts, TruePage(c), c.seen < Len(log),
         NEW new, new = Applied(c, log[c.seen + 1])
  PROVE  /\ new \in Contexts /\ TruePage(new) /\ Kept(c.data, new.data)
         /\ new.seen = c.seen + 1 /\ new.open = c.open /\ new.fresh = c.fresh
<1> DEFINE e == log[c.seen + 1]
<1>0. /\ c.seen \in Nat /\ e \in Events /\ c.seen + 1 \in 1..Len(log)
      /\ c.vote \in 0..MaxProposals /\ c.data \in Data
  BY ShownEvent DEF Contexts
<1>1. /\ Sane(new.data) /\ Within(new.data, session) /\ Kept(c.data, new.data)
      /\ Known(c.data) \subseteq Known(new.data)
      /\ e.type = "proposal" => e.of \in Known(new.data)
  <2>1. CASE e.type = "session_status"  BY <2>1, StatusShown
  <2>2. CASE e.type = "proposal"  BY <2>2, ProposalShown
  <2>3. CASE e.type \notin {"session_status", "proposal"}  BY <2>3, OtherShown
  <2>4. QED  BY <2>1, <2>2, <2>3
<1>2. /\ new.seen = c.seen + 1 /\ new.open = c.open /\ new.fresh = c.fresh
      /\ new.vote = IF e.type = "vote_status" THEN e.of ELSE c.vote
      /\ new.usage \in BOOLEAN
      /\ new = [c EXCEPT !.seen = new.seen, !.data = new.data,
                         !.vote = new.vote, !.usage = new.usage]
  <2> HIDE DEF e
  <2>1. CASE e.type = "session_status"
    BY <2>1 DEF Applied, Contexts, e
  <2>2. CASE e.type \in {"proposal", "vote"}
    BY <2>2 DEF Applied, Contexts, e
  <2>3. CASE e.type \in {"vote_status", "usage", "result"}
    BY <2>3 DEF Applied, Contexts, e
  <2>4. QED  BY <1>0, <2>1, <2>2, <2>3, EventKinds
<1>3. new.vote \in 0..MaxProposals
  <2>1. e.type = "vote_status" => e.of \in Versions  BY <1>0, EventKinds
  <2>2. QED  BY <1>0, <1>2, <2>1, BoundsAssumption DEF Versions
<1>4. new \in Contexts
  <2>1. new.data \in Data /\ new.seen \in Nat
    BY <1>0, <1>1, <1>2 DEF Sane
  <2>2. ASSUME NEW s \in Nat, NEW d \in Data, NEW v \in 0..MaxProposals, NEW u \in BOOLEAN
        PROVE  [c EXCEPT !.seen = s, !.data = d, !.vote = v, !.usage = u] \in Contexts
    BY DEF Contexts
  <2>3. new.usage \in BOOLEAN  BY <1>2
  <2>4. [c EXCEPT !.seen = new.seen, !.data = new.data,
                  !.vote = new.vote, !.usage = new.usage] \in Contexts
    BY <1>3, <2>1, <2>2, <2>3
  <2>5. QED  BY <1>2, <2>4
<1>5. ASSUME NEW i \in 1..new.seen, log[i].type = "proposal"
      PROVE  log[i].of \in Known(new.data)
  <2>1. CASE i = c.seen + 1  BY <2>1, <1>1, <1>5
  <2>2. CASE i \in 1..c.seen  BY <2>2, <1>1, <1>5 DEF TruePage
  <2>3. QED  BY <1>0, <1>2, <2>1, <2>2
<1>6. ASSUME new.vote # 0 PROVE LastVote(log, new.seen, new.vote)
  <2>1. CASE e.type = "vote_status"
    <3>1. e = VoteStatus(new.vote)  BY <1>0, <1>2, <2>1, EventKinds
    <3>2. c.seen + 1 \in Nat \ {0}  BY <1>0
    <3>3. QED  BY <1>2, <3>1, <3>2, LastVoteBegins
  <2>2. CASE e.type # "vote_status"
    <3>1. LastVote(log, (c.seen + 1) - 1, new.vote)
      BY <1>0, <1>2, <1>6, <2>2 DEF TruePage
    <3>2. QED  BY <1>0, <1>2, <2>2, <3>1, LastVoteGoesOn
  <2>3. QED  BY <2>1, <2>2
<1>7. QED  BY <1>1, <1>2, <1>4, <1>5, <1>6 DEF TruePage

(* The last detail, merged with the records of a page, is the session. *)
LEMMA MergedIsSession ==
  ASSUME TypeOK, ServerInv, Replayed, Done, NEW data, Sane(data), Within(data, session)
  PROVE  Merged(data, WithRows(Bare(session))) = session
<1>1. rows = session  BY RowsTrue DEF Done
<1>2. session \in Data /\ Blank.proposals \in [Versions -> Proposals]
  BY BlankIsSane DEF TypeOK, Sane, Data
<1>3. WithRows(Bare(session)) = session
  BY <1>1, <1>2 DEF WithRows, Bare, Data
<1> DEFINE P == [v \in Versions |-> IF session.proposals[v].status = "none"
                                    THEN data.proposals[v] ELSE session.proposals[v]]
<1>4. \A v \in Versions : session.proposals[v].status = "none" =>
        data.proposals[v] = session.proposals[v]
  <2> SUFFICES ASSUME NEW v \in Versions, session.proposals[v].status = "none"
               PROVE  data.proposals[v] = session.proposals[v]
    OBVIOUS
  <2>1. v \notin Known(session) /\ v \notin Known(data)
    BY DEF Known, Within, Kept
  <2>2. data.proposals[v].status = "none" /\ data.proposals[v].number = 0
    BY <2>1 DEF Known, Sane
  <2>3. session.proposals[v].number = 0
    BY <2>1 DEF ServerInv, Sane
  <2>4. data.proposals[v] \in Proposals /\ session.proposals[v] \in Proposals
    BY <1>2 DEF Sane, Data
  <2>5. QED  BY <2>2, <2>3, <2>4 DEF Proposals
<1>5. P = session.proposals
  BY <1>2, <1>4 DEF Data
<1>6. data.votes \cup session.votes = session.votes
  BY DEF Within, Kept
<1>7. Merged(data, session) = [session EXCEPT !.proposals = P,
                                              !.votes = data.votes \cup session.votes]
  BY <1>2 DEF Merged, Data
<1>8. QED  BY <1>2, <1>3, <1>5, <1>6, <1>7 DEF Data

(* An answer of the server with the rows of the store. *)
LEMMA WithRowsTrue ==
  ASSUME TypeOK, ServerInv, Replayed, NEW data, Sane(data), Within(data, session),
         NEW new, new = WithRows(data)
  PROVE  Sane(new) /\ Within(new, session)
<1>1. Sane(rows) /\ Within(rows, session)  BY RowsTrue
<1>2. /\ new \in Data /\ new.status = data.status /\ new.result = data.result
      /\ new.proposals = rows.proposals /\ new.votes = rows.votes
  BY <1>1 DEF WithRows, Sane, Data
<1>3. Known(new) = Known(rows)  BY <1>2 DEF Known
<1>4. Sane(new)  BY <1>1, <1>2, <1>3 DEF Sane
<1>5. Within(new, session)  BY <1>1, <1>2, <1>3 DEF Within, Kept
<1>6. QED  BY <1>4, <1>5

LEMMA BareTrue ==
  ASSUME TypeOK, ServerInv
  PROVE  Sane(Bare(session)) /\ Within(Bare(session), session)
<1> DEFINE new == Bare(session)
<1>1. Blank.proposals \in [Versions -> Proposals] /\ session \in Data
  BY BlankIsSane DEF TypeOK, Sane, Data
<1>2. /\ new \in Data /\ new.status = session.status /\ new.result = session.result
      /\ new.proposals = Blank.proposals /\ new.votes = {}
  BY <1>1 DEF Bare, Data
<1>3. Known(new) = {}  BY <1>2, BlankIsSane DEF Known
<1>4. Sane(new)  BY <1>2, <1>3, BlankIsSane DEF Sane
<1>5. Within(new, session)  BY <1>2, <1>3, BlankIsSane DEF Within, Kept, Settled, Blank
<1>6. QED  BY <1>4, <1>5

-----------------------------------------------------------------------------
(* The invariant is kept *)

LEMMA RequestFields ==
  ASSUME NEW kind, NEW v, NEW data, NEW r, r = Request(kind, v, data)
  PROVE  r.kind = kind /\ r.version = v /\ r.data = data
BY DEF Request

LEMMA RequestType ==
  ASSUME NEW n, NEW kind \in Kinds, NEW v \in 1..n, NEW data \in Data
  PROVE  Request(kind, v, data) \in [kind : Kinds, version : 1..n, data : Data]
BY DEF Request

LEMMA BlankRequest ==
  ASSUME NEW kind, kind \notin {"refresh", "ending"}, NEW v
  PROVE  TrueRequest(Request(kind, v, Blank))
BY BlankIsSane, BlankIsWithin, RequestFields DEF TrueRequest

LEMMA NewContext ==
  /\ NoContext \in Contexts
  /\ TypeOK => TruePage(NoContext)
<1>1. Blank \in Data  BY BlankIsSane DEF Sane
<1>2. NoContext \in Contexts
  BY <1>1, BoundsAssumption DEF NoContext, Contexts
<1>3. ASSUME TypeOK PROVE TruePage(NoContext)
  BY BlankIsSane, BlankIsWithin DEF NoContext, TruePage
<1>4. QED  BY <1>2, <1>3

LEMMA InitInv == Init => IInv
<1> SUFFICES ASSUME Init PROVE IInv
  OBVIOUS
<1> DEFINE e == Status("running", 0, "none")
           r == Request("detail", 1, Blank)
           h == [log |-> <<>>, session |-> Blank]
<1>0. /\ log = <<e>> /\ session = Blank /\ stored = 0 /\ rows = Blank
      /\ hash = "detail" /\ version = 1 /\ view = [page |-> "loading", version |-> 1]
      /\ context = [v \in 1..MaxRoutes |-> NoContext]
      /\ stream = 0 /\ requests = {r} /\ errors = 0 /\ breaks = 0
  BY DEF Init
<1>1. /\ e \in Events /\ e.type = "session_status" /\ e.status = "running"
      /\ Fits(Blank, e)
  BY EventTypes, BoundsAssumption, 0 \in 0..MaxProposals DEF Fits, Status, Open, Blank
<1>2. Fine(h)
  <2>1. <<>> \in Seq(Events) /\ Len(<<>>) = 0  BY EmptySeq
  <2>2. Sound(<<>>, Blank)  BY <2>1, BlankIsSane DEF Sound
  <2>3. Replay([i \in 0..0 |-> Blank], <<>>, Blank)
    BY <2>1, BlankIsSane, BlankIsWithin DEF Replay, IsReplay, Sane
  <2>4. QED  BY <2>1, <2>2, <2>3, BlankIsSane DEF Fine
<1>3. Fine(Emit(h, e)) /\ After(h, Emit(h, e))
  BY <1>1, <1>2, EmitKeeps
<1>4. Emit(h, e).log = log /\ Emit(h, e).session = session
  <2>1. Append(<<>>, e) = <<e>>  OBVIOUS
  <2>2. Recorded(Blank, e) = Blank
    BY DEF Recorded, Status, Blank
  <2>3. QED  BY <1>0, <2>1, <2>2 DEF Emit
<1>5. ServerInv /\ log \in Seq(Events) /\ Replayed
  <2>1. \A f : Replay(f, log, session) => f[stored] = rows
    BY <1>0 DEF Replay, IsReplay
  <2>2. QED  BY <1>3, <1>4, <2>1 DEF Fine, ServerInv, Replayed
<1>6. r.kind = "detail" /\ r.version = 1 /\ r.data = Blank
  BY DEF Request
<1>7. TypeOK
  <2>1. Len(log) = 1 /\ 1 \in 1..MaxRoutes /\ "detail" \in Kinds
    BY <1>0, BoundsAssumption DEF Kinds, Loading
  <2>2. Blank \in Data  BY BlankIsSane DEF Sane
  <2>3. r \in [kind : Kinds, version : 1..1, data : Data]
    BY <2>1, <2>2 DEF Request
  <2>4. NoContext.seen = 0  BY DEF NoContext
  <2>5. QED
    BY <1>0, <1>5, <2>1, <2>2, <2>3, <2>4, NewContext, BoundsAssumption DEF TypeOK
<1>8. PageInv
  <2>1. PagesTrue  BY <1>0, <1>7, NewContext DEF PagesTrue
  <2>2. RequestsTrue  BY <1>0, BlankRequest DEF RequestsTrue
  <2>3. /\ \A v \in 1..MaxRoutes : ~context[v].open /\ ~context[v].fresh
        /\ 1 \in 1..MaxRoutes
    BY <1>0, BoundsAssumption DEF NoContext
  <2>4. FreshFinal /\ OpenedOnce /\ StreamFits
    BY <1>0, <1>6, <2>3 DEF FreshFinal, OpenedOnce, StreamFits
  <2>5. QED  BY <2>1, <2>2, <2>4 DEF PageInv
<1>9. QED  BY <1>5, <1>7, <1>8 DEF IInv

(* Pages that stay open go on showing what they have shown. *)
PagesKept ==
  \A v \in 1..MaxRoutes :
    context[v].open /\ context'[v].open => Kept(context[v].data, context'[v].data)

LEMMA SamePages == UNCHANGED context => PagesKept
BY DEF PagesKept, Kept

LEMMA HandlerStep ==
  ASSUME IInv, session.status \in Open, Handled,
         UNCHANGED <<hash, version, view, context, stream, faults>>,
         NEW v \in 1..version,
         requests' \subseteq requests \cup {Request("cancelling", v, Blank)}
  PROVE  IInv'
<1> DEFINE s == Request("cancelling", v, Blank)
<1>0. TypeOK /\ ServerInv /\ Replayed /\ PageInv  BY DEF IInv
<1>1. /\ log' \in Seq(Events) /\ Len(log) <= Len(log')
      /\ Len(log) \in Nat /\ Len(log') \in Nat
      /\ \A i \in 1..Len(log) : log'[i] = log[i]
      /\ session' \in Data /\ ServerInv' /\ Replayed'
      /\ Within(session, session')
      /\ UNCHANGED <<stored, rows>>
  BY <1>0, HandledServer
<1>2. s.kind = "cancelling" /\ s.version = v /\ s.data = Blank
  BY RequestFields
<1>3. TypeOK'
  <2>1. s \in [kind : Kinds, version : 1..version, data : Data]
    BY BlankIsSane, RequestType DEF Kinds, Sane
  <2>2. \A w \in 1..MaxRoutes : context[w].seen <= Len(log')
    BY <1>0, <1>1 DEF TypeOK, Contexts
  <2>3. stored \in 0..Len(log')  BY <1>0, <1>1 DEF TypeOK
  <2>4. QED  BY <1>0, <1>1, <2>1, <2>2, <2>3 DEF TypeOK, faults
<1>4. PagesTrue'
  <2> SUFFICES ASSUME NEW w \in 1..MaxRoutes PROVE TruePage(context[w])'
    BY <1>0 DEF PagesTrue
  <2> DEFINE c == context[w]
  <2>1. TruePage(c) /\ c \in Contexts /\ c.seen <= Len(log) /\ c.seen \in Nat
    BY <1>0 DEF PageInv, PagesTrue, TypeOK, Contexts
  <2>2. Within(c.data, session')
    BY <1>0, <1>1, <2>1, WithinTransitive DEF TruePage, Sane, ServerInv
  <2>3. \A i \in 1..c.seen : log'[i] = log[i]
    BY <1>1, <2>1
  <2>4. c.vote # 0 => LastVote(log', c.seen, c.vote)
    BY <2>1, <2>3, LastVoteStays, c.seen \in 0..c.seen DEF TruePage
  <2>5. QED  BY <2>1, <2>2, <2>3, <2>4 DEF TruePage
<1>5. session.status \notin TERMINAL  BY DEF Open, TERMINAL
<1>6. RequestsTrue'
  <2> SUFFICES ASSUME NEW r \in requests' PROVE TrueRequest(r)'
    BY DEF RequestsTrue
  <2>1. CASE r \in requests
    <3>1. TrueRequest(r)  BY <1>0, <2>1 DEF PageInv, RequestsTrue
    <3>2. Within(r.data, session')
      BY <1>0, <1>1, <3>1, WithinTransitive DEF TrueRequest, Sane, ServerInv
    <3>3. r.kind # "refresh" /\ r.kind # "ending"
      BY <1>5, <3>1 DEF TrueRequest, Done
    <3>4. QED  BY <3>1, <3>2, <3>3 DEF TrueRequest
  <2>2. CASE r = s
    BY <1>2, <2>2, BlankIsSane, BlankIsWithin DEF TrueRequest
  <2>3. QED  BY <2>1, <2>2
<1>7. FreshFinal'
  BY <1>0, <1>5 DEF PageInv, FreshFinal, Done
<1>8. \A r \in requests' : r.kind \in Loading \cup {"refresh", "ending"} => r \in requests
  BY <1>2 DEF Loading
<1>9. OpenedOnce'
  BY <1>0, <1>8 DEF PageInv, OpenedOnce
<1>10. StreamFits'
  BY <1>0, <1>8 DEF PageInv, StreamFits
<1>11. QED  BY <1>1, <1>3, <1>4, <1>6, <1>7, <1>9, <1>10 DEF IInv, PageInv

LEMMA PersistStep == IInv /\ Persist => IInv'
<1> SUFFICES ASSUME IInv, Persist PROVE IInv'
  OBVIOUS
<1>0. /\ TypeOK /\ ServerInv /\ Replayed /\ PageInv
      /\ stored < Len(log) /\ stored' = stored + 1
      /\ rows' = Recorded(rows, log[stored + 1])
      /\ UNCHANGED <<log, session, page, faults>>
  BY DEF IInv, Persist
<1>1. stored \in Nat /\ Len(log) \in Nat /\ stored + 1 \in 1..Len(log)
  BY <1>0, LenProperties DEF TypeOK
<1>2. Replayed' /\ rows' \in Data
  <2>1. PICK f : Replay(f, log, session) /\ rows = f[stored]
    BY <1>0 DEF Replayed
  <2>2. f[stored + 1] = Recorded(f[(stored + 1) - 1], log[stored + 1])
    BY <1>1, <2>1 DEF Replay, IsReplay
  <2>3. (stored + 1) - 1 = stored  BY <1>1
  <2>4. rows' = f[stored']  BY <1>0, <2>1, <2>2, <2>3
  <2>5. f[stored + 1] \in Data  BY <1>1, <2>1 DEF Replay, IsReplay
  <2>6. QED  BY <1>0, <2>1, <2>4, <2>5 DEF Replayed
<1>3. TypeOK'
  BY <1>0, <1>1, <1>2 DEF TypeOK, page, faults
<1>4. ~Done  BY <1>0, <1>1 DEF Done
<1>5. ServerInv' /\ PagesTrue' /\ OpenedOnce' /\ StreamFits'
  BY <1>0 DEF ServerInv, PageInv, PagesTrue, TruePage, OpenedOnce, StreamFits, page
<1>6. RequestsTrue' /\ FreshFinal'
  BY <1>0, <1>4 DEF PageInv, RequestsTrue, TrueRequest, FreshFinal, page
<1>7. QED  BY <1>2, <1>3, <1>5, <1>6 DEF IInv, PageInv

(* While the server does nothing, what is so stays so. *)
LEMMA ServerRests ==
  ASSUME IInv, UNCHANGED server
  PROVE  /\ ServerInv' /\ Replayed'
         /\ Done' = Done
         /\ \A c : TruePage(c) => TruePage(c)'
         /\ \A r : TrueRequest(r) => TrueRequest(r)'
BY DEF server, IInv, ServerInv, Replayed, Done, TruePage, TrueRequest

LEMMA ReadStep ==
  ASSUME IInv, NEW r \in requests, ReadSession(r)
  PROVE  IInv' /\ PagesKept
<1> DEFINE kind == IF r.kind = "detail" THEN "snapshot" ELSE "ending"
           q == Request(kind, r.version, Bare(session))
<1>0. /\ TypeOK /\ ServerInv /\ PageInv
      /\ r.kind \in {"detail", "refresh"} /\ r.version \in 1..version
      /\ session.status \in TERMINAL => Done
      /\ requests' = (requests \ {r}) \cup {q}
      /\ UNCHANGED <<server, hash, version, view, context, stream, faults>>
  BY DEF IInv, ReadSession, Bare, TypeOK
<1>1. q.kind = kind /\ q.version = r.version /\ q.data = Bare(session)
  BY RequestFields
<1>2. Sane(Bare(session)) /\ Within(Bare(session), session)
  BY <1>0, BareTrue
<1>3. TypeOK'
  <2>1. kind \in Kinds /\ Bare(session) \in Data
    BY <1>2 DEF Kinds, Loading, Sane
  <2>2. q \in [kind : Kinds, version : 1..version, data : Data]
    BY <1>0, <2>1, RequestType
  <2>3. QED  BY <1>0, <2>2 DEF TypeOK, server, faults
<1>4. /\ ServerInv' /\ Replayed' /\ Done' = Done
      /\ \A c : TruePage(c) => TruePage(c)'
      /\ \A s : TrueRequest(s) => TrueRequest(s)'
  BY <1>0, ServerRests
<1>5. TrueRequest(q)
  <2>1. TrueRequest(r)  BY <1>0 DEF PageInv, RequestsTrue
  <2>2. kind = "ending" => Done  BY <1>0, <2>1 DEF TrueRequest
  <2>3. QED  BY <1>1, <1>2, <2>2 DEF TrueRequest
<1>6. PagesTrue' /\ RequestsTrue'
  BY <1>0, <1>4, <1>5 DEF PageInv, PagesTrue, RequestsTrue
<1>7. FreshFinal'
  BY <1>0, <1>4 DEF PageInv, FreshFinal, server
<1>8. \A s \in requests' : s \in requests \ {r} \/ s = q
  BY <1>0
<1>9. OpenedOnce'
  BY <1>0, <1>1, <1>8 DEF PageInv, OpenedOnce, Loading
<1>10. StreamFits'
  BY <1>0, <1>1, <1>8 DEF PageInv, StreamFits
<1>11. QED
  BY <1>0, <1>3, <1>4, <1>6, <1>7, <1>9, <1>10, SamePages DEF IInv, PageInv

LEMMA NavigateStep ==
  ASSUME IInv, NEW h \in {"home", "detail"}, Navigate(h)
  PROVE  IInv'
<1> DEFINE r == Request("detail", version + 1, Blank)
<1>0. /\ TypeOK /\ PageInv
      /\ version < MaxRoutes /\ hash' = h /\ version' = version + 1 /\ stream' = 0
      /\ view' = [page |-> IF h = "home" THEN "home" ELSE "loading", version |-> version']
      /\ requests' = IF h = "home" THEN requests ELSE requests \cup {r}
      /\ context' = [v \in 1..MaxRoutes |-> NoContext]
      /\ UNCHANGED <<server, faults>>
  BY DEF IInv, Navigate
<1>1. /\ version \in Nat /\ MaxRoutes \in Nat /\ version' \in 1..MaxRoutes
      /\ 1..version \subseteq 1..version' /\ version' # 0
  BY <1>0, BoundsAssumption DEF TypeOK
<1>2. r.kind = "detail" /\ r.version = version' /\ r.data = Blank
  BY <1>0, RequestFields
<1>3. /\ \A v \in 1..MaxRoutes : /\ context'[v] = NoContext /\ ~context'[v].open
                                 /\ ~context'[v].fresh /\ context'[v].seen = 0
      /\ context' \in [1..MaxRoutes -> Contexts]
  BY <1>0, NewContext DEF NoContext
<1>4. \A s \in requests : s.version \in 1..version /\ s.version # version'
  BY <1>0, <1>1 DEF TypeOK
<1>5. TypeOK'
  <2>1. r \in [kind : Kinds, version : 1..version', data : Data]
    <3>1. version + 1 \in 1..version' /\ "detail" \in Kinds /\ Blank \in Data
      BY <1>0, <1>1, BlankIsSane DEF Kinds, Loading, Sane
    <3>2. QED  BY <3>1, RequestType
  <2>2. requests' \subseteq [kind : Kinds, version : 1..version', data : Data]
    BY <1>0, <1>1, <2>1 DEF TypeOK
  <2>3. view' \in [page : {"loading", "home", "detail", "error"}, version : 1..version']
    BY <1>0, <1>1
  <2>4. \A v \in 1..MaxRoutes : context'[v].seen <= Len(log)
    BY <1>0, <1>3, LenProperties DEF TypeOK
  <2>5. stream' \in 0..version' /\ hash' \in {"home", "detail"}
    BY <1>0, <1>1
  <2>6. UNCHANGED <<log, session, stored, rows, errors, breaks>>
    BY <1>0 DEF server, faults
  <2>7. QED  BY <1>0, <1>1, <1>3, <2>2, <2>3, <2>4, <2>5, <2>6 DEF TypeOK
<1>6. /\ ServerInv' /\ Replayed'
      /\ \A c : TruePage(c) => TruePage(c)'
      /\ \A s : TrueRequest(s) => TrueRequest(s)'
  BY <1>0, ServerRests
<1>7. PagesTrue'
  BY <1>0, <1>3, <1>6, NewContext DEF PagesTrue
<1>8. RequestsTrue'
  BY <1>0, <1>6, BlankRequest DEF PageInv, RequestsTrue
<1>9. FreshFinal'  BY <1>3 DEF FreshFinal
<1>10. view'.page # "error"  BY <1>0
<1>11. OpenedOnce'
  <2>1. \A s \in requests' : s.version \in 1..MaxRoutes
    BY <1>5, <1>1 DEF TypeOK
  <2>2. \A s \in requests' : s \in requests \/ s = r
    BY <1>0
  <2>3. \A s, q \in requests' : s.kind \in Loading /\ q.kind \in Loading /\ s.version = q.version
          => s = q
    BY <1>0, <1>2, <1>4, <2>2 DEF PageInv, OpenedOnce
  <2>4. QED  BY <1>3, <1>10, <2>1, <2>3 DEF OpenedOnce
<1>12. StreamFits'
  BY <1>0, <1>1, <1>2, <1>4 DEF StreamFits
<1>13. QED  BY <1>5, <1>6, <1>7, <1>8, <1>9, <1>11, <1>12 DEF IInv, PageInv

(* A step that only sends, answers or drops requests which do not concern what
   a page shows. *)
LEMMA QuietStep ==
  ASSUME IInv, UNCHANGED <<server, hash, version, view, context>>,
         stream' \in {stream, 0},
         errors' \in 0..MaxErrors, breaks' \in 0..MaxBreaks,
         NEW kind \in {"cancel", "cancelling"}, NEW v \in 1..version,
         requests' \subseteq requests \cup {Request(kind, v, Blank)}
  PROVE  IInv'
<1> DEFINE q == Request(kind, v, Blank)
<1>0. TypeOK /\ PageInv  BY DEF IInv
<1>1. q.kind = kind /\ kind \notin Loading /\ kind \notin {"refresh", "ending"}
  BY RequestFields DEF Loading
<1>2. TypeOK'
  <2>1. q \in [kind : Kinds, version : 1..version, data : Data]
    <3>1. kind \in Kinds /\ Blank \in Data  BY BlankIsSane DEF Kinds, Sane
    <3>2. QED  BY <3>1, RequestType
  <2>2. stream' \in 0..version  BY <1>0 DEF TypeOK
  <2>3. QED  BY <1>0, <2>1, <2>2 DEF TypeOK, server
<1>3. /\ ServerInv' /\ Replayed' /\ Done' = Done
      /\ \A c : TruePage(c) => TruePage(c)'
      /\ \A s : TrueRequest(s) => TrueRequest(s)'
  BY ServerRests
<1>4. TrueRequest(q)  BY <1>1, BlankRequest
<1>5. PagesTrue' /\ RequestsTrue'
  BY <1>0, <1>3, <1>4 DEF PageInv, PagesTrue, RequestsTrue
<1>6. FreshFinal'
  BY <1>0, <1>3 DEF PageInv, FreshFinal, server
<1>7. \A s \in requests' : s.kind \in Loading \cup {"refresh", "ending"} => s \in requests
  BY <1>1
<1>8. OpenedOnce'  BY <1>0, <1>7 DEF PageInv, OpenedOnce
<1>9. StreamFits'
  <2>1. version # 0  BY <1>0 DEF TypeOK
  <2>2. QED  BY <1>0, <1>7, <2>1 DEF PageInv, StreamFits
<1>10. QED  BY <1>2, <1>3, <1>5, <1>6, <1>8, <1>9 DEF IInv, PageInv

(* A step that shows c on the current page. *)
LEMMA ShowStep ==
  ASSUME IInv, UNCHANGED <<server, hash, version, faults>>,
         NEW v, v = version,
         NEW c \in Contexts, context' = [context EXCEPT ![v] = c],
         TruePage(c), Kept(context[v].data, c.data), c.seen <= Len(log),
         c.open = context[v].open,
         c.fresh => Done /\ c.data = session /\ c.open,
         view' = [page |-> "detail", version |-> v],
         stream' \in {stream, 0}, stream' = version => c.open /\ ~c.fresh,
         requests' \subseteq requests \cup {Request("refresh", v, Blank)},
         Request("refresh", v, Blank) \in requests' \ requests =>
           session.status \in TERMINAL /\ stream' # version /\ c.open
  PROVE  IInv' /\ PagesKept
<1> DEFINE q == Request("refresh", v, Blank)
<1>0. TypeOK /\ PageInv  BY DEF IInv
<1>1. q.kind = "refresh" /\ q.version = v /\ q.data = Blank /\ "refresh" \notin Loading
  BY RequestFields DEF Loading
<1>2. v \in 1..version /\ v \in 1..MaxRoutes /\ version # 0
  BY <1>0, BoundsAssumption DEF TypeOK
<1>3. /\ context'[v] = c
      /\ \A w \in 1..MaxRoutes : w # v => context'[w] = context[w]
      /\ context' \in [1..MaxRoutes -> Contexts]
  BY <1>0, <1>2 DEF TypeOK
<1>4. TypeOK'
  <2>1. q \in [kind : Kinds, version : 1..version, data : Data]
    <3>1. "refresh" \in Kinds /\ Blank \in Data  BY BlankIsSane DEF Kinds, Sane
    <3>2. QED  BY <1>2, <3>1, RequestType
  <2>2. stream' \in 0..version'  BY <1>0 DEF TypeOK
  <2>3. view' \in [page : {"loading", "home", "detail", "error"}, version : 1..version']
    BY <1>2
  <2>4. \A w \in 1..MaxRoutes : context'[w].seen <= Len(log')
    BY <1>0, <1>3 DEF TypeOK, server
  <2>5. QED  BY <1>0, <1>3, <2>1, <2>2, <2>3, <2>4 DEF TypeOK, server, faults
<1>5. /\ ServerInv' /\ Replayed' /\ Done' = Done
      /\ \A x : TruePage(x) => TruePage(x)'
      /\ \A s : TrueRequest(s) => TrueRequest(s)'
  BY ServerRests
<1>6. PagesTrue'
  BY <1>0, <1>3, <1>5 DEF PageInv, PagesTrue
<1>7. RequestsTrue'
  <2>1. q \in requests' \ requests => TrueRequest(q)
    BY <1>1, BlankIsSane, BlankIsWithin DEF TrueRequest
  <2>2. QED  BY <1>0, <1>5, <2>1 DEF PageInv, RequestsTrue
<1>8. FreshFinal'
  BY <1>0, <1>3, <1>5 DEF PageInv, FreshFinal, server
<1>9. OpenedOnce'
  <2>1. \A s \in requests' : s.kind \in Loading => s \in requests  BY <1>1
  <2>2. \A s \in requests : s.version \in 1..MaxRoutes
    BY <1>0, BoundsAssumption DEF TypeOK
  <2>3. view'.page # "error"  OBVIOUS
  <2>4. QED  BY <1>0, <1>3, <2>1, <2>2, <2>3 DEF PageInv, OpenedOnce
<1>10. StreamFits'
  <2>1. stream' = version => context'[version].open /\ ~context'[version].fresh
    BY <1>3
  <2>2. \A s \in requests' : s.kind \in {"refresh", "ending"} /\ s.version = version =>
          stream' # version /\ context'[version].open
    BY <1>0, <1>2, <1>3 DEF PageInv, StreamFits
  <2>3. QED  BY <2>1, <2>2 DEF StreamFits
<1>11. PagesKept
  BY <1>3 DEF PagesKept, Kept
<1>12. QED
  BY <1>4, <1>5, <1>6, <1>7, <1>8, <1>9, <1>10, <1>11 DEF IInv, PageInv

LEMMA OpenStep ==
  ASSUME IInv, NEW r \in requests, r.kind \in Loading,
         NEW data, Sane(data), Within(data, session), OpenPage(r.version, data),
         requests' = requests \ {r}, UNCHANGED <<server, hash, version, faults>>
  PROVE  IInv' /\ PagesKept
<1> DEFINE v == r.version
           c == [NoContext EXCEPT !.open = TRUE, !.data = data]
<1>0. /\ TypeOK /\ PageInv
      /\ context' = [context EXCEPT ![v] = c]
      /\ view' = [page |-> "detail", version |-> v]
      /\ stream' = v
  BY DEF IInv, OpenPage
<1>1. v \in 1..version /\ v \in 1..MaxRoutes /\ version \in Nat
  BY <1>0, BoundsAssumption DEF TypeOK
<1>2. /\ c.open /\ ~c.fresh /\ c.seen = 0 /\ c.vote = 0 /\ c.data = data
      /\ c \in Contexts
  <2>1. data \in Data  BY DEF Sane
  <2>2. c \in Contexts  BY <2>1, NewContext DEF Contexts
  <2>3. QED  BY <2>2 DEF NoContext
<1> HIDE DEF c, v
<1>3. /\ context'[v] = c
      /\ \A w \in 1..MaxRoutes : w # v => context'[w] = context[w]
      /\ context' \in [1..MaxRoutes -> Contexts]
  BY <1>0, <1>1, <1>2 DEF TypeOK
<1>4. TypeOK'
  <2>1. \A w \in 1..MaxRoutes : context'[w].seen <= Len(log')
    BY <1>0, <1>2, <1>3, LenProperties DEF TypeOK, server
  <2>2. view' \in [page : {"loading", "home", "detail", "error"}, version : 1..version']
    BY <1>0, <1>1
  <2>3. stream' \in 0..version'  BY <1>0, <1>1
  <2>4. QED  BY <1>0, <1>3, <2>1, <2>2, <2>3 DEF TypeOK, server, faults
<1>5. /\ ServerInv' /\ Replayed' /\ Done' = Done
      /\ \A x : TruePage(x) => TruePage(x)'
      /\ \A s : TrueRequest(s) => TrueRequest(s)'
  BY ServerRests
<1>6. TruePage(c)  BY <1>2 DEF TruePage
<1>7. PagesTrue' /\ RequestsTrue'
  BY <1>0, <1>3, <1>5, <1>6 DEF PageInv, PagesTrue, RequestsTrue
<1>8. FreshFinal'
  BY <1>0, <1>2, <1>3, <1>5 DEF PageInv, FreshFinal, server
<1>9. /\ ~context[v].open
      /\ \A s \in requests' : s.kind \in Loading => s.version # v
  BY <1>0 DEF PageInv, OpenedOnce, v
<1>10. OpenedOnce'
  <2>1. \A s \in requests : s.version \in 1..MaxRoutes
    BY <1>0, BoundsAssumption DEF TypeOK
  <2>2. view'.page # "error"  BY <1>0
  <2>3. QED  BY <1>0, <1>3, <1>9, <2>1, <2>2 DEF PageInv, OpenedOnce
<1>11. StreamFits'
  <2>1. version \in 1..MaxRoutes  BY <1>0 DEF TypeOK
  <2>2. CASE v = version
    BY <1>0, <1>2, <1>3, <1>9, <2>2 DEF PageInv, StreamFits
  <2>3. CASE v # version
    BY <1>0, <1>3, <2>1, <2>3 DEF PageInv, StreamFits
  <2>4. QED  BY <2>2, <2>3
<1>12. PagesKept
  BY <1>3, <1>9 DEF PagesKept, Kept
<1>13. QED  BY <1>4, <1>5, <1>7, <1>8, <1>10, <1>11, <1>12 DEF IInv, PageInv

LEMMA DetailStep ==
  ASSUME IInv, NEW r \in requests, DetailArrives(r)
  PROVE  IInv' /\ PagesKept
<1> DEFINE data == WithRows(r.data)
           q == Request("teams", r.version, data)
<1>0. /\ TypeOK /\ ServerInv /\ Replayed /\ PageInv
      /\ r.kind = "snapshot" /\ r.kind \in Loading
      /\ UNCHANGED <<server, hash, version, faults>>
      /\ r.version \in 1..version
  BY DEF IInv, DetailArrives, Loading, TypeOK
<1>1. Sane(data) /\ Within(data, session)
  BY <1>0, WithRowsTrue DEF PageInv, RequestsTrue, TrueRequest
<1>2. CASE requests' = requests \ {r} /\ UNCHANGED <<view, context, stream>>
  <2>1. IInv'
    BY <1>0, <1>2, QuietStep DEF TypeOK, faults
  <2>2. QED  BY <1>2, <2>1, SamePages
<1>3. CASE requests' = requests \ {r} /\ OpenPage(r.version, data)
  BY <1>0, <1>1, <1>3, OpenStep
<1>4. CASE requests' = (requests \ {r}) \cup {q} /\ UNCHANGED <<view, context, stream>>
  <2>1. q.kind = "teams" /\ q.version = r.version /\ q.data = data
    BY RequestFields
  <2>2. q \in [kind : Kinds, version : 1..version, data : Data]
    <3>1. "teams" \in Kinds /\ data \in Data  BY <1>1 DEF Kinds, Loading, Sane
    <3>2. QED  BY <1>0, <3>1, RequestType
  <2>3. TypeOK'
    BY <1>0, <1>4, <2>2 DEF TypeOK, server, faults
  <2>4. /\ ServerInv' /\ Replayed' /\ Done' = Done
        /\ \A c : TruePage(c) => TruePage(c)'
        /\ \A s : TrueRequest(s) => TrueRequest(s)'
    BY <1>0, ServerRests
  <2>5. TrueRequest(q)  BY <1>1, <2>1 DEF TrueRequest
  <2>6. PagesTrue' /\ RequestsTrue'
    BY <1>0, <1>4, <2>4, <2>5 DEF PageInv, PagesTrue, RequestsTrue
  <2>7. FreshFinal'
    BY <1>0, <1>4, <2>4 DEF PageInv, FreshFinal, server
  <2>8. OpenedOnce'
    BY <1>0, <1>4, <2>1 DEF PageInv, OpenedOnce
  <2>9. StreamFits'
    BY <1>0, <1>4, <2>1 DEF PageInv, StreamFits
  <2>10. QED
    BY <1>4, <2>3, <2>4, <2>6, <2>7, <2>8, <2>9, SamePages DEF IInv, PageInv
<1>5. QED  BY <1>2, <1>3, <1>4 DEF DetailArrives

LEMMA TeamsStep ==
  ASSUME IInv, NEW r \in requests, TeamsArrive(r)
  PROVE  IInv' /\ PagesKept
<1>1. /\ r.kind \in Loading /\ requests' = requests \ {r}
      /\ OpenPage(r.version, r.data)
      /\ UNCHANGED <<server, hash, version, faults>>
  BY DEF TeamsArrive, Loading
<1>2. Sane(r.data) /\ Within(r.data, session)
  BY DEF IInv, PageInv, RequestsTrue, TrueRequest
<1>3. QED  BY <1>1, <1>2, OpenStep

LEMMA FailsStep ==
  ASSUME IInv, NEW r \in requests, RequestFails(r)
  PROVE  IInv' /\ PagesKept
<1>0. /\ TypeOK /\ PageInv
      /\ errors' \in 0..MaxErrors
      /\ requests' = requests \ {r} /\ version \in 1..version
      /\ UNCHANGED <<server, hash, version, context, stream, breaks>>
  BY BoundsAssumption DEF IInv, TypeOK, RequestFails
<1>1. CASE view' = view
  <2>1. IInv'  BY <1>0, <1>1, QuietStep DEF TypeOK
  <2>2. QED  BY <1>0, <2>1, SamePages
<1>2. CASE /\ r.kind \in Loading /\ r.version = version
           /\ view' = [page |-> "error", version |-> version]
  <2>1. TypeOK'
    BY <1>0, <1>2 DEF TypeOK, server
  <2>2. /\ ServerInv' /\ Replayed' /\ Done' = Done
        /\ \A c : TruePage(c) => TruePage(c)'
        /\ \A s : TrueRequest(s) => TrueRequest(s)'
    BY <1>0, ServerRests
  <2>3. PagesTrue' /\ RequestsTrue' /\ FreshFinal' /\ StreamFits'
    BY <1>0, <2>2 DEF PageInv, PagesTrue, RequestsTrue, FreshFinal, StreamFits, server
  <2>4. OpenedOnce'
    BY <1>0, <1>2 DEF PageInv, OpenedOnce
  <2>5. QED  BY <1>0, <2>1, <2>2, <2>3, <2>4, SamePages DEF IInv, PageInv
<1>3. QED  BY <1>1, <1>2 DEF RequestFails, Current

LEMMA RetryStep == IInv /\ Retry => IInv' /\ PagesKept
<1> SUFFICES ASSUME IInv, Retry PROVE IInv' /\ PagesKept
  OBVIOUS
<1> DEFINE q == Request("detail", version, Blank)
<1>0. /\ TypeOK /\ PageInv /\ view.page = "error"
      /\ view' = [page |-> "loading", version |-> version]
      /\ requests' = requests \cup {q}
      /\ UNCHANGED <<server, hash, version, context, stream, faults>>
      /\ version \in 1..version
  BY DEF IInv, Retry, TypeOK
<1>1. q.kind = "detail" /\ q.version = version /\ q.data = Blank /\ q.kind \in Loading
  BY RequestFields DEF Loading
<1>2. TypeOK'
  <2>1. q \in [kind : Kinds, version : 1..version, data : Data]
    <3>1. "detail" \in Kinds /\ Blank \in Data  BY BlankIsSane DEF Kinds, Loading, Sane
    <3>2. QED  BY <1>0, <3>1, RequestType
  <2>2. QED  BY <1>0, <2>1 DEF TypeOK, server, faults
<1>3. /\ ServerInv' /\ Replayed' /\ Done' = Done
      /\ \A c : TruePage(c) => TruePage(c)'
      /\ \A s : TrueRequest(s) => TrueRequest(s)'
  BY <1>0, ServerRests
<1>4. TrueRequest(q)  BY BlankRequest
<1>5. PagesTrue' /\ RequestsTrue' /\ FreshFinal'
  BY <1>0, <1>3, <1>4 DEF PageInv, PagesTrue, RequestsTrue, FreshFinal, server
<1>6. StreamFits'
  BY <1>0, <1>1 DEF PageInv, StreamFits
<1>7. OpenedOnce'
  BY <1>0, <1>1 DEF PageInv, OpenedOnce
<1>8. QED  BY <1>0, <1>2, <1>3, <1>5, <1>6, <1>7, SamePages DEF IInv, PageInv

LEMMA EventStep == IInv /\ Event => IInv' /\ PagesKept
<1> SUFFICES ASSUME IInv, Event PROVE IInv' /\ PagesKept
  OBVIOUS
<1> DEFINE v == version
           c == Applied(context[v], log[context[v].seen + 1])
           q == Request("refresh", v, Blank)
<1>0. /\ TypeOK /\ ServerInv /\ PageInv
      /\ stream = version /\ context[v].seen < Len(log)
      /\ context' = [context EXCEPT ![v] = c]
      /\ view' = [page |-> "detail", version |-> v]
      /\ stream' = IF Ended(c.data) THEN 0 ELSE stream
      /\ requests' = IF Ended(c.data) THEN requests \cup {q} ELSE requests
      /\ UNCHANGED <<server, hash, version, faults>>
  BY DEF IInv, Event
<1>1. /\ version # 0 /\ v \in 1..MaxRoutes /\ context[v] \in Contexts
      /\ TruePage(context[v]) /\ context[v].open /\ ~context[v].fresh
  BY <1>0 DEF TypeOK, PageInv, PagesTrue, StreamFits
<1>2. /\ c \in Contexts /\ TruePage(c) /\ Kept(context[v].data, c.data)
      /\ c.seen = context[v].seen + 1 /\ c.open /\ ~c.fresh
  BY <1>0, <1>1, EventShown
<1>3. c.seen <= Len(log)
  BY <1>0, <1>1, <1>2, LenProperties DEF TypeOK, Contexts
<1>4. Ended(c.data) => session.status \in TERMINAL
  BY <1>2 DEF Ended, TruePage, Within, Kept
<1> HIDE DEF c
<1>5. QED  BY <1>0, <1>1, <1>2, <1>3, <1>4, ShowStep

LEMMA BreakStep == IInv /\ ConnectionError => IInv' /\ PagesKept
<1> SUFFICES ASSUME IInv, ConnectionError PROVE IInv' /\ PagesKept
  OBVIOUS
<1>1. /\ breaks' \in 0..MaxBreaks /\ errors' \in 0..MaxErrors /\ stream' = 0
      /\ requests' = requests /\ version \in 1..version
      /\ UNCHANGED <<server, hash, version, view, context>>
  BY BoundsAssumption DEF IInv, TypeOK, ConnectionError
<1>2. IInv'  BY <1>1, QuietStep
<1>3. QED  BY <1>1, <1>2, SamePages

LEMMA RefreshStep ==
  ASSUME IInv, NEW r \in requests, RefreshArrives(r)
  PROVE  IInv' /\ PagesKept
<1> DEFINE v == r.version
           data == Merged(context[v].data, WithRows(r.data))
           c == [context[v] EXCEPT !.fresh = TRUE, !.data = data]
<1>0. /\ TypeOK /\ ServerInv /\ Replayed /\ PageInv
      /\ r.kind = "ending" /\ requests' = requests \ {r}
      /\ UNCHANGED <<server, hash, version, stream, faults>>
      /\ r.version \in 1..version
  BY DEF IInv, RefreshArrives, TypeOK
<1>1. CASE v # version
  <2>1. UNCHANGED <<context, view>>
    BY <1>1 DEF RefreshArrives, Current
  <2>2. IInv'  BY <1>0, <2>1, QuietStep DEF TypeOK, faults
  <2>3. QED  BY <2>1, <2>2, SamePages
<1>2. CASE v = version
  <2>1. /\ v \in 1..MaxRoutes /\ context[v] \in Contexts /\ TruePage(context[v])
        /\ context[v].seen <= Len(log)
    BY <1>0, <1>2 DEF TypeOK, PageInv, PagesTrue
  <2>2. /\ context' = [context EXCEPT ![v] = c]
        /\ view' = [page |-> "detail", version |-> v]
    <3>1. /\ context' = [context EXCEPT ![v].fresh = TRUE,
                           ![v].data = Merged(@, WithRows(r.data))]
          /\ view' = [page |-> "detail", version |-> v]
      BY <1>2 DEF RefreshArrives, Current
    <3>2. QED  BY <1>0, <2>1, <3>1 DEF TypeOK, Contexts
  <2>3. Done /\ r.data = Bare(session)
    BY <1>0 DEF PageInv, RequestsTrue, TrueRequest
  <2>4. data = session
    BY <1>0, <2>1, <2>3, MergedIsSession DEF TruePage
  <2>5. /\ c \in Contexts /\ c.fresh /\ c.data = session
        /\ c.open = context[v].open /\ c.seen = context[v].seen
        /\ c.vote = context[v].vote
    BY <1>0, <2>1, <2>4 DEF Contexts, TypeOK
  <2>6. context[v].open /\ stream # version
    BY <1>0, <1>2 DEF PageInv, StreamFits
  <2>7. TruePage(c) /\ Kept(context[v].data, c.data)
    BY <1>0, <2>1, <2>5, WithinItself DEF TruePage, ServerInv, Within, Kept
  <2>8. stream' # version /\ stream' \in {stream, 0}
    BY <1>0, <2>6
  <2> HIDE DEF c
  <2>9. QED
    BY <1>0, <1>2, <2>1, <2>2, <2>3, <2>5, <2>6, <2>7, <2>8, ShowStep
<1>3. QED  BY <1>1, <1>2

LEMMA ClickStep == IInv /\ ClickCancel => IInv' /\ PagesKept
<1> SUFFICES ASSUME IInv, ClickCancel PROVE IInv' /\ PagesKept
  OBVIOUS
<1>1. /\ view.version \in 1..version
      /\ requests' = requests \cup {Request("cancel", view.version, Blank)}
      /\ errors' \in 0..MaxErrors /\ breaks' \in 0..MaxBreaks
      /\ UNCHANGED <<server, hash, version, view, context, stream>>
  BY DEF IInv, TypeOK, ClickCancel, faults
<1>2. IInv'  BY <1>1, QuietStep
<1>3. QED  BY <1>1, <1>2, SamePages

LEMMA CancelStep ==
  ASSUME IInv, NEW r \in requests, CancelSession(r)
  PROVE  IInv' /\ PagesKept
<1>0. /\ TypeOK /\ r.version \in 1..version
      /\ requests' \subseteq requests \cup {Request("cancelling", r.version, Blank)}
      /\ UNCHANGED <<hash, version, view, context, stream, faults>>
  BY DEF IInv, TypeOK, CancelSession
<1>1. CASE session.status \in Open
  <2>1. Return(Emit(Now, Status("cancelled", 0, "none")))
    BY <1>1 DEF CancelSession
  <2>2. Handled
    BY <1>1, <2>1, FineNow, EndHandled DEF IInv
  <2>3. IInv'  BY <1>0, <1>1, <2>2, HandlerStep
  <2>4. QED  BY <1>0, <2>3, SamePages
<1>2. CASE session.status \notin Open
  <2>1. UNCHANGED server  BY <1>2 DEF CancelSession
  <2>2. IInv'  BY <1>0, <2>1, QuietStep DEF TypeOK, faults
  <2>3. QED  BY <1>0, <2>2, SamePages
<1>3. QED  BY <1>1, <1>2

LEMMA CancelledStep ==
  ASSUME IInv, NEW r \in requests, CancelArrives(r)
  PROVE  IInv' /\ PagesKept
<1> DEFINE v == r.version
           old == context[v].data
           data == [old EXCEPT !.status = session.status, !.result = session.result]
           c == [context[v] EXCEPT !.data = data]
<1>0. /\ TypeOK /\ ServerInv /\ PageInv
      /\ r.kind = "cancelling" /\ requests' = requests \ {r}
      /\ UNCHANGED <<server, hash, version, faults>>
      /\ r.version \in 1..version
  BY DEF IInv, CancelArrives, TypeOK
<1>1. CASE v # version
  <2>1. UNCHANGED <<context, view, stream>>
    BY <1>1 DEF CancelArrives, Current
  <2>2. IInv'  BY <1>0, <2>1, QuietStep DEF TypeOK, faults
  <2>3. QED  BY <2>1, <2>2, SamePages
<1>2. CASE v = version
  <2>1. /\ v \in 1..MaxRoutes /\ context[v] \in Contexts /\ TruePage(context[v])
        /\ context[v].seen <= Len(log) /\ old \in Data /\ session \in Data
        /\ version # 0
    BY <1>0, <1>2 DEF TypeOK, PageInv, PagesTrue, Contexts
  <2>2. /\ context' = [context EXCEPT ![v] = c]
        /\ view' = [page |-> "detail", version |-> v]
        /\ stream' = 0
    <3>1. /\ context' = [context EXCEPT ![v].data =
                            [@ EXCEPT !.status = session.status,
                                      !.result = session.result]]
          /\ view' = [page |-> "detail", version |-> v]
          /\ stream' = 0
      BY <1>2 DEF CancelArrives, Current
    <3>2. QED  BY <1>0, <2>1, <3>1 DEF TypeOK, Contexts
  <2>3. /\ data \in Data
        /\ data.status = session.status /\ data.result = session.result
        /\ data.proposals = old.proposals /\ data.votes = old.votes
    BY <2>1 DEF Data
  <2> HIDE DEF data
  <2>4. /\ c \in Contexts /\ c.data = data /\ c.fresh = context[v].fresh
        /\ c.open = context[v].open /\ c.seen = context[v].seen
        /\ c.vote = context[v].vote
    BY <2>1, <2>3 DEF Contexts
  <2>5. Known(data) = Known(old)  BY <2>3 DEF Known
  <2>6. Sane(data) /\ Within(data, session) /\ Kept(old, data)
    BY <2>1, <2>3, <2>5 DEF TruePage, Sane, Within, Kept
  <2>7. TruePage(c)
    BY <2>1, <2>4, <2>5, <2>6 DEF TruePage
  <2>8. c.fresh => Done /\ c.data = session /\ c.open
    <3>1. context[v].fresh => Done /\ old = session /\ context[v].open
      BY <1>0, <2>1 DEF PageInv, FreshFinal
    <3>2. old = session => data = session
      BY <2>1, <2>3 DEF Data
    <3>3. QED  BY <2>4, <3>1, <3>2
  <2>9. stream' \in {stream, 0} /\ stream' # version
    BY <2>1, <2>2
  <2> HIDE DEF c
  <2>10. QED
    BY <1>0, <1>2, <2>1, <2>2, <2>4, <2>6, <2>7, <2>8, <2>9, ShowStep
<1>3. QED  BY <1>1, <1>2

-----------------------------------------------------------------------------
(* The theorems *)

LEMMA HandledStep ==
  ASSUME IInv, session.status \in Open, Handled, UNCHANGED <<page, faults>>
  PROVE  IInv' /\ PagesKept
<1>1. /\ requests' = requests /\ version \in 1..version
      /\ UNCHANGED <<hash, version, view, context, stream, faults>>
  BY DEF IInv, TypeOK, page
<1>2. IInv'  BY <1>1, HandlerStep
<1>3. QED  BY <1>1, <1>2, SamePages

LEMMA StutterStep ==
  ASSUME IInv, UNCHANGED vars
  PROVE  IInv' /\ PagesKept
<1>1. /\ UNCHANGED <<server, hash, version, view, context>> /\ stream' = stream
      /\ errors' = errors /\ breaks' = breaks /\ requests' = requests
      /\ version \in 1..version /\ TypeOK
  BY DEF vars, page, faults, IInv, TypeOK
<1>2. IInv'  BY <1>1, QuietStep DEF TypeOK
<1>3. QED  BY <1>1, <1>2, SamePages

(* Whatever happens, the invariant is kept and the pages take nothing back. *)
LEMMA StepInv ==
  ASSUME IInv, [Next]_vars
  PROVE  IInv' /\ PagesKept
<1>0. Fine(Now)  BY FineNow DEF IInv
<1>1. CASE Submit
  <2>1. UNCHANGED <<page, faults>>  BY <1>1 DEF Submit
  <2>2. QED  BY <1>0, <1>1, <2>1, SubmitHandled, HandledStep
<1>2. ASSUME NEW a \in Voters, Vote(a) PROVE IInv' /\ PagesKept
  <2>1. UNCHANGED <<page, faults>>  BY <1>2 DEF Vote
  <2>2. QED  BY <1>0, <1>2, <2>1, VoteHandled, HandledStep
<1>3. CASE Expire
  <2>1. UNCHANGED <<page, faults>>  BY <1>3 DEF Expire
  <2>2. QED  BY <1>0, <1>3, <2>1, ExpireHandled, HandledStep
<1>4. CASE Fail
  <2>1. /\ session.status \in Open /\ UNCHANGED <<page, faults>>
        /\ Return(Emit(Now, Status("failed", 0, "none")))
    BY <1>4 DEF Fail
  <2>2. QED  BY <1>0, <2>1, EndHandled, HandledStep
<1>5. CASE Persist
  <2>1. UNCHANGED context  BY <1>5 DEF Persist, page
  <2>2. QED  BY <1>5, <2>1, PersistStep, SamePages
<1>6. ASSUME NEW h \in {"home", "detail"}, Navigate(h) PROVE IInv' /\ PagesKept
  <2>1. \A v \in 1..MaxRoutes : ~context'[v].open
    BY <1>6 DEF Navigate, NoContext
  <2>2. PagesKept  BY <2>1 DEF PagesKept
  <2>3. QED  BY <1>6, <2>2, NavigateStep
<1>7. ASSUME NEW r \in requests, Answer(r) PROVE IInv' /\ PagesKept
  <2>1. CASE ReadSession(r)  BY <2>1, ReadStep
  <2>2. CASE DetailArrives(r)  BY <2>2, DetailStep
  <2>3. CASE TeamsArrive(r)  BY <2>3, TeamsStep
  <2>4. CASE RefreshArrives(r)  BY <2>4, RefreshStep
  <2>5. CASE CancelSession(r)  BY <2>5, CancelStep
  <2>6. CASE CancelArrives(r)  BY <2>6, CancelledStep
  <2>7. QED  BY <1>7, <2>1, <2>2, <2>3, <2>4, <2>5, <2>6 DEF Answer
<1>8. ASSUME NEW r \in requests, RequestFails(r) PROVE IInv' /\ PagesKept
  BY <1>8, FailsStep
<1>9. CASE Retry  BY <1>9, RetryStep
<1>10. CASE Event  BY <1>10, EventStep
<1>11. CASE ConnectionError  BY <1>11, BreakStep
<1>12. CASE ClickCancel  BY <1>12, ClickStep
<1>13. CASE UNCHANGED vars  BY <1>13, StutterStep
<1>14. QED
  BY <1>1, <1>2, <1>3, <1>4, <1>5, <1>6, <1>7, <1>8, <1>9, <1>10, <1>11, <1>12,
     <1>13 DEF Next

THEOREM DashboardInvariant == Spec => []IInv
<1>1. Init => IInv  BY InitInv
<1>2. IInv /\ [Next]_vars => IInv'  BY StepInv
<1>3. QED  BY <1>1, <1>2, PTL DEF Spec

(* Type correctness: in particular no page counts more events than the log has,
   and no answer is for a page the user never went to. *)
THEOREM DashboardTypes == Spec => []TypeOK
BY DashboardInvariant, PTL DEF IInv

(* What is stored is what the stored events make of a session, and what the
   server knows is above it: a server that starts again reads nothing that was
   not so. *)
THEOREM StoreBehindSession ==
  Spec => [](Sane(rows) /\ Within(rows, session) /\ (Done => rows = session))
<1>1. IInv => Sane(rows) /\ Within(rows, session) /\ (Done => rows = session)
  BY RowsTrue DEF IInv, Done
<1>2. QED  BY <1>1, DashboardInvariant, PTL

(* However the snapshot, the replay and the live events of app.js come together,
   with pages left and opened again and requests that fail: a page shows no
   vote, proposal, approval, result or end that is not so. *)
THEOREM PagesInventNothing == Spec => []NothingInvented
<1>1. IInv => NothingInvented
  <2> SUFFICES ASSUME IInv, NEW v \in 1..MaxRoutes
               PROVE  LET data == context[v].data
                      IN  /\ data.votes \subseteq session.votes
                          /\ \A p \in Known(data) :
                               /\ p \in Known(session)
                               /\ data.proposals[p].number = p
                               /\ data.proposals[p].status = "approved" =>
                                    session.proposals[p].status = "approved"
                          /\ data.result # 0 => data.result = session.result
                          /\ data.status \in TERMINAL => data.status = session.status
    BY DEF NothingInvented
  <2>1. TruePage(context[v])  BY DEF IInv, PageInv, PagesTrue
  <2>2. QED  BY <2>1, KnownIsKnown DEF TruePage, Sane, Within, Kept
<1>2. QED  BY <1>1, DashboardInvariant, PTL

(* The last detail, which is read when the log says that the session has ended,
   is final although its session and its rows are read at different moments: a
   page that has merged it shows exactly what the server knows, for good. *)
THEOREM FreshPagesAreTrue == Spec => []FreshIsTrue
<1>1. IInv => FreshIsTrue
  BY DEF IInv, PageInv, FreshFinal, FreshIsTrue
<1>2. QED  BY <1>1, DashboardInvariant, PTL

(* The whole log is replayed onto a snapshot that is newer than its beginning:
   still no page shows an ended session as open again, or loses a vote, a
   proposal or a result. *)
THEOREM PagesTakeNothingBack == Spec => NeverTakenBack
<1>1. ASSUME PagesKept
      PROVE  \A v \in 1..MaxRoutes :
               LET old == context[v].data
                   new == context'[v].data
               IN  context[v].open /\ context'[v].open =>
                     /\ old.status \in TERMINAL => new.status = old.status
                     /\ old.result # 0 => new.result = old.result
                     /\ old.votes \subseteq new.votes
                     /\ Known(old) \subseteq Known(new)
  BY <1>1 DEF PagesKept, Kept
<1>2. ASSUME IInv, [Next]_vars
      PROVE  [\A v \in 1..MaxRoutes :
                LET old == context[v].data
                    new == context'[v].data
                IN  context[v].open /\ context'[v].open =>
                      /\ old.status \in TERMINAL => new.status = old.status
                      /\ old.result # 0 => new.result = old.result
                      /\ old.votes \subseteq new.votes
                      /\ Known(old) \subseteq Known(new)]_vars
  BY <1>1, <1>2, StepInv
<1>3. QED  BY <1>2, DashboardInvariant, PTL DEF Spec, NeverTakenBack

=============================================================================
