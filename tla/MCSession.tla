------------------------------ MODULE MCSession ------------------------------
EXTENDS Session, TLC

CONSTANTS ann, bob, cho

Everything == Commands

Unanimous == [mode |-> "unanimous", minVotes |-> 1]

(* A team: a member who may do everything, a voter, and a member who can only
   talk and is exhausted after his turn. *)
Team == {ann, bob, cho}
TeamCapabilities ==
  (ann :> Everything) @@ (bob :> {"vote_result"}) @@ (cho :> {"send_message"})

(* A trio: a proposer, a voter who may also propose, a mere voter. *)
TrioCapabilities ==
  (ann :> {"send_message", "submit_result"})
    @@ (bob :> {"submit_result", "vote_result"}) @@ (cho :> {"vote_result"})
Participating == [mode |-> "participating_unanimous", minVotes |-> 1]

OneTurn == [a \in Team |-> 1]

ToAnn    == [name |-> "send_message", to |-> {ann}]
ToBob    == [name |-> "send_message", to |-> {bob}]
Submit   == [name |-> "submit_result", empty |-> FALSE]
Blank    == [name |-> "submit_result", empty |-> TRUE]
Vote(decision, target) ==
  [name |-> "vote_result", decision |-> decision, reasoned |-> TRUE, target |-> target]
Unreasoned ==
  [name |-> "vote_result", decision |-> "reject", reasoned |-> FALSE, target |-> 0]

(* A recipient that the bus cannot look up. *)
ToNobody == [name |-> "send_message", to |-> {}]

TeamReplies ==
  {<<>>, <<ToAnn>>, <<ToBob>>, <<Submit>>, <<Blank>>, <<Unreasoned>>,
   <<Vote("approve", 0)>>, <<Vote("reject", 0)>>, <<Vote("approve", 1)>>,
   <<ToBob, ToBob>>, <<Vote("reject", 0), Submit>>, <<Submit, Vote("approve", 0)>>}

TrioReplies ==
  {<<>>, <<Submit>>, <<Vote("approve", 0)>>, <<Vote("reject", 0)>>, <<Vote("approve", 1)>>,
   <<ToNobody>>}

(* Every model does the same: it submits, approves, or says something. *)
SilentReplies == {<<>>, <<Submit>>, <<Vote("approve", 0)>>}

UnitUsage == {[work |-> 1, processed |-> 1]}

(* A call may cost more than its reserve. *)
OneOrTwo == {[work |-> n, processed |-> n] : n \in 1 .. 2}
=============================================================================
