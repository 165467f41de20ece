--------------------------- MODULE SessionLifecycle ---------------------------
(***************************************************************************)
(* What a session promises to those who watch it: the statuses of          *)
(* contracts.py, the transitions between them that Session.with_status     *)
(* lets through, the limit on the rounds of voting, and that it ends.      *)
(* Session.tla implements it.                                              *)
(***************************************************************************)
EXTENDS Naturals

CONSTANT MaxRounds

VARIABLES status,   \* Session.status
          rounds    \* proposals put to the vote so far

vars == <<status, rounds>>

Ended == status \in {"completed", "failed", "cancelled"}

Init == status = "running" /\ rounds = 0

(* A proposal is put to the vote.  It may be decided at once: approved when
   the policy needs no vote, failed when there is nobody to vote. *)
Propose ==
  /\ status = "running"
  /\ rounds < MaxRounds
  /\ rounds' = rounds + 1
  /\ status' \in {"voting", "completed", "failed"}

(* A vote ends: approved, or sent back while another round is left. *)
Approve == status = "voting" /\ status' = "completed" /\ UNCHANGED rounds

SendBack ==
  /\ status = "voting"
  /\ rounds < MaxRounds
  /\ status' = "running"
  /\ UNCHANGED rounds

Fail   == ~Ended /\ status' = "failed" /\ UNCHANGED rounds
Cancel == ~Ended /\ status' = "cancelled" /\ UNCHANGED rounds

Next == Propose \/ Approve \/ SendBack \/ Fail \/ Cancel

(* A session that cannot go on fails: it does not stay open for ever. *)
Spec == Init /\ [][Next]_vars /\ WF_vars(Fail)
=============================================================================
