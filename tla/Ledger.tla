------------------------------- MODULE Ledger -------------------------------
(***************************************************************************)
(* What the store promises of a session, across crashes and restarts: it   *)
(* is entered once and, once it has ended, its record stands.  It is       *)
(* entered as open, or with its end if the earlier writes have failed.     *)
(***************************************************************************)
VARIABLE entry

Ends == {"completed", "failed", "cancelled", "interrupted"}

Init == entry = "none"

Enter == entry = "none" /\ entry' \in {"open"} \cup Ends
Close == entry = "open" /\ entry' \in Ends

Next == Enter \/ Close

Spec == Init /\ [][Next]_entry
=============================================================================
