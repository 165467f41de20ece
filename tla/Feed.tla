-------------------------------- MODULE Feed --------------------------------
(***************************************************************************)
(* What a client of a session's event stream may rely on (EventContract,   *)
(* section 5): however often it reconnects, it is shown every event of the *)
(* session, in order, once.                                                *)
(***************************************************************************)
EXTENDS Naturals

CONSTANTS Clients, Total

VARIABLES
  emitted,  \* the events 0, ..., emitted - 1 have been published
  got       \* each client has seen the events before this one

Init ==
  /\ emitted = 0
  /\ got = [c \in Clients |-> 0]

Publish ==
  /\ emitted < Total
  /\ emitted' = emitted + 1
  /\ UNCHANGED got

Show(c) ==
  /\ got[c] < emitted
  /\ got' = [got EXCEPT ![c] = @ + 1]
  /\ UNCHANGED emitted

Next == Publish \/ \E c \in Clients : Show(c)

Spec ==
  /\ Init
  /\ [][Next]_<<emitted, got>>
  /\ WF_<<emitted, got>>(Publish)
  /\ \A c \in Clients : WF_<<emitted, got>>(Show(c))
=============================================================================
