----------------------------- MODULE TokenStore -----------------------------
(***************************************************************************)
(* The ChatGPT login of llm/chatgpt_auth.py: one token file that several   *)
(* processes of the user read, refresh and replace, each with a            *)
(* ChatGPTTokenProvider of its own and without a lock.  A client is a      *)
(* process that builds an OpenAIClient from it (the command line run.py,   *)
(* the server serve.py); a login is a run of chatgpt_auth login.  The      *)
(* OAuth server is external: all that is known of it is what the provider  *)
(* makes of its answers.                                                   *)
(*                                                                         *)
(* An access or refresh token is the number of the grant it came with, 0 a *)
(* refresh token that is missing.                                          *)
(***************************************************************************)
EXTENDS Naturals, Sequences, FiniteSets

CONSTANTS
  Clients,     \* processes that ask for the token
  Logins,      \* runs of the login command
  Accounts,    \* accounts the user may log in with
  NoAccount,   \* none of them
  NoRecord,    \* a file that is missing, empty or no JSON: _load returns None
  MaxGrants    \* bound: grants the OAuth server makes

ASSUME ProcessesDiffer == Clients \cap Logins = {}
ASSUME NullsDiffer ==
  NoAccount \notin Accounts /\ NoRecord \notin [access : Nat, refresh : Nat]
ASSUME GrantBound == MaxGrants \in Nat

VARIABLES
  file,      \* the token file: a record or NoRecord
  doing,     \* what each process does
  record,    \* the record it works on, or NoRecord
  held,      \* the access token the OpenAIClient of each client was built with, or 0
  user,      \* what the user has answered to the device code of each login
  owner,     \* OAuth server: the accounts of its grants, in their order
  valid,     \* OAuth server: the refresh tokens that it takes
  expired,   \* how many access tokens have expired
  rotates,   \* OAuth server: a refresh replaces the refresh token
  kept,      \* for LoginKept: a login was completed and nothing has disturbed it
  chosen,    \* for LoginStands: the account of the last login, or NoAccount
  unaware    \* for LoginStands: clients that have not asked for the token since

process == <<doing, record>>
oauth == <<owner, valid, expired, rotates>>
history == <<kept, chosen, unaware>>
tokenVars == <<file, process, held, user, oauth, history>>

Processes == Clients \cup Logins
Grants == 1..MaxGrants

Stored == [access : Grants, refresh : {0} \cup Grants]

(* A process is "off" (not running) or "up" (a client with its token); its
   refresh request is under way ("asked"); a login waits for its user ("polling",
   and "late" after the deadline) or for its tokens ("exchanging"); in _persist it
   was "granted" tokens, has "created", "opened" and "written" the file; "mixed" is
   a file that another process has written since this one opened it. *)
ProcessStates == {"off", "up", "asked", "polling", "late", "exchanging",
                  "granted", "created", "opened", "mixed", "written"}

TokenTypeOK ==
  /\ file \in Stored \cup {NoRecord}
  /\ doing \in [Processes -> ProcessStates]
  /\ record \in [Processes -> Stored \cup {NoRecord}]
  /\ held \in [Clients -> {0} \cup Grants]
  /\ user \in [Logins -> Accounts \cup {"undecided", "denied"}]
  /\ owner \in Seq(Accounts)
  /\ valid \subseteq Grants
  /\ expired \in Nat
  /\ rotates \in BOOLEAN
  /\ kept \in BOOLEAN
  /\ chosen \in Accounts \cup {NoAccount}
  /\ unaware \subseteq Clients

-----------------------------------------------------------------------------
Granted == Len(owner)

(* Access tokens live equally long: the older expires first. *)
Expired(n) == n <= expired

(* The account whose token a record holds. *)
AccountOf(r) == owner[r.access]

(* The OAuth server makes a grant to account a and takes the refresh tokens
   that take names from now on. *)
Grant(a, take) ==
  /\ Granted < MaxGrants
  /\ owner' = Append(owner, a)
  /\ valid' = take
  /\ UNCHANGED <<expired, rotates>>

(* A bug: the refresh token that comes with the answer is ignored. *)
MutRefreshed(r) == [access |-> Granted + 1, refresh |-> r.refresh]

(* The record made of the answer to a refresh: without a new refresh token the
   old one is kept. *)
Refreshed(r) ==
  [access |-> Granted + 1, refresh |-> IF rotates THEN Granted + 1 ELSE r.refresh]

(* A bug: a login without a refresh token keeps the one of the file, as a refresh
   does. *)
MutExchanged(renewable) ==
  [access |-> Granted + 1,
   refresh |-> IF renewable THEN Granted + 1
               ELSE IF file = NoRecord THEN 0 ELSE file.refresh]

(* The record of a new login, which may bring no refresh token. *)
Exchanged(renewable) ==
  [access |-> Granted + 1, refresh |-> IF renewable THEN Granted + 1 ELSE 0]

(* A client is built: for the only session of the command line, for all sessions
   of the server, which never asks for the token again. *)
Built(p, access) == held' = [held EXCEPT ![p] = access]

Goes(p, to) == doing' = [doing EXCEPT ![p] = to] /\ UNCHANGED record
WorksOn(p, to, r) ==
  doing' = [doing EXCEPT ![p] = to] /\ record' = [record EXCEPT ![p] = r]
Ends(p) == WorksOn(p, "off", NoRecord)

(* What happens to the history: a login stays kept or not, p asks for the token
   afresh, p has written the file.  A client that read the file before a login and
   writes it afterwards undoes the choice of the account. *)
Kept(still) == kept' = still /\ UNCHANGED <<chosen, unaware>>
Aware(p) == unaware' = unaware \ {p} /\ UNCHANGED <<kept, chosen>>
Chosen(p) ==
  /\ chosen' = IF p \in Logins THEN AccountOf(record[p])
               ELSE IF p \in unaware THEN NoAccount ELSE chosen
  /\ unaware' = IF p \in Logins THEN Clients ELSE unaware

-----------------------------------------------------------------------------
(* get_auth: the file is loaded; a token that is still valid is the answer, ... *)
GetAuth(p) ==
  /\ doing[p] = "off"
  /\ file # NoRecord
  /\ ~Expired(file.access)
  /\ Goes(p, "up")
  /\ Built(p, file.access)
  /\ Aware(p)
  /\ UNCHANGED <<file, user, oauth>>

(* ... one that has expired is refreshed.  Without a readable file, or without a
   refresh token, the process ends where it began. *)
AskRefresh(p) ==
  /\ doing[p] = "off"
  /\ file # NoRecord
  /\ Expired(file.access)
  /\ file.refresh # 0
  /\ WorksOn(p, "asked", file)
  /\ Aware(p)
  /\ UNCHANGED <<file, held, user, oauth>>

(* The OAuth server takes the refresh token of a request, ... *)
Renews(p) ==
  /\ doing[p] = "asked"
  /\ record[p].refresh \in valid
  /\ Grant(owner[record[p].refresh],
           IF rotates THEN (valid \ {record[p].refresh}) \cup {Granted + 1} ELSE valid)

(* ... and its answer arrives, ... *)
RefreshSucceeds(p) ==
  /\ Renews(p)
  /\ WorksOn(p, "granted", Refreshed(record[p]))
  /\ UNCHANGED <<file, held, user, history>>

(* ... or is lost with the process or to a timeout. *)
AnswerLost(p) ==
  /\ Renews(p)
  /\ Ends(p)
  /\ Kept(FALSE)
  /\ UNCHANGED <<file, held, user>>

(* The refresh is refused, or the request fails before the server has seen it:
   LLMAuthError, and the process ends. *)
RefreshFails(p) ==
  /\ doing[p] = "asked"
  /\ Ends(p)
  /\ UNCHANGED <<file, held, user, oauth, history>>

(* p does not replace the file by the record of a login without a refresh token. *)
Lasting(p) == p \in Logins => record[p].refresh # 0

(* _persist: the file is created or cut to nothing (os.open with O_TRUNC), ... *)
CreateFile(p) ==
  /\ doing[p] = "granted"
  /\ file' = NoRecord
  /\ Goes(p, "created")
  /\ Kept(kept /\ Lasting(p))
  /\ UNCHANGED <<held, user, oauth>>

(* ... opened and cut once more by write_text, ... *)
OpenFile(p) ==
  /\ doing[p] = "created"
  /\ file' = NoRecord
  /\ Goes(p, "opened")
  /\ Kept(kept /\ Lasting(p))
  /\ UNCHANGED <<held, user, oauth>>

(* ... and written from its first byte on, under the eyes of all that have it
   open. *)
Written(p) ==
  doing' = [q \in Processes |-> IF q = p THEN "written"
                             ELSE IF doing[q] = "opened" THEN "mixed" ELSE doing[q]]

WriteFile(p) ==
  /\ doing[p] \in {"opened", "mixed"}
  /\ file' = record[p]
  /\ Written(p)
  /\ kept' = (Lasting(p) /\ (kept \/ p \in Logins))
  /\ Chosen(p)
  /\ UNCHANGED <<record, held, user, oauth>>

(* What another process has written in between was longer: its end stays behind
   and the file is no JSON any more. *)
WriteMixed(p) ==
  /\ doing[p] = "mixed"
  /\ file' = NoRecord
  /\ Written(p)
  /\ Kept(FALSE)
  /\ UNCHANGED <<record, held, user, oauth>>

(* The client is built from what the provider returns. *)
Return(p) ==
  /\ doing[p] = "written"
  /\ WorksOn(p, "up", NoRecord)
  /\ Built(p, record[p].access)
  /\ UNCHANGED <<file, user, oauth, history>>

-----------------------------------------------------------------------------
Waiting(l) == doing[l] \in {"polling", "late"}

(* start_login: a device code for the user. *)
StartLogin(l) ==
  /\ doing[l] = "off"
  /\ Goes(l, "polling")
  /\ UNCHANGED <<file, held, user, oauth, history>>

(* The user approves the code with one of his accounts, or denies it. *)
Decide(l) ==
  /\ Waiting(l)
  /\ user[l] = "undecided"
  /\ \E answer \in Accounts \cup {"denied"} : user' = [user EXCEPT ![l] = answer]
  /\ UNCHANGED <<file, process, held, oauth, history>>

(* The deadline of finish_login passes. *)
Elapse(l) ==
  /\ doing[l] = "polling"
  /\ Goes(l, "late")
  /\ UNCHANGED <<file, held, user, oauth, history>>

(* One poll: the code was approved, ... *)
Approved(l) ==
  /\ Waiting(l)
  /\ user[l] \in Accounts
  /\ Goes(l, "exchanging")
  /\ UNCHANGED <<file, held, user, oauth, history>>

(* ... or denied, or there is no answer yet and it is too late; a pending answer
   in time changes nothing. *)
NotApproved(l) ==
  /\ Waiting(l)
  /\ user[l] = "denied" \/ (user[l] = "undecided" /\ doing[l] = "late")
  /\ Ends(l)
  /\ user' = [user EXCEPT ![l] = "undecided"]
  /\ UNCHANGED <<file, held, oauth, history>>

(* _exchange_code: the tokens of a new login. *)
Exchange(l) ==
  /\ doing[l] = "exchanging"
  /\ \E renewable \in BOOLEAN :
       /\ Grant(user[l], IF renewable THEN valid \cup {Granted + 1} ELSE valid)
       /\ WorksOn(l, "granted", Exchanged(renewable))
  /\ user' = [user EXCEPT ![l] = "undecided"]
  /\ UNCHANGED <<file, held, history>>

(* A request of the login fails. *)
LoginFails(l) ==
  /\ Waiting(l) \/ doing[l] = "exchanging"
  /\ Ends(l)
  /\ user' = [user EXCEPT ![l] = "undecided"]
  /\ UNCHANGED <<file, held, oauth, history>>

(* The login is complete. *)
LoginReturns(l) ==
  /\ doing[l] = "written"
  /\ Ends(l)
  /\ UNCHANGED <<file, held, user, oauth, history>>

-----------------------------------------------------------------------------
(* Tokens are in the hands of p: the OAuth server has made them, the file does
   not hold them yet. *)
Holds(p) == doing[p] \in {"granted", "created", "opened", "mixed"}

(* A process may be killed anywhere, and what it holds goes with it. *)
Killed(p) ==
  /\ doing[p] # "off"
  /\ Ends(p)
  /\ held' = [q \in Clients |-> IF q = p THEN 0 ELSE held[q]]
  /\ user' = [l \in Logins |-> IF l = p THEN "undecided" ELSE user[l]]
  /\ Kept(kept /\ ~Holds(p))
  /\ UNCHANGED <<file, oauth>>

(* The exp claim of the oldest access token is reached. *)
Expire ==
  /\ expired < Granted
  /\ expired' = expired + 1
  /\ UNCHANGED <<file, process, held, user, owner, valid, rotates, history>>

(* The session of the command line ends, or the server is stopped. *)
Exit(p) ==
  /\ doing[p] = "up"
  /\ Ends(p)
  /\ held' = [held EXCEPT ![p] = 0]
  /\ UNCHANGED <<file, user, oauth, history>>

TokenInit ==
  /\ file = NoRecord
  /\ doing = [p \in Processes |-> "off"]
  /\ record = [p \in Processes |-> NoRecord]
  /\ held = [p \in Clients |-> 0]
  /\ user = [l \in Logins |-> "undecided"]
  /\ owner = <<>>
  /\ valid = {}
  /\ expired = 0
  /\ rotates \in BOOLEAN
  /\ kept = FALSE
  /\ chosen = NoAccount
  /\ unaware = {}

TokenNext ==
  \/ \E p \in Clients :
       \/ GetAuth(p) \/ AskRefresh(p)
       \/ RefreshSucceeds(p) \/ AnswerLost(p) \/ RefreshFails(p) \/ Return(p)
       \/ Exit(p)
  \/ \E l \in Logins :
       \/ StartLogin(l) \/ Decide(l) \/ Elapse(l) \/ Approved(l) \/ NotApproved(l)
       \/ Exchange(l) \/ LoginFails(l) \/ LoginReturns(l)
  \/ \E p \in Processes :
       CreateFile(p) \/ OpenFile(p) \/ WriteFile(p) \/ WriteMixed(p) \/ Killed(p)
  \/ Expire

TokenSpec == TokenInit /\ [][TokenNext]_tokenVars

-----------------------------------------------------------------------------
(* Once a login has brought a refresh token, the file holds one that the OAuth
   server still takes, or a process is about to write it: in whatever order the
   reads, refreshes, logins and writes of several processes overlap.  It ends with
   what no order could save or the code does not guard against: a lost answer, a
   process killed between an answer and its write, two writes mixed in one file,
   a later login that brings no refresh token. *)
Renewable(r) == r.refresh \in valid

LoginKept ==
  kept => \/ file # NoRecord /\ Renewable(file)
          \/ \E p \in Processes : Holds(p) /\ Renewable(record[p])

(* Whoever asks for the token after a login gets one of the account that was chosen
   in it, by whatever refreshes and further requests it comes about; only a client
   that asked before the login may still undo it, when it writes what it got
   afterwards. *)
LoginStands ==
  [][\A p \in Clients :
       /\ held'[p] \notin {0, held[p]}
       /\ chosen' # NoAccount
       /\ p \notin unaware'
       => owner'[held'[p]] = chosen']_tokenVars
=============================================================================
