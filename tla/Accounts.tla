------------------------------- MODULE Accounts -------------------------------
(***************************************************************************)
(* One user: the login session, the devices that confirm it is the user in  *)
(* person, the tickets that enrol them and the challenges they answer       *)
(* (apps/accounts, common/authentication).                                  *)
(*                                                                          *)
(* A request authenticates with the row it has loaded, then its view works. *)
(* The finish_* services lock the user's row with the challenge, because    *)
(* SELECT ... FOR UPDATE joins it; the others only lock what they write.    *)
(* A session is its key.  What a device answers is a choice; so is time.    *)
(***************************************************************************)
EXTENDS Naturals, FiniteSets

CONSTANTS
  Requests,     \* HTTP requests that may be in flight at the same time
  Sessions,     \* session keys; one that nobody knows any more is used again
  Devices, Tickets, Challenges,  \* rows, each used once (bounds)
  LoneUpdate,   \* TRUE: nobody writes the user's row while an administrator edits it
  Nothing       \* NULL

ASSUME AccountAssumption ==
  /\ LoneUpdate \in BOOLEAN
  /\ Nothing \notin Sessions \cup Tickets \cup Challenges \cup Devices \cup Requests

VARIABLES
  strict,     \* LOGIN_REQUIRE_WEBAUTHN, as the deployment has it
  user,       \* is_active, active_session_key, must_change_password
  sessions,   \* per live session: has it been verified by a device
  device, ticket, challenge,  \* their rows
  request     \* where each request is and what it works with

rows == <<device, ticket, challenge>>
vars == <<strict, user, sessions, device, ticket, challenge, request>>

-------------------------------------------------------------------------------
(* Types *)

OrNothing(S) == S \cup {Nothing}

UserType == [active : BOOLEAN, key : OrNothing(Sessions), mustChange : BOOLEAN]

RowState == {"absent", "open", "used", "expired"}
Purposes == {"login", "register", "location"}
NoChallenge == [state |-> "absent", purpose |-> "login", ticket |-> Nothing]

Idle == [step |-> "idle", session |-> Nothing, challenge |-> Nothing, ticket |-> Nothing,
         device |-> Nothing, seen |-> [active |-> TRUE, key |-> Nothing, mustChange |-> TRUE]]

Steps == {"idle", "verify", "login", "password", "activate", "authenticate", "view", "revoke", "flush",
          "save", "close tickets", "close challenges"}

TypeOK ==
  /\ strict \in BOOLEAN
  /\ user \in UserType
  /\ sessions \in [Sessions -> {"none", "plain", "verified"}]
  /\ device \in [Devices -> {"unknown", "active", "revoked"}]
  /\ ticket \in [Tickets -> RowState]
  /\ challenge \in
       [Challenges -> [state : RowState, purpose : Purposes, ticket : OrNothing(Tickets)]]
  /\ request \in
       [Requests -> [step : Steps, session : OrNothing(Sessions),
                     challenge : OrNothing(Challenges), ticket : OrNothing(Tickets),
                     device : OrNothing(Devices), seen : UserType]]
  /\ \A r \in Requests : request[r].step = "verify" =>
       request[r].challenge # Nothing /\ request[r].device # Nothing

\* create_user: without devices
Init ==
  /\ strict \in BOOLEAN
  /\ \E active, mustChange \in BOOLEAN :
       user = [active |-> active, key |-> Nothing, mustChange |-> mustChange]
  /\ sessions = [s \in Sessions |-> "none"]
  /\ device = [d \in Devices |-> "unknown"]
  /\ ticket = [t \in Tickets |-> "absent"]
  /\ challenge = [c \in Challenges |-> NoChallenge]
  /\ request = [r \in Requests |-> Idle]

Live == {s \in Sessions : sessions[s] # "none"}
ActiveDevices == {d \in Devices : device[d] = "active"}

\* A key that is in no session, in no request and not in the user's row.
FreeKeys ==
  (Sessions \ Live) \ ({user.key} \cup {request[r].session : r \in Requests}
                          \cup {request[r].seen.key : r \in Requests})

Go(r, fields) == request' = [request EXCEPT ![r] = fields]
Finish(r) == Go(r, Idle)

\* Some transaction holds the user's row.
Locked == \E r \in Requests : request[r].step = "verify"

-------------------------------------------------------------------------------
(* Tickets and challenges *)

\* create_enrollment_ticket
CreateTicket ==
  \E t \in Tickets :
    /\ ticket[t] = "absent"
    /\ ticket' = [ticket EXCEPT ![t] = "open"]
    /\ UNCHANGED <<user, sessions, device, challenge, request>>

NewChallenge(purpose, t) ==
  \E c \in Challenges :
    /\ challenge[c].state = "absent"
    /\ challenge' = [challenge EXCEPT ![c] = [state |-> "open", purpose |-> purpose, ticket |-> t]]

\* begin_registration
BeginRegistration ==
  \E t \in Tickets :
    /\ ticket[t] = "open"
    /\ NewChallenge("register", t)
    /\ UNCHANGED <<user, sessions, device, ticket, request>>

\* LoginView after the password: begin_login, for a user with a device
BeginLogin ==
  /\ strict /\ user.active /\ ActiveDevices # {}
  /\ NewChallenge("login", Nothing)
  /\ UNCHANGED <<user, sessions, device, ticket, request>>

\* is_available: the time of a row is over.
Expire ==
  /\ \/ \E t \in Tickets :
          /\ ticket[t] = "open"
          /\ ticket' = [ticket EXCEPT ![t] = "expired"]
          /\ UNCHANGED challenge
     \/ \E c \in Challenges :
          /\ challenge[c].state = "open"
          /\ challenge' = [challenge EXCEPT ![c].state = "expired"]
          /\ UNCHANGED ticket
  /\ UNCHANGED <<user, sessions, device, request>>

\* Not the code: the challenge and the ticket are read without a lock.
LoadUnlocked(r) ==
  /\ request[r].step = "idle"
  /\ \E c \in Challenges, d \in Devices :
       /\ challenge[c].state = "open"
       /\ challenge[c].purpose = "register" => ticket[challenge[c].ticket] = "open"
       /\ challenge[c].purpose # "register" => device[d] = "active"
       /\ Go(r, [Idle EXCEPT !.step = "verify", !.challenge = c, !.device = d,
                             !.ticket = challenge[c].ticket])
  /\ UNCHANGED <<user, sessions, rows>>

\* Not the code: the answer may come from a device nobody has named.
LoadAnyDevice(r) ==
  /\ request[r].step = "idle" /\ ~Locked
  /\ \E c \in Challenges, d \in OrNothing(Devices) :
       /\ challenge[c].state = "open"
       /\ challenge[c].purpose = "register" => ticket[challenge[c].ticket] = "open"
       /\ Go(r, [Idle EXCEPT !.step = "verify", !.challenge = c, !.device = d,
                             !.ticket = challenge[c].ticket])
  /\ UNCHANGED <<user, sessions, rows>>

\* finish_registration, finish_login, verify_location_challenge as far as their checks:
\* get_available_ticket, get_available_challenge, get_credential_for_assertion
LoadChallenge(r) ==
  /\ request[r].step = "idle" /\ ~Locked
  /\ \E c \in Challenges, d \in Devices :
       /\ challenge[c].state = "open"
       /\ challenge[c].purpose = "register" => ticket[challenge[c].ticket] = "open"
       /\ challenge[c].purpose # "register" => device[d] = "active"
       /\ Go(r, [Idle EXCEPT !.step = "verify", !.challenge = c, !.device = d,
                             !.ticket = challenge[c].ticket])
  /\ UNCHANGED <<user, sessions, rows>>

Consume(c) == challenge' = [challenge EXCEPT ![c].state = "used"]

\* finish_registration: a device that nobody has bound yet
Register(r) ==
  LET q == request[r] IN
  /\ q.step = "verify" /\ challenge[q.challenge].purpose = "register"
  /\ device[q.device] = "unknown"
  /\ device' = [device EXCEPT ![q.device] = "active"]
  /\ ticket' = [ticket EXCEPT ![q.ticket] = "used"]
  /\ Consume(q.challenge)
  /\ Finish(r)
  /\ UNCHANGED <<user, sessions>>

\* finish_login and verify_location_challenge: verify_assertion accepts the answer.
VerifyAssertion(r) ==
  LET q == request[r] IN
  /\ q.step = "verify" /\ challenge[q.challenge].purpose # "register"
  /\ Consume(q.challenge)
  /\ IF challenge[q.challenge].purpose = "login" THEN Go(r, [Idle EXCEPT !.step = "login"])
                                                 ELSE Finish(r)
  /\ UNCHANGED <<user, sessions, device, ticket>>

-------------------------------------------------------------------------------
(* Sessions *)

\* LoginView of a deployment that asks for the password only
PasswordLogin(r) ==
  /\ request[r].step = "idle" /\ ~strict /\ user.active
  /\ Go(r, [Idle EXCEPT !.step = "password"])
  /\ UNCHANGED <<user, sessions, rows>>

\* login and, with a device, mark_webauthn_session: a new key, in the place of the browser's
\* old session
StartSession(r) ==
  /\ request[r].step \in {"login", "password"}
  /\ \E s \in FreeKeys, old \in OrNothing(Live) :
       /\ sessions' = [t \in Sessions |->
            CASE t = s -> IF request[r].step = "login" THEN "verified" ELSE "plain"
              [] t = old -> "none" [] OTHER -> sessions[t]]
       /\ Go(r, [Idle EXCEPT !.step = "activate", !.session = s])
  /\ UNCHANGED <<user, rows>>

\* activate_login_session
ActivateSession(r) ==
  /\ request[r].step = "activate" /\ ~Locked
  /\ user' = [user EXCEPT !.key = request[r].session]
  /\ Finish(r)
  /\ UNCHANGED <<sessions, rows>>

\* The session middleware and SessionAuthentication load session and user.
LoadSession(r) ==
  /\ request[r].step = "idle" /\ user.active
  /\ \E s \in Live :
       Go(r, [Idle EXCEPT !.step = "authenticate", !.session = s, !.seen = user])
  /\ UNCHANGED <<user, sessions, rows>>

\* WebAuthnRequired or the view; PasswordChangeRequired is with the views it refuses.
Admit(r) ==
  IF strict => sessions[request[r].session] = "verified"
    THEN Go(r, [request[r] EXCEPT !.step = "view"])
    ELSE Finish(r)

\* SessionReplaced: logout
Replaced(r) ==
  /\ sessions' = [sessions EXCEPT ![request[r].session] = "none"]
  /\ Finish(r)
  /\ UNCHANGED user

\* Not the code: a session that has seen no active one takes the row in any case.
ClaimAnyway(r) ==
  LET s == request[r].session IN
  /\ request[r].step = "authenticate" /\ request[r].seen.key = Nothing /\ ~Locked
  /\ user' = [user EXCEPT !.key = s]
  /\ Admit(r)
  /\ UNCHANGED <<sessions, rows>>

\* SecureSessionAuthentication of a request that has seen no active session:
\* UPDATE ... WHERE active_session_key IS NULL, then the comparison with what is there
ClaimSession(r) ==
  LET s == request[r].session IN
  /\ request[r].step = "authenticate" /\ request[r].seen.key = Nothing /\ ~Locked
  /\ IF user.key \in {Nothing, s}
       THEN /\ user' = [user EXCEPT !.key = s]
            /\ Admit(r)
            /\ UNCHANGED sessions
       ELSE Replaced(r)
  /\ UNCHANGED rows

\* The same of a request that has seen one
CompareSession(r) ==
  LET q == request[r] IN
  /\ q.step = "authenticate" /\ q.seen.key # Nothing
  /\ IF q.seen.key = q.session THEN Admit(r) /\ UNCHANGED <<user, sessions>>
                               ELSE Replaced(r)
  /\ UNCHANGED rows

\* LogoutView: the check of the active session is left out for it.
ClearSession(r) ==
  LET q == request[r] IN
  /\ q.step = "authenticate" /\ ~Locked
  /\ user' = IF user.key = q.session THEN [user EXCEPT !.key = Nothing] ELSE user
  /\ Go(r, [q EXCEPT !.step = "flush"])
  /\ UNCHANGED <<sessions, rows>>

FlushSession(r) ==
  /\ request[r].step = "flush"
  /\ sessions' = [sessions EXCEPT ![request[r].session] = "none"]
  /\ Finish(r)
  /\ UNCHANGED <<user, rows>>

-------------------------------------------------------------------------------
(* Views of the user *)

\* ChangePasswordView: the sessions of the old password end; the own one, as the request has
\* been admitted with it, gets a new key.
ChangePassword(r) ==
  /\ request[r].step = "view" /\ ~Locked
  /\ user' = [user EXCEPT !.mustChange = FALSE]
  /\ \E s \in FreeKeys :
       /\ sessions' = [t \in Sessions |-> IF t # s THEN "none" ELSE IF strict THEN "verified" ELSE "plain"]
       /\ Go(r, [Idle EXCEPT !.step = "activate", !.session = s])
  /\ UNCHANGED rows

\* begin_location_challenge
BeginLocation(r) ==
  /\ request[r].step = "view" /\ ~request[r].seen.mustChange /\ ActiveDevices # {}
  /\ NewChallenge("location", Nothing)
  /\ Finish(r)
  /\ UNCHANGED <<user, sessions, device, ticket>>

\* revoke_credential counts the active devices, and then revokes.
CountDevices(r) ==
  /\ request[r].step = "view" /\ ~request[r].seen.mustChange
  /\ Cardinality(ActiveDevices) > 1
  /\ \E d \in ActiveDevices : Go(r, [request[r] EXCEPT !.step = "revoke", !.device = d])
  /\ UNCHANGED <<user, sessions, rows>>

RevokeDevice(r) ==
  /\ request[r].step = "revoke"
  /\ device' = [device EXCEPT ![request[r].device] = "revoked"]
  /\ Finish(r)
  /\ UNCHANGED <<user, sessions, ticket, challenge>>

\* Any other view, and a refusal
LeaveView(r) ==
  /\ request[r].step = "view"
  /\ Finish(r)
  /\ UNCHANGED <<user, sessions, rows>>

-------------------------------------------------------------------------------
(* Administrators *)

DisableUser ==
  /\ ~Locked
  /\ user' = [user EXCEPT !.active = FALSE, !.key = Nothing]
  /\ UNCHANGED <<sessions, rows, request>>

\* reset_password: the sessions of the old password are none any more.
ResetPassword ==
  /\ ~Locked
  /\ user' = [user EXCEPT !.mustChange = TRUE, !.key = Nothing]
  /\ sessions' = [s \in Sessions |-> "none"]
  /\ UNCHANGED <<rows, request>>

\* update_user: get_object ...
LoadUser(r) ==
  /\ request[r].step = "idle"
  /\ Go(r, [Idle EXCEPT !.step = "save", !.seen = user])
  /\ UNCHANGED <<user, sessions, rows>>

\* ... and a save of the whole row as it was loaded
SaveUser(r) ==
  LET seen == request[r].seen IN
  /\ request[r].step = "save" /\ ~Locked
  /\ LoneUpdate => seen = user
  /\ \E active, mustChange \in BOOLEAN :
       user' = [active |-> active, mustChange |-> mustChange,
                key |-> IF active THEN seen.key ELSE Nothing]
  /\ Finish(r)
  /\ UNCHANGED <<sessions, rows>>

\* reset_user_webauthn_credentials: three statements without a transaction
ResetDevices(r) ==
  /\ request[r].step = "idle"
  /\ device' = [d \in Devices |-> IF device[d] = "active" THEN "revoked" ELSE device[d]]
  /\ Go(r, [Idle EXCEPT !.step = "close tickets"])
  /\ UNCHANGED <<user, sessions, ticket, challenge>>

CloseTickets(r) ==
  /\ request[r].step = "close tickets" /\ ~Locked
  /\ ticket' = [t \in Tickets |-> IF ticket[t] = "absent" THEN "absent" ELSE "used"]
  /\ Go(r, [Idle EXCEPT !.step = "close challenges"])
  /\ UNCHANGED <<user, sessions, device, challenge>>

CloseChallenges(r) ==
  /\ request[r].step = "close challenges" /\ ~Locked
  /\ challenge' = [c \in Challenges |->
       IF challenge[c].state = "absent" THEN challenge[c] ELSE [challenge[c] EXCEPT !.state = "used"]]
  /\ Finish(r)
  /\ UNCHANGED <<user, sessions, device, ticket>>

\* A request is refused or dies: what is committed stays, and the exception of a refused
\* answer takes consume_challenge back with it.
Die(r) ==
  /\ request[r].step # "idle"
  /\ Finish(r)
  /\ UNCHANGED <<user, sessions, rows>>

-------------------------------------------------------------------------------

Handle(r) ==
  \/ LoadChallenge(r) \/ Register(r) \/ VerifyAssertion(r)
  \/ PasswordLogin(r) \/ StartSession(r) \/ ActivateSession(r)
  \/ LoadSession(r) \/ ClaimSession(r) \/ CompareSession(r) \/ ClearSession(r) \/ FlushSession(r)
  \/ ChangePassword(r) \/ BeginLocation(r) \/ CountDevices(r) \/ RevokeDevice(r) \/ LeaveView(r)
  \/ LoadUser(r) \/ SaveUser(r) \/ ResetDevices(r) \/ CloseTickets(r) \/ CloseChallenges(r)
  \/ Die(r)

Next ==
  /\ \/ CreateTicket \/ BeginRegistration \/ BeginLogin \/ Expire \/ DisableUser \/ ResetPassword
     \/ \E r \in Requests : Handle(r)
  /\ UNCHANGED strict

Spec == Init /\ [][Next]_vars

-------------------------------------------------------------------------------
(* Properties *)

\* Requests that present the same challenge, or challenges of the same ticket, at
\* the same time: an accepted answer uses up what nobody has used until then.
ProofsAreUsedOnce ==
  [][\A r \in Requests :
       LET q == request[r] IN
       Register(r) \/ VerifyAssertion(r) =>
         /\ challenge[q.challenge].state # "used"
         /\ q.ticket # Nothing => ticket[q.ticket] # "used"]_vars

\* "您的账号已在其他设备或浏览器重新登录": only a new session, of a login or of a changed
\* password, takes the place of an active one; requests of older sessions that have
\* seen none do not.
OnlyLoginsReplace ==
  [][user.key # Nothing /\ user'.key \notin {Nothing, user.key} =>
       \E r \in Requests : request[r].step = "activate" /\ request[r].session = user'.key]_vars
===============================================================================
