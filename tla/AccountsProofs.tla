---------------------------- MODULE AccountsProofs -----------------------------
(***************************************************************************)
(* Proofs about Accounts: types, that a proof of possession (a challenge,   *)
(* a ticket) is used once because its row is locked with the user's, and    *)
(* that only the session of a login takes the place of an active one.       *)
(***************************************************************************)
EXTENDS Accounts, TLAPS

RequestRow == [step : Steps, session : OrNothing(Sessions), challenge : OrNothing(Challenges),
               ticket : OrNothing(Tickets), device : OrNothing(Devices), seen : UserType]

SessionType == [Sessions -> {"none", "plain", "verified"}]
DeviceType == [Devices -> {"unknown", "active", "revoked"}]
ChallengeRow == [state : RowState, purpose : Purposes, ticket : OrNothing(Tickets)]

\* Challenges of a registration, and only they, are for a ticket.
ChallengesFit ==
  \A c \in Challenges :
    IF challenge[c].purpose = "register" THEN challenge[c].ticket \in Tickets
                                         ELSE challenge[c].ticket = Nothing

\* A request that verifies an answer is the only one, and nobody has used its challenge
\* or its ticket.
Verifying ==
  /\ \A r, q \in Requests : request[r].step = "verify" /\ request[q].step = "verify" => r = q
  /\ \A r \in Requests : request[r].step = "verify" =>
       /\ challenge[request[r].challenge].state \in {"open", "expired"}
       /\ request[r].ticket = challenge[request[r].challenge].ticket
       /\ request[r].ticket # Nothing => ticket[request[r].ticket] \in {"open", "expired"}

AccountsInv == TypeOK /\ ChallengesFit /\ Verifying

-------------------------------------------------------------------------------
(* Rows *)

LEMMA IdleTyped == Idle \in RequestRow /\ Idle.step = "idle"
BY DEF Idle, RequestRow, Steps, OrNothing, UserType

LEMMA AccountsInit == Init => AccountsInv
<1> SUFFICES ASSUME Init PROVE AccountsInv
  OBVIOUS
<1>1. NoChallenge \in ChallengeRow /\ NoChallenge.purpose = "login" /\ NoChallenge.ticket = Nothing
  BY DEF NoChallenge, ChallengeRow, RowState, Purposes, OrNothing
<1>2. user \in UserType
  BY DEF Init, UserType, OrNothing
<1>3. TypeOK
  BY <1>1, <1>2, IdleTyped DEF Init, TypeOK, RequestRow, ChallengeRow, RowState
<1>4. ChallengesFit /\ Verifying
  BY <1>1, IdleTyped DEF Init, ChallengesFit, Verifying
<1> QED BY <1>3, <1>4 DEF AccountsInv

\* One request goes on or ends; tickets and challenges stay.
LEMMA RequestMoves ==
  ASSUME AccountsInv, NEW r \in Requests, NEW row \in RequestRow, row.step # "verify",
         request' = [request EXCEPT ![r] = row], UNCHANGED <<strict, ticket, challenge>>,
         user' \in UserType, sessions' \in SessionType, device' \in DeviceType
  PROVE  AccountsInv'
<1>1. request \in [Requests -> RequestRow]
  BY DEF AccountsInv, TypeOK, RequestRow
<1>2. /\ request' \in [Requests -> RequestRow] /\ request'[r] = row
      /\ \A q \in Requests : q # r => request'[q] = request[q]
  BY <1>1
<1>3. TypeOK'
  BY <1>2 DEF AccountsInv, TypeOK, RequestRow, SessionType, DeviceType
<1>4. ChallengesFit' /\ Verifying'
  BY <1>2 DEF AccountsInv, ChallengesFit, Verifying
<1> QED BY <1>3, <1>4 DEF AccountsInv

\* No request verifies when tickets and challenges are closed, or verification ends.
LEMMA RowsMove ==
  ASSUME AccountsInv, \A r \in Requests : request'[r].step # "verify",
         request' \in [Requests -> RequestRow], UNCHANGED <<strict, user, sessions>>,
         device' \in DeviceType, ticket' \in [Tickets -> RowState],
         challenge' \in [Challenges -> ChallengeRow],
         \A c \in Challenges : /\ challenge'[c].purpose = challenge[c].purpose
                               /\ challenge'[c].ticket = challenge[c].ticket
  PROVE  AccountsInv'
<1>1. TypeOK'
  BY DEF AccountsInv, TypeOK, RequestRow, DeviceType, ChallengeRow
<1>2. ChallengesFit' /\ Verifying'
  BY DEF AccountsInv, ChallengesFit, Verifying
<1> QED BY <1>1, <1>2 DEF AccountsInv

-------------------------------------------------------------------------------
(* Tickets and challenges *)

LEMMA NewChallengeFits ==
  ASSUME AccountsInv, NEW purpose \in Purposes, NEW t \in OrNothing(Tickets),
         IF purpose = "register" THEN t \in Tickets ELSE t = Nothing,
         NewChallenge(purpose, t), UNCHANGED <<strict, user, sessions, device, ticket, request>>
  PROVE  AccountsInv'
<1> DEFINE row == [state |-> "open", purpose |-> purpose, ticket |-> t]
<1>1. PICK c \in Challenges : challenge[c].state = "absent" /\ challenge' = [challenge EXCEPT ![c] = row]
  BY DEF NewChallenge
<1>2. row \in ChallengeRow /\ row.purpose = purpose /\ row.ticket = t
  BY DEF ChallengeRow, RowState
<1> HIDE DEF row
<1>3. challenge \in [Challenges -> ChallengeRow]
  BY DEF AccountsInv, TypeOK, ChallengeRow
<1>4. /\ challenge' \in [Challenges -> ChallengeRow] /\ challenge'[c] = row
      /\ \A d \in Challenges : d # c => challenge'[d] = challenge[d]
  BY <1>1, <1>2, <1>3
<1>5. TypeOK'
  BY <1>4 DEF AccountsInv, TypeOK, ChallengeRow
<1>6. ChallengesFit'
  BY <1>2, <1>4 DEF AccountsInv, ChallengesFit
<1>7. Verifying'
  <2>1. ASSUME NEW r \in Requests, request[r].step = "verify"
        PROVE  request[r].challenge \in Challenges /\ request[r].challenge # c
    BY <1>1, <2>1 DEF AccountsInv, TypeOK, OrNothing, Verifying
  <2> QED BY <1>4, <2>1 DEF AccountsInv, Verifying
<1> QED BY <1>5, <1>6, <1>7 DEF AccountsInv

LEMMA RowsFit ==
  ASSUME AccountsInv, UNCHANGED strict,
         CreateTicket \/ BeginRegistration \/ BeginLogin \/ Expire
  PROVE  AccountsInv'
<1>1. CASE CreateTicket
  <2>1. PICK t \in Tickets : ticket[t] = "absent" /\ ticket' = [ticket EXCEPT ![t] = "open"]
    BY <1>1 DEF CreateTicket
  <2>2. UNCHANGED <<user, sessions, device, challenge, request>>
    BY <1>1 DEF CreateTicket
  <2>3. TypeOK'
    BY <2>1, <2>2 DEF AccountsInv, TypeOK, RowState
  <2>4. \A s \in Tickets : ticket[s] \in {"open", "expired"} => ticket'[s] = ticket[s]
    BY <2>1 DEF AccountsInv, TypeOK
  <2>5. Verifying'
    BY <2>2, <2>4 DEF AccountsInv, TypeOK, OrNothing, Verifying
  <2> QED BY <2>2, <2>3, <2>5 DEF AccountsInv, ChallengesFit
<1>2. CASE BeginRegistration
  <2>1. PICK t \in Tickets : NewChallenge("register", t)
    BY <1>2 DEF BeginRegistration
  <2> QED BY <1>2, <2>1, NewChallengeFits DEF BeginRegistration, Purposes, OrNothing
<1>3. CASE BeginLogin
  BY <1>3, NewChallengeFits DEF BeginLogin, Purposes, OrNothing
<1>4. CASE Expire
  <2>1. UNCHANGED <<user, sessions, device, request>>
    BY <1>4 DEF Expire
  <2>2. /\ ticket' \in [Tickets -> RowState] /\ challenge' \in [Challenges -> ChallengeRow]
        /\ \A t \in Tickets : ticket[t] \in {"open", "expired"} => ticket'[t] \in {"open", "expired"}
        /\ \A c \in Challenges :
             /\ challenge'[c].purpose = challenge[c].purpose
             /\ challenge'[c].ticket = challenge[c].ticket
             /\ challenge[c].state \in {"open", "expired"} => challenge'[c].state \in {"open", "expired"}
    <3>1. ticket \in [Tickets -> RowState] /\ challenge \in [Challenges -> ChallengeRow]
      BY DEF AccountsInv, TypeOK, ChallengeRow
    <3>2. ASSUME NEW t \in Tickets, ticket' = [ticket EXCEPT ![t] = "expired"], UNCHANGED challenge
          PROVE  <2>2!:
      BY <3>1, <3>2 DEF RowState
    <3>3. ASSUME NEW c \in Challenges, challenge' = [challenge EXCEPT ![c].state = "expired"],
                 UNCHANGED ticket
          PROVE  <2>2!:
      BY <3>1, <3>3 DEF RowState, ChallengeRow
    <3> QED BY <1>4, <3>2, <3>3 DEF Expire
  <2>3. TypeOK'
    BY <2>1, <2>2 DEF AccountsInv, TypeOK, ChallengeRow
  <2>4. Verifying'
    BY <2>1, <2>2 DEF AccountsInv, TypeOK, OrNothing, Verifying
  <2>5. ChallengesFit'
    BY <2>2 DEF AccountsInv, ChallengesFit
  <2> QED BY <2>3, <2>4, <2>5 DEF AccountsInv
<1> QED BY <1>1, <1>2, <1>3, <1>4

LEMMA LoadChallengeFits ==
  ASSUME AccountsInv, UNCHANGED strict, NEW r \in Requests, LoadChallenge(r)
  PROVE  AccountsInv'
<1>1. PICK c \in Challenges, d \in Devices :
        /\ challenge[c].state = "open"
        /\ challenge[c].purpose = "register" => ticket[challenge[c].ticket] = "open"
        /\ Go(r, [Idle EXCEPT !.step = "verify", !.challenge = c, !.device = d,
                              !.ticket = challenge[c].ticket])
  BY DEF LoadChallenge
<1> DEFINE row == [Idle EXCEPT !.step = "verify", !.challenge = c, !.device = d,
                               !.ticket = challenge[c].ticket]
<1>2. challenge[c].ticket \in OrNothing(Tickets) /\ c # Nothing /\ d # Nothing
  BY AccountAssumption DEF AccountsInv, TypeOK
<1>3. row \in RequestRow /\ row.step = "verify" /\ row.challenge = c /\ row.device = d
      /\ row.ticket = challenge[c].ticket
  BY <1>2, IdleTyped DEF RequestRow, Steps, OrNothing
<1>4. request' = [request EXCEPT ![r] = row]
  BY <1>1 DEF Go
<1> HIDE DEF row
<1>5. UNCHANGED <<user, sessions, device, ticket, challenge>>
  BY DEF LoadChallenge, rows
<1>6. \A q \in Requests : request[q].step # "verify"
  BY DEF LoadChallenge, Locked
<1>7. request \in [Requests -> RequestRow]
  BY DEF AccountsInv, TypeOK, RequestRow
<1>8. /\ request' \in [Requests -> RequestRow] /\ request'[r] = row
      /\ \A q \in Requests : q # r => request'[q] = request[q]
  BY <1>3, <1>4, <1>7
<1>9. TypeOK'
  BY <1>2, <1>3, <1>5, <1>6, <1>8 DEF AccountsInv, TypeOK, RequestRow
<1>10. ChallengesFit'
  BY <1>5 DEF AccountsInv, ChallengesFit
<1>11. row.ticket # Nothing => ticket[row.ticket] = "open"
  BY <1>1, <1>3 DEF AccountsInv, ChallengesFit
<1>12. Verifying'
  BY <1>1, <1>3, <1>5, <1>6, <1>8, <1>11 DEF Verifying
<1> QED BY <1>9, <1>10, <1>12 DEF AccountsInv

\* The request that verifies is the only one: afterwards there is none.
LEMMA VerificationEnds ==
  ASSUME AccountsInv, NEW r \in Requests, request[r].step = "verify" \/ ~Locked,
         NEW row \in RequestRow, row.step # "verify", request' = [request EXCEPT ![r] = row]
  PROVE  /\ request' \in [Requests -> RequestRow]
         /\ \A q \in Requests : request'[q].step # "verify"
<1>1. request \in [Requests -> RequestRow]
  BY DEF AccountsInv, TypeOK, RequestRow
<1>2. \A q \in Requests : q # r => request[q].step # "verify"
  BY DEF AccountsInv, Verifying, Locked
<1> QED BY <1>1, <1>2

LEMMA UsedFits ==
  ASSUME AccountsInv, NEW c \in Challenges, Consume(c)
  PROVE  /\ challenge' \in [Challenges -> ChallengeRow]
         /\ \A d \in Challenges : /\ challenge'[d].purpose = challenge[d].purpose
                                  /\ challenge'[d].ticket = challenge[d].ticket
BY DEF AccountsInv, TypeOK, ChallengeRow, Consume, RowState

LEMMA AnswersFit ==
  ASSUME AccountsInv, UNCHANGED strict, NEW r \in Requests, Register(r) \/ VerifyAssertion(r)
  PROVE  AccountsInv'
<1> DEFINE c == request[r].challenge
<1>1. request[r].step = "verify" /\ Consume(c) /\ UNCHANGED <<user, sessions>>
  BY DEF Register, VerifyAssertion
<1>2. c \in Challenges /\ request[r].device \in Devices
  BY <1>1 DEF AccountsInv, TypeOK, OrNothing
<1>3. PICK row \in RequestRow : row.step # "verify" /\ request' = [request EXCEPT ![r] = row]
  <2>1. [Idle EXCEPT !.step = "login"] \in RequestRow /\ [Idle EXCEPT !.step = "login"].step = "login"
    BY IdleTyped DEF RequestRow, Steps
  <2> QED BY <2>1, IdleTyped DEF Register, VerifyAssertion, Finish, Go
<1>4. ticket' \in [Tickets -> RowState]
  <2>1. ticket \in [Tickets -> RowState]
    BY DEF AccountsInv, TypeOK
  <2> QED BY <2>1 DEF Register, VerifyAssertion, RowState
<1>5. device' \in DeviceType
  <2>1. device \in DeviceType
    BY DEF AccountsInv, TypeOK, DeviceType
  <2> QED BY <2>1 DEF Register, VerifyAssertion, DeviceType
<1>6. /\ challenge' \in [Challenges -> ChallengeRow]
      /\ \A d \in Challenges : /\ challenge'[d].purpose = challenge[d].purpose
                               /\ challenge'[d].ticket = challenge[d].ticket
  BY <1>1, <1>2, UsedFits
<1>7. /\ request' \in [Requests -> RequestRow]
      /\ \A q \in Requests : request'[q].step # "verify"
  BY <1>1, <1>3, VerificationEnds
<1> QED BY <1>1, <1>4, <1>5, <1>6, <1>7, RowsMove

-------------------------------------------------------------------------------
(* Sessions, views and administrators *)

LEMMA TypesOfAll ==
  ASSUME AccountsInv
  PROVE  /\ user \in UserType /\ sessions \in SessionType /\ device \in DeviceType
         /\ request \in [Requests -> RequestRow]
         /\ ticket \in [Tickets -> RowState] /\ challenge \in [Challenges -> ChallengeRow]
BY DEF AccountsInv, TypeOK, SessionType, DeviceType, RequestRow, ChallengeRow

LEMMA SessionsFit ==
  ASSUME AccountsInv, UNCHANGED strict, NEW r \in Requests,
         \/ PasswordLogin(r) \/ StartSession(r) \/ ActivateSession(r) \/ LoadSession(r) \/ ClaimSession(r)
         \/ CompareSession(r) \/ ClearSession(r) \/ FlushSession(r) \/ ChangePassword(r)
  PROVE  AccountsInv'
<1>1. /\ user \in UserType /\ sessions \in SessionType /\ device \in DeviceType
      /\ request[r] \in RequestRow
  BY TypesOfAll
<1>2. UNCHANGED <<device, ticket, challenge>>
  BY DEF PasswordLogin, StartSession, ActivateSession, LoadSession, ClaimSession, CompareSession,
         ClearSession, FlushSession, ChangePassword, rows
<1>3. \A s \in Sessions :
        /\ [Idle EXCEPT !.step = "activate", !.session = s] \in RequestRow
        /\ [Idle EXCEPT !.step = "authenticate", !.session = s, !.seen = user] \in RequestRow
        /\ [Idle EXCEPT !.step = "activate", !.session = s].step = "activate"
        /\ [Idle EXCEPT !.step = "authenticate", !.session = s, !.seen = user].step = "authenticate"
  BY <1>1, IdleTyped DEF RequestRow, Steps, OrNothing
<1>4. \A step \in {"view", "flush"} :
        [request[r] EXCEPT !.step = step] \in RequestRow /\ [request[r] EXCEPT !.step = step].step = step
  BY <1>1 DEF RequestRow, Steps
<1>5. PICK row \in RequestRow : row.step # "verify" /\ request' = [request EXCEPT ![r] = row]
  <2>1. CASE StartSession(r) \/ ChangePassword(r)
    <3>1. PICK s \in FreeKeys : Go(r, [Idle EXCEPT !.step = "activate", !.session = s])
      BY <2>1 DEF StartSession, ChangePassword
    <3> QED BY <1>3, <3>1 DEF Go, FreeKeys
  <2>2. CASE LoadSession(r)
    <3>1. PICK s \in Live :
            Go(r, [Idle EXCEPT !.step = "authenticate", !.session = s, !.seen = user])
      BY <2>2 DEF LoadSession
    <3> QED BY <1>3, <3>1 DEF Go, Live
  <2>3. CASE ActivateSession(r) \/ FlushSession(r)
    BY <2>3, IdleTyped DEF ActivateSession, FlushSession, Finish, Go
  <2>4. CASE ClaimSession(r) \/ CompareSession(r)
    BY <1>4, <2>4, IdleTyped DEF ClaimSession, CompareSession, Admit, Replaced, Finish, Go
  <2>5. CASE ClearSession(r)
    BY <1>4, <2>5 DEF ClearSession, Go
  <2>6. CASE PasswordLogin(r)
    <3>1. /\ [Idle EXCEPT !.step = "password"] \in RequestRow
          /\ [Idle EXCEPT !.step = "password"].step = "password"
      BY IdleTyped DEF RequestRow, Steps
    <3> QED BY <2>6, <3>1 DEF PasswordLogin, Go
  <2> QED BY <2>1, <2>2, <2>3, <2>4, <2>5, <2>6
<1>6. sessions' \in SessionType
  BY <1>1 DEF PasswordLogin, StartSession, ActivateSession, LoadSession, ClaimSession,
              CompareSession, ClearSession, FlushSession, ChangePassword, Replaced, SessionType
<1>7. user' \in UserType
  <2>1. request[r].session \in OrNothing(Sessions)
    BY <1>1 DEF RequestRow
  <2>2. /\ \A key \in OrNothing(Sessions) : [user EXCEPT !.key = key] \in UserType
        /\ [user EXCEPT !.mustChange = FALSE] \in UserType
    BY <1>1 DEF UserType
  <2>3. Nothing \in OrNothing(Sessions)
    BY DEF OrNothing
  <2>4. CASE PasswordLogin(r) \/ StartSession(r) \/ LoadSession(r) \/ CompareSession(r)
               \/ FlushSession(r)
    BY <1>1, <2>4 DEF PasswordLogin, StartSession, LoadSession, CompareSession, FlushSession, Replaced
  <2>5. CASE ActivateSession(r) \/ ClearSession(r) \/ ChangePassword(r)
    BY <1>1, <2>1, <2>2, <2>3, <2>5 DEF ActivateSession, ClearSession, ChangePassword
  <2>6. CASE ClaimSession(r)
    BY <1>1, <2>1, <2>2, <2>6 DEF ClaimSession, Replaced
  <2> QED BY <2>4, <2>5, <2>6
<1> QED BY <1>1, <1>2, <1>5, <1>6, <1>7, RequestMoves

LEMMA ViewsFit ==
  ASSUME AccountsInv, UNCHANGED strict, NEW r \in Requests,
         CountDevices(r) \/ RevokeDevice(r) \/ LeaveView(r) \/ LoadUser(r) \/ SaveUser(r)
           \/ ResetDevices(r) \/ Die(r)
  PROVE  AccountsInv'
<1>1. /\ user \in UserType /\ sessions \in SessionType /\ device \in DeviceType
      /\ request[r] \in RequestRow
  BY TypesOfAll
<1>2. UNCHANGED <<sessions, ticket, challenge>>
  BY DEF CountDevices, RevokeDevice, LeaveView, LoadUser, SaveUser, ResetDevices, Die, rows
<1>3. PICK row \in RequestRow : row.step # "verify" /\ request' = [request EXCEPT ![r] = row]
  <2>1. CASE CountDevices(r)
    <3>1. PICK d \in ActiveDevices : Go(r, [request[r] EXCEPT !.step = "revoke", !.device = d])
      BY <2>1 DEF CountDevices
    <3>2. /\ [request[r] EXCEPT !.step = "revoke", !.device = d] \in RequestRow
          /\ [request[r] EXCEPT !.step = "revoke", !.device = d].step = "revoke"
      BY <1>1, <3>1 DEF RequestRow, Steps, OrNothing, ActiveDevices
    <3> QED BY <3>1, <3>2 DEF Go
  <2>2. CASE LoadUser(r)
    <3>1. /\ [Idle EXCEPT !.step = "save", !.seen = user] \in RequestRow
          /\ [Idle EXCEPT !.step = "save", !.seen = user].step = "save"
      BY <1>1, IdleTyped DEF RequestRow, Steps
    <3> QED BY <2>2, <3>1 DEF LoadUser, Go
  <2>3. CASE ResetDevices(r)
    <3>1. /\ [Idle EXCEPT !.step = "close tickets"] \in RequestRow
          /\ [Idle EXCEPT !.step = "close tickets"].step = "close tickets"
      BY IdleTyped DEF RequestRow, Steps
    <3> QED BY <2>3, <3>1 DEF ResetDevices, Go
  <2>4. CASE RevokeDevice(r) \/ LeaveView(r) \/ SaveUser(r) \/ Die(r)
    BY <2>4, IdleTyped DEF RevokeDevice, LeaveView, SaveUser, Die, Finish, Go
  <2> QED BY <2>1, <2>2, <2>3, <2>4
<1>4. user' \in UserType
  <2>1. CASE SaveUser(r)
    <3>1. request[r].seen \in UserType
      BY <1>1 DEF RequestRow
    <3> QED BY <2>1, <3>1 DEF SaveUser, UserType, OrNothing
  <2>2. CASE ~SaveUser(r)
    BY <1>1, <2>2 DEF CountDevices, RevokeDevice, LeaveView, LoadUser, ResetDevices, Die
  <2> QED BY <2>1, <2>2
<1>5. device' \in DeviceType
  BY <1>1 DEF CountDevices, RevokeDevice, LeaveView, LoadUser, SaveUser, ResetDevices, Die, rows,
              DeviceType
<1> QED BY <1>1, <1>2, <1>3, <1>4, <1>5, RequestMoves

LEMMA ClosingFits ==
  ASSUME AccountsInv, UNCHANGED strict, NEW r \in Requests, CloseTickets(r) \/ CloseChallenges(r)
  PROVE  AccountsInv'
<1>1. ~Locked /\ UNCHANGED <<user, sessions, device>>
  BY DEF CloseTickets, CloseChallenges
<1>2. PICK row \in RequestRow : row.step # "verify" /\ request' = [request EXCEPT ![r] = row]
  <2>1. /\ [Idle EXCEPT !.step = "close challenges"] \in RequestRow
        /\ [Idle EXCEPT !.step = "close challenges"].step = "close challenges"
    BY IdleTyped DEF RequestRow, Steps
  <2> QED BY <2>1, IdleTyped DEF CloseTickets, CloseChallenges, Finish, Go
<1>3. /\ request' \in [Requests -> RequestRow]
      /\ \A q \in Requests : request'[q].step # "verify"
  BY <1>1, <1>2, VerificationEnds
<1>4. ticket' \in [Tickets -> RowState]
  BY TypesOfAll DEF CloseTickets, CloseChallenges, RowState
<1>5. /\ challenge' \in [Challenges -> ChallengeRow]
      /\ \A c \in Challenges : /\ challenge'[c].purpose = challenge[c].purpose
                               /\ challenge'[c].ticket = challenge[c].ticket
  <2>1. challenge \in [Challenges -> ChallengeRow]
    BY TypesOfAll
  <2>2. \A c \in Challenges :
          /\ [challenge[c] EXCEPT !.state = "used"] \in ChallengeRow
          /\ [challenge[c] EXCEPT !.state = "used"].purpose = challenge[c].purpose
          /\ [challenge[c] EXCEPT !.state = "used"].ticket = challenge[c].ticket
    BY <2>1 DEF ChallengeRow, RowState
  <2>3. CASE CloseChallenges(r)
    <3>1. challenge' = [c \in Challenges |->
            IF challenge[c].state = "absent" THEN challenge[c]
                                             ELSE [challenge[c] EXCEPT !.state = "used"]]
      BY <2>3 DEF CloseChallenges
    <3>2. \A c \in Challenges : /\ challenge'[c] \in ChallengeRow
                               /\ challenge'[c].purpose = challenge[c].purpose
                               /\ challenge'[c].ticket = challenge[c].ticket
      BY <2>1, <2>2, <3>1
    <3> QED BY <3>1, <3>2
  <2>4. CASE CloseTickets(r)
    BY <2>1, <2>4 DEF CloseTickets
  <2> QED BY <2>3, <2>4
<1>6. device' \in DeviceType
  BY <1>1, TypesOfAll
<1> QED BY <1>1, <1>3, <1>4, <1>5, <1>6, RowsMove

\* The challenge of a place is the end of its request.
LEMMA LocationFits ==
  ASSUME AccountsInv, UNCHANGED strict, NEW r \in Requests, BeginLocation(r)
  PROVE  AccountsInv'
<1>1. PICK c \in Challenges :
        /\ challenge[c].state = "absent"
        /\ challenge' = [challenge EXCEPT ![c] =
                          [state |-> "open", purpose |-> "location", ticket |-> Nothing]]
  BY DEF BeginLocation, NewChallenge
<1>2. /\ request' = [request EXCEPT ![r] = Idle] /\ request[r].step = "view"
      /\ UNCHANGED <<user, sessions, device, ticket>>
  BY DEF BeginLocation, Finish, Go
<1>3. /\ challenge'[c].state = "open" /\ challenge'[c].purpose = "location"
      /\ challenge'[c].ticket = Nothing
      /\ \A d \in Challenges : d # c => challenge'[d] = challenge[d]
      /\ challenge' \in [Challenges -> ChallengeRow]
  BY <1>1, TypesOfAll DEF ChallengeRow, RowState, Purposes, OrNothing
<1>4. /\ request' \in [Requests -> RequestRow] /\ request'[r] = Idle
      /\ \A q \in Requests : q # r => request'[q] = request[q]
  BY <1>2, TypesOfAll, IdleTyped
<1>5. TypeOK'
  BY <1>2, <1>3, <1>4, IdleTyped DEF AccountsInv, TypeOK, RequestRow, ChallengeRow
<1>6. ChallengesFit'
  BY <1>3 DEF AccountsInv, ChallengesFit
<1>7. \A q \in Requests : request[q].step = "verify" =>
        request[q].challenge \in Challenges /\ request[q].challenge # c
  BY <1>1 DEF AccountsInv, TypeOK, OrNothing, Verifying
<1>8. Verifying'
  BY <1>2, <1>3, <1>4, <1>7, IdleTyped DEF AccountsInv, Verifying
<1> QED BY <1>5, <1>6, <1>8 DEF AccountsInv

LEMMA AdministratorsFit ==
  ASSUME AccountsInv, UNCHANGED strict, DisableUser \/ ResetPassword
  PROVE  AccountsInv'
<1>1. user' \in UserType
  BY TypesOfAll DEF DisableUser, ResetPassword, UserType, OrNothing
<1>2. sessions' \in SessionType
  BY TypesOfAll DEF DisableUser, ResetPassword, SessionType
<1>3. UNCHANGED <<device, ticket, challenge, request>>
  BY DEF DisableUser, ResetPassword, rows
<1> QED BY <1>1, <1>2, <1>3 DEF AccountsInv, TypeOK, SessionType, ChallengesFit, Verifying

LEMMA AccountsStep == AccountsInv /\ [Next]_vars => AccountsInv'
<1> SUFFICES ASSUME AccountsInv, Next \/ UNCHANGED vars PROVE AccountsInv'
  OBVIOUS
<1>1. CASE UNCHANGED vars
  BY <1>1 DEF vars, AccountsInv, TypeOK, ChallengesFit, Verifying
<1>2. CASE UNCHANGED strict /\ (CreateTicket \/ BeginRegistration \/ BeginLogin \/ Expire)
  BY <1>2, RowsFit
<1>3. CASE UNCHANGED strict /\ (DisableUser \/ ResetPassword)
  BY <1>3, AdministratorsFit
<1>4. ASSUME NEW r \in Requests, UNCHANGED strict, Handle(r) PROVE AccountsInv'
  BY <1>4, LoadChallengeFits, AnswersFit, SessionsFit, ViewsFit, ClosingFits, LocationFits
  DEF Handle
<1> QED BY <1>1, <1>2, <1>3, <1>4 DEF Next

-------------------------------------------------------------------------------
(* The theorems *)

\* Types, and the lock on the user's row: one request at a time verifies an answer, for
\* a challenge and a ticket nobody has used.
THEOREM AccountsInvariant == Spec => []AccountsInv
BY AccountsInit, AccountsStep, PTL DEF Spec

\* Rows and requests keep their types; what is verified names a challenge and a device.
THEOREM AccountTypes == Spec => []TypeOK
<1>1. AccountsInv => TypeOK
  BY DEF AccountsInv
<1> QED BY <1>1, AccountsInvariant, PTL

\* However many requests present the same challenge or enrol with the same ticket, one
\* of them is accepted.
THEOREM ProofsUsedOnce == Spec => ProofsAreUsedOnce
<1>1. AccountsInv /\ [Next]_vars =>
        [\A r \in Requests :
           LET q == request[r] IN
           Register(r) \/ VerifyAssertion(r) =>
             /\ challenge[q.challenge].state # "used"
             /\ q.ticket # Nothing => ticket[q.ticket] # "used"]_vars
  BY DEF AccountsInv, Verifying, Register, VerifyAssertion
<1> QED BY <1>1, AccountsInvariant, PTL DEF Spec, ProofsAreUsedOnce

\* While nobody else writes the row of a user that an administrator edits, only the
\* session of a login or of a changed password replaces an active one.
THEOREM LoginsReplace ==
  ASSUME LoneUpdate
  PROVE  Spec => OnlyLoginsReplace
<1> DEFINE Replaces ==
      user.key # Nothing /\ user'.key \notin {Nothing, user.key} =>
        \E r \in Requests : request[r].step = "activate" /\ request[r].session = user'.key
<1>1. ASSUME AccountsInv, Next PROVE Replaces
  <2>1. user \in UserType
    BY <1>1, TypesOfAll
  <2>2. CASE CreateTicket \/ BeginRegistration \/ BeginLogin \/ Expire
    BY <2>2 DEF CreateTicket, BeginRegistration, BeginLogin, Expire
  <2>3. CASE DisableUser \/ ResetPassword
    BY <2>1, <2>3 DEF DisableUser, ResetPassword, UserType
  <2>4. ASSUME NEW r \in Requests, Handle(r) PROVE Replaces
    <3>1. CASE LoadChallenge(r) \/ Register(r) \/ VerifyAssertion(r) \/ PasswordLogin(r)
                 \/ StartSession(r) \/ LoadSession(r) \/ CompareSession(r) \/ FlushSession(r)
      BY <3>1 DEF LoadChallenge, Register, VerifyAssertion, PasswordLogin, StartSession,
                  LoadSession, CompareSession, Replaced, FlushSession
    <3>2. CASE BeginLocation(r) \/ CountDevices(r) \/ RevokeDevice(r) \/ LeaveView(r) \/ LoadUser(r)
                 \/ ResetDevices(r) \/ CloseTickets(r) \/ CloseChallenges(r) \/ Die(r)
      BY <3>2 DEF BeginLocation, CountDevices, RevokeDevice, LeaveView, LoadUser, ResetDevices,
                  CloseTickets, CloseChallenges, Die
    <3>3. CASE ActivateSession(r)
      BY <2>1, <3>3 DEF ActivateSession, UserType
    <3>4. CASE ClaimSession(r)
      BY <2>1, <3>4 DEF ClaimSession, Replaced, UserType
    <3>5. CASE ClearSession(r) \/ ChangePassword(r)
      BY <2>1, <3>5 DEF ClearSession, ChangePassword, UserType
    <3>6. CASE SaveUser(r)
      BY <2>1, <3>6 DEF SaveUser, UserType
    <3> QED BY <2>4, <3>1, <3>2, <3>3, <3>4, <3>5, <3>6 DEF Handle
  <2> QED BY <1>1, <2>2, <2>3, <2>4 DEF Next
<1>2. AccountsInv /\ [Next]_vars => [Replaces]_vars
  BY <1>1
<1> QED BY <1>2, AccountsInvariant, PTL DEF Spec, OnlyLoginsReplace

===============================================================================
