---------------------------- MODULE AuthAccounts ----------------------------
(***************************************************************************)
(* Accounts, sessions and one-time codes (auth.service.ts, jwt.strategy.ts, *)
(* users.service.ts, create-student-account.ts).                           *)
(*                                                                         *)
(* Hashing a password, a token or a code takes a noticeable time, and the  *)
(* service hashes between reading an entity and saving it: an operation is *)
(* one action up to the slow step, which leaves what was read in the       *)
(* device's request, and one action for the write.  repository.save() of   *)
(* an entity writes every column that differs from the row, so what was    *)
(* read before a change is written back over it.                           *)
(*                                                                         *)
(* A refusal (wrong password, forged or expired token, expired session)    *)
(* changes nothing and is no action.  Tokens are numbered in the order     *)
(* they are signed.                                                        *)
(***************************************************************************)
EXTENDS Integers, FiniteSets

CONSTANTS
    Phones,       \* phone numbers: an account has one
    Inactive,     \* phones whose account is not ACTIVE
    Devices,      \* clients: each has one request in flight at most
    Sessions,     \* ids of auth_sessions rows (a bound)
    Codes,        \* ids of auth_otp_codes rows (a bound)
    MaxAttempts,  \* OTP_MAX_ATTEMPTS
    MaxTokens,    \* bound: refresh tokens signed for one session
    MaxVersion,   \* bound: increments of token_version
    MaxRows       \* bound: sessions and codes together

NoSession == 0
NoCode == 0

ASSUME AuthAssumption ==
    /\ "NONE" \notin Phones
    /\ Inactive \subseteq Phones
    /\ Sessions \subseteq Nat \ {NoSession}
    /\ Codes \subseteq Nat \ {NoCode}
    /\ MaxAttempts \in Nat \ {0}
    /\ MaxTokens \in Nat
    /\ MaxVersion \in Nat
    /\ MaxRows \in Nat

VARIABLES
    password,     \* users.password_hash: the n-th password of the account, 0 = no account
    version,      \* users.token_version
    owner,        \* auth_sessions.user_id (phone), or "NONE"
    current,      \* auth_sessions.refresh_token_hash: number of the token it matches
    revoked,      \* auth_sessions.revoked_at is set
    code,         \* auth_otp_codes
    aged,         \* codes older than OTP_EXPIRY_MINUTES = the resend cooldown
    device,       \* what each client holds
    lost,         \* clients that missed the answer to a token rotation
    request       \* what the request of each client has read so far

sessionVars == <<owner, current, revoked>>
codeVars == <<code, aged>>
clientVars == <<device, lost>>
vars == <<password, version, sessionVars, codeVars, clientVars, request>>

Purposes == {"PASSWORD_RESET", "PHONE_VERIFICATION"}
NoRow == [phone |-> "NONE", purpose |-> "NONE", consumed |-> TRUE, attempts |-> 0]
CodeRow == {NoRow} \cup [phone: Phones, purpose: Purposes,
                         consumed: BOOLEAN, attempts: 0..MaxAttempts]

(* What a user row proved when it was read; its password is a history       *)
(* variable, no token carries it.                                           *)
NoProof == [phone |-> "NONE", password |-> 0, version |-> 0]
Proof == [phone: Phones, password: Nat, version: Nat]
UserRow(p) == [phone |-> p, password |-> password[p], version |-> version[p]]

NoDevice == [session |-> NoSession, token |-> 0, access |-> NoProof, reset |-> NoProof]
DeviceState == [session: Sessions \cup {NoSession}, token: Nat,
                access: Proof \cup {NoProof}, reset: Proof \cup {NoProof}]

Idle == [op |-> "idle"]
Requests == {Idle}
    \cup [op: {"login"}, user: Proof]
    \cup [op: {"rotate"}, session: Sessions, user: Proof]
    \cup [op: {"revoke"}, session: Sessions, token: Nat]
    \cup [op: {"bump", "reset", "create"}, phone: Phones]
    \cup [op: {"issue"}, phone: Phones, purpose: Purposes]
    \cup [op: {"otp"}, code: Codes, attempts: 0..MaxAttempts, consumed: BOOLEAN,
          grant: Proof \cup {NoProof}]
    \cup [op: {"register"}, phone: Phones, code: Codes]

-----------------------------------------------------------------------------
Account(p) == password[p] # 0
MayLogIn(p) == Account(p) /\ p \notin Inactive

(* JwtStrategy.validate: an access token of an active account, of the       *)
(* token_version the account still has.                                     *)
Accepted(token) ==
    /\ token # NoProof
    /\ MayLogIn(token.phone)
    /\ token.version = version[token.phone]

(* verifyRefreshToken and verifyResetToken: signed here, and not expired. *)
ShowsRefreshToken(d) == device[d].session # NoSession
ShowsResetToken(d) == device[d].reset # NoProof

(* signResetToken, for the user row read with the code. *)
ResetToken(p) == UserRow(p)

Live(s) == owner[s] # "NONE" /\ ~revoked[s]

(* Mutant: the consumed codes are not filtered out. *)
Candidates_Consumed(p, purpose) ==
    {c \in Codes : code[c].phone = p /\ code[c].purpose = purpose}
Candidates(p, purpose) ==
    {c \in Codes : /\ code[c].phone = p
                   /\ code[c].purpose = purpose
                   /\ ~code[c].consumed}

(* The unconsumed code created last. *)
Newest(p, purpose, c) ==
    c \in Candidates(p, purpose) /\ \A d \in Candidates(p, purpose) : d <= c

RoomForRow ==
    Cardinality({s \in Sessions : owner[s] # "NONE"})
        + Cardinality({c \in Codes : code[c] # NoRow}) < MaxRows
NextSession(s) == /\ RoomForRow
                  /\ owner[s] = "NONE"
                  /\ \A t \in Sessions : t < s => owner[t] # "NONE"
NextCode(c) == /\ RoomForRow
               /\ code[c] = NoRow
               /\ \A d \in Codes : d < c => code[d] # NoRow

Init ==
    /\ password \in [Phones -> {0, 1}]
    /\ version = [p \in Phones |-> 0]
    /\ owner = [s \in Sessions |-> "NONE"]
    /\ current = [s \in Sessions |-> 0]
    /\ revoked = [s \in Sessions |-> FALSE]
    /\ code = [c \in Codes |-> NoRow]
    /\ aged = {}
    /\ device = [d \in Devices |-> NoDevice]
    /\ lost = {}
    /\ request = [d \in Devices |-> Idle]

Free(d) == request[d].op = "idle"
Start(d, req) == request' = [request EXCEPT ![d] = req]
Finish(d) == Start(d, Idle)

-----------------------------------------------------------------------------
(* Sessions. *)

(* login: the password is verified against the row read. *)
LoginRead(d, p) ==
    /\ Free(d)
    /\ MayLogIn(p)
    /\ Start(d, [op |-> "login", user |-> UserRow(p)])
    /\ UNCHANGED <<password, version, sessionVars, codeVars, clientVars>>

(* issueTokensWithNewSession inserts a session no token matches yet. *)
LoginInsert(d, s) ==
    /\ request[d].op = "login"
    /\ NextSession(s)
    /\ owner' = [owner EXCEPT ![s] = request[d].user.phone]
    /\ Start(d, [op |-> "rotate", session |-> s, user |-> request[d].user])
    /\ UNCHANGED <<password, version, current, revoked, codeVars, clientVars>>

(* A refresh needs a session that is not revoked; mutant: it does not. *)
Refreshable_Revoked(s) == owner[s] # "NONE"
Refreshable(s) == Live(s)

(* refresh with the current token of the session. *)
RefreshRead(d) ==
    LET s == device[d].session
    IN /\ Free(d)
       /\ ShowsRefreshToken(d)
       /\ Refreshable(s)
       /\ current[s] = device[d].token
       /\ MayLogIn(owner[s])
       /\ Start(d, [op |-> "rotate", session |-> s, user |-> UserRow(owner[s])])
       /\ UNCHANGED <<password, version, sessionVars, codeVars, clientVars>>

(* refresh with another token: the session read is revoked. *)
RefreshMismatch(d) ==
    LET s == device[d].session
    IN /\ Free(d)
       /\ ShowsRefreshToken(d)
       /\ Refreshable(s)
       /\ current[s] # device[d].token
       /\ Start(d, [op |-> "revoke", session |-> s, token |-> current[s]])
       /\ UNCHANGED <<password, version, sessionVars, codeVars, clientVars>>

(* rotateSessionTokens saves the entity: the hash of the new token, and     *)
(* revoked_at as it was read, null.  Mutant: the hash is not replaced.      *)
SaveSession_KeepHash(s) == UNCHANGED current /\ revoked' = [revoked EXCEPT ![s] = FALSE]
SaveSession(s) ==
    /\ current' = [current EXCEPT ![s] = @ + 1]
    /\ revoked' = [revoked EXCEPT ![s] = FALSE]

Rotate(d) ==
    LET s == request[d].session
    IN /\ request[d].op = "rotate"
       /\ current[s] < MaxTokens
       /\ SaveSession(s)
       /\ \/ /\ device' = [device EXCEPT ![d] =
                              [session |-> s, token |-> current[s] + 1,
                               access |-> request[d].user, reset |-> @.reset]]
             /\ lost' = lost \ {d}
          \/ UNCHANGED device /\ lost' = lost \cup {d}
       /\ Finish(d)
       /\ UNCHANGED <<password, version, owner, codeVars>>

(* logout of the session of the refresh token, by its owner. *)
LogoutRead(d) ==
    LET s == device[d].session
    IN /\ Free(d)
       /\ Accepted(device[d].access)
       /\ ShowsRefreshToken(d)
       /\ owner[s] = device[d].access.phone
       /\ ~revoked[s]
       /\ Start(d, [op |-> "revoke", session |-> s, token |-> current[s]])
       /\ UNCHANGED <<password, version, sessionVars, codeVars, clientVars>>

(* The save of a revoked entity, by logout and by a mismatched refresh. *)
Revoke(d) ==
    LET s == request[d].session
    IN /\ request[d].op = "revoke"
       /\ current' = [current EXCEPT ![s] = request[d].token]
       /\ revoked' = [revoked EXCEPT ![s] = TRUE]
       /\ Finish(d)
       /\ UNCHANGED <<password, version, owner, codeVars, clientVars>>

RevokeAll(p) == revoked' = [s \in Sessions |-> owner[s] = p \/ revoked[s]]

(* logoutAll revokes the sessions ... *)
LogoutAll(d) ==
    /\ Free(d)
    /\ Accepted(device[d].access)
    /\ RevokeAll(device[d].access.phone)
    /\ Start(d, [op |-> "bump", phone |-> device[d].access.phone])
    /\ UNCHANGED <<password, version, owner, current, codeVars, clientVars>>

(* ... and then, in another statement, outdates the access tokens. *)
BumpVersion(d) ==
    LET p == request[d].phone
    IN /\ request[d].op = "bump"
       /\ version[p] < MaxVersion
       /\ version' = [version EXCEPT ![p] = @ + 1]
       /\ Finish(d)
       /\ UNCHANGED <<password, sessionVars, codeVars, clientVars>>

-----------------------------------------------------------------------------
(* One-time codes. *)

(* forgotPassword and registerRequestOtp up to the hash of the new code:    *)
(* the newest unconsumed code, if there is one, is past its cooldown.       *)
IssueRead(d, p, purpose) ==
    /\ Free(d)
    /\ IF purpose = "PASSWORD_RESET" THEN MayLogIn(p) ELSE ~Account(p)
    /\ \A c \in Codes : Newest(p, purpose, c) => c \in aged
    /\ Start(d, [op |-> "issue", phone |-> p, purpose |-> purpose])
    /\ UNCHANGED <<password, version, sessionVars, codeVars, clientVars>>

(* issueOtp consumes the unconsumed codes and inserts the new one. *)
IssueCommit(d, c) ==
    LET p == request[d].phone
        purpose == request[d].purpose
    IN /\ request[d].op = "issue"
       /\ NextCode(c)
       /\ code' = [e \in Codes |->
             IF e = c THEN [phone |-> p, purpose |-> purpose,
                            consumed |-> FALSE, attempts |-> 0]
             ELSE IF e \in Candidates(p, purpose) THEN [code[e] EXCEPT !.consumed = TRUE]
             ELSE code[e]]
       /\ Finish(d)
       /\ UNCHANGED <<password, version, sessionVars, aged, clientVars>>

Ages(c) ==
    /\ code[c] # NoRow
    /\ c \notin aged
    /\ aged' = aged \cup {c}
    /\ UNCHANGED <<password, version, sessionVars, code, clientVars, request>>

(* The limit of validateOtp; mutant: one attempt too many. *)
AttemptsLeft_OneMore(c) == code[c].attempts <= MaxAttempts
AttemptsLeft(c) == code[c].attempts < MaxAttempts

SaveCode(c, attempts, consumed, grant) ==
    [op |-> "otp", code |-> c, attempts |-> attempts, consumed |-> consumed, grant |-> grant]

(* validateOtp finds the code exhausted, and consumes it, or the digits     *)
(* wrong, and counts the attempt.                                           *)
OtpRefused(d, p, purpose, c) ==
    /\ Free(d)
    /\ Newest(p, purpose, c)
    /\ c \notin aged
    /\ IF AttemptsLeft(c)
       THEN Start(d, SaveCode(c, code[c].attempts + 1, FALSE, NoProof))
       ELSE Start(d, SaveCode(c, code[c].attempts, TRUE, NoProof))
    /\ UNCHANGED <<password, version, sessionVars, codeVars, clientVars>>

(* verifyOtp with the right digits: the user row came with the code. *)
OtpAccepted(d, p, c) ==
    /\ Free(d)
    /\ Newest(p, "PASSWORD_RESET", c)
    /\ c \notin aged
    /\ AttemptsLeft(c)
    /\ Start(d, SaveCode(c, code[c].attempts, TRUE, ResetToken(p)))
    /\ UNCHANGED <<password, version, sessionVars, codeVars, clientVars>>

(* The save of the code row as it was read and changed; verifyOtp then      *)
(* signs a reset token for the version it read.                             *)
OtpSave(d) ==
    LET r == request[d]
    IN /\ r.op = "otp"
       /\ code' = [code EXCEPT ![r.code].attempts = r.attempts,
                               ![r.code].consumed = r.consumed]
       /\ device' = IF r.grant = NoProof THEN device
                    ELSE [device EXCEPT ![d].reset = r.grant]
       /\ Finish(d)
       /\ UNCHANGED <<password, version, sessionVars, aged, lost>>

(* resetPassword checks the version of the reset token ... *)
ResetRead(d) ==
    LET t == device[d].reset
    IN /\ Free(d)
       /\ ShowsResetToken(d)
       /\ t.version = version[t.phone]
       /\ Start(d, [op |-> "reset", phone |-> t.phone])
       /\ UNCHANGED <<password, version, sessionVars, codeVars, clientVars>>

(* Mutant: the access tokens stay valid. *)
OutdateTokens_Forgotten(p) == p \in Phones /\ UNCHANGED version
OutdateTokens(p) == version' = [version EXCEPT ![p] = @ + 1]

(* ... and, after hashing, changes the password in one transaction. *)
ResetCommit(d) ==
    LET p == request[d].phone
    IN /\ request[d].op = "reset"
       /\ version[p] < MaxVersion
       /\ password' = [password EXCEPT ![p] = @ + 1]
       /\ RevokeAll(p)
       /\ OutdateTokens(p)
       /\ Finish(d)
       /\ UNCHANGED <<owner, current, codeVars, clientVars>>

-----------------------------------------------------------------------------
(* Accounts. *)

(* createStudent, createInstructor and createEmployee look the phone up ... *)
CreateRead(d, p) ==
    /\ Free(d)
    /\ ~Account(p)
    /\ Start(d, [op |-> "create", phone |-> p])
    /\ UNCHANGED <<password, version, sessionVars, codeVars, clientVars>>

(* UNIQUE(users.phone); mutant: no such index. *)
PhoneUnused_NoIndex(p) == p \in Phones
PhoneUnused(p) == ~Account(p)

InsertAccount(p) ==
    /\ PhoneUnused(p)
    /\ password' = [password EXCEPT ![p] = 1]
    /\ version' = [version EXCEPT ![p] = 0]

(* ... and insert the user, the profile and the role in one transaction. *)
CreateCommit(d) ==
    /\ request[d].op = "create"
    /\ InsertAccount(request[d].phone)
    /\ Finish(d)
    /\ UNCHANGED <<sessionVars, codeVars, clientVars>>

(* registerStudent validates the code without consuming it ... *)
RegisterRead(d, p, c) ==
    /\ Free(d)
    /\ Newest(p, "PHONE_VERIFICATION", c)
    /\ c \notin aged
    /\ AttemptsLeft(c)
    /\ Start(d, [op |-> "register", phone |-> p, code |-> c])
    /\ UNCHANGED <<password, version, sessionVars, codeVars, clientVars>>

(* ... consumes it by id in the transaction that creates the account, and   *)
(* goes on as a login.                                                      *)
RegisterCommit(d) ==
    LET p == request[d].phone
    IN /\ request[d].op = "register"
       /\ InsertAccount(p)
       /\ code' = [code EXCEPT ![request[d].code].consumed = TRUE]
       /\ Start(d, [op |-> "login",
                    user |-> [phone |-> p, password |-> 1, version |-> 0]])
       /\ UNCHANGED <<sessionVars, aged, clientVars>>

(* A request is refused by the database or dies with the server. *)
Abandon(d) ==
    /\ ~Free(d)
    /\ Finish(d)
    /\ UNCHANGED <<password, version, sessionVars, codeVars, clientVars>>

-----------------------------------------------------------------------------
SessionStep(d) ==
    \/ \E p \in Phones : LoginRead(d, p)
    \/ \E s \in Sessions : LoginInsert(d, s)
    \/ RefreshRead(d) \/ RefreshMismatch(d) \/ Rotate(d)
    \/ LogoutRead(d) \/ Revoke(d) \/ LogoutAll(d) \/ BumpVersion(d)

CodeStep(d) ==
    \/ \E p \in Phones, purpose \in Purposes : IssueRead(d, p, purpose)
    \/ \E c \in Codes : IssueCommit(d, c)
    \/ \E p \in Phones, purpose \in Purposes, c \in Codes : OtpRefused(d, p, purpose, c)
    \/ \E p \in Phones, c \in Codes : OtpAccepted(d, p, c)
    \/ OtpSave(d) \/ ResetRead(d) \/ ResetCommit(d)

AccountStep(d) ==
    \/ \E p \in Phones : CreateRead(d, p)
    \/ CreateCommit(d)
    \/ \E p \in Phones, c \in Codes : RegisterRead(d, p, c)
    \/ RegisterCommit(d)

Next ==
    \/ \E d \in Devices : SessionStep(d) \/ CodeStep(d) \/ AccountStep(d) \/ Abandon(d)
    \/ \E c \in Codes : Ages(c)

Spec == Init /\ [][Next]_vars

-----------------------------------------------------------------------------
TypeOK ==
    /\ password \in [Phones -> Nat]
    /\ version \in [Phones -> Nat]
    /\ owner \in [Sessions -> Phones \cup {"NONE"}]
    /\ current \in [Sessions -> Nat]
    /\ revoked \in [Sessions -> BOOLEAN]
    /\ code \in [Codes -> CodeRow]
    /\ aged \subseteq Codes
    /\ device \in [Devices -> DeviceState]
    /\ lost \subseteq Devices
    /\ request \in [Devices -> Requests]

(* A changed password outdates everything signed before it: no access token *)
(* and no reset token that still passes its version check was issued on a   *)
(* user row read before the last change, however long the request that      *)
(* signed it took and whatever sessions it revived.                         *)
TokensFollowPassword ==
    \A d \in Devices :
        /\ Accepted(device[d].access) =>
              device[d].access.password = password[device[d].access.phone]
        /\ device[d].reset # NoProof /\ device[d].reset.version = version[device[d].reset.phone]
              => device[d].reset.password = password[device[d].reset.phone]

(* A client that got every answer is never logged out by its own refresh:   *)
(* the token it holds is the one its session was last saved with, whatever  *)
(* was saved over the session from elsewhere meanwhile.                     *)
ClientTokenIsCurrent ==
    \A d \in Devices :
        d \notin lost /\ device[d].session # NoSession
            => current[device[d].session] = device[d].token

(* Two creations of one phone, from the office and from the mobile app, may *)
(* both pass the look-up: an account is created once and neither its        *)
(* password nor its token version is ever set back.                         *)
AccountsAreKept ==
    [][\A p \in Phones : password'[p] >= password[p] /\ version'[p] >= version[p]]_vars

(* A revoked session comes back only through a rotation that was under way  *)
(* when it was revoked: with none under way it stays revoked for good.      *)
Ended(s) ==
    /\ revoked[s]
    /\ \A d \in Devices : ~(request[d].op = "rotate" /\ request[d].session = s)
RevocationSticks == [][\A s \in Sessions : Ended(s) => Ended(s)']_vars

(* A consumed code is found again only if a wrong attempt at it was being   *)
(* counted while it was consumed: with none under way it is spent for good, *)
(* so that no second reset and no second registration comes from it.        *)
Spent(c) ==
    /\ code[c] # NoRow
    /\ code[c].consumed
    /\ \A d \in Devices : request[d].op = "otp" /\ request[d].code = c => request[d].consumed
SpentCodesStaySpent == [][\A c \in Codes : Spent(c) => Spent(c)']_vars
=============================================================================
