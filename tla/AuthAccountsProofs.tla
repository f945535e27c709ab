------------------------- MODULE AuthAccountsProofs -------------------------
(* Accounts, sessions and codes for any number of clients, phones and rows. *)
EXTENDS AuthAccounts, TLAPS

-----------------------------------------------------------------------------
(* Types.  A request or a client names only rows that exist. *)

Named ==
    /\ \A s \in Sessions : revoked[s] => owner[s] # "NONE"
    /\ \A d \in Devices :
          /\ device[d].session # NoSession => owner[device[d].session] # "NONE"
          /\ request[d].op \in {"rotate", "revoke"} => owner[request[d].session] # "NONE"
          /\ request[d].op \in {"otp", "register"} => code[request[d].code] # NoRow

Shape == TypeOK /\ Named

LEMMA RequestKinds ==
    ASSUME NEW q \in Requests
    PROVE  /\ q.op = "login" => q.user \in Proof
           /\ q.op = "rotate" => q.session \in Sessions /\ q.user \in Proof
           /\ q.op = "revoke" => q.session \in Sessions /\ q.token \in Nat
           /\ q.op \in {"bump", "reset", "create"} => q.phone \in Phones
           /\ q.op = "issue" => q.phone \in Phones /\ q.purpose \in Purposes
           /\ q.op = "otp" => /\ q.code \in Codes
                              /\ q.attempts \in 0..MaxAttempts
                              /\ q.consumed \in BOOLEAN
                              /\ q.grant \in Proof \cup {NoProof}
           /\ q.op = "register" => q.phone \in Phones /\ q.code \in Codes
BY DEF Requests, Idle

LEMMA UserRowIsProof ==
    ASSUME TypeOK, NEW p \in Phones
    PROVE  UserRow(p) \in Proof /\ UserRow(p) # NoProof
BY AuthAssumption DEF TypeOK, UserRow, Proof, NoProof

(* The steps that only read. *)
Reads(d) ==
    \/ \E p \in Phones : LoginRead(d, p) \/ CreateRead(d, p)
    \/ RefreshRead(d) \/ RefreshMismatch(d) \/ LogoutRead(d) \/ ResetRead(d) \/ Abandon(d)
    \/ \E p \in Phones, purpose \in Purposes : IssueRead(d, p, purpose)
    \/ \E p \in Phones, purpose \in Purposes, c \in Codes : OtpRefused(d, p, purpose, c)
    \/ \E p \in Phones, c \in Codes : OtpAccepted(d, p, c) \/ RegisterRead(d, p, c)

(* What a request made of what it read. *)
WellRead(d, q) ==
    /\ q.op \in {"login", "rotate"} => /\ Account(q.user.phone)
                                      /\ q.user = UserRow(q.user.phone)
    /\ q.op = "rotate" => Live(q.session)
    /\ q.op \in {"rotate", "revoke"} => q.session = device[d].session
    /\ q.op = "revoke" => q.token = current[q.session]
    /\ q.op \in {"otp", "register"} => ~code[q.code].consumed
    /\ q.op = "otp" /\ q.grant # NoProof =>
          /\ q.grant = UserRow(q.grant.phone)
          /\ code[q.code].phone = q.grant.phone
          /\ code[q.code].purpose = "PASSWORD_RESET"
    /\ q.op = "issue" /\ q.purpose = "PASSWORD_RESET" => Account(q.phone)
    /\ q.op = "bump" => FALSE
    /\ q.op = "reset" => device[d].reset # NoProof /\ q.phone = device[d].reset.phone

LEMMA ReadsKeepShape ==
    ASSUME Shape, NEW d \in Devices, Reads(d)
    PROVE  /\ Shape'
           /\ UNCHANGED <<password, version, sessionVars, codeVars, clientVars>>
           /\ \E q \in Requests : WellRead(d, q) /\ request' = [request EXCEPT ![d] = q]
<1> USE AuthAssumption, UserRowIsProof DEF Shape, Named, Start
<1> DEFINE Only(q) ==
      /\ q \in Requests
      /\ q.op \in {"rotate", "revoke"} => owner[q.session] # "NONE"
      /\ q.op \in {"otp", "register"} => code[q.code] # NoRow
      /\ WellRead(d, q)
      /\ request' = [request EXCEPT ![d] = q]
      /\ UNCHANGED <<password, version, sessionVars, codeVars, clientVars>>
<1>0. ASSUME NEW q, Only(q)
      PROVE  /\ Shape'
             /\ UNCHANGED <<password, version, sessionVars, codeVars, clientVars>>
             /\ \E r \in Requests : WellRead(d, r) /\ request' = [request EXCEPT ![d] = r]
  BY <1>0 DEF TypeOK, sessionVars, codeVars, clientVars
<1> HIDE DEF Only
<1>1. ASSUME NEW p \in Phones, LoginRead(d, p) PROVE Only([op |-> "login", user |-> UserRow(p)])
  BY <1>1 DEF Only, LoginRead, Requests, WellRead, MayLogIn, UserRow
<1>2. ASSUME NEW p \in Phones, CreateRead(d, p) PROVE Only([op |-> "create", phone |-> p])
  BY <1>2 DEF Only, CreateRead, Requests, WellRead
<1>3. ASSUME RefreshRead(d)
      PROVE  Only([op |-> "rotate", session |-> device[d].session,
                   user |-> UserRow(owner[device[d].session])])
  <2>1. device[d].session \in Sessions /\ owner[device[d].session] \in Phones
    BY <1>3 DEF RefreshRead, ShowsRefreshToken, Refreshable, Live, TypeOK, DeviceState
  <2> QED
    BY <1>3, <2>1 DEF Only, RefreshRead, Requests, Refreshable, Live, WellRead, MayLogIn, UserRow
<1>4. ASSUME RefreshMismatch(d) \/ LogoutRead(d)
      PROVE  Only([op |-> "revoke", session |-> device[d].session,
                   token |-> current[device[d].session]])
  <2>1. device[d].session \in Sessions
    BY <1>4 DEF RefreshMismatch, LogoutRead, ShowsRefreshToken, TypeOK, DeviceState
  <2>2. current[device[d].session] \in Nat /\ owner[device[d].session] # "NONE"
    BY <1>4, <2>1 DEF TypeOK, RefreshMismatch, LogoutRead, ShowsRefreshToken
  <2> QED
    BY <1>4, <2>1, <2>2 DEF Only, RefreshMismatch, LogoutRead, Requests, WellRead
<1>5. ASSUME ResetRead(d) PROVE Only([op |-> "reset", phone |-> device[d].reset.phone])
  <2>1. device[d].reset.phone \in Phones
    BY <1>5 DEF ResetRead, ShowsResetToken, TypeOK, DeviceState, Proof
  <2> QED
    BY <1>5, <2>1 DEF Only, ResetRead, Requests, WellRead, ShowsResetToken
<1>6. ASSUME Abandon(d) PROVE Only(Idle)
  BY <1>6 DEF Only, Abandon, Finish, Requests, Idle, WellRead
<1>7. ASSUME NEW p \in Phones, NEW purpose \in Purposes, IssueRead(d, p, purpose)
      PROVE  Only([op |-> "issue", phone |-> p, purpose |-> purpose])
  BY <1>7 DEF Only, IssueRead, Requests, WellRead, MayLogIn
<1>8. ASSUME NEW p \in Phones, NEW purpose \in Purposes, NEW c \in Codes,
             OtpRefused(d, p, purpose, c)
      PROVE  \E q : Only(q)
  <2>1. code[c] # NoRow
    BY <1>8 DEF OtpRefused, Newest, Candidates, NoRow
  <2>2. code[c].attempts \in 0..MaxAttempts
    BY <2>1 DEF TypeOK, CodeRow
  <2>3. CASE AttemptsLeft(c)
    <3>1. Only(SaveCode(c, code[c].attempts + 1, FALSE, NoProof))
      BY <1>8, <2>1, <2>2, <2>3
         DEF Only, OtpRefused, AttemptsLeft, SaveCode, Requests, WellRead, Newest,
             Candidates
    <3> QED
      BY <3>1
  <2>4. CASE ~AttemptsLeft(c)
    <3>1. Only(SaveCode(c, code[c].attempts, TRUE, NoProof))
      BY <1>8, <2>1, <2>2, <2>4
         DEF Only, OtpRefused, SaveCode, Requests, WellRead, Newest, Candidates
    <3> QED
      BY <3>1
  <2> QED
    BY <2>3, <2>4
<1>9. ASSUME NEW p \in Phones, NEW c \in Codes, OtpAccepted(d, p, c)
      PROVE  Only(SaveCode(c, code[c].attempts, TRUE, ResetToken(p)))
  <2>1. code[c] # NoRow
    BY <1>9 DEF OtpAccepted, Newest, Candidates, NoRow
  <2>2. code[c].attempts \in 0..MaxAttempts
    BY <2>1 DEF TypeOK, CodeRow
  <2> QED
    BY <1>9, <2>1, <2>2
       DEF Only, OtpAccepted, SaveCode, ResetToken, Requests, WellRead, Newest,
           Candidates, UserRow
<1>10. ASSUME NEW p \in Phones, NEW c \in Codes, RegisterRead(d, p, c)
       PROVE  Only([op |-> "register", phone |-> p, code |-> c])
  <2>1. code[c] # NoRow
    BY <1>10 DEF RegisterRead, Newest, Candidates, NoRow
  <2> QED
    BY <1>10, <2>1 DEF Only, RegisterRead, Requests, WellRead, Newest, Candidates
<1> QED
  BY <1>0, <1>1, <1>2, <1>3, <1>4, <1>5, <1>6, <1>7, <1>8, <1>9, <1>10 DEF Reads

LEMMA ShapeInit == Init => Shape
BY AuthAssumption DEF Init, Shape, Named, TypeOK, NoRow, CodeRow, NoDevice, DeviceState, NoProof,
                      NoSession, Requests, Idle

LEMMA SessionWritesKeepShape ==
    ASSUME Shape, NEW d \in Devices,
           \/ \E s \in Sessions : LoginInsert(d, s)
           \/ Rotate(d) \/ Revoke(d) \/ LogoutAll(d) \/ BumpVersion(d)
    PROVE  Shape'
<1> USE AuthAssumption, RequestKinds
    DEF Shape, Named, TypeOK, Start, Finish, sessionVars, codeVars, clientVars
<1>1. ASSUME NEW s \in Sessions, LoginInsert(d, s) PROVE Shape'
  <2>1. request[d].user \in Proof /\ request[d].user.phone \in Phones
    BY <1>1 DEF LoginInsert, Proof
  <2>2. [op |-> "rotate", session |-> s, user |-> request[d].user] \in Requests
    BY <2>1 DEF Requests
  <2>3. owner' \in [Sessions -> Phones \cup {"NONE"}] /\ request' \in [Devices -> Requests]
    BY <1>1, <2>1, <2>2 DEF LoginInsert
  <2>4. \A t \in Sessions : owner[t] # "NONE" => owner'[t] # "NONE"
    BY <1>1, <2>1 DEF LoginInsert
  <2> QED
    BY <1>1, <2>1, <2>2, <2>3, <2>4 DEF LoginInsert, DeviceState
<1>2. ASSUME Rotate(d) PROVE Shape'
  <2>1. request[d].session \in Sessions /\ request[d].user \in Proof
    BY <1>2 DEF Rotate
  <2>2. current' \in [Sessions -> Nat] /\ revoked' \in [Sessions -> BOOLEAN]
    BY <1>2, <2>1 DEF Rotate, SaveSession
  <2> DEFINE D == [session |-> request[d].session, token |-> current[request[d].session] + 1,
                   access |-> request[d].user, reset |-> device[d].reset]
  <2>a. device' = device \/ device' = [device EXCEPT ![d] = D]
    BY <1>2 DEF Rotate
  <2>b. D \in DeviceState /\ D.session = request[d].session
    <3>1. device[d] \in DeviceState /\ current[request[d].session] + 1 \in Nat
      BY ONLY Shape, <2>1 DEF Shape, TypeOK
    <3> QED
      BY ONLY <2>1, <3>1 DEF DeviceState, D
  <2> HIDE DEF D
  <2>3. device' \in [Devices -> DeviceState]
    BY <2>a, <2>b
  <2>4. \A e \in Devices : device'[e].session # NoSession => owner[device'[e].session] # "NONE"
    BY <1>2, <2>a, <2>b DEF Rotate
  <2>5. request' \in [Devices -> Requests] /\ request' = [request EXCEPT ![d] = Idle]
    BY <1>2 DEF Rotate, Requests
  <2> QED
    BY <1>2, <2>1, <2>2, <2>3, <2>4, <2>5 DEF Rotate, SaveSession, Idle
<1>3. ASSUME Revoke(d) PROVE Shape'
  <2>1. request[d].session \in Sessions /\ request[d].token \in Nat
    BY <1>3 DEF Revoke
  <2>2. request' \in [Devices -> Requests] /\ request' = [request EXCEPT ![d] = Idle]
    BY <1>3 DEF Revoke, Requests
  <2> QED
    BY <1>3, <2>1, <2>2 DEF Revoke, Idle
<1>4. ASSUME LogoutAll(d) PROVE Shape'
  <2>1. device[d].access.phone \in Phones
    BY <1>4 DEF LogoutAll, Accepted, DeviceState, Proof
  <2>2. [op |-> "bump", phone |-> device[d].access.phone] \in Requests
    BY <2>1 DEF Requests
  <2> QED
    BY <1>4, <2>1, <2>2 DEF LogoutAll, RevokeAll
<1>5. ASSUME BumpVersion(d) PROVE Shape'
  <2>1. request' \in [Devices -> Requests] /\ request' = [request EXCEPT ![d] = Idle]
    BY <1>5 DEF BumpVersion, Requests
  <2> QED
    BY <1>5, <2>1 DEF BumpVersion, Idle
<1> QED
  BY <1>1, <1>2, <1>3, <1>4, <1>5

LEMMA CodeWritesKeepShape ==
    ASSUME Shape, NEW d \in Devices,
           \/ \E c \in Codes : IssueCommit(d, c)
           \/ OtpSave(d) \/ ResetCommit(d) \/ CreateCommit(d) \/ RegisterCommit(d)
    PROVE  /\ Shape'
           /\ \A c \in Codes : code[c] # NoRow =>
                 /\ code'[c] # NoRow
                 /\ code'[c].phone = code[c].phone
                 /\ code'[c].purpose = code[c].purpose
<1> USE AuthAssumption, RequestKinds
    DEF Shape, Named, TypeOK, Start, Finish, sessionVars, codeVars, clientVars
<1> DEFINE SameCodes == \A c \in Codes : code[c] # NoRow =>
                           /\ code'[c] # NoRow
                           /\ code'[c].phone = code[c].phone
                           /\ code'[c].purpose = code[c].purpose
<1>0. Idle \in Requests
  BY DEF Requests
<1>1. ASSUME NEW c \in Codes, IssueCommit(d, c) PROVE Shape' /\ SameCodes
  <2>1. request[d].phone \in Phones /\ request[d].purpose \in Purposes
    BY <1>1 DEF IssueCommit
  <2>2. ASSUME NEW e \in Codes PROVE code'[e] \in CodeRow
    <3>1. CASE e = c
      BY <1>1, <2>1, <3>1 DEF IssueCommit, CodeRow
    <3>2. CASE e # c /\ e \in Candidates(request[d].phone, request[d].purpose)
      <4>1. code[e] # NoRow
        BY <3>2 DEF Candidates, NoRow
      <4>2. code'[e] = [code[e] EXCEPT !.consumed = TRUE]
        BY <1>1, <3>2 DEF IssueCommit
      <4> QED
        BY <4>1, <4>2 DEF CodeRow
    <3>3. CASE e # c /\ e \notin Candidates(request[d].phone, request[d].purpose)
      BY <1>1, <3>3 DEF IssueCommit
    <3> QED
      BY <3>1, <3>2, <3>3
  <2>3. SameCodes
    BY <1>1, <2>1 DEF IssueCommit, CodeRow, Candidates, NoRow, NextCode
  <2>4. code' \in [Codes -> CodeRow]
    BY <1>1, <2>2 DEF IssueCommit
  <2> QED
    BY <1>0, <1>1, <2>3, <2>4 DEF IssueCommit, Idle
<1>2. ASSUME OtpSave(d) PROVE Shape' /\ SameCodes
  <2> DEFINE c == request[d].code
  <2>1. /\ c \in Codes /\ code[c] # NoRow
        /\ request[d].attempts \in 0..MaxAttempts
        /\ request[d].consumed \in BOOLEAN
        /\ request[d].grant \in Proof \cup {NoProof}
    BY <1>2 DEF OtpSave
  <2>2. code[c] \in [phone: Phones, purpose: Purposes, consumed: BOOLEAN,
                     attempts: 0..MaxAttempts]
    BY <2>1 DEF CodeRow
  <2>3. code' = [code EXCEPT ![c] = [code[c] EXCEPT !.attempts = request[d].attempts,
                                                    !.consumed = request[d].consumed]]
    BY <1>2, <2>1 DEF OtpSave
  <2>4. code' \in [Codes -> CodeRow] /\ SameCodes
    BY <2>1, <2>2, <2>3 DEF CodeRow, NoRow
  <2> DEFINE D == [device[d] EXCEPT !.reset = request[d].grant]
  <2>5. device' = device \/ device' = [device EXCEPT ![d] = D]
    BY <1>2 DEF OtpSave
  <2>6. D \in DeviceState /\ D.session = device[d].session
    <3>1. device[d] \in DeviceState
      OBVIOUS
    <3> QED
      BY ONLY <2>1, <3>1 DEF DeviceState, D
  <2> HIDE DEF D
  <2>7. /\ device' \in [Devices -> DeviceState]
        /\ \A e \in Devices : device'[e].session = device[e].session
    BY <2>5, <2>6
  <2>8. request' = [request EXCEPT ![d] = Idle]
    BY <1>2 DEF OtpSave
  <2>9. UNCHANGED <<password, version, owner, current, revoked, aged, lost>>
    BY <1>2 DEF OtpSave
  <2>10. TypeOK'
    BY <1>0, <2>4, <2>7, <2>8, <2>9
  <2>11. Named'
    BY <2>4, <2>7, <2>8, <2>9 DEF Idle
  <2> QED
    BY <2>4, <2>10, <2>11
<1>3. ASSUME ResetCommit(d) PROVE Shape' /\ SameCodes
  <2>1. request[d].phone \in Phones
    BY <1>3 DEF ResetCommit
  <2> QED
    BY <1>0, <1>3, <2>1 DEF ResetCommit, RevokeAll, OutdateTokens, Idle
<1>4. ASSUME CreateCommit(d) PROVE Shape' /\ SameCodes
  BY <1>0, <1>4 DEF CreateCommit, InsertAccount, Idle
<1>5. ASSUME RegisterCommit(d) PROVE Shape' /\ SameCodes
  <2> DEFINE c == request[d].code
             p == request[d].phone
  <2>1. c \in Codes /\ code[c] # NoRow /\ p \in Phones
    BY <1>5 DEF RegisterCommit
  <2>2. code[c] \in [phone: Phones, purpose: Purposes, consumed: BOOLEAN,
                     attempts: 0..MaxAttempts]
    BY <2>1 DEF CodeRow
  <2>3. code' = [code EXCEPT ![c] = [code[c] EXCEPT !.consumed = TRUE]]
    BY <1>5, <2>1 DEF RegisterCommit
  <2>4. code' \in [Codes -> CodeRow] /\ SameCodes
    BY <2>1, <2>2, <2>3 DEF CodeRow, NoRow
  <2>5. [op |-> "login", user |-> [phone |-> p, password |-> 1, version |-> 0]] \in Requests
    BY <2>1 DEF Requests, Proof
  <2> QED
    BY <1>5, <2>1, <2>4, <2>5 DEF RegisterCommit, InsertAccount
<1> QED
  BY <1>1, <1>2, <1>3, <1>4, <1>5

LEMMA ShapeStep == Shape /\ [Next]_vars => Shape'
<1> SUFFICES ASSUME Shape, [Next]_vars PROVE Shape'
  OBVIOUS
<1>1. ASSUME NEW d \in Devices, SessionStep(d) PROVE Shape'
  BY <1>1, ReadsKeepShape, SessionWritesKeepShape DEF SessionStep, Reads
<1>2. ASSUME NEW d \in Devices, CodeStep(d) \/ AccountStep(d) \/ Abandon(d) PROVE Shape'
  BY <1>2, ReadsKeepShape, CodeWritesKeepShape DEF CodeStep, AccountStep, Reads
<1>3. ASSUME NEW c \in Codes, Ages(c) PROVE Shape'
  BY <1>3 DEF Ages, Shape, Named, TypeOK, sessionVars, clientVars
<1>4. CASE UNCHANGED vars
  BY <1>4 DEF vars, Shape, Named, TypeOK, sessionVars, codeVars, clientVars
<1> QED
  BY <1>1, <1>2, <1>3, <1>4 DEF Next

(* Every variable keeps its type, and no code gets more attempts than the   *)
(* limit, however many attempts read the same count.                        *)
THEOREM TypeCorrect == Spec => []TypeOK
<1>1. Spec => []Shape
  BY ShapeInit, ShapeStep, PTL DEF Spec
<1> QED
  BY <1>1, PTL DEF Shape

-----------------------------------------------------------------------------
(* Sessions that are revoked, codes that are spent. *)

LEMMA EndedStays ==
    ASSUME Shape, NEW s \in Sessions, Ended(s), Next
    PROVE  Ended(s)'
<1> USE AuthAssumption, RequestKinds
    DEF Shape, Named, TypeOK, Start, Finish, sessionVars, codeVars, clientVars, Ended
<1>1. ASSUME NEW d \in Devices, Reads(d) PROVE Ended(s)'
  <2> PICK q \in Requests : WellRead(d, q) /\ request' = [request EXCEPT ![d] = q]
    BY <1>1, ReadsKeepShape
  <2>1. UNCHANGED revoked /\ ~(q.op = "rotate" /\ q.session = s)
    BY <1>1, ReadsKeepShape DEF WellRead, Live
  <2> QED
    BY <2>1
<1>2. ASSUME NEW d \in Devices, NEW t \in Sessions, LoginInsert(d, t) PROVE Ended(s)'
  BY <1>2 DEF LoginInsert, NextSession
<1>3. ASSUME NEW d \in Devices, Rotate(d) \/ Revoke(d) \/ LogoutAll(d) \/ BumpVersion(d)
      PROVE  Ended(s)'
  BY <1>3 DEF Rotate, SaveSession, Revoke, LogoutAll, BumpVersion, RevokeAll, Idle
<1>4. ASSUME NEW d \in Devices, NEW c \in Codes, IssueCommit(d, c) PROVE Ended(s)'
  BY <1>4 DEF IssueCommit, Idle
<1>5. ASSUME NEW d \in Devices,
             OtpSave(d) \/ ResetCommit(d) \/ CreateCommit(d) \/ RegisterCommit(d)
      PROVE  Ended(s)'
  BY <1>5 DEF OtpSave, ResetCommit, CreateCommit, RegisterCommit, RevokeAll, Idle
<1>6. ASSUME NEW c \in Codes, Ages(c) PROVE Ended(s)'
  BY <1>6 DEF Ages
<1> QED
  BY <1>1, <1>2, <1>3, <1>4, <1>5, <1>6 DEF Next, SessionStep, CodeStep, AccountStep, Reads

(* A session that is revoked, with no rotation of it under way, is revoked  *)
(* for good, however many clients share it.                                 *)
THEOREM RevocationAlwaysSticks == Spec => RevocationSticks
<1>1. Shape /\ [Next]_vars => [\A s \in Sessions : Ended(s) => Ended(s)']_vars
  BY EndedStays
<1> QED
  BY <1>1, ShapeInit, ShapeStep, PTL DEF Spec, RevocationSticks

LEMMA SpentStays ==
    ASSUME Shape, NEW c \in Codes, Spent(c), Next
    PROVE  Spent(c)'
<1> USE AuthAssumption, RequestKinds
    DEF Shape, Named, TypeOK, Start, Finish, sessionVars, codeVars, clientVars, Spent
<1>1. ASSUME NEW d \in Devices, Reads(d) PROVE Spent(c)'
  <2> PICK q \in Requests : WellRead(d, q) /\ request' = [request EXCEPT ![d] = q]
    BY <1>1, ReadsKeepShape
  <2>1. UNCHANGED code /\ ~(q.op = "otp" /\ q.code = c)
    BY <1>1, ReadsKeepShape DEF WellRead
  <2> QED
    BY <2>1
<1>2. ASSUME NEW d \in Devices, NEW s \in Sessions, LoginInsert(d, s) PROVE Spent(c)'
  BY <1>2 DEF LoginInsert
<1>3. ASSUME NEW d \in Devices, Rotate(d) \/ Revoke(d) \/ LogoutAll(d) \/ BumpVersion(d)
      PROVE  Spent(c)'
  BY <1>3 DEF Rotate, Revoke, LogoutAll, BumpVersion, Idle
<1>4. ASSUME NEW d \in Devices, NEW e \in Codes, IssueCommit(d, e) PROVE Spent(c)'
  <2>1. code'[c].consumed
    BY <1>4 DEF IssueCommit, NextCode, Candidates
  <2>2. code'[c] # NoRow /\ request' = [request EXCEPT ![d] = Idle]
    BY <1>4, CodeWritesKeepShape DEF IssueCommit
  <2> QED
    BY <2>1, <2>2 DEF Idle
<1>5. ASSUME NEW d \in Devices, OtpSave(d) PROVE Spent(c)'
  <2>1. request[d].code \in Codes /\ (request[d].code = c => request[d].consumed)
    BY <1>5 DEF OtpSave
  <2>2. code'[c] # NoRow /\ request' = [request EXCEPT ![d] = Idle]
    BY <1>5, CodeWritesKeepShape DEF OtpSave
  <2>3. code'[c].consumed
    <3>1. CASE request[d].code = c
      <4>1. code[c] \in [phone: Phones, purpose: Purposes, consumed: BOOLEAN,
                         attempts: 0..MaxAttempts]
        BY DEF CodeRow
      <4>2. code'[c] = [code[c] EXCEPT !.attempts = request[d].attempts,
                                       !.consumed = request[d].consumed]
        BY <1>5, <2>1, <3>1 DEF OtpSave
      <4> QED
        BY <2>1, <3>1, <4>1, <4>2
    <3>2. CASE request[d].code # c
      BY <1>5, <2>1, <3>2 DEF OtpSave
    <3> QED
      BY <3>1, <3>2
  <2> QED
    BY <2>2, <2>3 DEF Idle
<1>6. ASSUME NEW d \in Devices, ResetCommit(d) \/ CreateCommit(d) PROVE Spent(c)'
  BY <1>6 DEF ResetCommit, CreateCommit, Idle
<1>7. ASSUME NEW d \in Devices, RegisterCommit(d) PROVE Spent(c)'
  <2>1. code'[c] # NoRow
    BY <1>7, CodeWritesKeepShape
  <2>2. code'[c].consumed
    BY <1>7 DEF RegisterCommit, CodeRow
  <2> QED
    BY <1>7, <2>1, <2>2 DEF RegisterCommit
<1>8. ASSUME NEW e \in Codes, Ages(e) PROVE Spent(c)'
  BY <1>8 DEF Ages
<1> QED
  BY <1>1, <1>2, <1>3, <1>4, <1>5, <1>6, <1>7, <1>8
     DEF Next, SessionStep, CodeStep, AccountStep, Reads

(* A consumed code, with no attempt at it under way that has seen it live,  *)
(* is never found again.                                                    *)
THEOREM SpentCodesAlwaysStaySpent == Spec => SpentCodesStaySpent
<1>1. Shape /\ [Next]_vars => [\A c \in Codes : Spent(c) => Spent(c)']_vars
  BY SpentStays
<1> QED
  BY <1>1, ShapeInit, ShapeStep, PTL DEF Spec, SpentCodesStaySpent

-----------------------------------------------------------------------------
(* What a token proves. *)

Truthful(t) ==
    t # NoProof => /\ Account(t.phone)
                   /\ t.version <= version[t.phone]
                   /\ t.version = version[t.phone] => t.password = password[t.phone]

(* A code to reset a password belongs to an account, a token_version counts *)
(* from its creation, and whatever a client or a request holds is truthful. *)
ProofInv ==
    /\ \A p \in Phones : ~Account(p) => version[p] = 0
    /\ \A c \in Codes : code[c] # NoRow /\ code[c].purpose = "PASSWORD_RESET"
                           => Account(code[c].phone)
    /\ \A d \in Devices :
          /\ Truthful(device[d].access)
          /\ Truthful(device[d].reset)
          /\ request[d].op \in {"login", "rotate"} => Truthful(request[d].user)
          /\ request[d].op = "otp" => Truthful(request[d].grant)
          /\ request[d].op \in {"bump", "reset"} => Account(request[d].phone)
          /\ request[d].op = "issue" /\ request[d].purpose = "PASSWORD_RESET"
                => Account(request[d].phone)

(* An account whose password changes gets a new version with it. *)
Outdates ==
    \A p \in Phones :
        /\ Account(p) => Account(p)'
        /\ Account(p) => /\ version'[p] >= version[p]
                         /\ password'[p] >= password[p]
                         /\ version'[p] = version[p] => password'[p] = password[p]
        /\ ~Account(p)' => version'[p] = 0

LEMMA StaysTruthful ==
    ASSUME Shape, Shape', Outdates, NEW t \in Proof \cup {NoProof}, Truthful(t)
    PROVE  Truthful(t)'
<1> SUFFICES ASSUME t # NoProof PROVE Truthful(t)'
  BY DEF Truthful
<1>1. t \in Proof /\ t.phone \in Phones /\ t.version \in Nat
  BY DEF Proof
<1> QED
  BY <1>1 DEF Truthful, Outdates, Shape, TypeOK

LEMMA UserRowIsTruthful ==
    ASSUME Shape, NEW p \in Phones, Account(p)
    PROVE  Truthful(UserRow(p))
BY DEF Truthful, UserRow, Shape, TypeOK

LEMMA WritesOutdate ==
    ASSUME Shape, ProofInv, Next
    PROVE  Outdates
<1> USE AuthAssumption, RequestKinds
    DEF Shape, TypeOK, Start, Finish, sessionVars, codeVars, clientVars, Outdates, Account
<1>1. ASSUME UNCHANGED <<password, version>> PROVE Outdates
  BY <1>1 DEF ProofInv
<1>2. ASSUME NEW e \in Devices, BumpVersion(e) PROVE Outdates
  BY <1>2 DEF BumpVersion, ProofInv
<1>3. ASSUME NEW e \in Devices, ResetCommit(e) PROVE Outdates
  BY <1>3 DEF ResetCommit, OutdateTokens, ProofInv
<1>4. ASSUME NEW e \in Devices, CreateCommit(e) \/ RegisterCommit(e) PROVE Outdates
  BY <1>4 DEF CreateCommit, RegisterCommit, InsertAccount, PhoneUnused, ProofInv
<1>5. ASSUME NEW e \in Devices, Reads(e) PROVE UNCHANGED <<password, version>>
  BY <1>5, ReadsKeepShape
<1>6. ASSUME NEW e \in Devices,
             \/ \E s \in Sessions : LoginInsert(e, s)
             \/ Rotate(e) \/ Revoke(e) \/ LogoutAll(e)
             \/ \E c \in Codes : IssueCommit(e, c)
             \/ OtpSave(e)
      PROVE  UNCHANGED <<password, version>>
  BY <1>6 DEF LoginInsert, Rotate, Revoke, LogoutAll, IssueCommit, OtpSave
<1>7. ASSUME NEW c \in Codes, Ages(c) PROVE UNCHANGED <<password, version>>
  BY <1>7 DEF Ages
<1> QED
  BY <1>1, <1>2, <1>3, <1>4, <1>5, <1>6, <1>7
     DEF Next, SessionStep, CodeStep, AccountStep, Reads

(* The proofs that are held, and the accounts that are named, after a step  *)
(* that leaves request q.                                                   *)
Held(q, t) ==
    \/ q.op \in {"login", "rotate"} /\ t = q.user
    \/ q.op = "otp" /\ t = q.grant
    \/ \E e \in Devices : t \in {device'[e].access, device'[e].reset}
Opened(q, p) ==
    \/ q.op \in {"bump", "reset"} /\ p = q.phone
    \/ q.op = "issue" /\ q.purpose = "PASSWORD_RESET" /\ p = q.phone
    \/ \E c \in Codes : /\ code'[c] # NoRow
                        /\ code'[c].purpose = "PASSWORD_RESET"
                        /\ code'[c].phone = p

(* A step that changes one request and keeps, or proves anew, what the      *)
(* clients hold.                                                            *)
LEMMA WritesKeepProofs ==
    ASSUME Shape, Shape', ProofInv, Outdates,
           NEW d \in Devices, NEW q \in Requests,
           request' = [request EXCEPT ![d] = q],
           \A t \in Proof \cup {NoProof} : Held(q, t) => Truthful(t) \/ Truthful(t)',
           \A p \in Phones : Opened(q, p) => Account(p) \/ Account(p)'
    PROVE  ProofInv'
<1>1. \A t \in Proof \cup {NoProof} : Truthful(t) \/ Held(q, t) => Truthful(t)'
  BY StaysTruthful
<1>2. \A p \in Phones : Account(p) \/ Opened(q, p) => Account(p)'
  BY DEF Outdates
<1>3. \A p \in Phones : ~Account(p)' => version'[p] = 0
  BY DEF Outdates
<1>4. ASSUME NEW c \in Codes, code'[c] # NoRow, code'[c].purpose = "PASSWORD_RESET"
      PROVE  Account(code[c].phone)'
  <2>1. code'[c].phone \in Phones
    BY <1>4 DEF Shape, TypeOK, CodeRow
  <2> QED
    BY <1>2, <1>4, <2>1 DEF Account, Opened
<1>5. ASSUME NEW e \in Devices
      PROVE  Truthful(device[e].access)' /\ Truthful(device[e].reset)'
  <2>1. device'[e].access \in Proof \cup {NoProof} /\ device'[e].reset \in Proof \cup {NoProof}
    BY DEF Shape, TypeOK, DeviceState
  <2>2. Held(q, device'[e].access) /\ Held(q, device'[e].reset)
    BY DEF Held
  <2> QED
    BY <1>1, <2>1, <2>2 DEF Truthful, Account
<1>6. ASSUME NEW e \in Devices
      PROVE  /\ request'[e].op \in {"login", "rotate"} => Truthful(request[e].user)'
             /\ request'[e].op = "otp" => Truthful(request[e].grant)'
             /\ request'[e].op \in {"bump", "reset"} => Account(request[e].phone)'
             /\ request'[e].op = "issue" /\ request'[e].purpose = "PASSWORD_RESET"
                   => Account(request[e].phone)'
  <2> PICK r \in Requests : request'[e] = r
    BY DEF Shape, TypeOK
  <2>1. e = d => r = q
    BY DEF Shape, TypeOK
  <2>2. e # d => r = request[e]
    BY DEF Shape, TypeOK
  <2>3. r.op \in {"login", "rotate"} => Truthful(r.user) \/ Held(q, r.user)
    BY <2>1, <2>2 DEF ProofInv, Held
  <2>4. r.op = "otp" => Truthful(r.grant) \/ Held(q, r.grant)
    BY <2>1, <2>2 DEF ProofInv, Held
  <2>5. r.op \in {"bump", "reset"} => Account(r.phone) \/ Opened(q, r.phone)
    BY <2>1, <2>2 DEF ProofInv, Opened
  <2>6. r.op = "issue" /\ r.purpose = "PASSWORD_RESET" => Account(r.phone) \/ Opened(q, r.phone)
    BY <2>1, <2>2 DEF ProofInv, Opened
  <2>7. /\ r.op \in {"login", "rotate"} => Truthful(r.user)'
        /\ r.op = "otp" => Truthful(r.grant)'
    BY <1>1, <2>3, <2>4, RequestKinds
  <2>8. /\ r.op \in {"bump", "reset"} => Account(r.phone)'
        /\ r.op = "issue" /\ r.purpose = "PASSWORD_RESET" => Account(r.phone)'
    BY <1>2, <2>5, <2>6, RequestKinds
  <2> QED
    BY <2>7, <2>8 DEF Truthful, Account
<1> QED
  BY <1>3, <1>4, <1>5, <1>6 DEF ProofInv

LEMMA ReadsKeepProofs ==
    ASSUME Shape, Shape', ProofInv, Outdates, NEW d \in Devices, Reads(d)
    PROVE  ProofInv'
<1> USE DEF clientVars, codeVars
<1> PICK q \in Requests : WellRead(d, q) /\ request' = [request EXCEPT ![d] = q]
  BY ReadsKeepShape
<1>1. UNCHANGED <<device, code>>
  BY ReadsKeepShape
<1>2. q.op \in {"login", "rotate"} => Truthful(q.user)
  <2>1. q.op \in {"login", "rotate"} => q.user.phone \in Phones
    BY RequestKinds DEF Proof
  <2> QED
    BY <2>1, UserRowIsTruthful DEF WellRead
<1>3. q.op = "otp" => Truthful(q.grant)
  <2> SUFFICES ASSUME q.op = "otp", q.grant # NoProof PROVE Truthful(q.grant)
    BY DEF Truthful
  <2>1. q.grant.phone \in Phones /\ q.code \in Codes
    BY RequestKinds DEF Proof
  <2>2. code[q.code] # NoRow
    BY DEF WellRead, NoRow
  <2>3. Account(q.grant.phone)
    BY <2>1, <2>2 DEF WellRead, ProofInv
  <2> QED
    BY <2>1, <2>3, UserRowIsTruthful DEF WellRead
<1>4. q.op \in {"bump", "reset"} => Account(q.phone)
  BY DEF WellRead, ProofInv, Truthful
<1>h. \A t \in Proof \cup {NoProof} : Held(q, t) => Truthful(t) \/ Truthful(t)'
  BY <1>1, <1>2, <1>3, <1>4 DEF WellRead, ProofInv, Held
<1>o. \A p \in Phones : Opened(q, p) => Account(p) \/ Account(p)'
  BY <1>1, <1>2, <1>3, <1>4 DEF WellRead, ProofInv, Opened
<1> QED
  BY <1>1, <1>2, <1>3, <1>4, <1>h, <1>o, WritesKeepProofs

LEMMA SessionsKeepProofs ==
    ASSUME Shape, Shape', ProofInv, Outdates, NEW d \in Devices,
           \/ \E s \in Sessions : LoginInsert(d, s)
           \/ Rotate(d) \/ Revoke(d) \/ LogoutAll(d) \/ BumpVersion(d)
    PROVE  ProofInv'
<1>0. Idle \in Requests /\ Idle.op = "idle"
  BY DEF Requests, Idle
<1>1. ASSUME NEW s \in Sessions, LoginInsert(d, s) PROVE ProofInv'
  <2> DEFINE q == [op |-> "rotate", session |-> s, user |-> request[d].user]
  <2>1. q \in Requests /\ q.op = "rotate" /\ q.user = request[d].user
    BY <1>1, RequestKinds
       DEF LoginInsert, Requests, Start, Finish, clientVars, codeVars, Shape, TypeOK
  <2>2. request' = [request EXCEPT ![d] = q] /\ UNCHANGED <<device, code>>
    BY <1>1, RequestKinds
       DEF LoginInsert, Start, Finish, clientVars, codeVars, Shape, TypeOK
  <2>3. Truthful(request[d].user)
    BY <1>1, RequestKinds
       DEF LoginInsert, ProofInv, Start, Finish, clientVars, codeVars, Shape, TypeOK
  <2> HIDE DEF q
  <2>h. \A t \in Proof \cup {NoProof} : Held(q, t) => Truthful(t) \/ Truthful(t)'
    BY <2>1, <2>2, <2>3 DEF ProofInv, Held
  <2>o. \A p \in Phones : Opened(q, p) => Account(p) \/ Account(p)'
    BY <2>1, <2>2, <2>3 DEF ProofInv, Opened
  <2> QED
    BY <2>1, <2>2, <2>3, <2>h, <2>o, WritesKeepProofs
<1>2. ASSUME Rotate(d) PROVE ProofInv'
  <2>1. request' = [request EXCEPT ![d] = Idle] /\ UNCHANGED code
    BY <1>2, RequestKinds
       DEF Rotate, Start, Finish, clientVars, codeVars, Shape, TypeOK
  <2>2. Truthful(request[d].user)
    BY <1>2, RequestKinds
       DEF Rotate, ProofInv, Start, Finish, clientVars, codeVars, Shape, TypeOK
  <2>3. \A e \in Devices : /\ device'[e].access \in {device[e].access, request[d].user}
                           /\ device'[e].reset = device[e].reset
    BY <1>2, RequestKinds
       DEF Rotate, Start, Finish, clientVars, codeVars, Shape, TypeOK
  <2>h. \A t \in Proof \cup {NoProof} : Held(Idle, t) => Truthful(t) \/ Truthful(t)'
    BY <1>0, <2>1, <2>2, <2>3 DEF ProofInv, Held
  <2>o. \A p \in Phones : Opened(Idle, p) => Account(p) \/ Account(p)'
    BY <1>0, <2>1, <2>2, <2>3 DEF ProofInv, Opened
  <2> QED
    BY <1>0, <2>1, <2>2, <2>3, <2>h, <2>o, WritesKeepProofs
<1>3. ASSUME Revoke(d) \/ BumpVersion(d) PROVE ProofInv'
  <2>1. request' = [request EXCEPT ![d] = Idle] /\ UNCHANGED <<device, code>>
    BY <1>3, RequestKinds
       DEF Revoke, BumpVersion, Start, Finish, clientVars, codeVars, Shape, TypeOK
  <2>h. \A t \in Proof \cup {NoProof} : Held(Idle, t) => Truthful(t) \/ Truthful(t)'
    BY <1>0, <2>1 DEF ProofInv, Held
  <2>o. \A p \in Phones : Opened(Idle, p) => Account(p) \/ Account(p)'
    BY <1>0, <2>1 DEF ProofInv, Opened
  <2> QED
    BY <1>0, <2>1, <2>h, <2>o, WritesKeepProofs
<1>4. ASSUME LogoutAll(d) PROVE ProofInv'
  <2> DEFINE q == [op |-> "bump", phone |-> device[d].access.phone]
  <2>1. q.phone \in Phones /\ Account(q.phone)
    BY <1>4, RequestKinds
       DEF LogoutAll, Accepted, MayLogIn, DeviceState, Proof, Start, Finish,
           clientVars, codeVars, Shape, TypeOK
  <2>2. q \in Requests /\ q.op = "bump"
    BY <2>1, RequestKinds
       DEF Requests, Start, Finish, clientVars, codeVars, Shape, TypeOK
  <2>3. request' = [request EXCEPT ![d] = q] /\ UNCHANGED <<device, code>>
    BY <1>4, RequestKinds
       DEF LogoutAll, Start, Finish, clientVars, codeVars, Shape, TypeOK
  <2> HIDE DEF q
  <2>h. \A t \in Proof \cup {NoProof} : Held(q, t) => Truthful(t) \/ Truthful(t)'
    BY <2>1, <2>2, <2>3 DEF ProofInv, Held
  <2>o. \A p \in Phones : Opened(q, p) => Account(p) \/ Account(p)'
    BY <2>1, <2>2, <2>3 DEF ProofInv, Opened
  <2> QED
    BY <2>1, <2>2, <2>3, <2>h, <2>o, WritesKeepProofs
<1> QED
  BY <1>1, <1>2, <1>3, <1>4

LEMMA CodesKeepProofs ==
    ASSUME Shape, Shape', ProofInv, Outdates, NEW d \in Devices,
           \/ \E c \in Codes : IssueCommit(d, c)
           \/ OtpSave(d) \/ ResetCommit(d) \/ CreateCommit(d) \/ RegisterCommit(d)
    PROVE  ProofInv'
<1>0. Idle \in Requests /\ Idle.op = "idle"
  BY DEF Requests, Idle
<1>1. ASSUME NEW c \in Codes, IssueCommit(d, c) PROVE ProofInv'
  <2>1. request' = [request EXCEPT ![d] = Idle] /\ UNCHANGED device
    BY <1>1, RequestKinds
       DEF IssueCommit, Start, Finish, clientVars, codeVars, Shape, TypeOK
  <2>2. code'[c].phone = request[d].phone /\ code'[c].purpose = request[d].purpose
    BY <1>1, RequestKinds
       DEF IssueCommit, Start, Finish, clientVars, codeVars, Shape, TypeOK
  <2>3. \A e \in Codes : code'[e] # NoRow /\ e # c =>
           /\ code[e] # NoRow
           /\ code'[e].phone = code[e].phone
           /\ code'[e].purpose = code[e].purpose
    <3>1. \A e \in Codes : e # c /\ code[e] = NoRow => code'[e] = code[e]
      BY <1>1, RequestKinds
         DEF IssueCommit, Candidates, NoRow, Start, Finish, clientVars, codeVars, Shape, TypeOK
    <3> QED
      BY <1>1, <3>1, CodeWritesKeepShape
  <2>4. request[d].purpose = "PASSWORD_RESET" => Account(request[d].phone)
    BY <1>1, RequestKinds
       DEF IssueCommit, ProofInv, Start, Finish, clientVars, codeVars, Shape, TypeOK
  <2>h. \A t \in Proof \cup {NoProof} : Held(Idle, t) => Truthful(t) \/ Truthful(t)'
    BY <1>0, <2>1, <2>2, <2>3, <2>4 DEF ProofInv, Held
  <2>o. \A p \in Phones : Opened(Idle, p) => Account(p) \/ Account(p)'
    BY <1>0, <2>1, <2>2, <2>3, <2>4 DEF ProofInv, Opened
  <2> QED
    BY <1>0, <2>1, <2>2, <2>3, <2>4, <2>h, <2>o, WritesKeepProofs
<1>2. ASSUME OtpSave(d) PROVE ProofInv'
  <2>1. request' = [request EXCEPT ![d] = Idle] /\ Truthful(request[d].grant)
    BY <1>2, RequestKinds
       DEF OtpSave, ProofInv, Start, Finish, clientVars, codeVars, Shape, TypeOK
  <2>2. \A e \in Devices : /\ device'[e].access = device[e].access
                           /\ device'[e].reset \in {device[e].reset, request[d].grant}
    BY <1>2, RequestKinds
       DEF OtpSave, DeviceState, Start, Finish, clientVars, codeVars, Shape, TypeOK
  <2>3. \A e \in Codes : code'[e] # NoRow =>
           /\ code[e] # NoRow
           /\ code'[e].phone = code[e].phone
           /\ code'[e].purpose = code[e].purpose
    <3>1. \A e \in Codes : code[e] = NoRow => code'[e] = code[e]
      BY <1>2, RequestKinds
         DEF OtpSave, Named, Start, Finish, clientVars, codeVars, Shape, TypeOK
    <3> QED
      BY <1>2, <3>1, CodeWritesKeepShape
  <2>h. \A t \in Proof \cup {NoProof} : Held(Idle, t) => Truthful(t) \/ Truthful(t)'
    BY <1>0, <2>1, <2>2, <2>3 DEF ProofInv, Held
  <2>o. \A p \in Phones : Opened(Idle, p) => Account(p) \/ Account(p)'
    BY <1>0, <2>1, <2>2, <2>3 DEF ProofInv, Opened
  <2> QED
    BY <1>0, <2>1, <2>2, <2>3, <2>h, <2>o, WritesKeepProofs
<1>3. ASSUME ResetCommit(d) \/ CreateCommit(d) PROVE ProofInv'
  <2>1. request' = [request EXCEPT ![d] = Idle] /\ UNCHANGED <<device, code>>
    BY <1>3, RequestKinds
       DEF ResetCommit, CreateCommit, Start, Finish, clientVars, codeVars, Shape, TypeOK
  <2>h. \A t \in Proof \cup {NoProof} : Held(Idle, t) => Truthful(t) \/ Truthful(t)'
    BY <1>0, <2>1 DEF ProofInv, Held
  <2>o. \A p \in Phones : Opened(Idle, p) => Account(p) \/ Account(p)'
    BY <1>0, <2>1 DEF ProofInv, Opened
  <2> QED
    BY <1>0, <2>1, <2>h, <2>o, WritesKeepProofs
<1>4. ASSUME RegisterCommit(d) PROVE ProofInv'
  <2>1. PICK n \in Phones : n = request[d].phone
    BY <1>4, RequestKinds
       DEF RegisterCommit, Start, Finish, clientVars, codeVars, Shape, TypeOK
  <2> DEFINE user == [phone |-> n, password |-> 1, version |-> 0]
             q == [op |-> "login", user |-> user]
  <2>2. q \in Requests /\ q.op = "login" /\ q.user = user
    BY <2>1, RequestKinds
       DEF Requests, Proof, Start, Finish, clientVars, codeVars, Shape, TypeOK
  <2>3. request' = [request EXCEPT ![d] = q] /\ UNCHANGED device
    BY <1>4, <2>1, RequestKinds
       DEF RegisterCommit, Start, Finish, clientVars, codeVars, Shape, TypeOK
  <2>4. Truthful(user)'
    <3>1. password'[n] = 1 /\ version'[n] = 0
      BY <1>4, <2>1, RequestKinds
         DEF RegisterCommit, InsertAccount, Start, Finish, clientVars, codeVars, Shape, TypeOK
    <3>2. user.phone = n /\ user.password = 1 /\ user.version = 0
      OBVIOUS
    <3> QED
      BY <3>1, <3>2 DEF Truthful, Account
  <2>5. \A e \in Codes : code'[e] # NoRow =>
           /\ code[e] # NoRow
           /\ code'[e].phone = code[e].phone
           /\ code'[e].purpose = code[e].purpose
    <3>1. \A e \in Codes : code[e] = NoRow => code'[e] = code[e]
      BY <1>4, RequestKinds
         DEF RegisterCommit, Named, Start, Finish, clientVars, codeVars, Shape, TypeOK
    <3> QED
      BY <1>4, <3>1, CodeWritesKeepShape
  <2> HIDE DEF q, user
  <2>h. \A t \in Proof \cup {NoProof} : Held(q, t) => Truthful(t) \/ Truthful(t)'
    BY <2>2, <2>3, <2>4, <2>5 DEF ProofInv, Held
  <2>o. \A p \in Phones : Opened(q, p) => Account(p) \/ Account(p)'
    BY <2>2, <2>3, <2>4, <2>5 DEF ProofInv, Opened
  <2> QED
    BY <2>2, <2>3, <2>4, <2>5, <2>h, <2>o, WritesKeepProofs
<1> QED
  BY <1>1, <1>2, <1>3, <1>4

LEMMA ProofInit == Init => ProofInv
BY DEF Init, ProofInv, Truthful, NoRow, NoDevice, Idle, Account

LEMMA ProofStep == Shape /\ Shape' /\ ProofInv /\ [Next]_vars => ProofInv'
<1> SUFFICES ASSUME Shape, Shape', ProofInv, [Next]_vars PROVE ProofInv'
  OBVIOUS
<1>1. ASSUME NEW d \in Devices, Next,
             SessionStep(d) \/ CodeStep(d) \/ AccountStep(d) \/ Abandon(d)
      PROVE  ProofInv'
  <2>1. Outdates
    BY <1>1, WritesOutdate
  <2> QED
    BY <1>1, <2>1, ReadsKeepProofs, SessionsKeepProofs, CodesKeepProofs
       DEF SessionStep, CodeStep, AccountStep, Reads
<1>2. ASSUME NEW c \in Codes, Ages(c) PROVE ProofInv'
  BY <1>2 DEF Ages, ProofInv, Truthful, Account, sessionVars, clientVars
<1>3. CASE UNCHANGED vars
  BY <1>3 DEF vars, ProofInv, Truthful, Account, sessionVars, clientVars, codeVars
<1> QED
  BY <1>1, <1>2, <1>3 DEF Next

(* A token signed before a change of the password is outdated by it,        *)
(* whoever signed it and whenever.                                          *)
THEOREM TokensAlwaysFollowPassword == Spec => []TokensFollowPassword
<1>1. Shape /\ ProofInv => TokensFollowPassword
  BY DEF ProofInv, Truthful, TokensFollowPassword, Accepted, NoProof
<1> QED
  BY <1>1, ShapeInit, ShapeStep, ProofInit, ProofStep, PTL DEF Spec

(* An account is created once, and neither its password nor its token       *)
(* version is ever set back.                                                *)
THEOREM AccountsAlwaysKept == Spec => AccountsAreKept
<1>1. Shape /\ Shape' /\ ProofInv /\ [Next]_vars
        => [\A p \in Phones : password'[p] >= password[p] /\ version'[p] >= version[p]]_vars
  <2> SUFFICES ASSUME Shape, Shape', ProofInv, Next, NEW p \in Phones
               PROVE  password'[p] >= password[p] /\ version'[p] >= version[p]
    OBVIOUS
  <2>1. CASE Account(p)
    BY <2>1, WritesOutdate DEF Outdates
  <2>2. CASE ~Account(p)
    BY <2>2 DEF ProofInv, Account, Shape, TypeOK
  <2> QED
    BY <2>1, <2>2
<1> QED
  BY <1>1, ShapeInit, ShapeStep, ProofInit, ProofStep, PTL DEF Spec, AccountsAreKept

-----------------------------------------------------------------------------
(* The sessions a client uses. *)

InUse(d, s) ==
    \/ device[d].session = s
    \/ request[d].op \in {"rotate", "revoke"} /\ request[d].session = s

(* No two clients use one session, a client that missed no answer holds the *)
(* token its session was saved with, and a save that revokes a session puts *)
(* back the hash the session still has.                                     *)
ClientInv ==
    /\ \A d, e \in Devices, s \in Sessions : InUse(d, s) /\ InUse(e, s) => d = e
    /\ ClientTokenIsCurrent
    /\ \A d \in Devices :
          request[d].op = "revoke" => request[d].token = current[request[d].session]

(* A step of one client that touches no session but its own. *)
LEMMA OwnSessionOnly ==
    ASSUME Shape, Shape', ClientInv, NEW d \in Devices, NEW q \in Requests,
           request' = [request EXCEPT ![d] = q],
           \A e \in Devices \ {d} : device'[e] = device[e] /\ (e \in lost' <=> e \in lost),
           \A s \in Sessions : InUse(d, s)' => InUse(d, s) \/ owner[s] = "NONE",
           \A s \in Sessions : current'[s] # current[s] => InUse(d, s),
           d \notin lost' /\ device'[d].session # NoSession
               => current'[device'[d].session] = device'[d].token,
           q.op = "revoke" => q.token = current'[q.session]
    PROVE  ClientInv'
<1>1. ASSUME NEW e \in Devices \ {d} PROVE request'[e] = request[e]
  BY DEF Shape, TypeOK
<1>2. request'[d] = q
  BY DEF Shape, TypeOK
<1>3. ASSUME NEW e \in Devices \ {d}, NEW s \in Sessions
      PROVE  /\ InUse(e, s)' <=> InUse(e, s)
             /\ InUse(e, s) => owner[s] # "NONE" /\ ~InUse(d, s)
             /\ InUse(e, s) => ~InUse(d, s)'
  <2>1. InUse(e, s)' <=> InUse(e, s)
    BY <1>1 DEF InUse
  <2>2. InUse(e, s) => owner[s] # "NONE"
    BY AuthAssumption DEF InUse, Shape, Named
  <2>3. InUse(e, s) => ~InUse(d, s)
    BY DEF ClientInv
  <2> QED
    BY <2>1, <2>2, <2>3
<1>4. ASSUME NEW e \in Devices, NEW g \in Devices, NEW s \in Sessions,
             InUse(e, s)', InUse(g, s)'
      PROVE  e = g
  <2>1. CASE e # d /\ g # d
    BY <1>3, <1>4, <2>1 DEF ClientInv
  <2>2. CASE e = d \/ g = d
    BY <1>3, <1>4, <2>2
  <2> QED
    BY <2>1, <2>2
<1>5. ASSUME NEW e \in Devices, e \notin lost', device'[e].session # NoSession
      PROVE  current'[device'[e].session] = device'[e].token
  <2>1. CASE e = d
    BY <1>5, <2>1
  <2>2. CASE e # d
    <3>1. device'[e] = device[e] /\ e \notin lost /\ device[e].session \in Sessions
      BY <1>5, <2>2 DEF Shape, TypeOK, DeviceState
    <3>2. current[device[e].session] = device[e].token
      BY <1>5, <3>1 DEF ClientInv, ClientTokenIsCurrent
    <3>3. InUse(e, device[e].session)
      BY DEF InUse
    <3> QED
      BY <1>3, <2>2, <3>1, <3>2, <3>3
  <2> QED
    BY <2>1, <2>2
<1>6. ASSUME NEW e \in Devices, request'[e].op = "revoke"
      PROVE  request'[e].token = current'[request'[e].session]
  <2>1. CASE e = d
    BY <1>2, <1>6, <2>1
  <2>2. CASE e # d
    <3>1. request'[e] = request[e] /\ request[e].session \in Sessions
      BY <1>1, <1>6, <2>2, RequestKinds DEF Shape, TypeOK
    <3>2. InUse(e, request[e].session) /\ request[e].token = current[request[e].session]
      BY <1>6, <3>1 DEF InUse, ClientInv
    <3> QED
      BY <1>3, <2>2, <3>1, <3>2
  <2> QED
    BY <2>1, <2>2
<1> QED
  BY <1>4, <1>5, <1>6 DEF ClientInv, ClientTokenIsCurrent, InUse

LEMMA ClientInit == Init => ClientInv
BY AuthAssumption DEF Init, ClientInv, ClientTokenIsCurrent, InUse, NoDevice, Idle

LEMMA SessionsKeepClients ==
    ASSUME Shape, Shape', ClientInv, NEW d \in Devices,
           \/ \E s \in Sessions : LoginInsert(d, s)
           \/ Rotate(d) \/ Revoke(d)
    PROVE  ClientInv'
<1>0. Idle \in Requests /\ Idle.op = "idle"
  BY DEF Requests, Idle
<1>t. request \in [Devices -> Requests] /\ device \in [Devices -> DeviceState]
      /\ current \in [Sessions -> Nat] /\ lost \subseteq Devices
  BY DEF Shape, TypeOK
<1>1. ASSUME NEW s \in Sessions, LoginInsert(d, s) PROVE ClientInv'
  <2> DEFINE q == [op |-> "rotate", session |-> s, user |-> request[d].user]
  <2>1. q \in Requests /\ q.op = "rotate" /\ q.session = s
    BY <1>1, <1>t, RequestKinds DEF LoginInsert, Requests
  <2>2. /\ request' = [request EXCEPT ![d] = q]
        /\ UNCHANGED <<device, lost, current>>
        /\ owner[s] = "NONE"
    BY <1>1 DEF LoginInsert, Start, NextSession, clientVars
  <2> HIDE DEF q
  <2>3. \A t \in Sessions : InUse(d, t)' => InUse(d, t) \/ owner[t] = "NONE"
    BY <2>1, <2>2, <1>t DEF InUse
  <2>4. d \notin lost /\ device[d].session # NoSession
           => current[device[d].session] = device[d].token
    BY DEF ClientInv, ClientTokenIsCurrent
  <2> QED
    BY <2>1, <2>2, <2>3, <2>4, OwnSessionOnly
<1>2. ASSUME Rotate(d) PROVE ClientInv'
  <2>1. PICK s \in Sessions : s = request[d].session /\ request[d].op = "rotate" /\ InUse(d, s)
    BY <1>2, <1>t, RequestKinds DEF Rotate, InUse
  <2>2. request' = [request EXCEPT ![d] = Idle]
    BY <1>2 DEF Rotate, Finish, Start
  <2>3. current' = [current EXCEPT ![s] = @ + 1]
    BY <1>2, <2>1 DEF Rotate, SaveSession
  <2>4. /\ \A e \in Devices \ {d} : device'[e] = device[e] /\ (e \in lost' <=> e \in lost)
        /\ \/ device'[d].session = s /\ device'[d].token = current[s] + 1
           \/ device'[d] = device[d] /\ d \in lost'
    BY <1>2, <1>t, <2>1 DEF Rotate
  <2>5. \A t \in Sessions : InUse(d, t)' => InUse(d, t)
    BY <1>0, <1>t, <2>1, <2>2, <2>4 DEF InUse
  <2>6. \A t \in Sessions : current'[t] # current[t] => InUse(d, t)
    BY <1>t, <2>1, <2>3
  <2>7. d \notin lost' /\ device'[d].session # NoSession
           => current'[device'[d].session] = device'[d].token
    BY <1>t, <2>3, <2>4
  <2> QED
    BY <1>0, <2>2, <2>4, <2>5, <2>6, <2>7, OwnSessionOnly
<1>3. ASSUME Revoke(d) PROVE ClientInv'
  <2>1. PICK s \in Sessions : s = request[d].session /\ request[d].token = current[s]
    BY <1>3, <1>t, RequestKinds DEF Revoke, ClientInv
  <2>2. /\ request' = [request EXCEPT ![d] = Idle]
        /\ current' = current
        /\ UNCHANGED <<device, lost>>
    BY <1>3, <1>t, <2>1 DEF Revoke, Finish, Start, clientVars
  <2>3. \A t \in Sessions : InUse(d, t)' => InUse(d, t)
    BY <1>0, <1>t, <2>2 DEF InUse
  <2>4. d \notin lost /\ device[d].session # NoSession
           => current[device[d].session] = device[d].token
    BY DEF ClientInv, ClientTokenIsCurrent
  <2> QED
    BY <1>0, <2>2, <2>3, <2>4, OwnSessionOnly
<1> QED
  BY <1>1, <1>2, <1>3

(* A step that leaves the sessions' hashes alone and names no other session *)
(* than the client's own.                                                   *)
LEMMA OthersKeepClients ==
    ASSUME Shape, Shape', ClientInv, NEW d \in Devices, NEW q \in Requests,
           request' = [request EXCEPT ![d] = q],
           UNCHANGED <<current, lost>>,
           \A e \in Devices : /\ device'[e].session = device[e].session
                              /\ device'[e].token = device[e].token
                              /\ e # d => device'[e] = device[e],
           q.op \in {"rotate", "revoke"} => q.session = device[d].session,
           q.op = "revoke" => q.token = current[q.session]
    PROVE  ClientInv'
<1>1. \A s \in Sessions : InUse(d, s)' => InUse(d, s)
  BY DEF InUse, Shape, TypeOK
<1>2. d \notin lost /\ device[d].session # NoSession
         => current[device[d].session] = device[d].token
  BY DEF ClientInv, ClientTokenIsCurrent
<1> QED
  BY <1>1, <1>2, OwnSessionOnly

LEMMA ClientStep == Shape /\ Shape' /\ ClientInv /\ [Next]_vars => ClientInv'
<1> SUFFICES ASSUME Shape, Shape', ClientInv, [Next]_vars PROVE ClientInv'
  OBVIOUS
<1>0. Idle \in Requests /\ Idle.op = "idle"
  BY DEF Requests, Idle
<1>t. /\ request \in [Devices -> Requests]
      /\ device \in [Devices -> DeviceState]
  BY DEF Shape, TypeOK
<1>1. ASSUME NEW d \in Devices, Reads(d) PROVE ClientInv'
  <2> PICK q \in Requests : WellRead(d, q) /\ request' = [request EXCEPT ![d] = q]
    BY <1>1, ReadsKeepShape
  <2>1. UNCHANGED <<current, lost, device>>
    BY <1>1, ReadsKeepShape DEF sessionVars, clientVars
  <2> QED
    BY <2>1, OthersKeepClients DEF WellRead
<1>2. ASSUME NEW d \in Devices,
             \/ BumpVersion(d) \/ ResetCommit(d) \/ CreateCommit(d)
             \/ \E c \in Codes : IssueCommit(d, c)
      PROVE  ClientInv'
  <2>1. request' = [request EXCEPT ![d] = Idle] /\ UNCHANGED <<current, lost, device>>
    BY <1>2 DEF BumpVersion, ResetCommit, CreateCommit, IssueCommit,
                Finish, Start, sessionVars, clientVars
  <2> QED
    BY <1>0, <2>1, OthersKeepClients
<1>3. ASSUME NEW d \in Devices, OtpSave(d) PROVE ClientInv'
  <2>1. request' = [request EXCEPT ![d] = Idle] /\ UNCHANGED <<current, lost>>
    BY <1>3 DEF OtpSave, Finish, Start, sessionVars
  <2>2. \A e \in Devices : /\ device'[e].session = device[e].session
                           /\ device'[e].token = device[e].token
                           /\ e # d => device'[e] = device[e]
    BY <1>3, <1>t DEF OtpSave, DeviceState
  <2> QED
    BY <1>0, <2>1, <2>2, OthersKeepClients
<1>4. ASSUME NEW d \in Devices, LogoutAll(d) \/ RegisterCommit(d) PROVE ClientInv'
  <2>1. /\ request' = [request EXCEPT ![d] = request'[d]]
        /\ UNCHANGED <<current, lost, device>>
        /\ request'[d].op \in {"bump", "login"}
    BY <1>4, <1>t DEF LogoutAll, RegisterCommit, Start, sessionVars, clientVars
  <2>2. PICK q \in Requests : q = request'[d]
    BY DEF Shape, TypeOK
  <2> QED
    BY <2>1, <2>2, OthersKeepClients
<1>5. ASSUME NEW c \in Codes, Ages(c) PROVE ClientInv'
  BY <1>5 DEF Ages, ClientInv, ClientTokenIsCurrent, InUse, sessionVars, clientVars
<1>6. CASE UNCHANGED vars
  BY <1>6 DEF vars, ClientInv, ClientTokenIsCurrent, InUse, sessionVars, clientVars
<1> QED
  BY <1>1, <1>2, <1>3, <1>4, <1>5, <1>6, SessionsKeepClients
     DEF Next, SessionStep, CodeStep, AccountStep, Reads

(* A client that got every answer holds the token its session was last      *)
(* saved with.                                                              *)
THEOREM ClientTokenIsAlwaysCurrent == Spec => []ClientTokenIsCurrent
<1>1. ClientInv => ClientTokenIsCurrent
  BY DEF ClientInv
<1> QED
  BY <1>1, ShapeInit, ShapeStep, ClientInit, ClientStep, PTL DEF Spec
=============================================================================
