--------------------------- MODULE IdentityProofs ---------------------------
(***************************************************************************)
(* The identity packages, for any number of people, tenants, accounts and  *)
(* calls in flight: every table keeps its type, and the directory of a     *)
(* tenant agrees with the memberships.                                     *)
(***************************************************************************)
EXTENDS IdentitySystem, FiniteSetTheorems, TLAPS

-----------------------------------------------------------------------------
(***************************************************************************)
(* The invariant.  The types alone are not inductive: a call must be about *)
(* a row of the right table, a journey to be extended must exist, and so   *)
(* must the person of a membership that is reactivated.                    *)
(***************************************************************************)
AccountOps == {"LOGIN", "CHANGE_PASSWORD", "RESET_PASSWORD", "ISSUE_TOKEN", "REQUEST_REACTIVATION"}
MemberOps  == {"ENABLE_AUTHENTICATION", "CREATE_JOURNEY"}
ActorOps   == {"CREATE_ACCOUNT", "ACTIVATE_ACTOR", "DEACTIVATE_ACTOR"}
GrantOps   == {"GRANT_ROLE", "REVOKE_GRANT"}

Aimed(call) ==
    /\ call.op \in AccountOps => call.on \in Accounts
    /\ call.op \in MemberOps => call.on \in Members
    /\ call.op \in ActorOps => call.on \in Actors
    /\ call.op \in GrantOps => call.on \in GrantKeys
    /\ call.op = "EXTEND_JOURNEY" => call.on \in JourneyIds
    /\ call.op = "REVOKE_GRANT" => call.row # None
    /\ call.op = "LOGIN" => call.ref \in SessionIds \cup {None}
    /\ call.op = "RESET_PASSWORD" => call.ref \in TokenIds

CallsAimed == \A c \in Callers : calls[c] # None => Aimed(calls[c])

ExtensionsAimed == \A c \in Callers : Running(c, "EXTEND_JOURNEY") => journeys[calls[c].on] # None

PersonsKnown == \A m \in Members : memberships[m] # None => people[PersonOf(m)] # None

IdentityInv == IdentityTypeOK /\ CallsAimed /\ ExtensionsAimed /\ PersonsKnown

LEMMA InitialIdentity == Init => IdentityInv
  BY DEF Init, IdentityInv, IdentityTypeOK, CallsAimed, ExtensionsAimed, PersonsKnown, Running

-----------------------------------------------------------------------------
(***************************************************************************)
(* Many operations only read and then start a call.                        *)
(***************************************************************************)
StartStep ==
    \E c \in Callers, call \in Call :
        /\ Aimed(call)
        /\ call.op = "LOGIN" => call.ref = None
        /\ call.op = "EXTEND_JOURNEY" => journeys[call.on] # None
        /\ call.op = "RESET_PASSWORD" => tokens[call.ref] = call.on /\ ActiveAccount(call.on)
        /\ call.op \in ActorOps => actors[call.on] # None
        /\ Start(c, call)
        /\ UNCHANGED nothingYet

LEMMA NewCallType ==
    ASSUME NEW op \in CallOps, NEW on \in Accounts \cup Actors \cup GrantKeys \cup JourneyIds
    PROVE  /\ NewCall(op, on) \in Call
           /\ NewCall(op, on).op = op /\ NewCall(op, on).on = on
           /\ NewCall(op, on).ref = None /\ NewCall(op, on).row = None
  BY IdentityConstants DEF NewCall, Call

\* A call about an account, an actor or a member.
LEMMA PlainStart ==
    ASSUME NEW c \in Callers, NEW op \in CallOps, NEW on,
           Start(c, NewCall(op, on)), UNCHANGED nothingYet,
           \/ op \in AccountOps \ {"RESET_PASSWORD"} /\ on \in Accounts
           \/ op \in MemberOps /\ on \in Members
           \/ op \in ActorOps /\ on \in Actors /\ actors[on] # None
    PROVE  StartStep
  <1> DEFINE call == NewCall(op, on)
  <1>1. on \in Accounts \cup Actors
    BY DEF Actors
  <1>2. call \in Call /\ call.op = op /\ call.on = on /\ call.ref = None
    BY <1>1, NewCallType
  <1> HIDE DEF call
  <1>3. Aimed(call)
    BY <1>2 DEF Aimed, AccountOps, MemberOps, ActorOps, GrantOps
  <1>4. /\ call.op \notin {"EXTEND_JOURNEY", "RESET_PASSWORD"}
        /\ call.op \in ActorOps => actors[call.on] # None
    BY <1>2 DEF AccountOps, MemberOps, ActorOps
  <1>5. Start(c, call)
    BY DEF call
  <1> QED BY <1>2, <1>3, <1>4, <1>5 DEF StartStep

\* A call that also keeps what it has read.
LEMMA SessionStarts ==
    ASSUME IdentityInv, NEW c \in Callers,
           \/ \E a \in Accounts : Login(c, a)
           \/ \E s \in SessionIds : ChangePassword(c, s)
    PROVE  StartStep
  <1>1. ASSUME NEW a \in Accounts, Login(c, a) PROVE StartStep
    BY <1>1, PlainStart DEF Login, AccountOps, CallOps
  <1>2. ASSUME NEW s \in SessionIds, ChangePassword(c, s) PROVE StartStep
    <2>1. sessions[s] \in Accounts
      BY <1>2 DEF ChangePassword, Delivered, IdentityInv, IdentityTypeOK
    <2> QED BY <1>2, <2>1, PlainStart DEF ChangePassword, AccountOps, CallOps
  <1> QED BY <1>1, <1>2

LEMMA RecoveryStarts ==
    ASSUME IdentityInv, NEW c \in Callers,
           \/ \E a \in Accounts : IssuePasswordResetToken(c, a) \/ RequestSelfReactivation(c, a)
           \/ \E m \in Members : \/ IssueTenantPersonPasswordResetToken(c, m)
                                 \/ RequestTenantPersonReactivation(c, m)
           \/ \E k \in TokenIds : ResetPassword(c, k)
    PROVE  StartStep
  <1>1. ASSUME NEW a \in Accounts, IssuePasswordResetToken(c, a) PROVE StartStep
    BY <1>1, PlainStart DEF IssuePasswordResetToken, AccountOps, CallOps
  <1>2. ASSUME NEW a \in Accounts, RequestSelfReactivation(c, a) PROVE StartStep
    BY <1>2, PlainStart DEF RequestSelfReactivation, AccountOps, CallOps
  <1>3. \A m \in Members : PersonOf(m) \in Accounts
    BY DEF Members, PersonOf, Accounts
  <1>4. ASSUME NEW m \in Members, IssueTenantPersonPasswordResetToken(c, m) PROVE StartStep
    BY <1>1, <1>3, <1>4 DEF IssueTenantPersonPasswordResetToken
  <1>5. ASSUME NEW m \in Members, RequestTenantPersonReactivation(c, m) PROVE StartStep
    BY <1>3, <1>5, PlainStart DEF RequestTenantPersonReactivation, AccountOps, CallOps
  <1>6. ASSUME NEW k \in TokenIds, ResetPassword(c, k) PROVE StartStep
    <2> DEFINE call == [NewCall("RESET_PASSWORD", tokens[k]) EXCEPT !.ref = k]
    <2>1. tokens[k] \in Accounts
      BY <1>6 DEF ResetPassword, IdentityInv, IdentityTypeOK
    <2>2. call \in Call /\ call.op = "RESET_PASSWORD" /\ call.on = tokens[k] /\ call.ref = k
      BY <2>1, IdentityConstants DEF NewCall, Call, CallOps
    <2>3. Start(c, call) /\ UNCHANGED nothingYet /\ ActiveAccount(tokens[k])
      BY <1>6 DEF ResetPassword
    <2> HIDE DEF call
    <2>4. Aimed(call) /\ call.op \notin ActorOps
      BY <2>1, <2>2 DEF Aimed, AccountOps, MemberOps, ActorOps, GrantOps
    <2> QED BY <2>2, <2>3, <2>4 DEF StartStep
  <1> QED BY <1>1, <1>2, <1>4, <1>5, <1>6

LEMMA AuthorizationStarts ==
    ASSUME IdentityInv, NEW c \in Callers,
           \/ \E m \in Members : EnablePersonAuthentication(c, m) \/ CreateJourney(c, m)
           \/ \E x \in Actors : CreateAccount(c, x)
           \/ \E x \in Actors, active \in BOOLEAN :
                 SetActorActive(c, x, active) \/ (x \in Members /\ SetTenantActorActive(c, x, active))
    PROVE  StartStep
  <1>1. ASSUME NEW m \in Members, EnablePersonAuthentication(c, m) PROVE StartStep
    BY <1>1, PlainStart DEF EnablePersonAuthentication, MemberOps, CallOps
  <1>2. ASSUME NEW m \in Members, CreateJourney(c, m) PROVE StartStep
    <2>1. UNCHANGED nothingYet
      BY <1>2 DEF CreateJourney, nothingYet, journeysOnly
    <2> QED BY <1>2, <2>1, PlainStart DEF CreateJourney, MemberOps, CallOps
  <1>3. ASSUME NEW x \in Actors, CreateAccount(c, x) PROVE StartStep
    <2>1. actors[x] # None
      BY <1>3, IdentityConstants DEF CreateAccount, ActorHasActiveTenantAccess
    <2> QED BY <1>3, <2>1, PlainStart DEF CreateAccount, ActorOps, CallOps
  <1>4. ASSUME NEW x \in Actors, NEW active \in BOOLEAN,
               SetActorActive(c, x, active) \/ SetTenantActorActive(c, x, active)
        PROVE  StartStep
    <2> DEFINE op == IF active THEN "ACTIVATE_ACTOR" ELSE "DEACTIVATE_ACTOR"
    <2>1. op \in ActorOps /\ op \in CallOps
      BY DEF ActorOps, CallOps
    <2>2. Start(c, NewCall(op, x)) /\ UNCHANGED nothingYet /\ actors[x] # None
      BY <1>4, IdentityConstants DEF SetActorActive, SetTenantActorActive
    <2> HIDE DEF op
    <2> QED BY <2>1, <2>2, PlainStart
  <1> QED BY <1>1, <1>2, <1>3, <1>4

\* A grant or a revocation remembers the row it has read.
LEMMA GrantStarts ==
    ASSUME IdentityInv, NEW c \in Callers, NEW g \in GrantKeys,
           \/ GrantActorRole(c, g) \/ RevokeActorRoleGrant(c, g)
           \/ /\ g[2] = "EXPENSE_OPERATOR"
              /\ GrantTenantOperatorRole(c, g[1]) \/ RevokeTenantOperatorRoleGrant(c, g[1])
    PROVE  StartStep
  <1>1. ASSUME NEW k \in GrantKeys, NEW op \in GrantOps, op = "REVOKE_GRANT" => grants[k] # None,
               Start(c, [NewCall(op, k) EXCEPT !.row = grants[k]]), UNCHANGED nothingYet
        PROVE  StartStep
    <2> DEFINE call == [NewCall(op, k) EXCEPT !.row = grants[k]]
    <2>1. grants[k] \in Grant \cup {None}
      BY DEF IdentityInv, IdentityTypeOK
    <2>2. call \in Call /\ call.op = op /\ call.on = k /\ call.row = grants[k]
      BY <2>1, IdentityConstants DEF NewCall, Call, CallOps, GrantOps
    <2>3. Start(c, call)
      BY <1>1
    <2> HIDE DEF call
    <2>4. Aimed(call) /\ call.op \notin ({"LOGIN", "EXTEND_JOURNEY", "RESET_PASSWORD"} \cup ActorOps)
      BY <1>1, <2>2 DEF Aimed, AccountOps, MemberOps, ActorOps, GrantOps
    <2> QED BY <1>1, <2>2, <2>3, <2>4 DEF StartStep
  <1>2. ASSUME NEW k \in GrantKeys, GrantActorRole(c, k) PROVE StartStep
    BY <1>1, <1>2 DEF GrantActorRole, GrantOps
  <1>3. ASSUME RevokeActorRoleGrant(c, g) PROVE StartStep
    BY <1>1, <1>3 DEF RevokeActorRoleGrant, Held, GrantOps
  <1>4. g[2] = "EXPENSE_OPERATOR" => Operator(g[1]) = g
    BY DEF GrantKeys, AdminKeys, Operator
  <1>5. ASSUME g[2] = "EXPENSE_OPERATOR", GrantTenantOperatorRole(c, g[1]) PROVE StartStep
    BY <1>2, <1>4, <1>5 DEF GrantTenantOperatorRole
  <1>6. ASSUME g[2] = "EXPENSE_OPERATOR", RevokeTenantOperatorRoleGrant(c, g[1]) PROVE StartStep
    BY <1>1, <1>4, <1>6 DEF RevokeTenantOperatorRoleGrant, Held, GrantOps
  <1> QED BY <1>2, <1>3, <1>5, <1>6

LEMMA ExtensionStarts ==
    ASSUME IdentityInv, NEW c \in Callers, NEW j \in JourneyIds, ExtendJourney(c, j, 1)
    PROVE  StartStep
  <1> DEFINE days == journeys[j].extension + 1
             call == [NewCall("EXTEND_JOURNEY", j) EXCEPT !.days = days]
  <1>1. journeys[j] # None /\ days <= MaxExtension /\ Start(c, call) /\ UNCHANGED nothingYet
    BY DEF ExtendJourney, nothingYet, journeysOnly
  <1>2. days \in 0..MaxExtension
    BY <1>1, IdentityConstants DEF IdentityInv, IdentityTypeOK, Journey
  <1> HIDE DEF days
  <1>3. call \in Call /\ call.op = "EXTEND_JOURNEY" /\ call.on = j
    BY <1>2, IdentityConstants DEF NewCall, Call, CallOps
  <1> HIDE DEF call
  <1>4. Aimed(call) /\ call.op \notin ActorOps
    BY <1>3 DEF Aimed, AccountOps, MemberOps, ActorOps, GrantOps
  <1> QED BY <1>1, <1>3, <1>4 DEF StartStep

-----------------------------------------------------------------------------
(***************************************************************************)
(* Types are kept, one table after the other.                              *)
(***************************************************************************)
CallsType == calls \in [Callers -> Call \cup {None}]

\* Calls end or stay, and journeys stay.
LEMMA CallsKept ==
    ASSUME IdentityInv, CallsType', \A c \in Callers : calls'[c] \in {calls[c], None},
           \A j \in JourneyIds : journeys[j] # None => journeys'[j] # None
    PROVE  CallsAimed' /\ ExtensionsAimed'
  <1>1. CallsAimed'
    BY DEF IdentityInv, CallsAimed, Aimed
  <1>2. ASSUME NEW c \in Callers, Running(c, "EXTEND_JOURNEY")' PROVE (journeys[calls[c].on] # None)'
    <2>1. calls'[c] = calls[c] /\ Running(c, "EXTEND_JOURNEY")
      BY <1>2 DEF Running
    <2>2. calls[c].on \in JourneyIds /\ journeys[calls[c].on] # None
      BY <2>1 DEF IdentityInv, CallsAimed, ExtensionsAimed, Aimed, Running
    <2> QED BY <2>1, <2>2
  <1> QED BY <1>1, <1>2 DEF ExtensionsAimed

LEMMA FinishType ==
    ASSUME IdentityInv, NEW c \in Callers, Finish(c)
    PROVE  CallsType' /\ \A d \in Callers : calls'[d] \in {calls[d], None}
  BY DEF Finish, CallsType, IdentityInv, IdentityTypeOK

LEMMA SameCalls ==
    ASSUME IdentityInv, UNCHANGED calls
    PROVE  CallsType' /\ \A d \in Callers : calls'[d] \in {calls[d], None}
  BY DEF CallsType, IdentityInv, IdentityTypeOK

LEMMA StartKeeps ==
    ASSUME IdentityInv, StartStep
    PROVE  IdentityInv'
  <1>1. PICK c \in Callers, call \in Call :
            /\ Aimed(call) /\ (call.op = "EXTEND_JOURNEY" => journeys[call.on] # None)
            /\ Start(c, call) /\ UNCHANGED nothingYet
    BY DEF StartStep
  <1>2. calls' = [calls EXCEPT ![c] = call] /\ calls \in [Callers -> Call \cup {None}]
    BY <1>1 DEF Start, IdentityInv, IdentityTypeOK
  <1>3. IdentityTypeOK' /\ PersonsKnown'
    BY <1>1, <1>2 DEF IdentityInv, IdentityTypeOK, PersonsKnown, nothingYet, directoryVars, accountVars, authzVars
  <1>4. \A d \in Callers : calls'[d] = IF d = c THEN call ELSE calls[d]
    BY <1>2
  <1>5. CallsAimed'
    BY <1>1, <1>4 DEF IdentityInv, CallsAimed, Aimed
  <1>6. ExtensionsAimed'
    BY <1>1, <1>4 DEF IdentityInv, ExtensionsAimed, Running, nothingYet
  <1> QED BY <1>3, <1>5, <1>6 DEF IdentityInv

\* Grants.
LEMMA GrantsKeep ==
    ASSUME IdentityInv, UNCHANGED grantsOnly, grants' \in [GrantKeys -> Grant \cup {None}],
           CallsType', \A c \in Callers : calls'[c] \in {calls[c], None}
    PROVE  IdentityInv'
  <1>1. CallsAimed' /\ ExtensionsAimed'
    BY CallsKept DEF grantsOnly
  <1> QED BY <1>1 DEF IdentityInv, IdentityTypeOK, PersonsKnown, CallsType, grantsOnly, directoryVars, accountVars

LEMMA GrantStepsKeep ==
    ASSUME IdentityInv,
           \/ \E m \in Members : AssignTenantAdmin(m) \/ RevokeTenantAdmin(m)
           \/ \E c \in Callers : SaveGrant(c) \/ SaveRevocation(c)
    PROVE  IdentityInv'
  <1>1. grants \in [GrantKeys -> Grant \cup {None}]
    BY DEF IdentityInv, IdentityTypeOK
  <1>2. \A m \in Members : TenantAdmin(m) \in GrantKeys
    BY DEF TenantAdmin, GrantKeys, AdminKeys
  <1>3. [active |-> TRUE, suspended |-> FALSE] \in Grant
        /\ \A r \in Grant, b \in BOOLEAN : [r EXCEPT !.active = b] \in Grant
    BY DEF Grant
  <1>4. ASSUME NEW m \in Members, AssignTenantAdmin(m) PROVE IdentityInv'
    <2> DEFINE row == IF grants[TenantAdmin(m)] = None THEN [active |-> TRUE, suspended |-> FALSE]
                      ELSE [grants[TenantAdmin(m)] EXCEPT !.active = TRUE]
    <2>1. grants' = [grants EXCEPT ![TenantAdmin(m)] = row]
      BY <1>4 DEF AssignTenantAdmin
    <2>2. row \in Grant
      BY <1>1, <1>2, <1>3
    <2> HIDE DEF row
    <2>3. grants' \in [GrantKeys -> Grant \cup {None}]
      BY <1>1, <2>1, <2>2
    <2> QED BY <1>4, <2>3, SameCalls, GrantsKeep DEF AssignTenantAdmin
  <1>5. ASSUME NEW m \in Members, RevokeTenantAdmin(m) PROVE IdentityInv'
    <2>1. grants' = [grants EXCEPT ![TenantAdmin(m)] = [grants[TenantAdmin(m)] EXCEPT !.active = FALSE]]
          /\ grants[TenantAdmin(m)] # None
      BY <1>5 DEF RevokeTenantAdmin, Held
    <2>2. [grants[TenantAdmin(m)] EXCEPT !.active = FALSE] \in Grant
      BY <1>1, <1>2, <1>3, <2>1
    <2>3. grants' \in [GrantKeys -> Grant \cup {None}]
      BY <1>1, <2>1, <2>2
    <2> QED BY <1>5, <2>3, SameCalls, GrantsKeep DEF RevokeTenantAdmin
  <1>6. ASSUME NEW c \in Callers, SaveGrant(c) PROVE IdentityInv'
    <2>1. grants' \in [GrantKeys -> Grant \cup {None}]
      BY <1>1, <1>3, <1>6 DEF SaveGrant
    <2> QED BY <1>6, <2>1, FinishType, GrantsKeep DEF SaveGrant
  <1>7. ASSUME NEW c \in Callers, SaveRevocation(c) PROVE IdentityInv'
    <2>1. calls[c].row \in Grant
      BY <1>7 DEF SaveRevocation, Running, IdentityInv, IdentityTypeOK, CallsAimed, Aimed, Call
    <2>2. [calls[c].row EXCEPT !.active = FALSE] \in Grant
      BY <1>3, <2>1
    <2>3. grants' \in [GrantKeys -> Grant \cup {None}]
      BY <1>1, <1>7, <2>2 DEF SaveRevocation
    <2> QED BY <1>7, <2>3, FinishType, GrantsKeep DEF SaveRevocation
  <1> QED BY <1>4, <1>5, <1>6, <1>7

\* Sessions, tokens and requests, whatever else of the account they go with.
credentialTables == <<directoryVars, authzVars, leases, journeys>>

LEMMA CredentialsKeep ==
    ASSUME IdentityInv, UNCHANGED credentialTables,
           accounts' \in [Accounts -> Account \cup {None}],
           sessions' \in [SessionIds -> Accounts \cup {None}],
           tokens' \in [TokenIds -> Accounts \cup {None}],
           requests' \in SUBSET Accounts,
           CallsType', CallsAimed', \A c \in Callers : Running(c, "EXTEND_JOURNEY")' =>
               Running(c, "EXTEND_JOURNEY") /\ calls'[c].on = calls[c].on
    PROVE  IdentityInv'
  <1>1. ExtensionsAimed'
    BY DEF IdentityInv, ExtensionsAimed, credentialTables
  <1> QED BY <1>1 DEF IdentityInv, IdentityTypeOK, PersonsKnown, CallsType, credentialTables,
                      directoryVars, authzVars

\* The same when calls only end.
LEMMA CredentialsEnd ==
    ASSUME IdentityInv, UNCHANGED credentialTables,
           accounts' \in [Accounts -> Account \cup {None}],
           sessions' \in [SessionIds -> Accounts \cup {None}],
           tokens' \in [TokenIds -> Accounts \cup {None}],
           requests' \in SUBSET Accounts,
           CallsType', \A c \in Callers : calls'[c] \in {calls[c], None}
    PROVE  IdentityInv'
  <1>1. CallsAimed'
    BY CallsKept DEF credentialTables
  <1>2. \A c \in Callers : Running(c, "EXTEND_JOURNEY")' =>
           Running(c, "EXTEND_JOURNEY") /\ calls'[c].on = calls[c].on
    BY DEF Running
  <1> QED BY <1>1, <1>2, CredentialsKeep

LEMMA EndedTypes ==
    ASSUME IdentityInv, NEW a
    PROVE  /\ RevokeSessions(a) => sessions' \in [SessionIds -> Accounts \cup {None}]
           /\ InvalidatePasswordResetTokens(a) => tokens' \in [TokenIds -> Accounts \cup {None}]
  BY DEF IdentityInv, IdentityTypeOK, RevokeSessions, InvalidatePasswordResetTokens

LEMMA AccountTypes ==
    IdentityInv => /\ accounts \in [Accounts -> Account \cup {None}]
                   /\ sessions \in [SessionIds -> Accounts \cup {None}]
                   /\ tokens \in [TokenIds -> Accounts \cup {None}]
                   /\ requests \in SUBSET Accounts
                   /\ calls \in [Callers -> Call \cup {None}]
  BY DEF IdentityInv, IdentityTypeOK

LEMMA SessionStepsKeep ==
    ASSUME IdentityInv,
           \/ \E c \in Callers, s \in SessionIds : CreateSession(c, s)
           \/ \E c \in Callers, ok \in BOOLEAN : LoginRecheck(c, ok)
           \/ \E s \in SessionIds : Logout(s) \/ \E expired \in BOOLEAN : ResolveSession(s, expired)
           \/ \E c \in Callers : UpdatePasswordAndRevokeSessions(c)
    PROVE  IdentityInv'
  <1> USE AccountTypes
  <1>1. ASSUME NEW c \in Callers, NEW s \in SessionIds, CreateSession(c, s) PROVE IdentityInv'
    <2>1. calls[c] \in Call /\ calls[c].op = "LOGIN" /\ calls[c].on \in Accounts
      BY <1>1 DEF CreateSession, Running, IdentityInv, CallsAimed, Aimed, AccountOps
    <2> DEFINE call == [calls[c] EXCEPT !.ref = s]
    <2>2. call \in Call /\ call.op = "LOGIN" /\ call.on = calls[c].on /\ call.ref = s
      BY <2>1 DEF Call
    <2>3. calls' = [calls EXCEPT ![c] = call]
      BY <1>1 DEF CreateSession
    <2> HIDE DEF call
    <2>4. CallsType' /\ \A d \in Callers : calls'[d] = IF d = c THEN call ELSE calls[d]
      BY <2>2, <2>3 DEF CallsType
    <2>5. Aimed(call)
      BY <2>1, <2>2 DEF Aimed, AccountOps, MemberOps, ActorOps, GrantOps
    <2>6. CallsAimed'
      BY <2>4, <2>5 DEF IdentityInv, CallsAimed, Aimed
    <2>7. \A d \in Callers : Running(d, "EXTEND_JOURNEY")' =>
             Running(d, "EXTEND_JOURNEY") /\ calls'[d].on = calls[d].on
      BY <2>2, <2>4 DEF Running
    <2>8. sessions' \in [SessionIds -> Accounts \cup {None}]
      BY <1>1, <2>1 DEF CreateSession
    <2>9. UNCHANGED <<credentialTables, accounts, tokens, requests>>
      BY <1>1 DEF CreateSession, sessionsOnly, credentialTables
    <2> QED BY <2>4, <2>6, <2>7, <2>8, <2>9, CredentialsKeep
  <1>2. ASSUME NEW c \in Callers, NEW ok \in BOOLEAN, LoginRecheck(c, ok) PROVE IdentityInv'
    <2>1. sessions' \in [SessionIds -> Accounts \cup {None}]
      BY <1>2 DEF LoginRecheck
    <2>2. Finish(c) /\ UNCHANGED <<credentialTables, accounts, tokens, requests>>
      BY <1>2 DEF LoginRecheck, sessionsOnly, credentialTables
    <2> QED BY <2>1, <2>2, FinishType, CredentialsEnd
  <1>3. ASSUME NEW s \in SessionIds, NEW expired \in BOOLEAN, Logout(s) \/ ResolveSession(s, expired)
        PROVE  IdentityInv'
    <2>1. sessions' \in [SessionIds -> Accounts \cup {None}]
      BY <1>3 DEF Logout, ResolveSession
    <2>2. UNCHANGED <<credentialTables, accounts, tokens, requests, calls>>
      BY <1>3 DEF Logout, ResolveSession, sessionsOnly, credentialTables
    <2> QED BY <2>1, <2>2, SameCalls, CredentialsEnd
  <1>4. ASSUME NEW c \in Callers, UpdatePasswordAndRevokeSessions(c) PROVE IdentityInv'
    <2>1. UNCHANGED <<credentialTables, accounts, requests>> /\ Finish(c)
      BY <1>4 DEF UpdatePasswordAndRevokeSessions, credentials, credentialTables
    <2>2. sessions' \in [SessionIds -> Accounts \cup {None}] /\ tokens' \in [TokenIds -> Accounts \cup {None}]
      BY <1>4, EndedTypes DEF UpdatePasswordAndRevokeSessions
    <2> QED BY <2>1, <2>2, FinishType, CredentialsEnd
  <1> QED BY <1>1, <1>2, <1>3, <1>4

LEMMA RecoveryStepsKeep ==
    ASSUME IdentityInv,
           \/ \E c \in Callers, k \in TokenIds : CreatePasswordResetToken(c, k)
           \/ \E c \in Callers, expired \in BOOLEAN : ConsumePasswordResetToken(c, expired)
           \/ \E c \in Callers : CreateOrRefreshReactivationRequest(c)
           \/ \E a \in Accounts, yes \in BOOLEAN : ReviewReactivationRequest(a, yes) \/ SetAccountActive(a, yes)
    PROVE  IdentityInv'
  <1> USE AccountTypes
  <1>1. ASSUME NEW c \in Callers, NEW k \in TokenIds, CreatePasswordResetToken(c, k) PROVE IdentityInv'
    <2>1. calls[c].on \in Accounts
      BY <1>1 DEF CreatePasswordResetToken, Running, IdentityInv, CallsAimed, Aimed, AccountOps
    <2>2. tokens' \in [TokenIds -> Accounts \cup {None}]
      BY <1>1, <2>1 DEF CreatePasswordResetToken
    <2>3. UNCHANGED <<credentialTables, accounts, sessions, requests>> /\ Finish(c)
      BY <1>1 DEF CreatePasswordResetToken, credentials, credentialTables
    <2> QED BY <2>2, <2>3, FinishType, CredentialsEnd
  <1>2. ASSUME NEW c \in Callers, NEW expired \in BOOLEAN, ConsumePasswordResetToken(c, expired)
        PROVE  IdentityInv'
    <2>1. sessions' \in [SessionIds -> Accounts \cup {None}] /\ tokens' \in [TokenIds -> Accounts \cup {None}]
      BY <1>2, EndedTypes DEF ConsumePasswordResetToken
    <2>2. UNCHANGED <<credentialTables, accounts, requests>> /\ Finish(c)
      BY <1>2 DEF ConsumePasswordResetToken, credentials, credentialTables
    <2> QED BY <2>1, <2>2, FinishType, CredentialsEnd
  <1>3. ASSUME NEW c \in Callers, CreateOrRefreshReactivationRequest(c) PROVE IdentityInv'
    <2>1. calls[c].on \in Accounts
      BY <1>3 DEF CreateOrRefreshReactivationRequest, Running, IdentityInv, CallsAimed, Aimed, AccountOps
    <2>2. requests' \in SUBSET Accounts
      BY <1>3, <2>1 DEF CreateOrRefreshReactivationRequest
    <2>3. UNCHANGED <<credentialTables, accounts, sessions, tokens>> /\ Finish(c)
      BY <1>3 DEF CreateOrRefreshReactivationRequest, credentialTables
    <2> QED BY <2>2, <2>3, FinishType, CredentialsEnd
  <1>4. ASSUME NEW a \in Accounts, NEW yes \in BOOLEAN, ReviewReactivationRequest(a, yes) PROVE IdentityInv'
    <2>1. accounts' \in [Accounts -> Account \cup {None}]
      <3>1. EffectiveActive(a) \in BOOLEAN
        BY DEF EffectiveActive
      <3>2. [active |-> EffectiveActive(a), suspended |-> FALSE] \in Account
        BY <3>1 DEF Account
      <3> QED BY <1>4, <3>2 DEF ReviewReactivationRequest
    <2>2. sessions' \in [SessionIds -> Accounts \cup {None}]
      BY <1>4, EndedTypes DEF ReviewReactivationRequest
    <2>3. requests' \in SUBSET Accounts /\ UNCHANGED <<credentialTables, tokens, calls>>
      BY <1>4 DEF ReviewReactivationRequest, credentialTables
    <2> QED BY <2>1, <2>2, <2>3, SameCalls, CredentialsEnd
  <1>5. ASSUME NEW a \in Accounts, NEW yes \in BOOLEAN, SetAccountActive(a, yes) PROVE IdentityInv'
    <2> DEFINE effective == yes /\ EffectiveActive(a)
    <2>1. [active |-> effective, suspended |-> ~yes] \in Account
      BY DEF Account
    <2>2. accounts' = [accounts EXCEPT ![a] = [active |-> effective, suspended |-> ~yes]]
          /\ (IF effective THEN UNCHANGED <<sessions, tokens>>
              ELSE RevokeSessions(a) /\ InvalidatePasswordResetTokens(a))
      BY <1>5 DEF SetAccountActive
    <2> HIDE DEF effective
    <2>3. accounts' \in [Accounts -> Account \cup {None}]
      BY <2>1, <2>2
    <2>4. sessions' \in [SessionIds -> Accounts \cup {None}] /\ tokens' \in [TokenIds -> Accounts \cup {None}]
      BY <2>2, EndedTypes
    <2>5. UNCHANGED <<credentialTables, requests, calls>>
      BY <1>5 DEF SetAccountActive, credentialTables
    <2> QED BY <2>3, <2>4, <2>5, SameCalls, CredentialsEnd
  <1> QED BY <1>1, <1>2, <1>3, <1>4, <1>5

\* Accounts and the authorization tables.
bindingTables == <<directoryVars, leases, journeys>>

LEMMA BindingsKeep ==
    ASSUME IdentityInv, UNCHANGED bindingTables,
           accounts' \in [Accounts -> Account \cup {None}],
           sessions' \in [SessionIds -> Accounts \cup {None}],
           tokens' \in [TokenIds -> Accounts \cup {None}],
           requests' \in SUBSET Accounts,
           actors' \in [Actors -> BOOLEAN \cup {None}],
           bound' \in SUBSET Actors,
           grants' \in [GrantKeys -> Grant \cup {None}],
           CallsType', \A c \in Callers : calls'[c] \in {calls[c], None}
    PROVE  IdentityInv'
  <1>1. CallsAimed' /\ ExtensionsAimed'
    BY CallsKept DEF bindingTables
  <1> QED BY <1>1 DEF IdentityInv, IdentityTypeOK, PersonsKnown, CallsType, bindingTables, directoryVars

LEMMA AuthzTypes ==
    IdentityInv => /\ actors \in [Actors -> BOOLEAN \cup {None}]
                   /\ bound \in SUBSET Actors
                   /\ grants \in [GrantKeys -> Grant \cup {None}]
  BY DEF IdentityInv, IdentityTypeOK

LEMMA NewAccountType ==
    ASSUME IdentityInv, NEW a, CreateAuthenticationAccount(a)
    PROVE  accounts' \in [Accounts -> Account \cup {None}]
  <1>1. [active |-> TRUE, suspended |-> FALSE] \in Account
    BY DEF Account
  <1> QED BY <1>1, AccountTypes DEF CreateAuthenticationAccount

LEMMA AccountCreationKeeps ==
    ASSUME IdentityInv,
           \/ \E m \in Members : CreatePersonAccount(m)
           \/ \E c \in Callers : EnableCreateAccount(c) \/ CreateAccountTx(c)
           \/ \E x \in Actors, active \in BOOLEAN : CreateActor(x, active)
           \/ EnsureAccountActorFoundation
    PROVE  IdentityInv'
  <1> USE AccountTypes, AuthzTypes
  <1>1. ASSUME NEW m \in Members, CreatePersonAccountTx(m)
        PROVE  /\ accounts' \in [Accounts -> Account \cup {None}]
               /\ actors' \in [Actors -> BOOLEAN \cup {None}] /\ bound' \in SUBSET Actors
    <2>1. m \in Actors
      BY DEF Actors
    <2>2. accounts' \in [Accounts -> Account \cup {None}]
      BY <1>1, NewAccountType DEF CreatePersonAccountTx
    <2> QED BY <1>1, <2>1, <2>2 DEF CreatePersonAccountTx, EnsurePersonTenantActor, EnsureAccountActorBinding
  <1>2. ASSUME NEW m \in Members, CreatePersonAccount(m) PROVE IdentityInv'
    <2>1. UNCHANGED <<bindingTables, sessions, tokens, requests, grants, calls>>
      BY <1>2 DEF CreatePersonAccount, accountCreation, bindingTables
    <2>2. CreatePersonAccountTx(m)
      BY <1>2 DEF CreatePersonAccount
    <2> QED BY <1>1, <2>1, <2>2, SameCalls, BindingsKeep
  <1>3. ASSUME NEW c \in Callers, EnableCreateAccount(c) PROVE IdentityInv'
    <2>1. calls[c].on \in Members
      BY <1>3 DEF EnableCreateAccount, Running, IdentityInv, CallsAimed, Aimed, MemberOps
    <2>2. UNCHANGED <<bindingTables, sessions, tokens, requests, grants>> /\ Finish(c)
      BY <1>3 DEF EnableCreateAccount, accountCreation, bindingTables
    <2>3. CreatePersonAccountTx(calls[c].on) \/ UNCHANGED <<accounts, actors, bound>>
      BY <1>3 DEF EnableCreateAccount
    <2> QED BY <1>1, <2>1, <2>2, <2>3, FinishType, BindingsKeep
  <1>4. ASSUME NEW c \in Callers, CreateAccountTx(c) PROVE IdentityInv'
    <2>1. calls[c].on \in Actors
      BY <1>4 DEF CreateAccountTx, Running, IdentityInv, CallsAimed, Aimed, ActorOps
    <2>2. bound' \in SUBSET Actors
      BY <1>4, <2>1 DEF CreateAccountTx, FoundationBinding
    <2>3. accounts' \in [Accounts -> Account \cup {None}]
      BY <1>4, NewAccountType DEF CreateAccountTx
    <2>4. UNCHANGED <<bindingTables, sessions, tokens, requests, grants, actors>> /\ Finish(c)
      BY <1>4 DEF CreateAccountTx, accountCreation, bindingTables
    <2> QED BY <2>2, <2>3, <2>4, FinishType, BindingsKeep
  <1>5. ASSUME NEW x \in Actors, NEW active \in BOOLEAN, CreateActor(x, active) PROVE IdentityInv'
    <2>1. actors' \in [Actors -> BOOLEAN \cup {None}]
      BY <1>5 DEF CreateActor
    <2>2. UNCHANGED <<bindingTables, accountVars, bound, grants, calls>>
      BY <1>5 DEF CreateActor, actorsOnly, bindingTables
    <2> QED BY <2>1, <2>2, SameCalls, BindingsKeep DEF accountVars
  <1>6. ASSUME EnsureAccountActorFoundation PROVE IdentityInv'
    <2>1. bound' \in SUBSET Actors
      BY <1>6 DEF EnsureAccountActorFoundation, Actors
    <2>2. UNCHANGED <<bindingTables, accounts, sessions, tokens, requests, grants, actors, calls>>
      BY <1>6 DEF EnsureAccountActorFoundation, accountCreation, bindingTables
    <2> QED BY <2>1, <2>2, SameCalls, BindingsKeep
  <1> QED BY <1>2, <1>3, <1>4, <1>5, <1>6

LEMMA AdministrationKeeps ==
    ASSUME IdentityInv,
           \/ \E g \in Globals : BootstrapAtStartup(g) \/ \E changed \in BOOLEAN : ProvisionApplicationAdmin(g, changed)
           \/ \E c \in Callers : SaveActor(c)
    PROVE  IdentityInv'
  <1> USE AccountTypes, AuthzTypes
  <1>1. ASSUME NEW g \in Globals, EnsureBootstrapActor(g)
        PROVE  /\ actors' \in [Actors -> BOOLEAN \cup {None}]
               /\ grants' \in [GrantKeys -> Grant \cup {None}]
    <2>1. [active |-> TRUE, suspended |-> FALSE] \in Grant
      BY DEF Grant
    <2> QED BY <1>1, <2>1 DEF EnsureBootstrapActor
  <1>2. ASSUME NEW g \in Globals, BootstrapAtStartup(g) PROVE IdentityInv'
    <2>1. EnsureBootstrapActor(g) /\ UNCHANGED <<bindingTables, accountVars, bound, calls>>
      BY <1>2 DEF BootstrapAtStartup, bindingTables
    <2> QED BY <1>1, <2>1, SameCalls, BindingsKeep DEF accountVars
  <1>3. ASSUME NEW g \in Globals, NEW changed \in BOOLEAN, ProvisionApplicationAdmin(g, changed)
        PROVE  IdentityInv'
    <2>1. EnsureBootstrapActor(g) /\ UNCHANGED <<bindingTables, requests, calls>>
      BY <1>3 DEF ProvisionApplicationAdmin, bindingTables
    <2>2. [active |-> TRUE, suspended |-> FALSE] \in Account
      BY DEF Account
    <2>3. accounts' \in [Accounts -> Account \cup {None}] /\ bound' \in SUBSET Actors
      BY <1>3, <2>2 DEF ProvisionApplicationAdmin, Actors
    <2>4. \/ UNCHANGED <<sessions, tokens>>
          \/ RevokeSessions(g) /\ InvalidatePasswordResetTokens(g)
      BY <1>3 DEF ProvisionApplicationAdmin
    <2>5. sessions' \in [SessionIds -> Accounts \cup {None}] /\ tokens' \in [TokenIds -> Accounts \cup {None}]
      BY <2>4, EndedTypes
    <2> QED BY <1>1, <2>1, <2>3, <2>5, SameCalls, BindingsKeep
  <1>4. ASSUME NEW c \in Callers, SaveActor(c) PROVE IdentityInv'
    <2>1. actors' \in [Actors -> BOOLEAN \cup {None}]
      BY <1>4 DEF SaveActor
    <2>2. UNCHANGED <<bindingTables, accountVars, bound, grants>> /\ Finish(c)
      BY <1>4 DEF SaveActor, actorsOnly, bindingTables
    <2> QED BY <2>1, <2>2, FinishType, BindingsKeep DEF accountVars
  <1> QED BY <1>2, <1>3, <1>4

\* Tenants, leases and journeys.
LEMMA TenantStepsKeep ==
    ASSUME IdentityInv, \E s \in Tenants, active \in BOOLEAN : CreateTenant(s, active) \/ SetActive(s, active)
    PROVE  IdentityInv'
  <1>1. tenants' \in [Tenants -> BOOLEAN \cup {None}]
    BY DEF IdentityInv, IdentityTypeOK, CreateTenant, SetActive
  <1>2. UNCHANGED <<people, memberships, projections, accountVars, authzVars, leases, journeys, calls>>
    BY DEF CreateTenant, SetActive
  <1>3. CallsAimed' /\ ExtensionsAimed'
    BY <1>2, SameCalls, CallsKept
  <1> QED BY <1>1, <1>2, <1>3 DEF IdentityInv, IdentityTypeOK, PersonsKnown, accountVars, authzVars

LEMMA LeaseStepsKeep ==
    ASSUME IdentityInv, Leasing(Globals, Persons, Tenants)
    PROVE  IdentityInv'
  <1>1. leases \in [LeaseIds -> Lease \cup {None}]
    BY DEF IdentityInv, IdentityTypeOK
  <1>2. ASSUME NEW l \in LeaseIds, Expire(l)
        PROVE  leases' \in [LeaseIds -> Lease \cup {None}] /\ UNCHANGED leasesOnly
    <2>1. leases[l] \in Lease /\ leases' = [leases EXCEPT ![l] = [leases[l] EXCEPT !.expired = TRUE]]
      BY <1>1, <1>2 DEF Expire
    <2>2. [leases[l] EXCEPT !.expired = TRUE] \in Lease
      BY <2>1 DEF Lease
    <2> QED BY <1>1, <1>2, <2>1, <2>2 DEF Expire
  <1>3. ASSUME NEW l \in LeaseIds, NEW a \in Globals, NEW s \in Tenants, CreateSupportAccessLease(l, a, s)
        PROVE  leases' \in [LeaseIds -> Lease \cup {None}] /\ UNCHANGED leasesOnly
    <2>1. [actor |-> a, tenant |-> s, status |-> "PENDING", expired |-> FALSE] \in Lease
      BY DEF Lease
    <2> QED BY <1>1, <1>3, <2>1 DEF CreateSupportAccessLease
  <1>4. ASSUME NEW l \in LeaseIds, NEW p \in Persons, NEW s \in Tenants, NEW approve \in BOOLEAN,
               TransitionSupportAccessLease(l, p, s, approve)
        PROVE  leases' \in [LeaseIds -> Lease \cup {None}] /\ UNCHANGED leasesOnly
    <2> DEFINE status == IF approve THEN "APPROVED" ELSE "TERMINATED"
    <2>1. leases[l] \in Lease /\ leases' = [leases EXCEPT ![l] = [leases[l] EXCEPT !.status = status]]
      BY <1>1, <1>4 DEF TransitionSupportAccessLease
    <2>2. [leases[l] EXCEPT !.status = status] \in Lease
      BY <2>1 DEF Lease
    <2> QED BY <1>1, <1>4, <2>1, <2>2 DEF TransitionSupportAccessLease
  <1>5. leases' \in [LeaseIds -> Lease \cup {None}] /\ UNCHANGED leasesOnly
    BY <1>2, <1>3, <1>4 DEF Leasing
  <1>6. CallsAimed' /\ ExtensionsAimed'
    BY <1>5, SameCalls, CallsKept DEF leasesOnly
  <1> QED BY <1>5, <1>6 DEF IdentityInv, IdentityTypeOK, PersonsKnown, leasesOnly, directoryVars, accountVars, authzVars

LEMMA JourneyStepsKeep ==
    ASSUME IdentityInv,
           \/ \E c \in Callers, j \in JourneyIds : InsertJourney(c, j)
           \/ \E c \in Callers : UpdateExtension(c)
           \/ \E j \in JourneyIds : CloseJourney(j) \/ \E days \in 0..MaxExtension : UpdateJourney(j, days)
    PROVE  IdentityInv'
  <1>1. journeys \in [JourneyIds -> Journey \cup {None}] /\ None \notin Journey
        /\ calls \in [Callers -> Call \cup {None}]
    BY IdentityConstants DEF IdentityInv, IdentityTypeOK
  <1>2. ASSUME UNCHANGED journeysOnly, CallsType', \A c \in Callers : calls'[c] \in {calls[c], None},
               \/ UNCHANGED journeys
               \/ \E j \in JourneyIds, row \in Journey : journeys' = [journeys EXCEPT ![j] = row]
        PROVE  IdentityInv'
    <2>1. journeys' \in [JourneyIds -> Journey \cup {None}]
          /\ \A j \in JourneyIds : journeys[j] # None => journeys'[j] # None
      BY <1>1, <1>2
    <2>2. CallsAimed' /\ ExtensionsAimed'
      BY <1>2, <2>1, CallsKept
    <2> QED BY <1>2, <2>1, <2>2 DEF IdentityInv, IdentityTypeOK, PersonsKnown, CallsType, journeysOnly,
                                    directoryVars, accountVars, authzVars
  <1>3. ASSUME NEW c \in Callers, NEW j \in JourneyIds, InsertJourney(c, j) PROVE IdentityInv'
    <2>1. calls[c].on \in Members
      BY <1>3 DEF InsertJourney, Running, IdentityInv, CallsAimed, Aimed, MemberOps
    <2>2. [member |-> calls[c].on, open |-> TRUE, extension |-> 0] \in Journey
      BY <2>1, IdentityConstants DEF Journey
    <2> QED BY <1>2, <1>3, <2>2, FinishType DEF InsertJourney
  <1>4. ASSUME NEW c \in Callers, UpdateExtension(c) PROVE IdentityInv'
    <2> DEFINE j == calls[c].on
    <2>1. j \in JourneyIds /\ journeys[j] \in Journey /\ calls[c].days \in 0..MaxExtension
      BY <1>1, <1>4 DEF UpdateExtension, Running, IdentityInv, CallsAimed, ExtensionsAimed, Aimed, Call
    <2>2. [journeys[j] EXCEPT !.extension = calls[c].days] \in Journey
      BY <2>1 DEF Journey
    <2>3. \/ UNCHANGED journeys
          \/ journeys' = [journeys EXCEPT ![j] = [journeys[j] EXCEPT !.extension = calls[c].days]]
      BY <1>4 DEF UpdateExtension
    <2>4. Finish(c) /\ UNCHANGED journeysOnly
      BY <1>4 DEF UpdateExtension
    <2> HIDE DEF j
    <2> QED BY <1>2, <2>1, <2>2, <2>3, <2>4, FinishType
  <1>5. ASSUME NEW j \in JourneyIds, CloseJourney(j) PROVE IdentityInv'
    <2>1. journeys[j] \in Journey /\ journeys' = [journeys EXCEPT ![j] = [journeys[j] EXCEPT !.open = FALSE]]
      BY <1>1, <1>5 DEF CloseJourney
    <2>2. [journeys[j] EXCEPT !.open = FALSE] \in Journey
      BY <2>1 DEF Journey
    <2> QED BY <1>2, <1>5, <2>1, <2>2, SameCalls DEF CloseJourney
  <1>6. ASSUME NEW j \in JourneyIds, NEW days \in 0..MaxExtension, UpdateJourney(j, days) PROVE IdentityInv'
    <2>1. journeys[j] \in Journey /\ journeys' = [journeys EXCEPT ![j] = [journeys[j] EXCEPT !.extension = days]]
      BY <1>1, <1>6 DEF UpdateJourney
    <2>2. [journeys[j] EXCEPT !.extension = days] \in Journey
      BY <2>1 DEF Journey
    <2> QED BY <1>2, <1>6, <2>1, <2>2, SameCalls DEF UpdateJourney
  <1> QED BY <1>3, <1>4, <1>5, <1>6

\* The directory.
LEMMA DirectoryKeeps ==
    ASSUME IdentityInv, UNCHANGED <<tenants, leases, journeys, calls>>,
           people' \in [Persons -> Person \cup {None}],
           memberships' \in [Members -> Statuses \cup {None}],
           projections' \in [Members -> Projection \cup {None}],
           accounts' \in [Accounts -> Account \cup {None}],
           sessions' \in [SessionIds -> Accounts \cup {None}],
           tokens' \in [TokenIds -> Accounts \cup {None}],
           requests' \in SUBSET Accounts,
           actors' \in [Actors -> BOOLEAN \cup {None}],
           bound' \in SUBSET Actors,
           grants' \in [GrantKeys -> Grant \cup {None}],
           PersonsKnown'
    PROVE  IdentityInv'
  <1>1. CallsAimed' /\ ExtensionsAimed'
    BY SameCalls, CallsKept
  <1> QED BY <1>1 DEF IdentityInv, IdentityTypeOK

LEMMA DirectoryTypes ==
    IdentityInv => /\ people \in [Persons -> Person \cup {None}]
                   /\ memberships \in [Members -> Statuses \cup {None}]
                   /\ projections \in [Members -> Projection \cup {None}]
                   /\ \A m \in Members : /\ PersonOf(m) \in Persons
                                         /\ memberships[m] # None => people[PersonOf(m)] # None
  <1>1. \A m \in Members : PersonOf(m) \in Persons
    BY DEF Members, PersonOf
  <1> QED BY <1>1 DEF IdentityInv, IdentityTypeOK, PersonsKnown

LEMMA RowTypes ==
    /\ \A o, k \in BOOLEAN : [operational |-> o, complete |-> k] \in Person
    /\ \A s \in Statuses, k \in BOOLEAN : [status |-> s, complete |-> k] \in Projection
    /\ \A r \in Person, b \in BOOLEAN : /\ [r EXCEPT !.complete = b] \in Person
                                        /\ [r EXCEPT !.operational = b] \in Person
    /\ \A r \in Projection, b \in BOOLEAN : [r EXCEPT !.complete = b] \in Projection
    /\ \A r \in Projection, s \in Statuses : [r EXCEPT !.status = s] \in Projection
    /\ \A r \in Person : r.operational \in BOOLEAN /\ r.complete \in BOOLEAN
    /\ \A r \in Projection : r.status \in Statuses /\ r.complete \in BOOLEAN
    /\ None \notin Person /\ None \notin Projection /\ None \notin Statuses
    /\ "ACTIVE" \in Statuses /\ "INACTIVE" \in Statuses
  <1>1. None \notin Person /\ None \notin Projection /\ None \notin Statuses
    BY IdentityConstants
  <1>2. "ACTIVE" \in Statuses /\ "INACTIVE" \in Statuses
    BY DEF Statuses
  <1>3. /\ \A r \in Person, b \in BOOLEAN : [r EXCEPT !.complete = b] \in Person
        /\ \A r \in Person, b \in BOOLEAN : [r EXCEPT !.operational = b] \in Person
        /\ \A r \in Person : r.operational \in BOOLEAN /\ r.complete \in BOOLEAN
        /\ \A o, k \in BOOLEAN : [operational |-> o, complete |-> k] \in Person
    BY DEF Person
  <1>4. /\ \A r \in Projection, b \in BOOLEAN : [r EXCEPT !.complete = b] \in Projection
        /\ \A r \in Projection, s \in Statuses : [r EXCEPT !.status = s] \in Projection
        /\ \A r \in Projection : r.status \in Statuses /\ r.complete \in BOOLEAN
        /\ \A s \in Statuses, k \in BOOLEAN : [status |-> s, complete |-> k] \in Projection
    BY DEF Projection
  <1> QED BY <1>1, <1>2, <1>3, <1>4

LEMMA FromLegacyType ==
    ASSUME IdentityInv, NEW m \in Members, projections[m] # None
    PROVE  FromLegacy(m) \in Person
  <1>1. projections[m].complete \in BOOLEAN
    BY DirectoryTypes, RowTypes
  <1>2. LegacyOperationalActive(PersonOf(m)) \in BOOLEAN
    BY DEF LegacyOperationalActive
  <1> QED BY <1>1, <1>2, RowTypes DEF FromLegacy

\* The repair gives a person to every row that has none, and loses nobody.
LEMMA RepairTypes ==
    ASSUME IdentityInv, NEW latest \in Tenants
    PROVE  /\ \A p \in Persons : /\ RepairedPerson(p, latest) \in Person \cup {None}
                                 /\ people[p] # None => RepairedPerson(p, latest) = people[p]
                                 /\ Rows(p) # {} => RepairedPerson(p, latest) # None
           /\ \A m \in Members : /\ RepairedMembership(m, latest) \in Statuses \cup {None}
                                 /\ projections[m] # None => RepairedMembership(m, latest) \in Statuses
                                 /\ RepairedMembership(m, latest) # None =>
                                        memberships[m] # None \/ projections[m] # None
  <1> USE DirectoryTypes, RowTypes
  <1>1. ASSUME NEW p \in Persons
        PROVE  /\ RepairedPerson(p, latest) \in Person \cup {None}
               /\ people[p] # None => RepairedPerson(p, latest) = people[p]
               /\ Rows(p) # {} => RepairedPerson(p, latest) # None
    <2>1. CASE people[p] # None \/ Rows(p) = {}
      BY <2>1 DEF RepairedPerson
    <2>2. CASE people[p] = None /\ Rows(p) # {}
      <3>1. PICK m \in Rows(p) : RepairedPerson(p, latest) = FromLegacy(m)
        BY <2>2 DEF RepairedPerson
      <3>2. m \in Members /\ projections[m] # None
        BY DEF Rows, MembersOf
      <3>3. FromLegacy(m) \in Person
        BY <3>2, FromLegacyType
      <3> QED BY <2>2, <3>1, <3>3
    <2> QED BY <2>1, <2>2
  <1>2. ASSUME NEW m \in Members
        PROVE  /\ RepairedMembership(m, latest) \in Statuses \cup {None}
               /\ projections[m] # None => RepairedMembership(m, latest) \in Statuses
               /\ RepairedMembership(m, latest) # None => memberships[m] # None \/ projections[m] # None
    BY DEF RepairedMembership
  <1> QED BY <1>1, <1>2

LEMMA RepairKeeps ==
    ASSUME IdentityInv, NEW latest \in Tenants, EnsureGlobalPersonMembershipFoundation(latest)
    PROVE  IdentityInv'
  <1>0. /\ \A p \in Persons : /\ RepairedPerson(p, latest) \in Person \cup {None}
                              /\ people[p] # None => RepairedPerson(p, latest) = people[p]
                              /\ Rows(p) # {} => RepairedPerson(p, latest) # None
        /\ \A m \in Members : /\ RepairedMembership(m, latest) \in Statuses \cup {None}
                              /\ projections[m] # None => RepairedMembership(m, latest) \in Statuses
                              /\ RepairedMembership(m, latest) # None =>
                                     memberships[m] # None \/ projections[m] # None
    BY RepairTypes
  <1>1. /\ people' = [p \in Persons |-> RepairedPerson(p, latest)]
        /\ memberships' = [m \in Members |-> RepairedMembership(m, latest)]
        /\ projections' = [m \in Members |->
               IF projections[m] = None THEN None
               ELSE [projections[m] EXCEPT !.status = RepairedMembership(m, latest)]]
        /\ UNCHANGED <<tenants, accountVars, authzVars, leases, journeys, calls>>
    BY DEF EnsureGlobalPersonMembershipFoundation, RepairFoundation
  <1>2. people' \in [Persons -> Person \cup {None}] /\ memberships' \in [Members -> Statuses \cup {None}]
    BY <1>0, <1>1
  <1>3. projections' \in [Members -> Projection \cup {None}]
    <2>1. ASSUME NEW m \in Members, projections[m] # None
          PROVE  [projections[m] EXCEPT !.status = RepairedMembership(m, latest)] \in Projection
      <3>1. projections[m] \in Projection /\ RepairedMembership(m, latest) \in Statuses
        BY <1>0, <2>1, DirectoryTypes
      <3> QED BY <3>1, RowTypes
    <2> QED BY <1>1, <2>1
  <1>4. PersonsKnown'
    <2> SUFFICES ASSUME NEW m \in Members, memberships'[m] # None PROVE people'[PersonOf(m)] # None
      BY DEF PersonsKnown
    <2>1. memberships[m] # None \/ projections[m] # None
      BY <1>0, <1>1
    <2>2. projections[m] # None => Rows(PersonOf(m)) # {}
      BY DEF Rows, MembersOf
    <2>3. PersonOf(m) \in Persons /\ (memberships[m] # None => people[PersonOf(m)] # None)
      BY DirectoryTypes
    <2>4. RepairedPerson(PersonOf(m), latest) # None
      BY <1>0, <2>1, <2>2, <2>3
    <2> QED BY <1>1, <2>3, <2>4
  <1> QED BY <1>1, <1>2, <1>3, <1>4, AccountTypes, AuthzTypes, DirectoryKeeps DEF accountVars, authzVars

LEMMA CreateKeeps ==
    ASSUME IdentityInv, NEW p \in Persons, NEW s \in Tenants, NEW status \in Statuses, NEW missing,
           Create(p, s, status, missing)
    PROVE  IdentityInv'
  <1> USE DirectoryTypes, RowTypes
  <1> DEFINE complete == ComputeCompletion(missing)
  <1>1. complete \in BOOLEAN /\ <<p, s>> \in Members /\ PersonOf(<<p, s>>) = p
    BY DEF ComputeCompletion, Members, PersonOf
  <1>2. CreatePerson(p, s, status, complete)
    BY DEF Create
  <1> HIDE DEF complete
  <1> DEFINE person == [operational |-> status # "INACTIVE", complete |-> complete]
             row == [status |-> status, complete |-> complete]
  <1>3. person \in Person /\ row \in Projection
    BY <1>1
  <1>4. /\ people' = [people EXCEPT ![p] = person]
        /\ projections' = [projections EXCEPT ![<<p, s>>] = row]
        /\ memberships' = [memberships EXCEPT ![<<p, s>>] = status]
        /\ UNCHANGED <<tenants, accountVars, authzVars, leases, journeys, calls>>
    BY <1>2 DEF CreatePerson
  <1> HIDE DEF person, row
  <1>5. /\ people' \in [Persons -> Person \cup {None}] /\ memberships' \in [Members -> Statuses \cup {None}]
        /\ projections' \in [Members -> Projection \cup {None}]
    BY <1>1, <1>3, <1>4
  <1>6. PersonsKnown'
    BY <1>1, <1>3, <1>4 DEF PersonsKnown
  <1> QED BY <1>4, <1>5, <1>6, AccountTypes, AuthzTypes, DirectoryKeeps DEF accountVars, authzVars

LEMMA ReactivateAccountTypes ==
    ASSUME IdentityInv, NEW m \in Members, ReactivateAccount(m)
    PROVE  /\ accounts' \in [Accounts -> Account \cup {None}]
           /\ actors' \in [Actors -> BOOLEAN \cup {None}]
           /\ bound' \in SUBSET Actors
  <1> DEFINE p == PersonOf(m)
  <1>1. p \in Accounts /\ m \in Actors
    BY DEF PersonOf, Members, Accounts, Actors
  <1>2. CASE accounts[p] = None
    BY <1>2, AccountTypes, AuthzTypes DEF ReactivateAccount
  <1>3. CASE accounts[p] # None
    <2>1. /\ accounts' = [accounts EXCEPT ![p] = [accounts[p] EXCEPT !.active = TRUE]]
          /\ actors' = [actors EXCEPT ![m] = TRUE] /\ bound' = bound \cup {m}
      BY <1>3 DEF ReactivateAccount
    <2>2. [accounts[p] EXCEPT !.active = TRUE] \in Account
      BY <1>1, <1>3, AccountTypes DEF Account
    <2> HIDE DEF p
    <2> QED BY <1>1, <2>1, <2>2, AccountTypes, AuthzTypes
  <1> QED BY <1>2, <1>3

LEMMA ReactivationKeeps ==
    ASSUME IdentityInv, NEW m \in Members, NEW complete \in BOOLEAN, people[PersonOf(m)] # None,
           ReactivateTenantMembership(m, complete)
    PROVE  IdentityInv'
  <1> USE DirectoryTypes, RowTypes
  <1> DEFINE p == PersonOf(m)
             person == [people[p] EXCEPT !.operational = TRUE]
             row == [status |-> "ACTIVE", complete |-> complete]
  <1>1. p \in Persons /\ people[p] \in Person
    OBVIOUS
  <1>2. person \in Person /\ row \in Projection
    BY <1>1
  <1>3. /\ people' = [people EXCEPT ![p] = person]
        /\ memberships' = [memberships EXCEPT ![m] = "ACTIVE"]
        /\ projections' = [projections EXCEPT ![m] = row]
        /\ ReactivateAccount(m)
        /\ UNCHANGED <<tenants, sessions, tokens, requests, grants, leases, journeys, calls>>
    BY DEF ReactivateTenantMembership
  <1> HIDE DEF person, row
  <1>4. /\ people' \in [Persons -> Person \cup {None}] /\ memberships' \in [Members -> Statuses \cup {None}]
        /\ projections' \in [Members -> Projection \cup {None}]
    BY <1>1, <1>2, <1>3
  <1>5. PersonsKnown'
    BY <1>1, <1>2, <1>3 DEF PersonsKnown
  <1>6. /\ accounts' \in [Accounts -> Account \cup {None}]
        /\ actors' \in [Actors -> BOOLEAN \cup {None}] /\ bound' \in SUBSET Actors
    BY <1>3, ReactivateAccountTypes
  <1> QED BY <1>3, <1>4, <1>5, <1>6, AccountTypes, AuthzTypes, DirectoryKeeps

LEMMA JoinKeeps ==
    ASSUME IdentityInv, NEW p \in Persons, NEW s \in Tenants, NEW status \in Statuses,
           CreateMembership(p, s, status)
    PROVE  IdentityInv'
  <1> USE DirectoryTypes, RowTypes
  <1> DEFINE m == <<p, s>>
  <1>1. m \in Members /\ PersonOf(m) = p /\ people[p] \in Person
    BY DEF Members, PersonOf, CreateMembership
  <1>2. CASE ReactivateTenantMembership(m, people[p].complete)
    BY <1>1, <1>2, ReactivationKeeps
  <1>3. CASE ~ReactivateTenantMembership(m, people[p].complete)
    <2> DEFINE row == [status |-> status, complete |-> people[p].complete]
    <2>1. /\ memberships' = [memberships EXCEPT ![m] = status]
          /\ projections' = [projections EXCEPT ![m] = row]
          /\ UNCHANGED <<tenants, people, accountVars, authzVars, leases, journeys, calls>>
      BY <1>3 DEF CreateMembership
    <2>2. row \in Projection
      BY <1>1
    <2> HIDE DEF row, m
    <2>3. memberships' \in [Members -> Statuses \cup {None}] /\ projections' \in [Members -> Projection \cup {None}]
      BY <2>1, <2>2
    <2>4. PersonsKnown'
      BY <1>1, <2>1 DEF PersonsKnown
    <2> QED BY <2>1, <2>3, <2>4, AccountTypes, AuthzTypes, DirectoryKeeps DEF accountVars, authzVars
  <1> QED BY <1>2, <1>3

LEMMA DeactivateAccountTypes ==
    ASSUME IdentityInv, NEW p \in Persons, NEW members, DeactivateAccount(p, members)
    PROVE  /\ accounts' \in [Accounts -> Account \cup {None}]
           /\ sessions' \in [SessionIds -> Accounts \cup {None}]
           /\ tokens' \in [TokenIds -> Accounts \cup {None}]
           /\ actors' \in [Actors -> BOOLEAN \cup {None}]
           /\ grants' \in [GrantKeys -> Grant \cup {None}]
           /\ UNCHANGED <<requests, bound>>
  <1>1. accounts' \in [Accounts -> Account \cup {None}]
    <2>1. CASE accounts[p] = None
      BY <2>1, AccountTypes DEF DeactivateAccount
    <2>2. CASE accounts[p] # None
      <3>1. accounts[p] \in Account
        BY <2>2, AccountTypes DEF Accounts
      <3>2. [accounts[p] EXCEPT !.active = FALSE] \in Account
        BY <3>1 DEF Account
      <3>3. accounts' = [accounts EXCEPT ![p] = [accounts[p] EXCEPT !.active = FALSE]]
        BY <2>2 DEF DeactivateAccount
      <3> QED BY <3>2, <3>3, AccountTypes
    <2> QED BY <2>1, <2>2
  <1>2. sessions' \in [SessionIds -> Accounts \cup {None}] /\ tokens' \in [TokenIds -> Accounts \cup {None}]
    BY AccountTypes DEF DeactivateAccount
  <1>3. actors' \in [Actors -> BOOLEAN \cup {None}]
    BY AuthzTypes DEF DeactivateAccount
  <1>4. grants' \in [GrantKeys -> Grant \cup {None}]
    <2>1. \A r \in Grant : [r EXCEPT !.suspended = TRUE] \in Grant
      BY DEF Grant
    <2> QED BY <2>1, AuthzTypes DEF DeactivateAccount
  <1> QED BY <1>1, <1>2, <1>3, <1>4 DEF DeactivateAccount

LEMMA UpdateKeeps ==
    ASSUME IdentityInv, NEW m \in Members, NEW status \in Statuses, NEW missing, Update(m, status, missing)
    PROVE  IdentityInv'
  <1> USE DirectoryTypes, RowTypes
  <1> DEFINE p == PersonOf(m)
             found == FindOrCreateMembership(m)
             members == {x \in MembersOf(p) : memberships[x] # None} \cup {m}
             complete == ComputeCompletion(missing)
  <1>1. complete \in BOOLEAN /\ projections[m] # None /\ p \in Persons /\ UpdatePerson(m, status, complete)
    BY DEF Update, ComputeCompletion
  <1>2. \A x \in members : x \in Members /\ PersonOf(x) = p
    BY DEF MembersOf
  <1>3. found.person \in Person
    BY <1>1, FromLegacyType DEF FindOrCreateMembership
  <1>4. UNCHANGED <<tenants, leases, journeys, calls>>
    BY <1>1 DEF UpdatePerson
  <1>5. \/ DeactivateOperationalPerson(p, members, complete)
        \/ /\ people' = [people EXCEPT ![p] = [found.person EXCEPT !.complete = complete]]
           /\ memberships' = [memberships EXCEPT ![m] = status]
           /\ projections' = [x \in Members |->
                  IF x = m THEN [status |-> status, complete |-> complete]
                  ELSE IF x \in members /\ projections[x] # None
                  THEN [projections[x] EXCEPT !.complete = complete]
                  ELSE projections[x]]
           /\ UNCHANGED <<accountVars, authzVars>>
    BY <1>1 DEF UpdatePerson
  <1> HIDE DEF found, members, complete
  <1>6. CASE DeactivateOperationalPerson(p, members, complete)
    <2>1. /\ people' = [people EXCEPT ![p] = [operational |-> FALSE, complete |-> complete]]
          /\ memberships' = [x \in Members |-> IF x \in members THEN "INACTIVE" ELSE memberships[x]]
          /\ projections' = [x \in Members |->
                 IF x \in members /\ projections[x] # None
                 THEN [status |-> "INACTIVE", complete |-> complete] ELSE projections[x]]
          /\ DeactivateAccount(p, members)
      BY <1>6 DEF DeactivateOperationalPerson
    <2>2. [operational |-> FALSE, complete |-> complete] \in Person
          /\ [status |-> "INACTIVE", complete |-> complete] \in Projection
      BY <1>1
    <2>3. /\ people' \in [Persons -> Person \cup {None}] /\ memberships' \in [Members -> Statuses \cup {None}]
          /\ projections' \in [Members -> Projection \cup {None}]
      BY <1>1, <2>1, <2>2
    <2>4. \A q \in Persons : people[q] # None => people'[q] # None
      BY <2>1, <2>2
    <2>5. people'[p] # None
      BY <1>1, <2>1, <2>2
    <2>6. PersonsKnown'
      BY <1>2, <2>1, <2>4, <2>5 DEF PersonsKnown
    <2> HIDE DEF p
    <2>7. /\ accounts' \in [Accounts -> Account \cup {None}]
          /\ sessions' \in [SessionIds -> Accounts \cup {None}]
          /\ tokens' \in [TokenIds -> Accounts \cup {None}]
          /\ actors' \in [Actors -> BOOLEAN \cup {None}]
          /\ grants' \in [GrantKeys -> Grant \cup {None}]
          /\ UNCHANGED <<requests, bound>>
      BY <1>1, <2>1, DeactivateAccountTypes
    <2> QED BY <1>4, <2>3, <2>6, <2>7, AccountTypes, AuthzTypes, DirectoryKeeps
  <1>7. CASE /\ people' = [people EXCEPT ![p] = [found.person EXCEPT !.complete = complete]]
             /\ memberships' = [memberships EXCEPT ![m] = status]
             /\ projections' = [x \in Members |->
                    IF x = m THEN [status |-> status, complete |-> complete]
                    ELSE IF x \in members /\ projections[x] # None
                    THEN [projections[x] EXCEPT !.complete = complete]
                    ELSE projections[x]]
             /\ UNCHANGED <<accountVars, authzVars>>
    <2> DEFINE person == [found.person EXCEPT !.complete = complete]
    <2>1. person \in Person
      BY <1>1, <1>3
    <2>2. people' = [people EXCEPT ![p] = person]
      BY <1>7
    <2> HIDE DEF person
    <2>3. people' \in [Persons -> Person \cup {None}] /\ memberships' \in [Members -> Statuses \cup {None}]
      BY <1>1, <1>7, <2>1, <2>2
    <2>4. projections' \in [Members -> Projection \cup {None}]
      <3>1. \A x \in Members : projections[x] # None => [projections[x] EXCEPT !.complete = complete] \in Projection
        BY <1>1
      <3>2. [status |-> status, complete |-> complete] \in Projection
        BY <1>1
      <3> QED BY <1>7, <3>1, <3>2
    <2>5. PersonsKnown'
      BY <1>1, <1>7, <2>1, <2>2 DEF PersonsKnown
    <2> QED BY <1>4, <1>7, <2>3, <2>4, <2>5, AccountTypes, AuthzTypes, DirectoryKeeps DEF accountVars, authzVars
  <1> QED BY <1>5, <1>6, <1>7

-----------------------------------------------------------------------------
\* Every step of the packages.
LEMMA IdentityStep ==
    ASSUME IdentityInv, Next
    PROVE  IdentityInv'
  <1>1. CASE Directory(Persons, Tenants)
    <2>1. ASSUME NEW p \in Persons, NEW s \in Tenants, NEW status \in Statuses, NEW missing,
                 Update(<<p, s>>, status, missing)
          PROVE  IdentityInv'
      <3>1. <<p, s>> \in Members
        BY DEF Members
      <3> QED BY <2>1, <3>1, UpdateKeeps
    <2>2. ASSUME NEW m \in Persons \X Tenants, Reactivate(m) PROVE IdentityInv'
      <3>1. m \in Members /\ projections[m] # None /\ memberships[m] # None
        BY <2>2, RowTypes DEF Members, Reactivate
      <3>2. projections[m].complete \in BOOLEAN /\ people[PersonOf(m)] # None
        BY <3>1, DirectoryTypes, RowTypes
      <3> QED BY <2>2, <3>1, <3>2, ReactivationKeeps DEF Reactivate
    <2> QED BY <1>1, <2>1, <2>2, RepairKeeps, CreateKeeps, JoinKeeps DEF Directory
  <1>2. CASE TenantAdministration(Tenants, Members)
    BY <1>2, TenantStepsKeep, GrantStepsKeep DEF TenantAdministration
  <1>3. CASE Sessions(Accounts, Callers)
    BY <1>3, SessionStarts, StartKeeps, SessionStepsKeep DEF Sessions
  <1>4. CASE Recovery(Accounts, Members, Callers)
    BY <1>4, RecoveryStarts, StartKeeps, RecoveryStepsKeep DEF Recovery
  <1>5. CASE AccountCreation(Members, Actors, Callers)
    BY <1>5, AuthorizationStarts, StartKeeps, AccountCreationKeeps DEF AccountCreation
  <1>6. CASE ApplicationAdministration(Globals)
    BY <1>6, AdministrationKeeps DEF ApplicationAdministration
  <1>7. CASE ActorAdministration(Actors, Callers)
    BY <1>7, AuthorizationStarts, StartKeeps, AdministrationKeeps DEF ActorAdministration
  <1>8. CASE GrantAdministration(GrantKeys, Callers)
    BY <1>8, GrantStarts, StartKeeps, GrantStepsKeep DEF GrantAdministration
  <1>9. CASE Leasing(Globals, Persons, Tenants)
    BY <1>9, LeaseStepsKeep
  <1>10. CASE Journeying(Members, Callers)
    BY <1>10, AuthorizationStarts, ExtensionStarts, StartKeeps, JourneyStepsKeep DEF Journeying
  <1> QED BY <1>1, <1>2, <1>3, <1>4, <1>5, <1>6, <1>7, <1>8, <1>9, <1>10 DEF Next

LEMMA IdentityStuttering == IdentityInv /\ UNCHANGED identityVars => IdentityInv'
  BY DEF IdentityInv, IdentityTypeOK, CallsAimed, Aimed, ExtensionsAimed, PersonsKnown, Running,
         identityVars, directoryVars, accountVars, authzVars

LEMMA IdentityInvariant == Spec => []IdentityInv
  <1>1. IdentityInv /\ [Next]_identityVars => IdentityInv'
    BY IdentityStep, IdentityStuttering
  <1> QED BY <1>1, InitialIdentity, PTL DEF Spec

\* IdentityTypeOK: every table holds rows of its type, whichever packages
\* write it and whatever is left half done by a call in flight.
THEOREM IdentityTyped == Spec => []IdentityTypeOK
  <1>1. IdentityInv => IdentityTypeOK
    BY DEF IdentityInv
  <1> QED BY <1>1, IdentityInvariant, PTL

-----------------------------------------------------------------------------
(***************************************************************************)
(* The directory: a membership and the tenant's own row of the person are  *)
(* written together, whichever operation writes them.                      *)
(***************************************************************************)
RowsAgree == \A m \in Members : memberships[m] # None =>
                 projections[m] # None /\ projections[m].status = memberships[m]

\* Rows written for one member, with the same status.
LEMMA RowPairWritten ==
    ASSUME IdentityInv, RowsAgree, NEW m \in Members, NEW status, NEW row \in Projection, row.status = status,
           memberships' = [memberships EXCEPT ![m] = status],
           projections' = [projections EXCEPT ![m] = row]
    PROVE  RowsAgree'
  <1>1. row # None
    BY RowTypes
  <1>2. \A x \in Members : /\ memberships'[x] = IF x = m THEN status ELSE memberships[x]
                           /\ projections'[x] = IF x = m THEN row ELSE projections[x]
    BY DirectoryTypes
  <1> QED BY <1>1, <1>2 DEF RowsAgree

LEMMA ProjectionMarks ==
    /\ \A r \in Projection : \A s : [r EXCEPT !.status = s].status = s
    /\ \A r \in Projection : \A b : [r EXCEPT !.complete = b].status = r.status
    /\ \A s, b : [status |-> s, complete |-> b].status = s
  <1>1. \A r \in Projection : \A s : [r EXCEPT !.status = s].status = s
    BY DEF Projection
  <1>2. \A r \in Projection : \A b : [r EXCEPT !.complete = b].status = r.status
    BY DEF Projection
  <1> QED BY <1>1, <1>2

\* The repair gives a legacy row its membership and makes the row follow it.
LEMMA RepairAgrees ==
    ASSUME IdentityInv, RowsAgree, NEW latest \in Tenants, EnsureGlobalPersonMembershipFoundation(latest)
    PROVE  RowsAgree'
  <1>1. /\ memberships' = [m \in Members |-> RepairedMembership(m, latest)]
        /\ projections' = [m \in Members |->
               IF projections[m] = None THEN None
               ELSE [projections[m] EXCEPT !.status = RepairedMembership(m, latest)]]
    BY DEF EnsureGlobalPersonMembershipFoundation, RepairFoundation
  <1> SUFFICES ASSUME NEW m \in Members, memberships'[m] # None
               PROVE  projections'[m] # None /\ projections'[m].status = memberships'[m]
    BY DEF RowsAgree
  <1>2. memberships'[m] = RepairedMembership(m, latest)
    BY <1>1
  <1>3. memberships[m] # None \/ projections[m] # None
    BY <1>2, RepairTypes
  <1>4. projections[m] # None
    BY <1>3 DEF RowsAgree
  <1>5. projections[m] \in Projection /\ RepairedMembership(m, latest) \in Statuses
    BY <1>4, DirectoryTypes, RepairTypes
  <1>6. projections'[m] = [projections[m] EXCEPT !.status = RepairedMembership(m, latest)]
    BY <1>1, <1>4
  <1>7. projections'[m] \in Projection
    BY <1>5, <1>6, RowTypes
  <1> QED BY <1>2, <1>5, <1>6, <1>7, ProjectionMarks, RowTypes

LEMMA ReactivationAgrees ==
    ASSUME IdentityInv, RowsAgree, NEW m \in Members, NEW complete \in BOOLEAN,
           ReactivateTenantMembership(m, complete)
    PROVE  RowsAgree'
  <1> DEFINE row == [status |-> "ACTIVE", complete |-> complete]
  <1>1. row \in Projection /\ row.status = "ACTIVE"
    BY RowTypes
  <1>2. /\ memberships' = [memberships EXCEPT ![m] = "ACTIVE"]
        /\ projections' = [projections EXCEPT ![m] = row]
    BY DEF ReactivateTenantMembership
  <1> HIDE DEF row
  <1> QED BY <1>1, <1>2, RowPairWritten

\* A new person, and a person who joins another tenant.
LEMMA NewRowsAgree ==
    ASSUME IdentityInv, RowsAgree, NEW p \in Persons, NEW s \in Tenants, NEW status \in Statuses,
           (\E missing : Create(p, s, status, missing)) \/ CreateMembership(p, s, status)
    PROVE  RowsAgree'
  <1> DEFINE m == <<p, s>>
  <1>1. m \in Members
    BY DEF Members
  <1>2. ASSUME NEW complete \in BOOLEAN,
               memberships' = [memberships EXCEPT ![m] = status],
               projections' = [projections EXCEPT ![m] = [status |-> status, complete |-> complete]]
        PROVE  RowsAgree'
    <2> DEFINE row == [status |-> status, complete |-> complete]
    <2>1. row \in Projection /\ row.status = status
      BY RowTypes
    <2>2. projections' = [projections EXCEPT ![m] = row]
      BY <1>2
    <2> HIDE DEF row, m
    <2> QED BY <1>1, <1>2, <2>1, <2>2, RowPairWritten
  <1>3. ASSUME NEW missing, Create(p, s, status, missing) PROVE RowsAgree'
    <2>1. ComputeCompletion(missing) \in BOOLEAN
      BY DEF ComputeCompletion
    <2> QED BY <1>2, <1>3, <2>1 DEF Create, CreatePerson
  <1>4. CASE CreateMembership(p, s, status)
    <2>1. people[p] \in Person /\ people[p].complete \in BOOLEAN
      BY <1>4, DirectoryTypes, RowTypes DEF CreateMembership
    <2>2. CASE ReactivateTenantMembership(m, people[p].complete)
      BY <1>1, <2>1, <2>2, ReactivationAgrees
    <2>3. CASE ~ReactivateTenantMembership(m, people[p].complete)
      BY <1>2, <1>4, <2>1, <2>3 DEF CreateMembership
    <2> QED BY <2>2, <2>3
  <1> QED BY <1>3, <1>4

\* An edit writes the edited row with its status and the person's other rows
\* with theirs; a deactivation writes all of them.
LEMMA UpdateAgrees ==
    ASSUME IdentityInv, RowsAgree, NEW m \in Members, NEW status \in Statuses, NEW missing,
           Update(m, status, missing)
    PROVE  RowsAgree'
  <1> DEFINE p == PersonOf(m)
             members == {x \in MembersOf(p) : memberships[x] # None} \cup {m}
             complete == ComputeCompletion(missing)
  <1>1. complete \in BOOLEAN /\ projections[m] # None /\ UpdatePerson(m, status, complete)
    BY DEF Update, ComputeCompletion
  <1>2. \/ DeactivateOperationalPerson(p, members, complete)
        \/ /\ memberships' = [memberships EXCEPT ![m] = status]
           /\ projections' = [x \in Members |->
                  IF x = m THEN [status |-> status, complete |-> complete]
                  ELSE IF x \in members /\ projections[x] # None
                  THEN [projections[x] EXCEPT !.complete = complete]
                  ELSE projections[x]]
    BY <1>1 DEF UpdatePerson
  <1>3. \A x \in members : x = m \/ memberships[x] # None
    OBVIOUS
  <1>4. \A x \in Members : x \in members => projections[x] # None
    BY <1>1, <1>3 DEF RowsAgree
  <1>5. \A x \in Members : projections[x] # None => projections[x] \in Projection
    BY DirectoryTypes
  <1> HIDE DEF members, complete
  <1>6. \A s \in Statuses : /\ [status |-> s, complete |-> complete] # None
                            /\ [status |-> s, complete |-> complete].status = s
    BY <1>1, RowTypes
  <1>7. CASE DeactivateOperationalPerson(p, members, complete)
    <2>1. /\ memberships' = [x \in Members |-> IF x \in members THEN "INACTIVE" ELSE memberships[x]]
          /\ projections' = [x \in Members |->
                 IF x \in members /\ projections[x] # None
                 THEN [status |-> "INACTIVE", complete |-> complete] ELSE projections[x]]
      BY <1>7 DEF DeactivateOperationalPerson
    <2>2. \A x \in Members : /\ memberships'[x] = IF x \in members THEN "INACTIVE" ELSE memberships[x]
                             /\ projections'[x] = IF x \in members
                                                  THEN [status |-> "INACTIVE", complete |-> complete]
                                                  ELSE projections[x]
      BY <1>4, <2>1
    <2> QED BY <1>6, <2>2, RowTypes DEF RowsAgree
  <1>8. CASE /\ memberships' = [memberships EXCEPT ![m] = status]
             /\ projections' = [x \in Members |->
                    IF x = m THEN [status |-> status, complete |-> complete]
                    ELSE IF x \in members /\ projections[x] # None
                    THEN [projections[x] EXCEPT !.complete = complete]
                    ELSE projections[x]]
    <2> SUFFICES ASSUME NEW x \in Members, memberships'[x] # None
                 PROVE  projections'[x] # None /\ projections'[x].status = memberships'[x]
      BY DEF RowsAgree
    <2>1. CASE x = m
      BY <1>6, <1>8, <2>1, DirectoryTypes
    <2>2. CASE x # m
      <3>1. memberships'[x] = memberships[x]
        BY <1>8, <2>2, DirectoryTypes
      <3>2. projections[x] # None /\ projections[x].status = memberships[x]
        BY <3>1 DEF RowsAgree
      <3>3. projections[x] \in Projection
        BY <1>5, <3>2
      <3>4. projections'[x] \in {projections[x], [projections[x] EXCEPT !.complete = complete]}
        BY <1>8, <2>2
      <3>5. /\ [projections[x] EXCEPT !.complete = complete] \in Projection
            /\ [projections[x] EXCEPT !.complete = complete].status = projections[x].status
        BY <1>1, <3>3, RowTypes, ProjectionMarks
      <3> QED BY <3>1, <3>2, <3>3, <3>4, <3>5, RowTypes
    <2> QED BY <2>1, <2>2
  <1> QED BY <1>2, <1>7, <1>8

\* Only the directory's operations write these tables.
LEMMA DirectoryRests ==
    ASSUME Next
    PROVE  UNCHANGED <<memberships, projections>> \/ Directory(Persons, Tenants)
  <1>1. CASE TenantAdministration(Tenants, Members)
    BY <1>1 DEF TenantAdministration, CreateTenant, SetActive, AssignTenantAdmin, RevokeTenantAdmin,
                grantsOnly, directoryVars
  <1>2. CASE Sessions(Accounts, Callers)
    BY <1>2 DEF Sessions, Login, CreateSession, ChangePassword, LoginRecheck, Logout, ResolveSession,
                UpdatePasswordAndRevokeSessions, nothingYet, sessionsOnly, credentials, directoryVars
  <1>3. CASE Recovery(Accounts, Members, Callers)
    BY <1>3 DEF Recovery, IssuePasswordResetToken, RequestSelfReactivation, IssueTenantPersonPasswordResetToken,
                RequestTenantPersonReactivation, CreatePasswordResetToken, ResetPassword,
                ConsumePasswordResetToken, CreateOrRefreshReactivationRequest, ReviewReactivationRequest,
                SetAccountActive, nothingYet, credentials, directoryVars
  <1>4. CASE AccountCreation(Members, Actors, Callers)
    BY <1>4 DEF AccountCreation, CreatePersonAccount, EnablePersonAuthentication, CreateAccount,
                EnableCreateAccount, CreateAccountTx, CreateActor, EnsureAccountActorFoundation, nothingYet,
                accountCreation, actorsOnly, directoryVars
  <1>5. CASE ApplicationAdministration(Globals)
    BY <1>5 DEF ApplicationAdministration, BootstrapAtStartup, ProvisionApplicationAdmin, directoryVars
  <1>6. CASE ActorAdministration(Actors, Callers)
    BY <1>6 DEF ActorAdministration, SetActorActive, SetTenantActorActive, SaveActor, nothingYet, actorsOnly,
                directoryVars
  <1>7. CASE GrantAdministration(GrantKeys, Callers)
    BY <1>7 DEF GrantAdministration, GrantActorRole, RevokeActorRoleGrant, GrantTenantOperatorRole,
                RevokeTenantOperatorRoleGrant, SaveGrant, SaveRevocation, nothingYet, grantsOnly, directoryVars
  <1>8. CASE Leasing(Globals, Persons, Tenants)
    BY <1>8 DEF Leasing, Expire, CreateSupportAccessLease, TransitionSupportAccessLease, leasesOnly, directoryVars
  <1>9. CASE Journeying(Members, Callers)
    BY <1>9 DEF Journeying, CreateJourney, InsertJourney, ExtendJourney, UpdateExtension, CloseJourney,
                UpdateJourney, journeysOnly, directoryVars
  <1> QED BY <1>1, <1>2, <1>3, <1>4, <1>5, <1>6, <1>7, <1>8, <1>9 DEF Next

\* DirectoryConsistent: a membership has its person and its tenant row with the
\* same status, and after the repair a known person is in a tenant's directory or
\* among those SearchGlobal offers it, never in both and never in neither.
THEOREM DirectoryKept == Spec => []DirectoryConsistent
  <1>1. Init => RowsAgree
    BY DEF Init, RowsAgree
  <1>2. ASSUME IdentityInv, RowsAgree, [Next]_identityVars PROVE RowsAgree'
    <2>1. CASE UNCHANGED <<memberships, projections>>
      BY <1>2, <2>1 DEF RowsAgree
    <2>2. CASE Directory(Persons, Tenants)
      <3>1. ASSUME NEW p \in Persons, NEW s \in Tenants, NEW status \in Statuses, NEW missing,
                   Update(<<p, s>>, status, missing)
            PROVE  RowsAgree'
        <4>1. <<p, s>> \in Members
          BY DEF Members
        <4> QED BY <1>2, <3>1, <4>1, UpdateAgrees
      <3>2. ASSUME NEW m \in Persons \X Tenants, Reactivate(m) PROVE RowsAgree'
        <4>1. m \in Members /\ projections[m] # None
          BY <3>2 DEF Members, Reactivate
        <4>2. projections[m].complete \in BOOLEAN
          BY <1>2, <4>1, DirectoryTypes, RowTypes
        <4> QED BY <1>2, <3>2, <4>1, <4>2, ReactivationAgrees DEF Reactivate
      <3> QED BY <1>2, <2>2, <3>1, <3>2, RepairAgrees, NewRowsAgree DEF Directory
    <2>3. UNCHANGED identityVars => UNCHANGED <<memberships, projections>>
      BY DEF identityVars, directoryVars
    <2> QED BY <1>2, <2>1, <2>2, <2>3, DirectoryRests
  <1>3. ASSUME IdentityInv, RowsAgree PROVE DirectoryConsistent
    <2>1. ASSUME Repaired, NEW s \in Tenants, NEW p \in Persons, people[p] # None
          PROVE  (<<p, s>> \in List(s)) # (p \in SearchGlobal(s))
      <3>1. <<p, s>> \in Members /\ TenantOf(<<p, s>>) = s
        BY DEF Members, TenantOf
      <3>2. projections[<<p, s>>] # None <=> memberships[<<p, s>>] # None
        BY <1>3, <2>1, <3>1 DEF Repaired, RowsAgree
      <3>3. <<p, s>> \in List(s) <=> projections[<<p, s>>] # None
        BY <3>1 DEF List
      <3>4. p \in SearchGlobal(s) <=> memberships[<<p, s>>] = None
        BY <2>1 DEF SearchGlobal
      <3> QED BY <3>2, <3>3, <3>4
    <2> QED BY <1>3, <2>1 DEF DirectoryConsistent, RowsAgree, IdentityInv, PersonsKnown
  <1>4. IdentityInv /\ RowsAgree /\ [Next]_identityVars => RowsAgree'
    BY <1>2
  <1>5. IdentityInv /\ RowsAgree => DirectoryConsistent
    BY <1>3
  <1> QED BY <1>1, <1>4, <1>5, IdentityInvariant, PTL DEF Spec
=============================================================================
