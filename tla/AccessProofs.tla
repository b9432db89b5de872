---------------------------- MODULE AccessProofs ----------------------------
(***************************************************************************)
(* Who may use the system, for any number of people, tenants, accounts and *)
(* calls in flight.  No session in a client's hands is of an account that  *)
(* may not be used, and the packages implement AccountAccess; suspension,  *)
(* reset tokens, support leases and open journeys keep their promises;     *)
(* what is offered can be used; administrators stay within their limits,   *)
(* and one remains.                                                        *)
(***************************************************************************)
EXTENDS IdentityProofs

-----------------------------------------------------------------------------
(***************************************************************************)
(* What every step does to access, the steps of a login and the issue of a *)
(* token excepted: at most one account changes whether it may be used, and *)
(* sessions and tokens only end.                                           *)
(***************************************************************************)
\* Calls stay, end or begin.  A login that has made its session stays; a reset
\* begins with a live token of an active account.
CallsSettle ==
    \A c \in Callers :
        \/ calls'[c] = calls[c]
        \/ calls'[c] = None /\ ~Running(c, "LOGIN")
        \/ /\ calls[c] = None /\ calls'[c] # None
           /\ calls'[c].op = "LOGIN" => calls'[c].ref = None
           /\ calls'[c].op = "RESET_PASSWORD" =>
                 (tokens[calls[c].ref] = calls[c].on /\ ActiveAccount(calls[c].on))'

SessionsEnd == \A s \in SessionIds : sessions'[s] \in {sessions[s], None}

UsableSame == \A a \in Accounts : Usable(a)' <=> Usable(a)

\* Only account a is concerned, and when it is locked its sessions end.
Turn(a) ==
    /\ \A b \in Accounts \ {a} : Usable(b)' <=> Usable(b)
    /\ \A s \in SessionIds : sessions'[s] = sessions[s] \/ (sessions[s] = a /\ sessions'[s] = None)
    /\ Usable(a) /\ ~Usable(a)' => \A s \in SessionIds : sessions'[s] # a

TokensEnd == \A k \in TokenIds : tokens'[k] \in {tokens[k], None}

\* An account that is closed takes its tokens with it.
LeavesNoToken == \A a \in Accounts : ActiveAccount(a) /\ ~ActiveAccount(a)' =>
                     \A k \in TokenIds : tokens'[k] # a

AccessEffect ==
    /\ CallsSettle
    /\ (UsableSame /\ SessionsEnd) \/ \E a \in Accounts : Turn(a)
    /\ TokensEnd /\ LeavesNoToken
    /\ SuspensionHolds'

LEMMA CallsRest == UNCHANGED calls => CallsSettle
  BY DEF CallsSettle

LEMMA CallsFinish ==
    ASSUME IdentityInv, NEW c \in Callers, Finish(c), ~Running(c, "LOGIN")
    PROVE  CallsSettle
  BY AccountTypes DEF CallsSettle, Finish

LEMMA CallsStart == IdentityInv /\ StartStep => CallsSettle /\ UNCHANGED nothingYet
  <1> SUFFICES ASSUME IdentityInv, StartStep PROVE CallsSettle /\ UNCHANGED nothingYet
    OBVIOUS
  <1>1. PICK c \in Callers, call \in Call :
            /\ Aimed(call)
            /\ call.op = "LOGIN" => call.ref = None
            /\ call.op = "RESET_PASSWORD" => tokens[call.ref] = call.on /\ ActiveAccount(call.on)
            /\ Start(c, call) /\ UNCHANGED nothingYet
    BY DEF StartStep
  <1>2. UNCHANGED <<accounts, tokens>>
    BY <1>1 DEF nothingYet, accountVars
  <1>3. calls[c] = None /\ \A d \in Callers : calls'[d] = IF d = c THEN call ELSE calls[d]
    BY <1>1, AccountTypes DEF Start
  <1> QED BY <1>1, <1>2, <1>3 DEF CallsSettle, ActiveAccount

\* Steps that touch neither people nor accounts, sessions and tokens.
LEMMA Bystander ==
    ASSUME SuspensionHolds, CallsSettle, UNCHANGED <<people, accounts, sessions, tokens>>
    PROVE  AccessEffect
  <1>1. UsableSame /\ SessionsEnd /\ TokensEnd /\ LeavesNoToken
    BY DEF UsableSame, Usable, SessionsEnd, TokensEnd, LeavesNoToken, ActiveAccount
  <1> QED BY <1>1 DEF AccessEffect, SuspensionHolds

\* Sessions and tokens end while accounts and people stay.
LEMMA CredentialsEnded ==
    ASSUME SuspensionHolds, CallsSettle, UNCHANGED <<people, accounts>>, SessionsEnd, TokensEnd
    PROVE  AccessEffect
  <1>1. UsableSame /\ LeavesNoToken
    BY DEF UsableSame, Usable, LeavesNoToken, ActiveAccount
  <1> QED BY <1>1 DEF AccessEffect, SuspensionHolds

\* One account is written.
LEMMA AccountTurned ==
    ASSUME IdentityInv, SuspensionHolds, CallsSettle, NEW a \in Accounts,
           \A b \in Accounts \ {a} : accounts'[b] = accounts[b] /\ (b \in Persons => people'[b] = people[b]),
           RevokeSessions(a) \/ (UNCHANGED sessions /\ (Usable(a) => Usable(a)')),
           InvalidatePasswordResetTokens(a) \/ (UNCHANGED tokens /\ (ActiveAccount(a) => ActiveAccount(a)')),
           accounts'[a] # None /\ accounts'[a].suspended => ~accounts'[a].active
    PROVE  AccessEffect
  <1>0. a # None
    BY IdentityConstants
  <1>1. Turn(a)
    <2>1. \A b \in Accounts \ {a} : Usable(b)' <=> Usable(b)
      BY DEF Usable
    <2>2. \A s \in SessionIds : sessions'[s] = sessions[s] \/ (sessions[s] = a /\ sessions'[s] = None)
      BY DEF RevokeSessions
    <2>3. RevokeSessions(a) => \A s \in SessionIds : sessions'[s] # a
      BY <1>0 DEF RevokeSessions
    <2> QED BY <2>1, <2>2, <2>3 DEF Turn
  <1>2. TokensEnd
    BY DEF TokensEnd, InvalidatePasswordResetTokens
  <1>3. LeavesNoToken
    <2>1. \A b \in Accounts \ {a} : ActiveAccount(b)' <=> ActiveAccount(b)
      BY DEF ActiveAccount
    <2>2. InvalidatePasswordResetTokens(a) => \A k \in TokenIds : tokens'[k] # a
      BY <1>0 DEF InvalidatePasswordResetTokens
    <2> QED BY <2>1, <2>2 DEF LeavesNoToken
  <1>4. SuspensionHolds'
    BY DEF SuspensionHolds
  <1> QED BY <1>1, <1>2, <1>3, <1>4 DEF AccessEffect

-----------------------------------------------------------------------------
(***************************************************************************)
(* Rows that refer to other rows find them: an account has its person, the *)
(* actor of a member the tenant's row, a call about an actor the actor.    *)
(***************************************************************************)
OwnersKnown == \A p \in Persons : accounts[p] # None => people[p] # None

ActorsListed == \A m \in Members : actors[m] # None => projections[m] # None

ActorsAimed == \A c \in Callers : calls[c] # None /\ calls[c].op \in ActorOps => actors[calls[c].on] # None

KnownInv == IdentityInv /\ OwnersKnown /\ ActorsListed /\ ActorsAimed

\* Nobody and no row is ever removed, and what is new refers to what exists.
KnownEffect ==
    /\ \A p \in Persons : /\ people[p] # None => people'[p] # None
                          /\ accounts'[p] # None => accounts[p] # None \/ people[p] # None
    /\ \A m \in Members : /\ projections[m] # None => projections'[m] # None
                          /\ actors'[m] # None => actors[m] # None \/ projections'[m] # None
    /\ \A x \in Actors : actors[x] # None => actors'[x] # None
    /\ \A c \in Callers : \/ calls'[c] \in {calls[c], None}
                          \/ calls'[c].op \in ActorOps => (actors[calls[c].on] # None)'

LEMMA KnownKept ==
    ASSUME KnownInv, IdentityInv', KnownEffect
    PROVE  KnownInv'
  <1>1. OwnersKnown'
    BY DEF KnownInv, OwnersKnown, KnownEffect
  <1>2. ActorsListed'
    BY DEF KnownInv, ActorsListed, KnownEffect
  <1>3. ASSUME NEW c \in Callers, calls'[c] = calls[c], calls[c] # None, calls[c].op \in ActorOps
        PROVE  actors'[calls[c].on] # None
    <2>1. calls[c].on \in Actors /\ actors[calls[c].on] # None
      BY <1>3 DEF KnownInv, ActorsAimed, IdentityInv, CallsAimed, Aimed
    <2> QED BY <2>1 DEF KnownEffect
  <1>4. ActorsAimed'
    BY <1>3 DEF ActorsAimed, KnownEffect
  <1> QED BY <1>1, <1>2, <1>4 DEF KnownInv

StepEffect == KnownEffect /\ AccessEffect

\* Calls that only end.
CallsEnd == UNCHANGED calls \/ \E c \in Callers : Finish(c) /\ ~Running(c, "LOGIN")

LEMMA CallsEndSettle ==
    ASSUME IdentityInv, CallsEnd
    PROVE  CallsSettle /\ \A c \in Callers : calls'[c] \in {calls[c], None}
  <1>1. \A c \in Callers : calls'[c] \in {calls[c], None}
    BY SameCalls, FinishType DEF CallsEnd
  <1> QED BY <1>1, CallsRest, CallsFinish DEF CallsEnd

LEMMA StartEffect ==
    ASSUME IdentityInv, SuspensionHolds, StartStep
    PROVE  StepEffect
  <1>1. PICK c \in Callers, call \in Call :
            /\ call.op \in ActorOps => actors[call.on] # None
            /\ Start(c, call) /\ UNCHANGED nothingYet
    BY DEF StartStep
  <1>2. \A d \in Callers : calls'[d] = IF d = c THEN call ELSE calls[d]
    BY <1>1, AccountTypes DEF Start
  <1>3. UNCHANGED <<people, projections, accounts, sessions, tokens, actors>>
    BY <1>1 DEF nothingYet, directoryVars, accountVars, authzVars
  <1>4. KnownEffect
    BY <1>1, <1>2, <1>3 DEF KnownEffect
  <1> QED BY <1>3, <1>4, CallsStart, Bystander DEF StepEffect

\* The tables of tenants, grants, bindings, leases, journeys and requests do
\* not matter here.
LEMMA PlainEffect ==
    ASSUME IdentityInv, SuspensionHolds, CallsEnd,
           UNCHANGED <<people, projections, accounts, sessions, tokens, actors>>
    PROVE  StepEffect
  <1>1. KnownEffect
    BY CallsEndSettle DEF KnownEffect
  <1> QED BY <1>1, CallsEndSettle, Bystander DEF StepEffect

LEMMA PlainSteps ==
    ASSUME IdentityInv, SuspensionHolds,
           \/ \E s \in Tenants, active \in BOOLEAN : CreateTenant(s, active) \/ SetActive(s, active)
           \/ \E m \in Members : AssignTenantAdmin(m) \/ RevokeTenantAdmin(m)
           \/ \E c \in Callers : \/ SaveGrant(c) \/ SaveRevocation(c)
                                 \/ CreateOrRefreshReactivationRequest(c)
           \/ EnsureAccountActorFoundation
           \/ Leasing(Globals, Persons, Tenants)
           \/ \E c \in Callers, j \in JourneyIds : InsertJourney(c, j)
           \/ \E c \in Callers : UpdateExtension(c)
           \/ \E j \in JourneyIds : CloseJourney(j) \/ \E days \in 0..MaxExtension : UpdateJourney(j, days)
    PROVE  StepEffect
  <1>1. CASE \E s \in Tenants, active \in BOOLEAN : CreateTenant(s, active) \/ SetActive(s, active)
    BY <1>1, PlainEffect DEF CreateTenant, SetActive, CallsEnd, accountVars, authzVars
  <1>2. CASE \E m \in Members : AssignTenantAdmin(m) \/ RevokeTenantAdmin(m)
    BY <1>2, PlainEffect DEF AssignTenantAdmin, RevokeTenantAdmin, CallsEnd, grantsOnly, directoryVars, accountVars
  <1>3. CASE \E c \in Callers : SaveGrant(c) \/ SaveRevocation(c)
    BY <1>3, PlainEffect DEF SaveGrant, SaveRevocation, CallsEnd, Running, grantsOnly, directoryVars, accountVars
  <1>4. CASE \E c \in Callers : CreateOrRefreshReactivationRequest(c)
    BY <1>4, PlainEffect DEF CreateOrRefreshReactivationRequest, CallsEnd, Running, directoryVars, authzVars
  <1>5. CASE EnsureAccountActorFoundation
    BY <1>5, PlainEffect DEF EnsureAccountActorFoundation, CallsEnd, accountCreation, directoryVars
  <1>6. CASE Leasing(Globals, Persons, Tenants)
    <2>1. UNCHANGED leasesOnly
      BY <1>6 DEF Leasing, Expire, CreateSupportAccessLease, TransitionSupportAccessLease
    <2> QED BY <2>1, PlainEffect DEF leasesOnly, CallsEnd, directoryVars, accountVars, authzVars
  <1>7. CASE \E c \in Callers, j \in JourneyIds : InsertJourney(c, j)
    BY <1>7, PlainEffect DEF InsertJourney, CallsEnd, Running, journeysOnly, directoryVars, accountVars, authzVars
  <1>8. CASE \E c \in Callers : UpdateExtension(c)
    BY <1>8, PlainEffect DEF UpdateExtension, CallsEnd, Running, journeysOnly, directoryVars, accountVars, authzVars
  <1>9. CASE \E j \in JourneyIds : CloseJourney(j) \/ \E days \in 0..MaxExtension : UpdateJourney(j, days)
    BY <1>9, PlainEffect DEF CloseJourney, UpdateJourney, CallsEnd, journeysOnly, directoryVars, accountVars, authzVars
  <1> QED BY <1>1, <1>2, <1>3, <1>4, <1>5, <1>6, <1>7, <1>8, <1>9

\* Actors.
LEMMA ActorSteps ==
    ASSUME KnownInv, SuspensionHolds,
           \/ \E x \in Actors, active \in BOOLEAN : CreateActor(x, active)
           \/ \E c \in Callers : SaveActor(c)
           \/ \E g \in Globals : BootstrapAtStartup(g)
    PROVE  StepEffect
  <1>0. IdentityInv /\ actors \in [Actors -> BOOLEAN \cup {None}] /\ None \notin BOOLEAN
    BY AuthzTypes, IdentityConstants DEF KnownInv
  <1>1. ASSUME NEW x \in Actors, NEW active \in BOOLEAN, CreateActor(x, active) PROVE StepEffect
    <2>1. /\ actors' = [actors EXCEPT ![x] = active] /\ (x \in Members => projections[x] # None)
          /\ UNCHANGED <<people, projections, accounts, sessions, tokens, calls>>
      BY <1>1 DEF CreateActor, actorsOnly, directoryVars, accountVars
    <2>2. KnownEffect
      BY <1>0, <2>1 DEF KnownEffect
    <2> QED BY <2>1, <2>2, CallsRest, Bystander DEF StepEffect
  <1>2. ASSUME NEW c \in Callers, SaveActor(c) PROVE StepEffect
    <2>1. PICK active \in BOOLEAN :
             /\ Running(c, IF active THEN "ACTIVATE_ACTOR" ELSE "DEACTIVATE_ACTOR")
             /\ actors' = [actors EXCEPT ![calls[c].on] = active]
             /\ Finish(c) /\ UNCHANGED actorsOnly
      BY <1>2 DEF SaveActor
    <2>2. calls[c] # None /\ calls[c].op \in ActorOps /\ ~Running(c, "LOGIN")
      BY <2>1 DEF Running, ActorOps
    <2>3. actors[calls[c].on] # None
      BY <2>2 DEF KnownInv, ActorsAimed
    <2>4. UNCHANGED <<people, projections, accounts, sessions, tokens>>
      BY <2>1 DEF actorsOnly, directoryVars, accountVars
    <2>5. KnownEffect
      BY <1>0, <2>1, <2>3, <2>4, FinishType DEF KnownEffect
    <2> QED BY <1>0, <2>1, <2>2, <2>4, <2>5, CallsFinish, Bystander DEF StepEffect
  <1>3. ASSUME NEW g \in Globals, BootstrapAtStartup(g) PROVE StepEffect
    <2>1. actors' = [actors EXCEPT ![g] = TRUE]
          /\ UNCHANGED <<people, projections, accounts, sessions, tokens, calls>>
      BY <1>3 DEF BootstrapAtStartup, EnsureBootstrapActor, directoryVars, accountVars
    <2>2. \A m \in Members : m \in Actors /\ m # g
      BY IdentityConstants DEF Actors
    <2>3. \A x \in Actors : x # g => actors'[x] = actors[x]
      BY <1>0, <2>1
    <2>4. g \in Actors /\ actors'[g] \in BOOLEAN
      BY <1>0, <2>1 DEF Actors
    <2>5. KnownEffect
      BY <1>0, <2>1, <2>2, <2>3, <2>4 DEF KnownEffect
    <2> QED BY <2>1, <2>5, CallsRest, Bystander DEF StepEffect
  <1> QED BY <1>1, <1>2, <1>3

\* Making accounts.
LEMMA NewAccountEffect ==
    ASSUME KnownInv, SuspensionHolds, NEW a \in Accounts, CreateAuthenticationAccount(a),
           CallsEnd, UNCHANGED <<people, sessions, tokens>>
    PROVE  AccessEffect
  <1>1. IdentityInv /\ accounts \in [Accounts -> Account \cup {None}] /\ CallsSettle
    BY AccountTypes, CallsEndSettle DEF KnownInv
  <1>2. CASE accounts[a] # None
    <2>1. UNCHANGED accounts
      BY <1>2 DEF CreateAuthenticationAccount
    <2> QED BY <1>1, <2>1, Bystander
  <1>3. CASE accounts[a] = None
    <2>1. accounts' = [accounts EXCEPT ![a] = [active |-> TRUE, suspended |-> FALSE]]
      BY <1>3 DEF CreateAuthenticationAccount
    <2>2. accounts'[a].suspended = FALSE /\ \A b \in Accounts \ {a} : accounts'[b] = accounts[b]
      BY <1>1, <2>1
    <2>3. ~Usable(a) /\ ~ActiveAccount(a)
      BY <1>3 DEF Usable, ActiveAccount
    <2> QED BY <1>1, <2>2, <2>3, AccountTurned
  <1> QED BY <1>2, <1>3

LEMMA PersonAccountEffect ==
    ASSUME KnownInv, SuspensionHolds, NEW m \in Members, PersonAccountAllowed(m), CreatePersonAccountTx(m),
           CallsEnd, UNCHANGED <<people, projections, sessions, tokens>>
    PROVE  StepEffect
  <1>1. /\ accounts \in [Accounts -> Account \cup {None}] /\ actors \in [Actors -> BOOLEAN \cup {None}]
        /\ None \notin BOOLEAN /\ \A c \in Callers : calls'[c] \in {calls[c], None}
    BY AccountTypes, AuthzTypes, IdentityConstants, CallsEndSettle DEF KnownInv
  <1>2. PersonOf(m) \in Persons /\ people[PersonOf(m)] # None /\ projections[m] # None
    BY DirectoryTypes DEF KnownInv, PersonAccountAllowed
  <1>3. PersonOf(m) \in Accounts /\ m \in Actors
    BY <1>2 DEF Accounts, Actors
  <1>4. AccessEffect
    BY <1>3, NewAccountEffect DEF CreatePersonAccountTx
  <1>5. \A p \in Persons : p # PersonOf(m) => accounts'[p] = accounts[p]
    BY <1>1 DEF CreatePersonAccountTx, CreateAuthenticationAccount, Accounts
  <1>6. /\ \A x \in Actors : x # m => actors'[x] = actors[x]
        /\ actors'[m] \in BOOLEAN
    BY <1>1, <1>3 DEF CreatePersonAccountTx, EnsurePersonTenantActor
  <1>7. \A x \in Members : x \in Actors
    BY DEF Actors
  <1>8. KnownEffect
    BY <1>1, <1>2, <1>5, <1>6, <1>7 DEF KnownEffect
  <1> QED BY <1>4, <1>8 DEF StepEffect

LEMMA AccountCreationSteps ==
    ASSUME KnownInv, SuspensionHolds,
           \/ \E m \in Members : CreatePersonAccount(m)
           \/ \E c \in Callers : EnableCreateAccount(c) \/ CreateAccountTx(c)
    PROVE  StepEffect
  <1>0. IdentityInv
    BY DEF KnownInv
  <1>1. ASSUME NEW m \in Members, CreatePersonAccount(m) PROVE StepEffect
    BY <1>1, PersonAccountEffect DEF CreatePersonAccount, CallsEnd, accountCreation, directoryVars
  <1>2. ASSUME NEW c \in Callers, EnableCreateAccount(c) PROVE StepEffect
    <2>1. calls[c].on \in Members
      BY <1>0, <1>2 DEF EnableCreateAccount, Running, IdentityInv, CallsAimed, Aimed, MemberOps
    <2>2. CallsEnd /\ UNCHANGED <<people, projections, sessions, tokens>>
      BY <1>2 DEF EnableCreateAccount, Running, CallsEnd, accountCreation, directoryVars
    <2>3. CASE PersonAccountAllowed(calls[c].on)
      BY <1>2, <2>1, <2>2, <2>3, PersonAccountEffect DEF EnableCreateAccount
    <2>4. CASE ~PersonAccountAllowed(calls[c].on)
      BY <1>0, <1>2, <2>2, <2>4, PlainEffect DEF EnableCreateAccount
    <2> QED BY <2>3, <2>4
  <1>3. ASSUME NEW c \in Callers, CreateAccountTx(c) PROVE StepEffect
    <2> DEFINE x == calls[c].on
    <2>1. x \in Actors /\ actors[x] # None
      BY <1>0, <1>3 DEF CreateAccountTx, Running, IdentityInv, CallsAimed, Aimed, KnownInv, ActorsAimed, ActorOps
    <2>2. CallsEnd /\ UNCHANGED <<people, projections, sessions, tokens, actors>>
      BY <1>3 DEF CreateAccountTx, Running, CallsEnd, accountCreation, directoryVars
    <2>3. UNCHANGED accounts \/ CreateAuthenticationAccount(AccountOf(x))
      BY <1>3 DEF CreateAccountTx
    <2>4. AccountOf(x) \in Accounts /\ (AccountOf(x) \in Persons => people[AccountOf(x)] # None)
      <3>1. CASE x \in Members
        <4>1. projections[x] # None
          BY <2>1, <3>1 DEF KnownInv, ActorsListed
        <4>2. memberships[x] # None
          BY <1>3, <3>1, <4>1 DEF CreateAccountTx, Repaired
        <4>3. PersonOf(x) \in Persons /\ people[PersonOf(x)] # None
          BY <1>0, <3>1, <4>2, DirectoryTypes
        <4> QED BY <3>1, <4>3 DEF AccountOf, PersonOf, Accounts
      <3>2. CASE x \notin Members
        BY <2>1, <3>2, IdentityConstants DEF AccountOf, Actors, Accounts
      <3> QED BY <3>1, <3>2
    <2> HIDE DEF x
    <2>5. CASE UNCHANGED accounts
      BY <1>0, <2>2, <2>5, PlainEffect
    <2>6. CASE CreateAuthenticationAccount(AccountOf(x))
      <3>1. AccessEffect
        BY <2>2, <2>4, <2>6, NewAccountEffect
      <3>2. \A p \in Persons : p # AccountOf(x) => accounts'[p] = accounts[p]
        BY <1>0, <2>6, AccountTypes DEF CreateAuthenticationAccount, Accounts
      <3>3. KnownEffect
        BY <1>0, <2>2, <2>4, <3>2, CallsEndSettle DEF KnownEffect
      <3> QED BY <3>1, <3>3 DEF StepEffect
    <2> QED BY <2>3, <2>5, <2>6
  <1> QED BY <1>1, <1>2, <1>3

LEMMA ProvisionSteps ==
    ASSUME KnownInv, SuspensionHolds, NEW g \in Globals, NEW changed \in BOOLEAN,
           ProvisionApplicationAdmin(g, changed)
    PROVE  StepEffect
  <1>1. /\ IdentityInv /\ None \notin BOOLEAN
        /\ accounts \in [Accounts -> Account \cup {None}] /\ actors \in [Actors -> BOOLEAN \cup {None}]
    BY AccountTypes, AuthzTypes, IdentityConstants DEF KnownInv
  <1>2. g \in Accounts /\ g \in Actors /\ g \notin Persons /\ \A m \in Members : m \in Actors /\ m # g
    BY IdentityConstants DEF Accounts, Actors
  <1>3. /\ accounts' = [accounts EXCEPT ![g] = [active |-> TRUE, suspended |-> FALSE]]
        /\ actors' = [actors EXCEPT ![g] = TRUE]
        /\ UNCHANGED <<people, projections, calls>>
    BY DEF ProvisionApplicationAdmin, EnsureBootstrapActor, directoryVars
  <1>4. /\ RevokeSessions(g) \/ UNCHANGED sessions
        /\ InvalidatePasswordResetTokens(g) \/ UNCHANGED tokens
    BY DEF ProvisionApplicationAdmin
  <1>5. /\ \A b \in Accounts \ {g} : accounts'[b] = accounts[b]
        /\ accounts'[g] \in Account /\ accounts'[g].active /\ ~accounts'[g].suspended
    BY <1>1, <1>2, <1>3 DEF Account
  <1>6. Usable(g)' /\ ActiveAccount(g)'
    BY <1>2, <1>5, IdentityConstants DEF Usable, ActiveAccount
  <1>7. AccessEffect
    BY <1>1, <1>2, <1>3, <1>4, <1>5, <1>6, CallsRest, AccountTurned
  <1>8. (\A x \in Actors : x # g => actors'[x] = actors[x]) /\ actors'[g] \in BOOLEAN
    BY <1>1, <1>2, <1>3
  <1>9. \A p \in Persons : accounts'[p] = accounts[p]
    BY <1>2, <1>5 DEF Accounts
  <1>10. KnownEffect
    BY <1>1, <1>2, <1>3, <1>8, <1>9 DEF KnownEffect
  <1> QED BY <1>7, <1>10 DEF StepEffect

\* Sessions, tokens and the state of accounts.
LEMMA RowsRest ==
    ASSUME IdentityInv, CallsEnd, UNCHANGED <<people, projections, actors>>,
           \A p \in Persons : accounts'[p] # None => accounts[p] # None
    PROVE  KnownEffect
  BY CallsEndSettle DEF KnownEffect

LEMMA CredentialSteps ==
    ASSUME IdentityInv, SuspensionHolds,
           \/ \E s \in SessionIds : Logout(s) \/ \E expired \in BOOLEAN : ResolveSession(s, expired)
           \/ \E c \in Callers : UpdatePasswordAndRevokeSessions(c)
           \/ \E c \in Callers, expired \in BOOLEAN : ConsumePasswordResetToken(c, expired)
    PROVE  StepEffect
  <1>1. ASSUME NEW s \in SessionIds, NEW expired \in BOOLEAN, Logout(s) \/ ResolveSession(s, expired)
        PROVE  StepEffect
    <2>1. /\ sessions' = [sessions EXCEPT ![s] = None]
          /\ UNCHANGED <<people, projections, accounts, tokens, actors, calls>>
      BY <1>1 DEF Logout, ResolveSession, sessionsOnly, directoryVars, authzVars
    <2>2. SessionsEnd /\ TokensEnd /\ CallsEnd
      BY <2>1, AccountTypes DEF SessionsEnd, TokensEnd, CallsEnd
    <2> QED BY <2>1, <2>2, CallsEndSettle, RowsRest, CredentialsEnded DEF StepEffect
  <1>2. ASSUME NEW c \in Callers, NEW expired \in BOOLEAN,
               UpdatePasswordAndRevokeSessions(c) \/ ConsumePasswordResetToken(c, expired)
        PROVE  StepEffect
    <2>1. /\ UNCHANGED <<people, projections, accounts, actors>>
          /\ CallsEnd
      BY <1>2 DEF UpdatePasswordAndRevokeSessions, ConsumePasswordResetToken, Running, CallsEnd, credentials,
                  directoryVars, authzVars
    <2>2. \/ UNCHANGED <<sessions, tokens>>
          \/ RevokeSessions(calls[c].on) /\ InvalidatePasswordResetTokens(calls[c].on)
      BY <1>2 DEF UpdatePasswordAndRevokeSessions, ConsumePasswordResetToken
    <2>3. SessionsEnd /\ TokensEnd
      BY <2>2 DEF SessionsEnd, TokensEnd, RevokeSessions, InvalidatePasswordResetTokens
    <2> QED BY <2>1, <2>3, CallsEndSettle, RowsRest, CredentialsEnded DEF StepEffect
  <1> QED BY <1>1, <1>2

LEMMA AccountStateSteps ==
    ASSUME IdentityInv, SuspensionHolds, NEW a \in Accounts, NEW yes \in BOOLEAN,
           ReviewReactivationRequest(a, yes) \/ SetAccountActive(a, yes)
    PROVE  StepEffect
  <1>0. accounts \in [Accounts -> Account \cup {None}] /\ CallsSettle /\ CallsEnd
        /\ UNCHANGED <<people, projections, actors>>
    BY AccountTypes, CallsRest
       DEF ReviewReactivationRequest, SetAccountActive, CallsEnd, directoryVars, authzVars
  <1>1. CASE SetAccountActive(a, yes)
    <2> DEFINE effective == yes /\ EffectiveActive(a)
    <2>1. /\ accounts[a] # None
          /\ accounts' = [accounts EXCEPT ![a] = [active |-> effective, suspended |-> ~yes]]
          /\ (IF effective THEN UNCHANGED <<sessions, tokens>>
              ELSE RevokeSessions(a) /\ InvalidatePasswordResetTokens(a))
      BY <1>1 DEF SetAccountActive
    <2>2. effective \in BOOLEAN /\ (effective => yes /\ EffectiveActive(a))
      OBVIOUS
    <2> HIDE DEF effective
    <2>3. accounts'[a] = [active |-> effective, suspended |-> ~yes]
          /\ \A b \in Accounts \ {a} : accounts'[b] = accounts[b]
      BY <1>0, <2>1
    <2>4. accounts'[a] \in Account /\ accounts'[a].active = effective /\ accounts'[a].suspended = ~yes
      BY <2>2, <2>3 DEF Account
    <2>5. accounts'[a] # None
      BY <2>4, IdentityConstants
    <2>6. effective => (Usable(a) => Usable(a)') /\ (ActiveAccount(a) => ActiveAccount(a)')
      BY <1>0, <2>2, <2>4, <2>5 DEF Usable, ActiveAccount
    <2>7. accounts'[a].suspended => ~accounts'[a].active
      BY <2>2, <2>4
    <2>8. AccessEffect
      BY <1>0, <2>1, <2>2, <2>3, <2>6, <2>7, AccountTurned
    <2>9. KnownEffect
      BY <1>0, <2>1, <2>3, RowsRest DEF Accounts
    <2> QED BY <2>8, <2>9 DEF StepEffect
  <1>2. CASE ReviewReactivationRequest(a, yes)
    <2>1. CASE ~yes
      BY <1>0, <1>2, <2>1, PlainEffect DEF ReviewReactivationRequest
    <2>2. CASE yes
      <3>1. /\ ~accounts[a].active /\ RevokeSessions(a) /\ UNCHANGED tokens
            /\ accounts' = [accounts EXCEPT ![a] = [active |-> EffectiveActive(a), suspended |-> FALSE]]
        BY <1>2, <2>2 DEF ReviewReactivationRequest
      <3>2. accounts'[a].suspended = FALSE /\ \A b \in Accounts \ {a} : accounts'[b] = accounts[b]
        BY <1>0, <3>1
      <3>3. ~ActiveAccount(a)
        BY <3>1 DEF ActiveAccount
      <3>4. AccessEffect
        BY <1>0, <3>1, <3>2, <3>3, AccountTurned
      <3>5. accounts[a] # None
        BY <1>2, <2>2 DEF ReviewReactivationRequest
      <3>6. KnownEffect
        BY <1>0, <3>2, <3>5, RowsRest DEF Accounts
      <3> QED BY <3>4, <3>6 DEF StepEffect
    <2> QED BY <2>1, <2>2
  <1> QED BY <1>1, <1>2

-----------------------------------------------------------------------------
(***************************************************************************)
(* The directory.                                                          *)
(***************************************************************************)
\* A person's row is made or edited: whether known people may work stays.
LEMMA PeopleEdited ==
    ASSUME KnownInv, SuspensionHolds, UNCHANGED <<accounts, sessions, tokens, actors, calls>>,
           \A p \in Persons : people[p] # None =>
               people'[p] # None /\ people'[p].operational = people[p].operational,
           \A m \in Members : projections[m] # None => projections'[m] # None
    PROVE  StepEffect
  <1>1. IdentityInv /\ CallsEnd
    BY DEF KnownInv, CallsEnd
  <1>2. \A p \in Persons : accounts[p] # None =>
            people[p] # None /\ people'[p] # None /\ people'[p].operational = people[p].operational
    BY DEF KnownInv, OwnersKnown
  <1>3. UsableSame
    BY <1>2 DEF UsableSame, Usable
  <1>4. SessionsEnd /\ TokensEnd /\ LeavesNoToken
    BY DEF SessionsEnd, TokensEnd, LeavesNoToken, ActiveAccount
  <1>5. AccessEffect
    BY <1>3, <1>4, CallsRest DEF AccessEffect, SuspensionHolds
  <1>6. KnownEffect
    BY <1>1, CallsEndSettle DEF KnownEffect
  <1> QED BY <1>5, <1>6 DEF StepEffect

LEMMA RepairEffect ==
    ASSUME KnownInv, SuspensionHolds, NEW latest \in Tenants, EnsureGlobalPersonMembershipFoundation(latest)
    PROVE  StepEffect
  <1>0. IdentityInv
    BY DEF KnownInv
  <1>1. /\ people' = [p \in Persons |-> RepairedPerson(p, latest)]
        /\ projections' = [m \in Members |->
               IF projections[m] = None THEN None
               ELSE [projections[m] EXCEPT !.status = RepairedMembership(m, latest)]]
        /\ UNCHANGED <<accounts, sessions, tokens, actors, calls>>
    BY DEF EnsureGlobalPersonMembershipFoundation, RepairFoundation, accountVars, authzVars
  <1>2. /\ \A p \in Persons : people[p] # None => RepairedPerson(p, latest) = people[p]
        /\ \A m \in Members : projections[m] # None => RepairedMembership(m, latest) \in Statuses
    BY <1>0, RepairTypes
  <1>3. ASSUME NEW m \in Members, projections[m] # None PROVE projections'[m] # None
    <2>1. projections[m] \in Projection /\ RepairedMembership(m, latest) \in Statuses
      BY <1>0, <1>2, <1>3, DirectoryTypes
    <2>2. [projections[m] EXCEPT !.status = RepairedMembership(m, latest)] \in Projection
      BY <2>1, RowTypes
    <2> QED BY <1>1, <1>3, <2>2, RowTypes
  <1>4. \A p \in Persons : people[p] # None => people'[p] = people[p]
    BY <1>1, <1>2
  <1> QED BY <1>1, <1>3, <1>4, PeopleEdited

LEMMA CreateEffect ==
    ASSUME KnownInv, SuspensionHolds, NEW p \in Persons, NEW s \in Tenants, NEW status \in Statuses,
           NEW missing, Create(p, s, status, missing)
    PROVE  StepEffect
  <1>0. /\ IdentityInv
        /\ people \in [Persons -> Person \cup {None}] /\ projections \in [Members -> Projection \cup {None}]
    BY DirectoryTypes DEF KnownInv
  <1>1. people[p] = None
    BY DEF Create, UniqueConflicts
  <1>2. /\ people' = [people EXCEPT ![p] =
               [operational |-> status # "INACTIVE", complete |-> ComputeCompletion(missing)]]
        /\ projections' = [projections EXCEPT ![<<p, s>>] =
               [status |-> status, complete |-> ComputeCompletion(missing)]]
        /\ UNCHANGED <<accounts, sessions, tokens, actors, calls>>
    BY DEF Create, CreatePerson, accountVars, authzVars
  <1>3. \A q \in Persons : people[q] # None => people'[q] = people[q]
    BY <1>0, <1>1, <1>2
  <1>4. [status |-> status, complete |-> ComputeCompletion(missing)] # None
    BY RowTypes DEF ComputeCompletion
  <1>5. \A m \in Members : projections[m] # None => projections'[m] # None
    BY <1>0, <1>2, <1>4
  <1> QED BY <1>2, <1>3, <1>5, PeopleEdited

\* Reactivation opens the account of a person who has one, unless suspended.
LEMMA ReactivationEffect ==
    ASSUME KnownInv, SuspensionHolds, NEW m \in Members, NEW complete \in BOOLEAN, people[PersonOf(m)] # None,
           ReactivateTenantMembership(m, complete)
    PROVE  StepEffect
  <1> DEFINE p == PersonOf(m)
             person == [people[p] EXCEPT !.operational = TRUE]
             row == [status |-> "ACTIVE", complete |-> complete]
  <1>0. /\ IdentityInv /\ CallsEnd
        /\ people \in [Persons -> Person \cup {None}] /\ projections \in [Members -> Projection \cup {None}]
        /\ accounts \in [Accounts -> Account \cup {None}] /\ actors \in [Actors -> BOOLEAN \cup {None}]
    BY DirectoryTypes, AccountTypes, AuthzTypes DEF KnownInv, CallsEnd, ReactivateTenantMembership
  <1>1. p \in Persons /\ p \in Accounts /\ people[p] \in Person /\ m \in Actors
    BY <1>0, DirectoryTypes DEF Accounts, Actors
  <1>2. person \in Person /\ person.operational = TRUE /\ row \in Projection
    BY <1>1, RowTypes DEF Person
  <1>3. /\ people' = [people EXCEPT ![p] = person]
        /\ projections' = [projections EXCEPT ![m] = row]
        /\ ReactivateAccount(m)
        /\ UNCHANGED <<sessions, tokens, calls>>
        /\ accounts[p] # None => ~accounts[p].suspended
    BY DEF ReactivateTenantMembership, PersonAccountSecuritySuspended
  <1> HIDE DEF person, row, p
  <1>4. /\ \A q \in Persons : q # p => people'[q] = people[q]
        /\ people'[p] # None /\ people'[p].operational
    BY <1>0, <1>1, <1>2, <1>3, RowTypes
  <1>5. \A x \in Members : projections[x] # None => projections'[x] # None
    BY <1>0, <1>2, <1>3, RowTypes
  <1>6. projections'[m] # None
    BY <1>0, <1>2, <1>3, RowTypes
  <1>7. CASE accounts[p] = None
    <2>1. UNCHANGED <<accounts, actors>>
      BY <1>3, <1>7 DEF ReactivateAccount, p
    <2>2. ~Usable(p) /\ ~ActiveAccount(p)
      BY <1>7 DEF Usable, ActiveAccount
    <2>3. AccessEffect
      BY <1>0, <1>1, <1>3, <1>4, <1>7, <2>1, <2>2, CallsRest, AccountTurned
    <2>4. KnownEffect
      BY <1>0, <1>4, <1>5, <2>1, CallsEndSettle DEF KnownEffect
    <2> QED BY <2>3, <2>4 DEF StepEffect
  <1>8. CASE accounts[p] # None
    <2> DEFINE open == [accounts[p] EXCEPT !.active = TRUE]
    <2>1. /\ accounts' = [accounts EXCEPT ![p] = open]
          /\ actors' = [actors EXCEPT ![m] = TRUE]
      BY <1>3, <1>8 DEF ReactivateAccount, p
    <2>2. accounts[p] \in Account /\ open \in Account /\ open.active /\ open.suspended = accounts[p].suspended
      BY <1>0, <1>1, <1>8 DEF Account
    <2> HIDE DEF open
    <2>3. accounts'[p] = open /\ \A b \in Accounts \ {p} : accounts'[b] = accounts[b]
      BY <1>0, <1>1, <2>1
    <2>4. open # None
      BY <2>2, IdentityConstants
    <2>5. Usable(p)' /\ ActiveAccount(p)'
      BY <1>3, <1>4, <1>8, <2>2, <2>3, <2>4 DEF Usable, ActiveAccount
    <2>6. AccessEffect
      BY <1>0, <1>1, <1>3, <1>4, <1>8, <2>2, <2>3, <2>5, CallsRest, AccountTurned
    <2>7. /\ \A x \in Actors : x # m => actors'[x] = actors[x]
          /\ actors'[m] \in BOOLEAN
      BY <1>0, <1>1, <2>1
    <2>8. \A x \in Members : x \in Actors
      BY DEF Actors
    <2>9. \A q \in Persons : accounts'[q] # None => accounts[q] # None
      BY <1>8, <2>3 DEF Accounts
    <2>10. None \notin BOOLEAN
      BY IdentityConstants
    <2>11. KnownEffect
      BY <1>0, <1>4, <1>5, <1>6, <2>7, <2>8, <2>9, <2>10, CallsEndSettle DEF KnownEffect
    <2> QED BY <2>6, <2>11 DEF StepEffect
  <1> QED BY <1>7, <1>8

LEMMA JoinEffect ==
    ASSUME KnownInv, SuspensionHolds, NEW p \in Persons, NEW s \in Tenants, NEW status \in Statuses,
           CreateMembership(p, s, status)
    PROVE  StepEffect
  <1> DEFINE m == <<p, s>>
  <1>0. IdentityInv /\ people[p] # None
    BY DEF KnownInv, CreateMembership
  <1>1. m \in Members /\ PersonOf(m) = p /\ people[p].complete \in BOOLEAN
    BY <1>0, DirectoryTypes, RowTypes DEF Members, PersonOf
  <1>2. CASE ReactivateTenantMembership(m, people[p].complete)
    BY <1>0, <1>1, <1>2, ReactivationEffect
  <1>3. CASE ~ReactivateTenantMembership(m, people[p].complete)
    <2> DEFINE row == [status |-> status, complete |-> people[p].complete]
    <2>1. /\ projections' = [projections EXCEPT ![m] = row]
          /\ UNCHANGED <<people, accounts, sessions, tokens, actors, calls>>
      BY <1>3 DEF CreateMembership, accountVars, authzVars
    <2>2. row # None
      BY <1>1, RowTypes
    <2> HIDE DEF row, m
    <2>3. \A x \in Members : projections[x] # None => projections'[x] # None
      BY <1>0, <2>1, <2>2, DirectoryTypes
    <2> QED BY <2>1, <2>3, PeopleEdited
  <1> QED BY <1>2, <1>3

\* An edit locks the account of a person it makes inactive.
LEMMA UpdateEffect ==
    ASSUME KnownInv, SuspensionHolds, NEW m \in Members, NEW status \in Statuses, NEW missing,
           Update(m, status, missing)
    PROVE  StepEffect
  <1> DEFINE p == PersonOf(m)
             found == FindOrCreateMembership(m)
             members == {x \in MembersOf(p) : memberships[x] # None} \cup {m}
             complete == ComputeCompletion(missing)
  <1>0. /\ IdentityInv
        /\ people \in [Persons -> Person \cup {None}] /\ projections \in [Members -> Projection \cup {None}]
        /\ accounts \in [Accounts -> Account \cup {None}] /\ actors \in [Actors -> BOOLEAN \cup {None}]
    BY DirectoryTypes, AccountTypes, AuthzTypes DEF KnownInv
  <1>1. complete \in BOOLEAN /\ projections[m] # None /\ p \in Persons /\ UpdatePerson(m, status, complete)
    BY DirectoryTypes, <1>0 DEF Update, ComputeCompletion
  <1>2. p \in Accounts /\ CallsEnd /\ UNCHANGED calls
    BY <1>1 DEF UpdatePerson, Accounts, CallsEnd
  <1>3. [status |-> status, complete |-> complete] # None /\ [status |-> "INACTIVE", complete |-> complete] # None
    BY <1>1, RowTypes
  <1>4. \/ DeactivateOperationalPerson(p, members, complete)
        \/ /\ people' = [people EXCEPT ![p] = [found.person EXCEPT !.complete = complete]]
           /\ projections' = [x \in Members |->
                  IF x = m THEN [status |-> status, complete |-> complete]
                  ELSE IF x \in members /\ projections[x] # None
                  THEN [projections[x] EXCEPT !.complete = complete]
                  ELSE projections[x]]
           /\ UNCHANGED <<accounts, sessions, tokens, actors>>
    BY <1>1 DEF UpdatePerson, accountVars, authzVars
  <1>5. found.person \in Person /\ (people[p] # None => found.person = people[p])
    BY <1>0, <1>1, FromLegacyType, DirectoryTypes DEF FindOrCreateMembership
  <1> HIDE DEF found, members, complete, p
  <1>6. CASE DeactivateOperationalPerson(p, members, complete)
    <2>1. /\ people' = [people EXCEPT ![p] = [operational |-> FALSE, complete |-> complete]]
          /\ projections' = [x \in Members |->
                 IF x \in members /\ projections[x] # None
                 THEN [status |-> "INACTIVE", complete |-> complete] ELSE projections[x]]
          /\ accounts' = IF accounts[p] = None THEN accounts ELSE [accounts EXCEPT ![p].active = FALSE]
          /\ RevokeSessions(p) /\ InvalidatePasswordResetTokens(p)
          /\ actors' = [x \in Actors |-> IF x \in members /\ actors[x] # None THEN FALSE ELSE actors[x]]
      BY <1>6 DEF DeactivateOperationalPerson, DeactivateAccount, RevokeSessions, InvalidatePasswordResetTokens
    <2>2. [operational |-> FALSE, complete |-> complete] # None
      BY <1>1, RowTypes
    <2>3. people'[p] # None /\ \A q \in Persons : q # p => people'[q] = people[q]
      BY <1>0, <1>1, <2>1, <2>2
    <2>4. /\ accounts[p] = None => accounts' = accounts
          /\ accounts[p] # None => accounts'[p].active = FALSE
          /\ \A b \in Accounts : b # p => accounts'[b] = accounts[b]
      BY <1>0, <1>2, <2>1 DEF Account
    <2>5. AccessEffect
      BY <1>0, <1>2, <2>1, <2>3, <2>4, CallsRest, AccountTurned
    <2>6. \A x \in Members : projections[x] # None => projections'[x] # None
      BY <1>3, <2>1
    <2>7. FALSE # None
      BY IdentityConstants
    <2>8. \A x \in Actors : actors'[x] # None <=> actors[x] # None
      BY <2>1, <2>7
    <2>9. \A x \in Members : x \in Actors
      BY DEF Actors
    <2>10. \A q \in Persons : accounts'[q] # None => accounts[q] # None
      BY <2>4 DEF Accounts
    <2>11. KnownEffect
      BY <1>0, <1>2, <2>3, <2>6, <2>8, <2>9, <2>10, CallsEndSettle DEF KnownEffect
    <2> QED BY <2>5, <2>11 DEF StepEffect
  <1>7. CASE /\ people' = [people EXCEPT ![p] = [found.person EXCEPT !.complete = complete]]
             /\ projections' = [x \in Members |->
                    IF x = m THEN [status |-> status, complete |-> complete]
                    ELSE IF x \in members /\ projections[x] # None
                    THEN [projections[x] EXCEPT !.complete = complete]
                    ELSE projections[x]]
             /\ UNCHANGED <<accounts, sessions, tokens, actors>>
    <2> DEFINE person == [found.person EXCEPT !.complete = complete]
    <2>1. person \in Person /\ person.operational = found.person.operational
      BY <1>1, <1>5 DEF Person
    <2>2. people' = [people EXCEPT ![p] = person]
      BY <1>7
    <2> HIDE DEF person
    <2>3. person # None
      BY <2>1, RowTypes
    <2>4. \A q \in Persons : people[q] # None =>
              people'[q] # None /\ people'[q].operational = people[q].operational
      BY <1>0, <1>1, <1>5, <2>1, <2>2, <2>3
    <2>5. \A x \in Members : projections[x] # None => [projections[x] EXCEPT !.complete = complete] # None
      BY <1>0, <1>1, RowTypes
    <2>6. \A x \in Members : projections[x] # None => projections'[x] # None
      BY <1>3, <1>7, <2>5
    <2> QED BY <1>2, <1>7, <2>4, <2>6, PeopleEdited
  <1> QED BY <1>4, <1>6, <1>7

-----------------------------------------------------------------------------
(***************************************************************************)
(* Every step.  A login that makes or tests its session, and the issue of  *)
(* a token, are the only ones that are more than AccessEffect.             *)
(***************************************************************************)
LoginStep ==
    \/ \E c \in Callers, s \in SessionIds : CreateSession(c, s)
    \/ \E c \in Callers, ok \in BOOLEAN : LoginRecheck(c, ok)

TokenStep == \E c \in Callers, k \in TokenIds : CreatePasswordResetToken(c, k)

LEMMA EffectOfNext ==
    ASSUME KnownInv, SuspensionHolds, Next
    PROVE  StepEffect \/ LoginStep \/ TokenStep
  <1>0. IdentityInv
    BY DEF KnownInv
  <1>1. CASE Directory(Persons, Tenants)
    <2>1. ASSUME NEW p \in Persons, NEW s \in Tenants, NEW status \in Statuses, NEW missing,
                 Update(<<p, s>>, status, missing)
          PROVE  StepEffect
      <3>1. <<p, s>> \in Members
        BY DEF Members
      <3> QED BY <2>1, <3>1, UpdateEffect
    <2>2. ASSUME NEW m \in Persons \X Tenants, Reactivate(m) PROVE StepEffect
      <3>1. m \in Members /\ projections[m] # None /\ memberships[m] # None
        BY <2>2, RowTypes DEF Members, Reactivate
      <3>2. projections[m].complete \in BOOLEAN /\ people[PersonOf(m)] # None
        BY <1>0, <3>1, DirectoryTypes, RowTypes
      <3> QED BY <2>2, <3>1, <3>2, ReactivationEffect DEF Reactivate
    <2> QED BY <1>1, <2>1, <2>2, RepairEffect, CreateEffect, JoinEffect DEF Directory
  <1>2. CASE TenantAdministration(Tenants, Members)
    BY <1>0, <1>2, PlainSteps DEF TenantAdministration
  <1>3. CASE Sessions(Accounts, Callers)
    BY <1>0, <1>3, SessionStarts, StartEffect, CredentialSteps DEF Sessions, LoginStep
  <1>4. CASE Recovery(Accounts, Members, Callers)
    BY <1>0, <1>4, RecoveryStarts, StartEffect, CredentialSteps, PlainSteps, AccountStateSteps
       DEF Recovery, TokenStep
  <1>5. CASE AccountCreation(Members, Actors, Callers)
    BY <1>0, <1>5, AuthorizationStarts, StartEffect, AccountCreationSteps, ActorSteps, PlainSteps
       DEF AccountCreation
  <1>6. CASE ApplicationAdministration(Globals)
    BY <1>6, ActorSteps, ProvisionSteps DEF ApplicationAdministration
  <1>7. CASE ActorAdministration(Actors, Callers)
    BY <1>0, <1>7, AuthorizationStarts, StartEffect, ActorSteps DEF ActorAdministration
  <1>8. CASE GrantAdministration(GrantKeys, Callers)
    BY <1>0, <1>8, GrantStarts, StartEffect, PlainSteps DEF GrantAdministration
  <1>9. CASE Leasing(Globals, Persons, Tenants)
    BY <1>0, <1>9, PlainSteps
  <1>10. CASE Journeying(Members, Callers)
    BY <1>0, <1>10, AuthorizationStarts, ExtensionStarts, StartEffect, PlainSteps DEF Journeying
  <1> QED BY <1>1, <1>2, <1>3, <1>4, <1>5, <1>6, <1>7, <1>8, <1>9, <1>10 DEF Next

\* What a login or the issue of a token leaves alone.
LEMMA LoginRest ==
    ASSUME IdentityInv, LoginStep \/ TokenStep
    PROVE  KnownEffect /\ UNCHANGED <<people, accounts>>
  <1>1. UNCHANGED <<people, projections, accounts, actors>>
    BY DEF LoginStep, TokenStep, CreateSession, LoginRecheck, CreatePasswordResetToken, sessionsOnly,
           credentials, directoryVars, authzVars
  <1>2. \A c \in Callers : \/ calls'[c] \in {calls[c], None}
                           \/ calls'[c] # None /\ calls'[c].op = "LOGIN"
    <2>1. ASSUME NEW c \in Callers, NEW s \in SessionIds, CreateSession(c, s), NEW d \in Callers
          PROVE  calls'[d] = calls[d] \/ (calls'[d] # None /\ calls'[d].op = "LOGIN")
      <3>1. calls[c] \in Call /\ calls[c].op = "LOGIN" /\ calls' = [calls EXCEPT ![c].ref = s]
        BY <2>1, AccountTypes DEF CreateSession, Running
      <3>2. [calls[c] EXCEPT !.ref = s] \in Call /\ [calls[c] EXCEPT !.ref = s].op = "LOGIN"
        BY <3>1 DEF Call
      <3>3. calls'[d] = IF d = c THEN [calls[c] EXCEPT !.ref = s] ELSE calls[d]
        BY <3>1, AccountTypes
      <3>4. CASE d = c
        BY <3>2, <3>3, <3>4, IdentityConstants
      <3> QED BY <3>3, <3>4
    <2>2. ASSUME NEW c \in Callers, Finish(c) PROVE \A d \in Callers : calls'[d] \in {calls[d], None}
      BY <2>2, FinishType
    <2> QED BY <2>1, <2>2 DEF LoginStep, TokenStep, LoginRecheck, CreatePasswordResetToken
  <1> QED BY <1>1, <1>2 DEF KnownEffect, ActorOps

-----------------------------------------------------------------------------
(***************************************************************************)
(* The invariant.  ShutOut needs to know whose session a login waiting for *)
(* its second look at the account holds; ResetOnlyActive, that the token a *)
(* reset holds is the one of the account it is about.                      *)
(***************************************************************************)
HeldByLogin(s) == \E c \in Callers : Running(c, "LOGIN") /\ calls[c].ref = s

LoginsAimed ==
    \A c \in Callers : Running(c, "LOGIN") /\ calls[c].ref # None => sessions[calls[c].ref] \in {None, calls[c].on}

ResetsAimed ==
    \A c \in Callers : Running(c, "RESET_PASSWORD") => tokens[calls[c].ref] \in {None, calls[c].on}

AccessInv == /\ KnownInv /\ LoginsAimed /\ ResetsAimed
             /\ ShutOut /\ SuspensionHolds /\ ResetOnlyActive /\ OneLiveToken

LEMMA DeliveredIs ==
    ASSUME NEW s \in SessionIds
    PROVE  Delivered(s) <=> sessions[s] # None /\ ~HeldByLogin(s)
  BY DEF Delivered, HeldByLogin

\* The sessions logins hold change only in the steps of a login.
LEMMA HeldRest ==
    ASSUME CallsSettle, NEW s \in SessionIds
    PROVE  HeldByLogin(s)' <=> HeldByLogin(s)
  <1>1. s # None
    BY IdentityConstants
  <1>2. ASSUME NEW c \in Callers
        PROVE  (Running(c, "LOGIN") /\ calls[c].ref = s)' <=> (Running(c, "LOGIN") /\ calls[c].ref = s)
    <2>1. CASE calls'[c] = calls[c]
      BY <2>1 DEF Running
    <2>2. CASE calls'[c] = None /\ ~Running(c, "LOGIN")
      BY <2>2 DEF Running
    <2>3. CASE calls[c] = None /\ (calls'[c].op = "LOGIN" => calls'[c].ref = None)
      BY <1>1, <2>3 DEF Running
    <2> QED BY <2>1, <2>2, <2>3 DEF CallsSettle
  <1> QED BY <1>2 DEF HeldByLogin

\* The sessions that are left belonged to the same account before.
LEMMA SessionsShrink ==
    ASSUME AccessEffect, NEW s \in SessionIds
    PROVE  sessions'[s] \in {sessions[s], None}
  BY DEF AccessEffect, SessionsEnd, Turn

\* An account that sessions are left of may be used if it could be.
LEMMA LeftUsable ==
    ASSUME AccessEffect, NEW s \in SessionIds, NEW b \in Accounts, sessions'[s] = b, Usable(b)
    PROVE  Usable(b)'
  BY DEF AccessEffect, UsableSame, Turn

LEMMA EffectKeepsAccess ==
    ASSUME AccessInv, KnownInv', AccessEffect
    PROVE  AccessInv'
  <1>0. /\ IdentityInv /\ CallsSettle /\ TokensEnd /\ LeavesNoToken /\ SuspensionHolds'
        /\ None \notin SessionIds
    BY IdentityConstants DEF AccessInv, KnownInv, AccessEffect
  <1>1. LoginsAimed'
    <2> SUFFICES ASSUME NEW c \in Callers, Running(c, "LOGIN")', calls'[c].ref # None
                 PROVE  sessions'[calls'[c].ref] \in {None, calls'[c].on}
      BY DEF LoginsAimed
    <2>1. calls'[c] = calls[c] /\ Running(c, "LOGIN")
      BY <1>0 DEF CallsSettle, Running
    <2>2. calls[c].ref \in SessionIds
      BY <1>0, <2>1 DEF IdentityInv, CallsAimed, Aimed, Running
    <2>3. sessions[calls[c].ref] \in {None, calls[c].on}
      BY <2>1 DEF AccessInv, LoginsAimed
    <2> QED BY <2>1, <2>2, <2>3, SessionsShrink
  <1>2. ASSUME NEW c \in Callers, Running(c, "RESET_PASSWORD")'
        PROVE  /\ tokens'[calls'[c].ref] \in {None, calls'[c].on}
               /\ tokens'[calls'[c].ref] # None => ActiveAccount(calls[c].on)'
    <2>1. CASE calls'[c] = calls[c]
      <3>1. Running(c, "RESET_PASSWORD") /\ calls[c].ref \in TokenIds /\ calls[c].on \in Accounts
        BY <1>0, <1>2, <2>1 DEF IdentityInv, CallsAimed, Aimed, Running, AccountOps
      <3>2. /\ tokens[calls[c].ref] \in {None, calls[c].on}
            /\ tokens[calls[c].ref] # None => ActiveAccount(calls[c].on)
        BY <3>1 DEF AccessInv, ResetsAimed, ResetOnlyActive
      <3>3. tokens'[calls[c].ref] \in {tokens[calls[c].ref], None}
        BY <1>0, <3>1 DEF TokensEnd
      <3>4. tokens'[calls[c].ref] # None => ActiveAccount(calls[c].on) /\ tokens'[calls[c].ref] = calls[c].on
        BY <3>2, <3>3
      <3>5. \A a \in Accounts : ActiveAccount(a) /\ tokens'[calls[c].ref] = a => ActiveAccount(a)'
        BY <1>0, <3>1 DEF LeavesNoToken
      <3>6. tokens'[calls[c].ref] # None => accounts'[calls[c].on] # None /\ accounts'[calls[c].on].active
        BY <3>1, <3>4, <3>5 DEF ActiveAccount
      <3> QED BY <2>1, <3>4, <3>6 DEF ActiveAccount
    <2>2. CASE calls'[c] # calls[c]
      <3>1. (tokens[calls[c].ref] = calls[c].on /\ ActiveAccount(calls[c].on))'
        BY <1>0, <1>2, <2>2 DEF CallsSettle, Running
      <3> QED BY <3>1 DEF ActiveAccount
    <2> QED BY <2>1, <2>2
  <1>3. ResetsAimed' /\ ResetOnlyActive'
    BY <1>2 DEF ResetsAimed, ResetOnlyActive
  <1>4. ASSUME NEW s \in SessionIds, Delivered(s)' PROVE Usable(sessions[s])'
    <2>1. sessions'[s] # None /\ ~HeldByLogin(s)'
      BY <1>4 DEF Delivered, HeldByLogin
    <2>2. sessions'[s] = sessions[s] /\ Delivered(s)
      BY <1>0, <2>1, HeldRest, SessionsShrink, DeliveredIs
    <2>3. sessions[s] \in Accounts /\ Usable(sessions[s])
      BY <1>0, <2>1, <2>2, AccountTypes DEF AccessInv, ShutOut
    <2>4. \A b \in Accounts : sessions'[s] = b /\ Usable(b) => Usable(b)'
      BY LeftUsable
    <2>5. PICK b \in Accounts : b = sessions'[s]
      BY <2>2, <2>3
    <2>6. Usable(b)'
      BY <2>2, <2>3, <2>4, <2>5
    <2> QED BY <2>5, <2>6 DEF Usable
  <1>5. ShutOut'
    BY <1>4 DEF ShutOut
  <1>6. OneLiveToken'
    BY <1>0 DEF AccessInv, OneLiveToken, TokensEnd
  <1> QED BY <1>0, <1>1, <1>3, <1>5, <1>6 DEF AccessInv

\* The steps of a login: the call and the sessions after it.
LEMMA SessionMade ==
    ASSUME IdentityInv, NEW c \in Callers, NEW s \in SessionIds, CreateSession(c, s)
    PROVE  /\ calls[c].on \in Accounts /\ sessions[s] = None /\ sessions'[s] = calls[c].on
           /\ \A r \in SessionIds : r # s => sessions'[r] = sessions[r]
           /\ \A d \in Callers : d # c => calls'[d] = calls[d]
           /\ \A d \in Callers : calls[d] # None => calls[d].ref # s
           /\ Running(c, "LOGIN") /\ calls[c].ref = None
           /\ Running(c, "LOGIN")' /\ calls'[c].ref = s /\ calls'[c].on = calls[c].on
           /\ UNCHANGED <<people, accounts, tokens>>
  <1>1. calls[c] \in Call /\ Running(c, "LOGIN")
    BY AccountTypes DEF CreateSession, Running
  <1>2. /\ [calls[c] EXCEPT !.ref = s] \in Call
        /\ [calls[c] EXCEPT !.ref = s].op = calls[c].op /\ [calls[c] EXCEPT !.ref = s].ref = s
        /\ [calls[c] EXCEPT !.ref = s].on = calls[c].on
    BY <1>1 DEF Call
  <1>3. calls'[c] = [calls[c] EXCEPT !.ref = s] /\ \A d \in Callers : d # c => calls'[d] = calls[d]
    BY AccountTypes DEF CreateSession
  <1>4. calls'[c] # None
    BY <1>2, <1>3, IdentityConstants
  <1>5. Running(c, "LOGIN")' /\ calls'[c].ref = s /\ calls'[c].on = calls[c].on
    BY <1>1, <1>2, <1>3, <1>4 DEF Running
  <1>6. calls[c].on \in Accounts
    BY <1>1 DEF Running, IdentityInv, CallsAimed, Aimed, AccountOps
  <1> QED BY <1>1, <1>3, <1>5, <1>6, AccountTypes DEF CreateSession, Fresh, sessionsOnly, directoryVars

LEMMA LoginEnded ==
    ASSUME IdentityInv, NEW c \in Callers, NEW ok \in BOOLEAN, LoginRecheck(c, ok)
    PROVE  /\ Running(c, "LOGIN") /\ calls[c].ref \in SessionIds /\ calls[c].on \in Accounts
           /\ calls'[c] = None /\ \A d \in Callers : d # c => calls'[d] = calls[d]
           /\ \A s \in SessionIds : \/ sessions'[s] = sessions[s]
                                    \/ s = calls[c].ref /\ sessions'[s] = None
           /\ Usable(calls[c].on) \/ sessions'[calls[c].ref] = None
           /\ UNCHANGED <<people, accounts, tokens>>
  <1>1. Running(c, "LOGIN") /\ calls[c].ref # None
    BY DEF LoginRecheck
  <1>2. calls[c].ref \in SessionIds /\ calls[c].on \in Accounts
    BY <1>1 DEF Running, IdentityInv, CallsAimed, Aimed, AccountOps
  <1>3. calls'[c] = None /\ \A d \in Callers : d # c => calls'[d] = calls[d]
    BY AccountTypes DEF LoginRecheck, Finish
  <1>4. /\ \A s \in SessionIds : sessions'[s] = sessions[s] \/ (s = calls[c].ref /\ sessions'[s] = None)
        /\ Usable(calls[c].on) \/ sessions'[calls[c].ref] = None
    BY <1>2, AccountTypes DEF LoginRecheck
  <1> QED BY <1>1, <1>2, <1>3, <1>4 DEF LoginRecheck, sessionsOnly, directoryVars

LEMMA TokenMade ==
    ASSUME IdentityInv, NEW c \in Callers, NEW k \in TokenIds, CreatePasswordResetToken(c, k)
    PROVE  /\ Running(c, "ISSUE_TOKEN") /\ calls[c].on \in Accounts
           /\ calls'[c] = None /\ \A d \in Callers : d # c => calls'[d] = calls[d]
           /\ \A d \in Callers : calls[d] # None => calls[d].ref # k
           /\ tokens'[k] = calls[c].on
           /\ \A j \in TokenIds : j # k => /\ tokens'[j] \in {tokens[j], None}
                                           /\ tokens'[j] # calls[c].on
           /\ UNCHANGED <<people, accounts, sessions>>
  <1>1. Running(c, "ISSUE_TOKEN")
    BY DEF CreatePasswordResetToken
  <1>2. calls[c].on \in Accounts /\ calls[c].on # None
    BY <1>1, IdentityConstants DEF Running, IdentityInv, CallsAimed, Aimed, AccountOps
  <1> QED BY <1>1, <1>2, AccountTypes DEF CreatePasswordResetToken, Finish, Fresh, credentials, directoryVars

LEMMA LoginKeepsAccess ==
    ASSUME AccessInv, KnownInv', LoginStep
    PROVE  AccessInv'
  <1>0. IdentityInv /\ None \notin SessionIds
    BY IdentityConstants DEF AccessInv, KnownInv
  <1>1. ASSUME NEW c \in Callers, NEW s \in SessionIds, CreateSession(c, s) PROVE AccessInv'
    <2>1. /\ calls[c].on \in Accounts /\ sessions[s] = None /\ sessions'[s] = calls[c].on
          /\ \A r \in SessionIds : r # s => sessions'[r] = sessions[r]
          /\ \A d \in Callers : d # c => calls'[d] = calls[d]
          /\ \A d \in Callers : calls[d] # None => calls[d].ref # s
          /\ Running(c, "LOGIN") /\ calls[c].ref = None
          /\ Running(c, "LOGIN")' /\ calls'[c].ref = s /\ calls'[c].on = calls[c].on
          /\ UNCHANGED <<people, accounts, tokens>>
      BY <1>0, <1>1, SessionMade
    <2>2. LoginsAimed'
      <3> SUFFICES ASSUME NEW d \in Callers, d # c, Running(d, "LOGIN")', calls'[d].ref # None
                   PROVE  sessions'[calls'[d].ref] \in {None, calls'[d].on}
        BY <2>1 DEF LoginsAimed
      <3>1. Running(d, "LOGIN") /\ calls'[d] = calls[d] /\ calls[d].ref # s
        BY <2>1 DEF Running
      <3>2. calls[d].ref \in SessionIds /\ sessions[calls[d].ref] \in {None, calls[d].on}
        BY <1>0, <3>1 DEF AccessInv, LoginsAimed, IdentityInv, CallsAimed, Aimed, Running
      <3> QED BY <2>1, <3>1, <3>2
    <2>3. ASSUME NEW d \in Callers, Running(d, "RESET_PASSWORD")'
          PROVE  Running(d, "RESET_PASSWORD") /\ calls'[d] = calls[d]
      BY <2>1, <2>3 DEF Running
    <2>4. ResetsAimed' /\ ResetOnlyActive'
      BY <2>1, <2>3 DEF AccessInv, ResetsAimed, ResetOnlyActive, ActiveAccount
    <2>5. ASSUME NEW r \in SessionIds, Delivered(r)' PROVE Usable(sessions[r])'
      <3>1. r # s
        BY <2>1, <2>5 DEF Delivered
      <3>2. Delivered(r) /\ sessions'[r] = sessions[r]
        BY <1>0, <2>1, <2>5, <3>1 DEF Delivered, Running
      <3>3. Usable(sessions[r])
        BY <3>2 DEF AccessInv, ShutOut
      <3> QED BY <2>1, <3>2, <3>3 DEF Usable
    <2> QED BY <2>1, <2>2, <2>4, <2>5 DEF AccessInv, ShutOut, SuspensionHolds, OneLiveToken
  <1>2. ASSUME NEW c \in Callers, NEW ok \in BOOLEAN, LoginRecheck(c, ok) PROVE AccessInv'
    <2>1. /\ Running(c, "LOGIN") /\ calls[c].ref \in SessionIds /\ calls[c].on \in Accounts
          /\ calls'[c] = None /\ \A d \in Callers : d # c => calls'[d] = calls[d]
          /\ \A s \in SessionIds : sessions'[s] = sessions[s] \/ (s = calls[c].ref /\ sessions'[s] = None)
          /\ Usable(calls[c].on) \/ sessions'[calls[c].ref] = None
          /\ UNCHANGED <<people, accounts, tokens>>
      BY <1>0, <1>2, LoginEnded
    <2>2. LoginsAimed'
      <3> SUFFICES ASSUME NEW d \in Callers, Running(d, "LOGIN")', calls'[d].ref # None
                   PROVE  sessions'[calls'[d].ref] \in {None, calls'[d].on}
        BY DEF LoginsAimed
      <3>1. Running(d, "LOGIN") /\ calls'[d] = calls[d]
        BY <2>1 DEF Running
      <3>2. calls[d].ref \in SessionIds /\ sessions[calls[d].ref] \in {None, calls[d].on}
        BY <1>0, <3>1 DEF AccessInv, LoginsAimed, IdentityInv, CallsAimed, Aimed, Running
      <3> QED BY <2>1, <3>1, <3>2
    <2>3. ASSUME NEW d \in Callers, Running(d, "RESET_PASSWORD")'
          PROVE  Running(d, "RESET_PASSWORD") /\ calls'[d] = calls[d]
      BY <2>1, <2>3 DEF Running
    <2>4. ResetsAimed' /\ ResetOnlyActive'
      BY <2>1, <2>3 DEF AccessInv, ResetsAimed, ResetOnlyActive, ActiveAccount
    <2>5. ASSUME NEW r \in SessionIds, Delivered(r)' PROVE Usable(sessions[r])'
      <3>1. sessions'[r] # None /\ sessions'[r] = sessions[r]
        BY <2>1, <2>5 DEF Delivered
      <3>2. CASE r = calls[c].ref
        <4>1. sessions[r] = calls[c].on
          BY <1>0, <2>1, <3>1, <3>2 DEF AccessInv, LoginsAimed
        <4>2. Usable(calls[c].on)
          BY <2>1, <3>1, <3>2
        <4> QED BY <2>1, <3>1, <4>1, <4>2 DEF Usable
      <3>3. CASE r # calls[c].ref
        <4>1. Delivered(r)
          BY <2>1, <2>5, <3>1, <3>3 DEF Delivered, Running
        <4>2. Usable(sessions[r])
          BY <4>1 DEF AccessInv, ShutOut
        <4> QED BY <2>1, <3>1, <4>2 DEF Usable
      <3> QED BY <3>2, <3>3
    <2> QED BY <2>1, <2>2, <2>4, <2>5 DEF AccessInv, ShutOut, SuspensionHolds, OneLiveToken
  <1> QED BY <1>1, <1>2 DEF LoginStep

LEMMA TokenKeepsAccess ==
    ASSUME AccessInv, KnownInv', TokenStep
    PROVE  AccessInv'
  <1>0. IdentityInv
    BY DEF AccessInv, KnownInv
  <1>1. PICK c \in Callers, k \in TokenIds : CreatePasswordResetToken(c, k)
    BY DEF TokenStep
  <1>2. /\ Running(c, "ISSUE_TOKEN") /\ calls[c].on \in Accounts
        /\ calls'[c] = None /\ \A d \in Callers : d # c => calls'[d] = calls[d]
        /\ \A d \in Callers : calls[d] # None => calls[d].ref # k
        /\ tokens'[k] = calls[c].on
        /\ \A j \in TokenIds : j # k => tokens'[j] \in {tokens[j], None} /\ tokens'[j] # calls[c].on
        /\ UNCHANGED <<people, accounts, sessions>>
    BY <1>0, <1>1, TokenMade
  <1>3. ASSUME NEW d \in Callers, Running(d, "LOGIN")' \/ Running(d, "RESET_PASSWORD")'
        PROVE  calls'[d] = calls[d]
    BY <1>2, <1>3 DEF Running
  <1>4. \A d \in Callers : Running(d, "LOGIN") => calls'[d] = calls[d]
    BY <1>2 DEF Running
  <1>5. LoginsAimed'
    BY <1>2, <1>3 DEF AccessInv, LoginsAimed, Running
  <1>6. \A s \in SessionIds : Delivered(s)' <=> Delivered(s)
    BY <1>2, <1>3, <1>4 DEF Delivered, Running
  <1>7. ShutOut'
    BY <1>2, <1>6 DEF AccessInv, ShutOut, Usable
  <1>8. ASSUME NEW d \in Callers, Running(d, "RESET_PASSWORD")'
        PROVE  /\ tokens'[calls'[d].ref] \in {None, calls'[d].on}
               /\ tokens'[calls'[d].ref] # None => ActiveAccount(calls[d].on)'
    <2>1. /\ calls'[d] = calls[d] /\ Running(d, "RESET_PASSWORD")
          /\ calls[d].ref \in TokenIds /\ calls[d].ref # k
      BY <1>0, <1>2, <1>3, <1>8 DEF Running, IdentityInv, CallsAimed, Aimed
    <2>2. /\ tokens[calls[d].ref] \in {None, calls[d].on}
          /\ tokens[calls[d].ref] # None => ActiveAccount(calls[d].on)
      BY <2>1 DEF AccessInv, ResetsAimed, ResetOnlyActive
    <2>3. tokens'[calls[d].ref] \in {tokens[calls[d].ref], None}
      BY <1>2, <2>1
    <2> QED BY <1>2, <2>1, <2>2, <2>3 DEF ActiveAccount
  <1>9. ResetsAimed' /\ ResetOnlyActive'
    BY <1>8 DEF ResetsAimed, ResetOnlyActive
  <1>10. OneLiveToken'
    BY <1>2 DEF AccessInv, OneLiveToken
  <1> QED BY <1>2, <1>5, <1>7, <1>9, <1>10 DEF AccessInv, SuspensionHolds

LEMMA InitialAccess == Init => AccessInv
  <1>1. Init => IdentityInv
    BY InitialIdentity
  <1>2. Init => OwnersKnown /\ ActorsListed /\ ActorsAimed
    BY DEF Init, OwnersKnown, ActorsListed, ActorsAimed, Accounts, Actors
  <1>3. Init => LoginsAimed /\ ResetsAimed /\ ShutOut /\ SuspensionHolds /\ ResetOnlyActive /\ OneLiveToken
    BY DEF Init, LoginsAimed, ResetsAimed, ShutOut, SuspensionHolds, ResetOnlyActive, OneLiveToken,
           Running, Delivered
  <1> QED BY <1>1, <1>2, <1>3 DEF AccessInv, KnownInv

LEMMA AccessStuttering == AccessInv /\ UNCHANGED identityVars => AccessInv'
  <1> SUFFICES ASSUME AccessInv, UNCHANGED identityVars PROVE AccessInv'
    OBVIOUS
  <1>1. IdentityInv'
    BY IdentityStuttering DEF AccessInv, KnownInv
  <1>2. UNCHANGED <<people, projections, accounts, sessions, tokens, actors, calls>>
    BY DEF identityVars, directoryVars, accountVars, authzVars
  <1>3. StepEffect
    BY <1>2, PlainEffect DEF AccessInv, KnownInv, CallsEnd
  <1> QED BY <1>1, <1>3, KnownKept, EffectKeepsAccess DEF AccessInv, StepEffect

LEMMA AccessNext ==
    ASSUME AccessInv, Next
    PROVE  AccessInv'
  <1>1. KnownInv /\ IdentityInv /\ SuspensionHolds /\ IdentityInv'
    BY IdentityStep DEF AccessInv, KnownInv
  <1>2. KnownInv'
    BY <1>1, EffectOfNext, LoginRest, KnownKept DEF StepEffect
  <1> QED BY <1>1, <1>2, EffectOfNext, EffectKeepsAccess, LoginKeepsAccess, TokenKeepsAccess DEF StepEffect

LEMMA AccessInvariant == Spec => []AccessInv
  <1>1. AccessInv /\ [Next]_identityVars => AccessInv'
    BY AccessNext, AccessStuttering
  <1> QED BY <1>1, InitialAccess, PTL DEF Spec

\* ShutOut: no session in a client's hands belongs to an account that may not
\* be used, whatever overlaps the steps of the login that made it.
THEOREM AccessShutOut == Spec => []ShutOut
  <1>1. AccessInv => ShutOut
    BY DEF AccessInv
  <1> QED BY <1>1, AccessInvariant, PTL

\* SuspensionHolds: a suspended account is inactive, whichever package last
\* wrote it.
THEOREM SuspensionKept == Spec => []SuspensionHolds
  <1>1. AccessInv => SuspensionHolds
    BY DEF AccessInv
  <1> QED BY <1>1, AccessInvariant, PTL

\* ResetOnlyActive: a password reset that will succeed is of an active
\* account, although it read the account in an earlier step.
THEOREM ResetsOfActive == Spec => []ResetOnlyActive
  <1>1. AccessInv => ResetOnlyActive
    BY DEF AccessInv
  <1> QED BY <1>1, AccessInvariant, PTL

\* OneLiveToken: at most one reset token of an account works, for any number
\* of tokens being issued at the same time.
THEOREM TokensUnique == Spec => []OneLiveToken
  <1>1. AccessInv => OneLiveToken
    BY DEF AccessInv
  <1> QED BY <1>1, AccessInvariant, PTL

-----------------------------------------------------------------------------
(***************************************************************************)
(* AccountAccess is implemented.                                           *)
(***************************************************************************)
granting == [s \in SessionIds |-> IF Delivered(s) THEN sessions[s] ELSE None]
usableNow == {a \in Accounts : Usable(a)}

LEMMA GrantingType == IdentityInv => granting \in [SessionIds -> Accounts \cup {None}]
  BY AccountTypes DEF granting, Delivered

\* Sessions that are left are granted if and only if they were.
LEMMA GrantingLeft ==
    ASSUME AccessEffect, NEW s \in SessionIds
    PROVE  granting'[s] = IF sessions'[s] = None THEN None ELSE granting[s]
  <1>1. CallsSettle
    BY DEF AccessEffect
  <1>2. sessions'[s] \in {sessions[s], None} /\ (HeldByLogin(s)' <=> HeldByLogin(s))
    BY <1>1, SessionsShrink, HeldRest
  <1>3. granting[s] = IF sessions[s] # None /\ ~HeldByLogin(s) THEN sessions[s] ELSE None
    BY DeliveredIs DEF granting
  <1>4. Delivered(s)' <=> sessions'[s] # None /\ ~HeldByLogin(s)'
    BY DEF Delivered, HeldByLogin
  <1>5. granting'[s] = IF sessions'[s] # None /\ ~HeldByLogin(s)' THEN sessions'[s] ELSE None
    BY <1>4 DEF granting
  <1> QED BY <1>2, <1>3, <1>5

\* The steps of the contract over the tables.
EndStep == /\ granting' \in [SessionIds -> Accounts \cup {None}]
           /\ \A s \in SessionIds : granting'[s] \in {granting[s], None}
           /\ usableNow' = usableNow

LockStep(a) == /\ a \in usableNow /\ usableNow' = usableNow \ {a}
               /\ granting' = [s \in SessionIds |-> IF granting[s] = a THEN None ELSE granting[s]]

UnlockStep(a) == /\ a \notin usableNow /\ usableNow' = usableNow \cup {a}
                 /\ \A s \in SessionIds : granting[s] # a
                 /\ granting' = granting

GrantStep(s) == /\ granting[s] = None
                /\ \E a \in usableNow : granting' = [granting EXCEPT ![s] = a]
                /\ usableNow' = usableNow

LEMMA EffectRefines ==
    ASSUME AccessInv, IdentityInv', AccessEffect
    PROVE  EndStep \/ \E a \in Accounts : LockStep(a) \/ UnlockStep(a)
  <1>0. /\ IdentityInv /\ granting \in [SessionIds -> Accounts \cup {None}]
        /\ granting' \in [SessionIds -> Accounts \cup {None}] /\ None \notin Accounts
    <2>1. granting' \in [SessionIds -> Accounts \cup {None}]
      BY DEF IdentityInv, IdentityTypeOK, granting, Delivered
    <2> QED BY <2>1, GrantingType, IdentityConstants DEF AccessInv, KnownInv
  <1>1. \A s \in SessionIds : granting'[s] = IF sessions'[s] = None THEN None ELSE granting[s]
    BY GrantingLeft
  <1>2. CASE UsableSame
    <2>1. usableNow' = usableNow
      BY <1>2 DEF UsableSame, usableNow
    <2> QED BY <1>0, <1>1, <2>1 DEF EndStep
  <1>3. ASSUME NEW a \in Accounts, Turn(a), ~UsableSame PROVE LockStep(a) \/ UnlockStep(a)
    <2>1. /\ \A b \in Accounts \ {a} : Usable(b)' <=> Usable(b)
          /\ \A s \in SessionIds : sessions'[s] = sessions[s] \/ (sessions[s] = a /\ sessions'[s] = None)
          /\ Usable(a) /\ ~Usable(a)' => \A s \in SessionIds : sessions'[s] # a
          /\ ~(Usable(a)' <=> Usable(a))
      BY <1>3 DEF Turn, UsableSame
    <2>2. \A s \in SessionIds : granting[s] # None => granting[s] = sessions[s] /\ Delivered(s)
      BY DEF granting
    <2>3. CASE Usable(a)
      <3>1. ~Usable(a)'
        BY <2>1, <2>3
      <3>2. a \in usableNow /\ usableNow' = usableNow \ {a}
        BY <2>1, <2>3, <3>1 DEF usableNow
      <3>3. \A s \in SessionIds : granting'[s] = IF granting[s] = a THEN None ELSE granting[s]
        BY <1>0, <1>1, <2>1, <2>2, <2>3, <3>1
      <3> QED BY <1>0, <3>2, <3>3 DEF LockStep
    <2>4. CASE ~Usable(a)
      <3>1. Usable(a)'
        BY <2>1, <2>4
      <3>2. a \notin usableNow /\ usableNow' = usableNow \cup {a}
        BY <2>1, <2>4, <3>1 DEF usableNow
      <3>3. \A s \in SessionIds : granting[s] # a
        BY <1>0, <2>2, <2>4 DEF AccessInv, ShutOut
      <3>4. \A s \in SessionIds : granting'[s] = granting[s]
        BY <1>1, <2>1, <2>2, <3>3
      <3> QED BY <1>0, <3>2, <3>3, <3>4 DEF UnlockStep
    <2> QED BY <2>3, <2>4
  <1> QED BY <1>2, <1>3 DEF AccessEffect

LEMMA LoginRefines ==
    ASSUME AccessInv, LoginStep
    PROVE  (\E s \in SessionIds : GrantStep(s)) \/ UNCHANGED <<usableNow, granting>>
  <1>0. IdentityInv /\ None \notin Accounts /\ None \notin SessionIds
        /\ granting \in [SessionIds -> Accounts \cup {None}]
    BY GrantingType, IdentityConstants DEF AccessInv, KnownInv
  <1>1. UNCHANGED usableNow
    BY <1>0, LoginRest DEF usableNow, Usable
  <1>2. granting' = [s \in SessionIds |-> IF Delivered(s)' THEN sessions'[s] ELSE None]
    BY DEF granting
  <1>3. ASSUME NEW c \in Callers, NEW s \in SessionIds, CreateSession(c, s) PROVE granting' = granting
    <2>1. /\ sessions[s] = None
          /\ \A r \in SessionIds : r # s => sessions'[r] = sessions[r]
          /\ \A d \in Callers : d # c => calls'[d] = calls[d]
          /\ Running(c, "LOGIN") /\ calls[c].ref = None
          /\ Running(c, "LOGIN")' /\ calls'[c].ref = s
      BY <1>0, <1>3, SessionMade
    <2>2. ~Delivered(s) /\ ~Delivered(s)'
      BY <2>1 DEF Delivered
    <2>3. ASSUME NEW r \in SessionIds, r # s PROVE Delivered(r)' <=> Delivered(r)
      BY <1>0, <2>1, <2>3 DEF Delivered, Running
    <2>4. \A r \in SessionIds : granting'[r] = granting[r]
      BY <1>2, <2>1, <2>2, <2>3 DEF granting
    <2> QED BY <1>2, <2>4 DEF granting
  <1>4. ASSUME NEW c \in Callers, NEW ok \in BOOLEAN, LoginRecheck(c, ok)
        PROVE  GrantStep(calls[c].ref) \/ granting' = granting
    <2>0. PICK r \in SessionIds : r = calls[c].ref
      BY <1>0, <1>4, LoginEnded
    <2>1. /\ Running(c, "LOGIN") /\ calls[c].on \in Accounts
          /\ calls'[c] = None /\ \A d \in Callers : d # c => calls'[d] = calls[d]
          /\ \A s \in SessionIds : sessions'[s] = sessions[s] \/ (s = r /\ sessions'[s] = None)
          /\ Usable(calls[c].on) \/ sessions'[r] = None
      BY <1>0, <1>4, <2>0, LoginEnded
    <2>2. ~Delivered(r) /\ granting[r] = None
      BY <2>0, <2>1 DEF Delivered, granting
    <2>3. sessions[r] \in {None, calls[c].on}
      BY <1>0, <2>0, <2>1 DEF AccessInv, LoginsAimed
    <2>4. ASSUME NEW s \in SessionIds, s # r PROVE Delivered(s)' <=> Delivered(s)
      BY <2>0, <2>1, <2>4 DEF Delivered, Running
    <2>5. \A s \in SessionIds : s # r => granting'[s] = granting[s]
      BY <1>2, <2>1, <2>4 DEF granting
    <2>6. CASE ~Delivered(r)'
      <3>1. granting'[r] = granting[r]
        BY <1>2, <2>1, <2>2, <2>6
      <3> QED BY <1>2, <2>5, <3>1 DEF granting
    <2>7. CASE Delivered(r)'
      <3>1. sessions'[r] # None
        BY <2>7 DEF Delivered
      <3>2. granting'[r] = calls[c].on /\ Usable(calls[c].on)
        BY <1>2, <2>1, <2>3, <2>7, <3>1
      <3>3. calls[c].on \in usableNow
        BY <2>1, <3>2 DEF usableNow
      <3>4. granting' = [granting EXCEPT ![r] = calls[c].on]
        BY <1>0, <1>2, <2>1, <2>5, <3>2
      <3> QED BY <1>1, <2>0, <2>2, <3>3, <3>4 DEF GrantStep
    <2> QED BY <2>6, <2>7
  <1>5. ASSUME NEW c \in Callers, NEW ok \in BOOLEAN, LoginRecheck(c, ok) PROVE calls[c].ref \in SessionIds
    BY <1>0, <1>5, LoginEnded
  <1> QED BY <1>1, <1>3, <1>4, <1>5 DEF LoginStep

LEMMA TokenRefines ==
    ASSUME AccessInv, TokenStep
    PROVE  UNCHANGED <<usableNow, granting>>
  <1>0. IdentityInv
    BY DEF AccessInv, KnownInv
  <1>1. PICK c \in Callers, k \in TokenIds : CreatePasswordResetToken(c, k)
    BY DEF TokenStep
  <1>2. /\ Running(c, "ISSUE_TOKEN") /\ calls'[c] = None /\ \A d \in Callers : d # c => calls'[d] = calls[d]
        /\ UNCHANGED <<people, accounts, sessions>>
    BY <1>0, <1>1, TokenMade
  <1>3. \A s \in SessionIds : Delivered(s)' <=> Delivered(s)
    BY <1>2 DEF Delivered, Running
  <1>4. UNCHANGED usableNow
    BY <1>2 DEF usableNow, Usable
  <1>5. UNCHANGED granting
    BY <1>2, <1>3 DEF granting
  <1> QED BY <1>4, <1>5

\* ImplementsAccountAccess: the packages together do nothing to accounts and
\* the sessions in clients' hands that the contract does not allow.  An unlock
\* is one of the contract only because of ShutOut.
THEOREM AccessImplemented == Spec => ImplementsAccountAccess
  <1>1. Init => Access!Init
    <2>1. Init => \A s \in SessionIds : ~Delivered(s)
      BY DEF Init, Delivered
    <2> QED BY <2>1 DEF Access!Init
  <1>2. ASSUME AccessInv, AccessInv', [Next]_identityVars
        PROVE  [Access!Next]_<<usableNow, granting>>
    <2>0. KnownInv /\ SuspensionHolds /\ IdentityInv'
      BY <1>2 DEF AccessInv, KnownInv
    <2>1. CASE Next
      <3>1. CASE StepEffect
        <4>1. EndStep \/ \E a \in Accounts : LockStep(a) \/ UnlockStep(a)
          BY <1>2, <2>0, <3>1, EffectRefines DEF StepEffect
        <4>2. EndStep => Access!End
          BY DEF EndStep, Access!End, Access!Remains, granting, usableNow
        <4>3. \A a \in Accounts : LockStep(a) => Access!Lock(a)
          BY DEF LockStep, Access!Lock, granting, usableNow
        <4>4. \A a \in Accounts : UnlockStep(a) => Access!Unlock(a)
          BY DEF UnlockStep, Access!Unlock, granting, usableNow
        <4> QED BY <4>1, <4>2, <4>3, <4>4 DEF Access!Next
      <3>2. CASE LoginStep
        <4>1. \A s \in SessionIds : GrantStep(s) => Access!Grant(s)
          BY DEF GrantStep, Access!Grant, granting, usableNow
        <4> QED BY <1>2, <3>2, <4>1, LoginRefines DEF Access!Next
      <3>3. CASE TokenStep
        BY <1>2, <3>3, TokenRefines
      <3> QED BY <2>0, <2>1, <3>1, <3>2, <3>3, EffectOfNext
    <2>2. CASE UNCHANGED identityVars
      BY <2>2 DEF identityVars, directoryVars, accountVars, usableNow, granting, Usable, Delivered, Running
    <2> QED BY <1>2, <2>1, <2>2
  <1>3. AccessInv /\ AccessInv' /\ [Next]_identityVars => [Access!Next]_<<usableNow, granting>>
    BY <1>2
  <1> QED BY <1>1, <1>3, AccessInvariant, PTL DEF Spec, ImplementsAccountAccess, Access!Spec, usableNow, granting

-----------------------------------------------------------------------------
(***************************************************************************)
(* Leases and journeys.                                                    *)
(***************************************************************************)
OpenJourney(j) == journeys[j] # None /\ journeys[j].open

JourneysApart == \A i, j \in JourneyIds :
    OpenJourney(i) /\ OpenJourney(j) /\ journeys[i].member = journeys[j].member => i = j

LEMMA OthersRest ==
    ASSUME Next
    PROVE  /\ UNCHANGED leases \/ Leasing(Globals, Persons, Tenants)
           /\ UNCHANGED journeys \/ Journeying(Members, Callers)
  <1>1. CASE Directory(Persons, Tenants)
    <2>1. ASSUME NEW m, NEW complete, ReactivateTenantMembership(m, complete) PROVE UNCHANGED <<leases, journeys>>
      BY <2>1 DEF ReactivateTenantMembership
    <2>2. ASSUME NEW p, NEW s, NEW status, NEW missing,
                 Create(p, s, status, missing) \/ Update(<<p, s>>, status, missing)
          PROVE  UNCHANGED <<leases, journeys>>
      <3>1. CASE Create(p, s, status, missing)
        BY <3>1 DEF Create, CreatePerson
      <3>2. CASE Update(<<p, s>>, status, missing)
        BY <3>2 DEF Update, UpdatePerson
      <3> QED BY <2>2, <3>1, <3>2
    <2>3. ASSUME NEW p, NEW s, NEW status, CreateMembership(p, s, status) PROVE UNCHANGED <<leases, journeys>>
      BY <2>1, <2>3 DEF CreateMembership
    <2>4. ASSUME NEW m, Reactivate(m) PROVE UNCHANGED <<leases, journeys>>
      BY <2>1, <2>4 DEF Reactivate
    <2>5. ASSUME NEW s, EnsureGlobalPersonMembershipFoundation(s) PROVE UNCHANGED <<leases, journeys>>
      BY <2>5 DEF EnsureGlobalPersonMembershipFoundation
    <2> QED BY <1>1, <2>2, <2>3, <2>4, <2>5 DEF Directory
  <1>2. CASE TenantAdministration(Tenants, Members)
    BY <1>2 DEF TenantAdministration, CreateTenant, SetActive, AssignTenantAdmin, RevokeTenantAdmin, grantsOnly
  <1>3. CASE Sessions(Accounts, Callers)
    BY <1>3 DEF Sessions, Login, CreateSession, ChangePassword, LoginRecheck, Logout, ResolveSession,
                UpdatePasswordAndRevokeSessions, nothingYet, sessionsOnly, credentials
  <1>4. CASE Recovery(Accounts, Members, Callers)
    BY <1>4 DEF Recovery, IssuePasswordResetToken, RequestSelfReactivation, IssueTenantPersonPasswordResetToken,
                RequestTenantPersonReactivation, CreatePasswordResetToken, ResetPassword,
                ConsumePasswordResetToken, CreateOrRefreshReactivationRequest, ReviewReactivationRequest,
                SetAccountActive, nothingYet, credentials
  <1>5. CASE AccountCreation(Members, Actors, Callers)
    BY <1>5 DEF AccountCreation, CreatePersonAccount, EnablePersonAuthentication, CreateAccount,
                EnableCreateAccount, CreateAccountTx, CreateActor, EnsureAccountActorFoundation, nothingYet,
                accountCreation, actorsOnly
  <1>6. CASE ApplicationAdministration(Globals)
    BY <1>6 DEF ApplicationAdministration, BootstrapAtStartup, ProvisionApplicationAdmin
  <1>7. CASE ActorAdministration(Actors, Callers)
    BY <1>7 DEF ActorAdministration, SetActorActive, SetTenantActorActive, SaveActor, nothingYet, actorsOnly
  <1>8. CASE GrantAdministration(GrantKeys, Callers)
    BY <1>8 DEF GrantAdministration, GrantActorRole, RevokeActorRoleGrant, GrantTenantOperatorRole,
                RevokeTenantOperatorRoleGrant, SaveGrant, SaveRevocation, nothingYet, grantsOnly
  <1>9. CASE Leasing(Globals, Persons, Tenants)
    BY <1>9 DEF Leasing, Expire, CreateSupportAccessLease, TransitionSupportAccessLease, leasesOnly
  <1>10. CASE Journeying(Members, Callers)
    BY <1>10 DEF Journeying, CreateJourney, InsertJourney, ExtendJourney, UpdateExtension, CloseJourney,
                 UpdateJourney, journeysOnly
  <1> QED BY <1>1, <1>2, <1>3, <1>4, <1>5, <1>6, <1>7, <1>8, <1>9, <1>10 DEF Next

\* A journey keeps its member and may only close; a new one is alone.
LEMMA JourneyEffect ==
    ASSUME IdentityInv, Journeying(Members, Callers)
    PROVE  \/ \A j \in JourneyIds : OpenJourney(j)' =>
                  OpenJourney(j) /\ journeys'[j].member = journeys[j].member
           \/ \E k \in JourneyIds, m \in Members :
                  /\ OpenJourneys(m) = {} /\ journeys'[k].member = m
                  /\ \A j \in JourneyIds : j # k => journeys'[j] = journeys[j]
  <1>0. journeys \in [JourneyIds -> Journey \cup {None}]
    BY DEF IdentityInv, IdentityTypeOK
  <1>1. ASSUME NEW j \in JourneyIds, NEW e, journeys[j] # None,
               \/ journeys' = [journeys EXCEPT ![j].extension = e]
               \/ journeys' = [journeys EXCEPT ![j].open = FALSE]
        PROVE  \A i \in JourneyIds : OpenJourney(i)' =>
                  OpenJourney(i) /\ journeys'[i].member = journeys[i].member
    BY <1>0, <1>1 DEF OpenJourney, Journey
  <1>2. CASE \E c \in Callers, m \in Members : CreateJourney(c, m)
    BY <1>2 DEF CreateJourney, OpenJourney
  <1>3. ASSUME NEW c \in Callers, NEW k \in JourneyIds, InsertJourney(c, k)
        PROVE  \/ UNCHANGED journeys
               \/ \E m \in Members : /\ OpenJourneys(m) = {} /\ journeys'[k].member = m
                                     /\ \A j \in JourneyIds : j # k => journeys'[j] = journeys[j]
    <2>1. calls[c].on \in Members
      BY <1>3 DEF InsertJourney, Running, IdentityInv, CallsAimed, Aimed, MemberOps
    <2> QED BY <1>0, <1>3, <2>1 DEF InsertJourney, JourneyTriggers
  <1>4. CASE \E c \in Callers, j \in JourneyIds : ExtendJourney(c, j, 1)
    BY <1>4 DEF ExtendJourney, OpenJourney
  <1>5. ASSUME NEW c \in Callers, UpdateExtension(c)
        PROVE  \A j \in JourneyIds : OpenJourney(j)' =>
                   OpenJourney(j) /\ journeys'[j].member = journeys[j].member
    <2>1. calls[c].on \in JourneyIds /\ journeys[calls[c].on] # None
      BY <1>5 DEF UpdateExtension, Running, IdentityInv, CallsAimed, Aimed, ExtensionsAimed
    <2>2. UNCHANGED journeys \/ journeys' = [journeys EXCEPT ![calls[c].on].extension = calls[c].days]
      BY <1>5 DEF UpdateExtension
    <2>3. CASE UNCHANGED journeys
      BY <2>3 DEF OpenJourney
    <2> QED BY <1>1, <2>1, <2>2, <2>3
  <1>6. ASSUME NEW j \in JourneyIds, NEW days \in 0..MaxExtension, CloseJourney(j) \/ UpdateJourney(j, days)
        PROVE  \A i \in JourneyIds : OpenJourney(i)' =>
                   OpenJourney(i) /\ journeys'[i].member = journeys[i].member
    BY <1>1, <1>6 DEF CloseJourney, UpdateJourney
  <1>7. UNCHANGED journeys => \A j \in JourneyIds : OpenJourney(j)' =>
                   OpenJourney(j) /\ journeys'[j].member = journeys[j].member
    BY DEF OpenJourney
  <1>8. 0 \in 0..MaxExtension
    BY IdentityConstants
  <1> QED BY <1>2, <1>3, <1>4, <1>5, <1>6, <1>7, <1>8 DEF Journeying

\* OneOpenJourney: the triggers on the insert keep a member to one open
\* journey, for any number of creations that have all found none.
THEOREM OneJourney == Spec => []OneOpenJourney
  <1>1. Init => JourneysApart
    BY DEF Init, JourneysApart, OpenJourney
  <1>2. ASSUME IdentityInv, JourneysApart, [Next]_identityVars PROVE JourneysApart'
    <2>1. CASE UNCHANGED journeys
      BY <1>2, <2>1 DEF JourneysApart, OpenJourney
    <2>2. CASE Journeying(Members, Callers)
      <3>1. CASE \A j \in JourneyIds : OpenJourney(j)' =>
                    OpenJourney(j) /\ journeys'[j].member = journeys[j].member
        BY <1>2, <3>1 DEF JourneysApart
      <3>2. ASSUME NEW k \in JourneyIds, NEW m \in Members, OpenJourneys(m) = {}, journeys'[k].member = m,
                   \A j \in JourneyIds : j # k => journeys'[j] = journeys[j]
            PROVE  JourneysApart'
        <4>1. \A j \in JourneyIds : OpenJourney(j) => journeys[j].member # m
          BY <3>2 DEF OpenJourneys, OpenJourney
        <4>2. \A j \in JourneyIds : j # k /\ OpenJourney(j)' =>
                  OpenJourney(j) /\ journeys'[j].member = journeys[j].member
          BY <3>2 DEF OpenJourney
        <4> QED BY <1>2, <3>2, <4>1, <4>2 DEF JourneysApart
      <3> QED BY <1>2, <2>2, <3>1, <3>2, JourneyEffect
    <2> QED BY <1>2, <2>1, <2>2, OthersRest DEF identityVars
  <1>3. ASSUME JourneysApart, NEW m \in Members PROVE Cardinality(OpenJourneys(m)) <= 1
    <2>1. CASE OpenJourneys(m) = {}
      BY <2>1, FS_EmptySet
    <2>2. ASSUME NEW j \in OpenJourneys(m) PROVE Cardinality(OpenJourneys(m)) <= 1
      <3>1. OpenJourneys(m) = {j}
        BY <1>3, <2>2 DEF OpenJourneys, JourneysApart, OpenJourney
      <3> QED BY <3>1, FS_Singleton
    <2> QED BY <2>1, <2>2
  <1>4. JourneysApart => OneOpenJourney
    BY <1>3 DEF OneOpenJourney
  <1>5. IdentityInv /\ JourneysApart /\ [Next]_identityVars => JourneysApart'
    BY <1>2
  <1> QED BY <1>1, <1>4, <1>5, IdentityInvariant, PTL DEF Spec

OpenLease(l) == leases[l] # None /\ EffectiveStatus(l) \in {"PENDING", "APPROVED"}

LeasesApart == \A k, l \in LeaseIds :
    /\ OpenLease(k) /\ OpenLease(l)
    /\ leases[k].actor = leases[l].actor /\ leases[k].tenant = leases[l].tenant
    => k = l

\* An approval or expiry opens no lease, and a new one is alone.
LEMMA LeaseEffect ==
    ASSUME IdentityInv, Leasing(Globals, Persons, Tenants)
    PROVE  \/ \A l \in LeaseIds : OpenLease(l)' => /\ OpenLease(l)
                                                   /\ leases'[l].actor = leases[l].actor
                                                   /\ leases'[l].tenant = leases[l].tenant
           \/ \E k \in LeaseIds, x \in Globals, s \in Tenants :
                  /\ OpenLeases(x, s) = {} /\ leases'[k].actor = x /\ leases'[k].tenant = s
                  /\ \A l \in LeaseIds : l # k => leases'[l] = leases[l]
  <1>0. leases \in [LeaseIds -> Lease \cup {None}]
    BY DEF IdentityInv, IdentityTypeOK
  <1>1. ASSUME NEW k \in LeaseIds, Expire(k)
        PROVE  \A l \in LeaseIds : OpenLease(l)' => /\ OpenLease(l)
                                                    /\ leases'[l].actor = leases[l].actor
                                                    /\ leases'[l].tenant = leases[l].tenant
    <2>1. leases[k] \in Lease /\ leases' = [leases EXCEPT ![k].expired = TRUE]
      BY <1>0, <1>1 DEF Expire
    <2>2. leases'[k].expired = TRUE /\ leases'[k].status = leases[k].status
      BY <1>0, <2>1 DEF Lease
    <2>3. ~OpenLease(k)'
      BY <2>2 DEF OpenLease, EffectiveStatus
    <2>4. \A l \in LeaseIds : l # k => leases'[l] = leases[l]
      BY <1>0, <2>1
    <2> QED BY <2>3, <2>4 DEF OpenLease, EffectiveStatus
  <1>2. ASSUME NEW k \in LeaseIds, NEW p \in Persons, NEW s \in Tenants, NEW approve \in BOOLEAN,
               TransitionSupportAccessLease(k, p, s, approve)
        PROVE  \A l \in LeaseIds : OpenLease(l)' => /\ OpenLease(l)
                                                    /\ leases'[l].actor = leases[l].actor
                                                    /\ leases'[l].tenant = leases[l].tenant
    <2> DEFINE status == IF approve THEN "APPROVED" ELSE "TERMINATED"
    <2>1. /\ leases[k] # None /\ EffectiveStatus(k) \in {"PENDING", "APPROVED"}
          /\ leases' = [leases EXCEPT ![k].status = status]
      BY <1>2 DEF TransitionSupportAccessLease
    <2> HIDE DEF status
    <2>2. OpenLease(k) /\ leases[k] \in Lease
      BY <1>0, <2>1 DEF OpenLease
    <2>3. leases'[k].actor = leases[k].actor /\ leases'[k].tenant = leases[k].tenant
      BY <1>0, <2>1, <2>2 DEF Lease
    <2>4. \A l \in LeaseIds : l # k => leases'[l] = leases[l]
      BY <1>0, <2>1
    <2> QED BY <2>2, <2>3, <2>4 DEF OpenLease, EffectiveStatus
  <1>3. ASSUME NEW k \in LeaseIds, NEW x \in Globals, NEW s \in Tenants, CreateSupportAccessLease(k, x, s)
        PROVE  /\ OpenLeases(x, s) = {} /\ leases'[k].actor = x /\ leases'[k].tenant = s
               /\ \A l \in LeaseIds : l # k => leases'[l] = leases[l]
    BY <1>0, <1>3 DEF CreateSupportAccessLease
  <1> QED BY <1>1, <1>2, <1>3 DEF Leasing

\* OneOpenLease: an application administrator never has two leases of one
\* tenant that are waiting or in force, whoever approves and whatever expires.
THEOREM OneLease == Spec => []OneOpenLease
  <1>1. Init => LeasesApart
    BY DEF Init, LeasesApart, OpenLease
  <1>2. ASSUME IdentityInv, LeasesApart, [Next]_identityVars PROVE LeasesApart'
    <2>1. CASE UNCHANGED leases
      BY <1>2, <2>1 DEF LeasesApart, OpenLease, EffectiveStatus
    <2>2. CASE Leasing(Globals, Persons, Tenants)
      <3>1. CASE \A l \in LeaseIds : OpenLease(l)' => /\ OpenLease(l)
                                                      /\ leases'[l].actor = leases[l].actor
                                                      /\ leases'[l].tenant = leases[l].tenant
        BY <1>2, <3>1 DEF LeasesApart
      <3>2. ASSUME NEW k \in LeaseIds, NEW x \in Globals, NEW s \in Tenants, OpenLeases(x, s) = {},
                   leases'[k].actor = x, leases'[k].tenant = s,
                   \A l \in LeaseIds : l # k => leases'[l] = leases[l]
            PROVE  LeasesApart'
        <4>1. \A l \in LeaseIds : OpenLease(l) => ~(leases[l].actor = x /\ leases[l].tenant = s)
          BY <3>2 DEF OpenLeases, OpenLease
        <4>2. \A l \in LeaseIds : l # k /\ OpenLease(l)' =>
                  OpenLease(l) /\ leases'[l].actor = leases[l].actor /\ leases'[l].tenant = leases[l].tenant
          BY <3>2 DEF OpenLease, EffectiveStatus
        <4> QED BY <1>2, <3>2, <4>1, <4>2 DEF LeasesApart
      <3> QED BY <1>2, <2>2, <3>1, <3>2, LeaseEffect
    <2> QED BY <1>2, <2>1, <2>2, OthersRest DEF identityVars
  <1>3. LeasesApart => OneOpenLease
    BY DEF LeasesApart, OneOpenLease, OpenLease
  <1>4. IdentityInv /\ LeasesApart /\ [Next]_identityVars => LeasesApart'
    BY <1>2
  <1> QED BY <1>1, <1>3, <1>4, IdentityInvariant, PTL DEF Spec

-----------------------------------------------------------------------------
(***************************************************************************)
(* What is offered can be used.  These follow from the tables in any one   *)
(* state: the operator that makes the offer and the one that later decides *)
(* look at the same rows.                                                  *)
(***************************************************************************)
\* OptionsUsable: every scope ListAccountTenantOptions offers an account is one
\* in which FindAccountActor gives it an actor.  The options go by the actor's
\* having any role and the support lease by its being application
\* administrator: an application actor can have no other role.
THEOREM OptionsOpen == Spec => []OptionsUsable
  <1>1. ASSUME NEW a \in Globals, RolesOf(a) # {} PROVE "APPLICATION_ADMIN" \in RolesOf(a)
    <2>1. PICK k \in GrantKeys : k[1] = a /\ Effective(k)
      BY <1>1 DEF RolesOf
    <2>2. a \notin Members
      BY IdentityConstants
    <2>3. k[2] = "APPLICATION_ADMIN"
      BY <2>1, <2>2 DEF GrantKeys, AdminKeys
    <2> QED BY <2>1, <2>3 DEF RolesOf
  <1>2. ASSUME NEW a \in Globals, NEW s \in ListAccountTenantOptions(a) PROVE FindAccountActor(a, s) # Unavailable
    <2>1. /\ a \in bound /\ actors[a] = TRUE /\ RolesOf(a) # {}
          /\ s = GlobalScope \/ s \in SupportLeaseTenantOptions(a)
      BY <1>2 DEF ListAccountTenantOptions, ListActorTenantOptions
    <2>2. CASE s = GlobalScope
      BY <1>2, <2>1, <2>2 DEF FindAccountActor, Unavailable
    <2>3. CASE s \in SupportLeaseTenantOptions(a)
      <3>1. s # GlobalScope /\ ActiveLeases(a, s) # {}
        BY <2>3, ScopeAssumption DEF SupportLeaseTenantOptions
      <3>2. SupportLeaseActor(a, s) # Unavailable
        BY <1>1, <2>1, <3>1 DEF SupportLeaseActor, Unavailable
      <3> QED BY <3>1, <3>2 DEF FindAccountActor
    <2> QED BY <2>1, <2>2, <2>3
  <1>3. ASSUME NEW a \in Accounts, a \notin Globals, NEW s \in ListAccountTenantOptions(a)
        PROVE  FindAccountActor(a, s) # Unavailable
    <2>1. /\ s \in Tenants /\ s # GlobalScope
          /\ <<a, s>> \in bound /\ actors[<<a, s>>] = TRUE /\ memberships[<<a, s>>] = "ACTIVE"
      BY <1>3, ScopeAssumption DEF ListAccountTenantOptions
    <2>2. TenantBoundActor(<<a, s>>) # Unavailable
      BY <2>1 DEF TenantBoundActor, Unavailable
    <2> QED BY <2>1, <2>2 DEF FindAccountActor
  <1>4. OptionsUsable
    BY <1>2, <1>3 DEF OptionsUsable
  <1> QED BY <1>4, PTL

\* CandidatesAssignable: whoever ListTenantAdminCandidates offers a tenant
\* passes the checks of the assignment.  The list counts all administrators of
\* the tenant, the checks those besides the candidate.
THEOREM CandidatesPass == Spec => []CandidatesAssignable
  <1>1. ASSUME NEW s \in Tenants, tenants[s] # None, NEW m \in ListTenantAdminCandidates(s), ~Held(TenantAdmin(m))
        PROVE  AssignmentAllowed(m)
    <2>1. /\ m \in Members /\ m \in bound /\ TenantOf(m) = s
          /\ actors[m] = TRUE /\ memberships[m] # None
          /\ Cardinality(Administrators(s)) < 2 /\ ~AdministersElsewhere(m)
      BY <1>1 DEF ListTenantAdminCandidates
    <2>2. OtherAdministrators(m) = Administrators(s)
      BY <1>1, <2>1 DEF OtherAdministrators, Administrators
    <2>3. TenantAdministratorCardinality(m)
      BY <2>1, <2>2 DEF TenantAdministratorCardinality
    <2> QED BY <1>1, <2>1, <2>3
            DEF AssignmentAllowed, ValidateDelegatedRoleGrant, AdministratorTriggers, TenantAdmin
  <1>2. CandidatesAssignable
    BY <1>1 DEF CandidatesAssignable
  <1> QED BY <1>2, PTL

-----------------------------------------------------------------------------
(***************************************************************************)
(* Administrators.                                                         *)
(***************************************************************************)
Assigned(m) == Held(TenantAdmin(m))

\* The limits, and what the second of them needs: the code looks for other
\* assignments of the person among the actors bound to its account only, so
\* no administrator may be without that binding.
AssignmentsLimited ==
    /\ \A s \in Tenants : IsFiniteSet(Administrators(s)) /\ Cardinality(Administrators(s)) <= 2
    /\ \A m \in Members : Assigned(m) => m \in bound
    /\ \A m, n \in Members : Assigned(m) /\ Assigned(n) /\ PersonOf(m) = PersonOf(n) => m = n

\* Nobody new is assigned, but perhaps x.
NobodyNewBut(X) == \A m \in Members \ X : Assigned(m)' => Assigned(m)

\* A grant changed in one key assigns nobody else.
LEMMA OneGrantWritten ==
    ASSUME IdentityInv, NEW g, NEW row, grants' = [grants EXCEPT ![g] = row],
           NEW m \in Members, TenantAdmin(m) # g
    PROVE  Assigned(m)' <=> Assigned(m)
  <1>1. TenantAdmin(m) \in GrantKeys
    BY DEF TenantAdmin, GrantKeys, AdminKeys
  <1>2. grants'[TenantAdmin(m)] = grants[TenantAdmin(m)]
    BY <1>1, AuthzTypes
  <1> QED BY <1>2 DEF Assigned, Held, TenantAdmin

\* What a step does to assignments: bindings stay, and it assigns at most one
\* actor, past the triggers of the table.
AssignmentEffect ==
    /\ bound \subseteq bound'
    /\ \/ NobodyNewBut({})
       \/ \E x \in Members : AdministratorTriggers(TenantAdmin(x)) /\ NobodyNewBut({x})

LEMMA AssignmentsRest == UNCHANGED grants /\ bound \subseteq bound' => AssignmentEffect
  BY DEF AssignmentEffect, NobodyNewBut, Assigned, Held, TenantAdmin

\* A write of an application or an operator role, or of an inactive row.
LEMMA NobodyAssigned ==
    ASSUME IdentityInv, NEW g \in GrantKeys, NEW row, grants' = [grants EXCEPT ![g] = row],
           g \notin AdminKeys \/ row.active = FALSE
    PROVE  NobodyNewBut({})
  <1>1. ASSUME NEW m \in Members, TenantAdmin(m) = g PROVE ~Assigned(m)'
    <2>1. g \in AdminKeys
      BY <1>1 DEF TenantAdmin, AdminKeys
    <2>2. grants'[g] = row
      BY AuthzTypes
    <2>3. Assigned(m)' => grants'[g].active
      BY <1>1 DEF Assigned, Held, TenantAdmin
    <2> QED BY <2>1, <2>2, <2>3
  <1>2. ASSUME NEW m \in Members, TenantAdmin(m) # g PROVE Assigned(m)' => Assigned(m)
    BY <1>2, OneGrantWritten
  <1> QED BY <1>1, <1>2 DEF NobodyNewBut

LEMMA OneAssigned ==
    ASSUME IdentityInv, NEW x \in Members, NEW row, grants' = [grants EXCEPT ![TenantAdmin(x)] = row]
    PROVE  NobodyNewBut({x})
  <1>1. PICK g : g = TenantAdmin(x)
    OBVIOUS
  <1>2. grants' = [grants EXCEPT ![g] = row]
    BY <1>1
  <1>3. ASSUME NEW m \in Members, m # x PROVE Assigned(m)' => Assigned(m)
    <2>1. TenantAdmin(m) # g
      BY <1>1, <1>3 DEF TenantAdmin
    <2> QED BY <1>2, <2>1, OneGrantWritten
  <1> QED BY <1>3 DEF NobodyNewBut

LEMMA GrantSaved ==
    ASSUME IdentityInv, NEW c \in Callers, SaveGrant(c)
    PROVE  AssignmentEffect
  <1>0. UNCHANGED bound
    BY DEF SaveGrant, grantsOnly
  <1>1. PICK g : g = calls[c].on /\ g \in GrantKeys
    BY DEF SaveGrant, Running, IdentityInv, CallsAimed, Aimed, GrantOps
  <1>2. CASE UNCHANGED grants
    BY <1>0, <1>2, AssignmentsRest
  <1>3. CASE ~UNCHANGED grants
    <2> DEFINE row == [active |-> TRUE, suspended |-> FALSE]
    <2>1. AdministratorTriggers(g) /\ grants' = [grants EXCEPT ![g] = row]
      BY <1>1, <1>3 DEF SaveGrant
    <2> HIDE DEF row
    <2>2. CASE g \in AdminKeys
      <3>1. PICK x \in Members : g = TenantAdmin(x)
        BY <2>2 DEF AdminKeys, TenantAdmin
      <3>2. NobodyNewBut({x})
        BY <2>1, <3>1, OneAssigned
      <3> QED BY <1>0, <2>1, <3>1, <3>2 DEF AssignmentEffect
    <2>3. CASE g \notin AdminKeys
      BY <1>0, <1>1, <2>1, <2>3, NobodyAssigned DEF AssignmentEffect
    <2> QED BY <2>2, <2>3
  <1> QED BY <1>2, <1>3

LEMMA RevocationSaved ==
    ASSUME IdentityInv, NEW c \in Callers, SaveRevocation(c)
    PROVE  AssignmentEffect
  <1>1. PICK g, row : /\ g = calls[c].on /\ g \in GrantKeys /\ row = [calls[c].row EXCEPT !.active = FALSE]
                      /\ calls[c].row \in Grant
    BY DEF SaveRevocation, Running, IdentityInv, IdentityTypeOK, CallsAimed, Aimed, GrantOps, Call
  <1>2. row.active = FALSE
    BY <1>1 DEF Grant
  <1>3. grants' = [grants EXCEPT ![g] = row] /\ UNCHANGED bound
    BY <1>1 DEF SaveRevocation, grantsOnly
  <1> QED BY <1>1, <1>2, <1>3, NobodyAssigned DEF AssignmentEffect

LEMMA AssignmentMade ==
    ASSUME IdentityInv, NEW x \in Members, AssignTenantAdmin(x) \/ RevokeTenantAdmin(x)
    PROVE  AssignmentEffect
  <1>1. PICK row : grants' = [grants EXCEPT ![TenantAdmin(x)] = row]
    BY DEF AssignTenantAdmin, RevokeTenantAdmin
  <1>2. UNCHANGED bound
    BY DEF AssignTenantAdmin, RevokeTenantAdmin, grantsOnly
  <1>4. NobodyNewBut({x})
    BY <1>1, OneAssigned
  <1>5. CASE AssignTenantAdmin(x)
    BY <1>2, <1>4, <1>5 DEF AssignTenantAdmin, AssignmentAllowed, AssignmentEffect
  <1>6. CASE RevokeTenantAdmin(x)
    <2>1. Assigned(x)
      BY <1>6 DEF RevokeTenantAdmin, Assigned
    <2>2. NobodyNewBut({})
      BY <1>4, <2>1 DEF NobodyNewBut
    <2> QED BY <1>2, <2>2 DEF AssignmentEffect
  <1> QED BY <1>5, <1>6

\* Deactivating a person suspends grants, which neither ends nor makes an
\* assignment.
LEMMA GrantsSuspended ==
    ASSUME IdentityInv, NEW p, NEW members, DeactivateAccount(p, members)
    PROVE  AssignmentEffect
  <1>1. ASSUME NEW m \in Members PROVE Assigned(m)' => Assigned(m)
    <2>1. PICK g \in GrantKeys : g = TenantAdmin(m)
      BY DEF TenantAdmin, GrantKeys, AdminKeys
    <2>2. grants'[g] = grants[g] \/ (grants[g] # None /\ grants[g].active)
      BY <2>1 DEF DeactivateAccount
    <2> QED BY <2>1, <2>2 DEF Assigned, Held, TenantAdmin
  <1> QED BY <1>1 DEF DeactivateAccount, AssignmentEffect, NobodyNewBut

LEMMA AssignmentsStep ==
    ASSUME IdentityInv, Next
    PROVE  AssignmentEffect
  <1>1. CASE Directory(Persons, Tenants)
    <2>1. ASSUME NEW m, NEW complete, ReactivateTenantMembership(m, complete) PROVE AssignmentEffect
      BY <2>1, AssignmentsRest DEF ReactivateTenantMembership, ReactivateAccount
    <2>2. ASSUME NEW m, NEW status, NEW complete, UpdatePerson(m, status, complete) PROVE AssignmentEffect
      <3>1. \/ UNCHANGED <<grants, bound>>
            \/ \E p, members : DeactivateAccount(p, members)
        BY <2>2 DEF UpdatePerson, DeactivateOperationalPerson, authzVars
      <3> QED BY <3>1, AssignmentsRest, GrantsSuspended
    <2>3. ASSUME NEW p, NEW s, NEW status, NEW missing,
                 Create(p, s, status, missing) \/ Update(<<p, s>>, status, missing)
          PROVE  AssignmentEffect
      <3>1. CASE Create(p, s, status, missing)
        BY <3>1, AssignmentsRest DEF Create, CreatePerson, authzVars
      <3>2. CASE Update(<<p, s>>, status, missing)
        BY <2>2, <3>2 DEF Update
      <3> QED BY <2>3, <3>1, <3>2
    <2>4. ASSUME NEW p, NEW s, NEW status, CreateMembership(p, s, status) PROVE AssignmentEffect
      BY <2>1, <2>4, AssignmentsRest DEF CreateMembership, authzVars
    <2>5. ASSUME NEW m, Reactivate(m) PROVE AssignmentEffect
      BY <2>1, <2>5 DEF Reactivate
    <2>6. ASSUME NEW s, EnsureGlobalPersonMembershipFoundation(s) PROVE AssignmentEffect
      BY <2>6, AssignmentsRest DEF EnsureGlobalPersonMembershipFoundation, authzVars
    <2> QED BY <1>1, <2>3, <2>4, <2>5, <2>6 DEF Directory
  <1>2. CASE TenantAdministration(Tenants, Members)
    BY <1>2, AssignmentMade, AssignmentsRest DEF TenantAdministration, CreateTenant, SetActive, authzVars
  <1>3. CASE Sessions(Accounts, Callers)
    BY <1>3, AssignmentsRest
       DEF Sessions, Login, CreateSession, ChangePassword, LoginRecheck, Logout, ResolveSession,
           UpdatePasswordAndRevokeSessions, nothingYet, sessionsOnly, credentials, authzVars
  <1>4. CASE Recovery(Accounts, Members, Callers)
    BY <1>4, AssignmentsRest
       DEF Recovery, IssuePasswordResetToken, RequestSelfReactivation, IssueTenantPersonPasswordResetToken,
           RequestTenantPersonReactivation, CreatePasswordResetToken, ResetPassword,
           ConsumePasswordResetToken, CreateOrRefreshReactivationRequest, ReviewReactivationRequest,
           SetAccountActive, nothingYet, credentials, authzVars
  <1>5. CASE AccountCreation(Members, Actors, Callers)
    <2>1. ASSUME NEW m, CreatePersonAccountTx(m) PROVE bound \subseteq bound'
      BY <2>1 DEF CreatePersonAccountTx, EnsureAccountActorBinding
    <2>2. UNCHANGED grants
      BY <1>5 DEF AccountCreation, CreatePersonAccount, EnablePersonAuthentication, CreateAccount,
                  EnableCreateAccount, CreateAccountTx, CreateActor, EnsureAccountActorFoundation, nothingYet,
                  accountCreation, actorsOnly, authzVars
    <2>3. bound \subseteq bound'
      BY <1>5, <2>1 DEF AccountCreation, CreatePersonAccount, EnablePersonAuthentication, CreateAccount,
                  EnableCreateAccount, CreateAccountTx, CreateActor, EnsureAccountActorFoundation, nothingYet,
                  accountCreation, actorsOnly, authzVars
    <2> QED BY <2>2, <2>3, AssignmentsRest
  <1>6. CASE ApplicationAdministration(Globals)
    <2>1. PICK g \in Globals : EnsureBootstrapActor(g) /\ bound \subseteq bound'
      BY <1>6 DEF ApplicationAdministration, BootstrapAtStartup, ProvisionApplicationAdmin
    <2>2. PICK k \in GrantKeys : k = AppAdmin(g) /\ k \notin AdminKeys
      <3>1. AppAdmin(g) \in GrantKeys
        BY DEF AppAdmin, GrantKeys
      <3>2. AppAdmin(g)[2] = "APPLICATION_ADMIN"
        BY DEF AppAdmin
      <3>3. \A k \in AdminKeys : k[2] = "TENANT_ADMIN"
        BY DEF AdminKeys
      <3> QED BY <3>1, <3>2, <3>3
    <2>3. PICK row : grants' = [grants EXCEPT ![k] = row]
      BY <2>1, <2>2 DEF EnsureBootstrapActor
    <2> QED BY <2>1, <2>2, <2>3, NobodyAssigned DEF AssignmentEffect
  <1>7. CASE ActorAdministration(Actors, Callers)
    BY <1>7, AssignmentsRest
       DEF ActorAdministration, SetActorActive, SetTenantActorActive, SaveActor, nothingYet, actorsOnly, authzVars
  <1>8. CASE GrantAdministration(GrantKeys, Callers)
    BY <1>8, GrantSaved, RevocationSaved, AssignmentsRest
       DEF GrantAdministration, GrantActorRole, RevokeActorRoleGrant, GrantTenantOperatorRole,
           RevokeTenantOperatorRoleGrant, nothingYet, authzVars
  <1>9. CASE Leasing(Globals, Persons, Tenants)
    BY <1>9, AssignmentsRest
       DEF Leasing, Expire, CreateSupportAccessLease, TransitionSupportAccessLease, leasesOnly, authzVars
  <1>10. CASE Journeying(Members, Callers)
    BY <1>10, AssignmentsRest
       DEF Journeying, CreateJourney, InsertJourney, ExtendJourney, UpdateExtension, CloseJourney,
           UpdateJourney, journeysOnly, authzVars
  <1> QED BY <1>1, <1>2, <1>3, <1>4, <1>5, <1>6, <1>7, <1>8, <1>9, <1>10 DEF Next

\* An assignment the triggers let through keeps both limits.
LEMMA LimitsKept ==
    ASSUME AssignmentsLimited, AssignmentEffect
    PROVE  AssignmentsLimited'
  <1>1. PICK X \in SUBSET Members :
             /\ NobodyNewBut(X)
             /\ X = {} \/ \E x \in Members : X = {x} /\ AdministratorTriggers(TenantAdmin(x))
    BY DEF AssignmentEffect
  <1>2. \A x \in X : x \in bound /\ TenantAdministratorCardinality(x) /\ X = {x}
    BY <1>1 DEF AdministratorTriggers, TenantAdmin
  <1>3. ASSUME NEW s \in Tenants
        PROVE  IsFiniteSet(Administrators(s)') /\ Cardinality(Administrators(s)') <= 2
    <2>1. IsFiniteSet(Administrators(s)) /\ Cardinality(Administrators(s)) <= 2
      BY DEF AssignmentsLimited
    <2>2. CASE \A x \in X : TenantOf(x) # s
      <3>1. Administrators(s)' \subseteq Administrators(s)
        BY <1>1, <2>2 DEF Administrators, NobodyNewBut, Assigned
      <3>2. Cardinality(Administrators(s)') <= Cardinality(Administrators(s)) /\ IsFiniteSet(Administrators(s)')
        BY <2>1, <3>1, FS_Subset
      <3>3. Cardinality(Administrators(s)) \in Nat /\ Cardinality(Administrators(s)') \in Nat
        BY <2>1, <3>2, FS_CardinalityType
      <3> QED BY <2>1, <3>2, <3>3
    <2>3. ASSUME NEW x \in X, TenantOf(x) = s
          PROVE  IsFiniteSet(Administrators(s)') /\ Cardinality(Administrators(s)') <= 2
      <3> DEFINE others == OtherAdministrators(x)
      <3>1. others \subseteq Administrators(s) /\ Administrators(s)' \subseteq others \cup {x}
        BY <1>1, <1>2, <2>3 DEF OtherAdministrators, Administrators, NobodyNewBut, Assigned
      <3>2. Cardinality(others) < 2
        BY <1>2, <2>3 DEF TenantAdministratorCardinality
      <3>3. IsFiniteSet(others)
        BY <2>1, <3>1, FS_Subset
      <3> HIDE DEF others
      <3>4. IsFiniteSet(others \cup {x}) /\ Cardinality(others \cup {x}) <= Cardinality(others) + 1
        <4>1. Cardinality(others) \in Nat
          BY <3>3, FS_CardinalityType
        <4>2. /\ IsFiniteSet(others \cup {x})
              /\ Cardinality(others \cup {x}) = IF x \in others THEN Cardinality(others) ELSE Cardinality(others) + 1
          BY <3>3, FS_AddElement
        <4> QED BY <4>1, <4>2
      <3>5. /\ IsFiniteSet(Administrators(s)')
            /\ Cardinality(Administrators(s)') <= Cardinality(others \cup {x})
        BY <3>1, <3>4, FS_Subset
      <3>6. /\ Cardinality(others) \in Nat /\ Cardinality(others \cup {x}) \in Nat
            /\ Cardinality(Administrators(s)') \in Nat
        BY <3>3, <3>4, <3>5, FS_CardinalityType
      <3> QED BY <3>2, <3>4, <3>5, <3>6
    <2> QED BY <2>2, <2>3
  <1>4. ASSUME NEW m \in Members, Assigned(m)' PROVE m \in bound'
    BY <1>1, <1>2, <1>4 DEF AssignmentsLimited, NobodyNewBut, AssignmentEffect
  <1>5. ASSUME NEW x \in X, NEW n \in Members, n # x, Assigned(n)', PersonOf(n) = PersonOf(x) PROVE FALSE
    <2>1. Assigned(n) /\ n \in bound
      BY <1>1, <1>2, <1>5 DEF NobodyNewBut, AssignmentsLimited
    <2>2. AdministersElsewhere(x)
      BY <1>5, <2>1 DEF AdministersElsewhere, MembersOf, Assigned
    <2> QED BY <1>2, <1>5, <2>2 DEF TenantAdministratorCardinality
  <1>6. ASSUME NEW m \in Members, NEW n \in Members, Assigned(m)', Assigned(n)', PersonOf(m) = PersonOf(n)
        PROVE  m = n
    <2>1. CASE m \in X
      BY <1>5, <1>6, <2>1
    <2>2. CASE n \in X
      BY <1>5, <1>6, <2>2
    <2>3. CASE m \notin X /\ n \notin X
      BY <1>1, <1>6, <2>3 DEF NobodyNewBut, AssignmentsLimited
    <2> QED BY <2>1, <2>2, <2>3
  <1> QED BY <1>3, <1>4, <1>6 DEF AssignmentsLimited

\* AdministratorCardinality: at most two administrators per tenant and one
\* tenant per administrator, suspended assignments included, for any number of
\* grants that were all validated against the same tables.  The triggers
\* repeat the limits when the grant is written.
THEOREM AdministratorsLimited == Spec => []AdministratorCardinality
  <1>1. Init => AssignmentsLimited
    <2> SUFFICES ASSUME Init PROVE AssignmentsLimited
      OBVIOUS
    <2>1. \A m \in Members : ~Assigned(m)
      BY DEF Init, Assigned, Held, TenantAdmin, GrantKeys, AdminKeys
    <2>2. \A s \in Tenants : Administrators(s) = {}
      BY <2>1 DEF Administrators, Assigned
    <2> QED BY <2>1, <2>2, FS_EmptySet DEF AssignmentsLimited
  <1>2. IdentityInv /\ AssignmentsLimited /\ [Next]_identityVars => AssignmentsLimited'
    <2>1. UNCHANGED identityVars => AssignmentEffect
      BY AssignmentsRest DEF identityVars, authzVars
    <2> QED BY <2>1, AssignmentsStep, LimitsKept
  <1>3. ASSUME AssignmentsLimited, NEW p \in Persons
        PROVE  Cardinality({m \in MembersOf(p) : Held(TenantAdmin(m))}) <= 1
    <2> DEFINE A == {m \in MembersOf(p) : Held(TenantAdmin(m))}
    <2>1. CASE A = {}
      BY <2>1, FS_EmptySet
    <2>2. ASSUME NEW m \in A PROVE Cardinality(A) <= 1
      <3>1. A = {m}
        BY <1>3, <2>2 DEF MembersOf, AssignmentsLimited, Assigned
      <3> QED BY <3>1, FS_Singleton
    <2> QED BY <2>1, <2>2
  <1>4. AssignmentsLimited => AdministratorCardinality
    BY <1>3 DEF AdministratorCardinality, AssignmentsLimited
  <1> QED BY <1>1, <1>2, <1>4, IdentityInvariant, PTL DEF Spec

-----------------------------------------------------------------------------
(***************************************************************************)
(* The last application administrator.  Revoking a grant and deactivating  *)
(* an actor look for another administrator and save in a later step, with  *)
(* nothing in the database to repeat the check.  So the promise is made    *)
(* for the removals that still see the administrators as they are.         *)
(***************************************************************************)
\* There is another administrator if x is one.
Covered(x) == x \in ApplicationAdministrators => EnsureApplicationAdminRemains(x)

RemovalCovered(call) ==
    /\ call.op = "DEACTIVATE_ACTOR" => Covered(call.on)
    /\ call.op = "REVOKE_GRANT" /\ call.on[2] = "APPLICATION_ADMIN" => Covered(call.on[1])

\* What the removals in flight have checked still holds.
RemovalsCovered == \A c \in Callers \ outdated : calls[c] # None => RemovalCovered(calls[c])

\* Administrators stay and nobody is given the role.
AdministratorsRest ==
    \A g \in Globals : /\ actors[g] = TRUE => actors'[g] = TRUE
                       /\ grants'[AppAdmin(g)] = grants[AppAdmin(g)]

\* No call starts but what has nothing to do with administrators or has checked
\* the present ones.
CallsCovered ==
    \A c \in Callers : \E call :
        /\ calls'[c] = call
        /\ \/ call \in {calls[c], None}
           \/ call.op \notin {"DEACTIVATE_ACTOR", "REVOKE_GRANT"}
           \/ RemovalCovered(call) /\ UNCHANGED <<actors, grants>>

LEMMA AdministratorsSame == UNCHANGED <<actors, grants>> => ApplicationAdministrators' = ApplicationAdministrators
  BY DEF ApplicationAdministrators, Held, AppAdmin

LEMMA CoverSame ==
    ASSUME ApplicationAdministrators' = ApplicationAdministrators, NEW call, RemovalCovered(call)
    PROVE  RemovalCovered(call)'
  <1>1. ASSUME NEW x PROVE Covered(x) <=> (x \in ApplicationAdministrators =>
                                             \E g \in ApplicationAdministrators : g # x)
    BY DEF Covered, EnsureApplicationAdminRemains, ApplicationAdministrators
  <1>2. ASSUME NEW x PROVE Covered(x)' <=> (x \in ApplicationAdministrators' =>
                                             \E g \in ApplicationAdministrators' : g # x)
    BY DEF Covered, EnsureApplicationAdminRemains, ApplicationAdministrators
  <1>3. ASSUME NEW x, Covered(x) PROVE Covered(x)'
    BY <1>1, <1>2, <1>3
  <1> QED BY <1>3 DEF RemovalCovered

\* A removal that is not outdated has seen the administrators there are.
LEMMA CoverKept ==
    ASSUME RemovalsCovered, CallsCovered, RecordOutdated
    PROVE  RemovalsCovered'
  <1>1. ASSUME NEW c \in Callers, c \notin outdated', calls'[c] # None PROVE RemovalCovered(calls[c])'
    <2>1. PICK call : /\ calls'[c] = call
                      /\ \/ call \in {calls[c], None}
                         \/ call.op \notin {"DEACTIVATE_ACTOR", "REVOKE_GRANT"}
                         \/ RemovalCovered(call) /\ UNCHANGED <<actors, grants>>
      BY DEF CallsCovered
    <2>2. SUFFICES RemovalCovered(call)'
      BY <2>1 DEF RemovalCovered
    <2>3. CASE call.op \notin {"DEACTIVATE_ACTOR", "REVOKE_GRANT"}
      BY <2>3 DEF RemovalCovered
    <2>4. CASE RemovalCovered(call) /\ UNCHANGED <<actors, grants>>
      BY <2>4, AdministratorsSame, CoverSame
    <2>5. CASE call = calls[c] /\ call.op \in {"DEACTIVATE_ACTOR", "REVOKE_GRANT"}
      <3>1. Removing(c)
        BY <1>1, <2>1, <2>5 DEF Removing, Running
      <3>2. c \notin outdated /\ ApplicationAdministrators' = ApplicationAdministrators
        BY <1>1, <2>1, <2>5, <3>1 DEF RecordOutdated
      <3>3. RemovalCovered(call)
        BY <1>1, <2>1, <2>5, <3>2 DEF RemovalsCovered
      <3> QED BY <3>2, <3>3, CoverSame
    <2> QED BY <1>1, <2>1, <2>3, <2>4, <2>5
  <1> QED BY <1>1 DEF RemovalsCovered

LEMMA CallsEndCovered ==
    ASSUME IdentityInv, UNCHANGED calls \/ \E c \in Callers : Finish(c)
    PROVE  CallsCovered
  <1>1. \A c \in Callers : calls'[c] \in {calls[c], None}
    BY SameCalls, FinishType
  <1> QED BY <1>1 DEF CallsCovered

LEMMA CallStartCovered ==
    ASSUME IdentityInv, NEW c \in Callers, NEW call, Start(c, call),
           \/ call.op \notin {"DEACTIVATE_ACTOR", "REVOKE_GRANT"}
           \/ RemovalCovered(call) /\ UNCHANGED <<actors, grants>>
    PROVE  CallsCovered
  <1>1. \A d \in Callers : calls'[d] = IF d = c THEN call ELSE calls[d]
    BY AccountTypes DEF Start
  <1> QED BY <1>1 DEF CallsCovered

LEMMA OtherCalls ==
    ASSUME IdentityInv, NEW c \in Callers, NEW op, NEW on, Start(c, NewCall(op, on)),
           op \notin {"DEACTIVATE_ACTOR", "REVOKE_GRANT"}
    PROVE  CallsCovered
  <1>1. NewCall(op, on).op = op
    BY DEF NewCall
  <1> QED BY <1>1, CallStartCovered

LEMMA AdministratorsLeft == UNCHANGED <<actors, grants>> => AdministratorsRest
  BY DEF AdministratorsRest

\* Starting a removal covers it: the other administrator has just been seen.
LEMMA RemovalStarts ==
    ASSUME IdentityInv, NEW c \in Callers,
           \/ \E x \in Actors, active \in BOOLEAN :
                 SetActorActive(c, x, active) \/ (x \in Members /\ SetTenantActorActive(c, x, active))
           \/ \E g \in GrantKeys : GrantActorRole(c, g) \/ RevokeActorRoleGrant(c, g)
           \/ \E g \in GrantKeys : /\ g[2] = "EXPENSE_OPERATOR"
                                   /\ \/ GrantTenantOperatorRole(c, g[1])
                                      \/ RevokeTenantOperatorRoleGrant(c, g[1])
    PROVE  AdministratorsRest /\ CallsCovered
  <1>0. UNCHANGED nothingYet
    BY DEF SetActorActive, SetTenantActorActive, GrantActorRole, RevokeActorRoleGrant, GrantTenantOperatorRole,
           RevokeTenantOperatorRoleGrant
  <1>1. ASSUME NEW x \in Actors, NEW active \in BOOLEAN,
               SetActorActive(c, x, active) \/ (x \in Members /\ SetTenantActorActive(c, x, active))
        PROVE  CallsCovered
    <2>1. PICK op : op = (IF active THEN "ACTIVATE_ACTOR" ELSE "DEACTIVATE_ACTOR")
      OBVIOUS
    <2>2. Start(c, NewCall(op, x))
      BY <1>1, <2>1 DEF SetActorActive, SetTenantActorActive
    <2>3. op = "DEACTIVATE_ACTOR" => Covered(x)
      <3>1. x \in Members => x \notin Globals
        BY IdentityConstants
      <3> QED BY <1>1, <2>1, <3>1
             DEF SetActorActive, EnsureActorDeactivationAllowed, Covered, ApplicationAdministrators
    <2>4. NewCall(op, x).op = op /\ NewCall(op, x).on = x /\ op # "REVOKE_GRANT"
      BY <2>1 DEF NewCall
    <2>5. RemovalCovered(NewCall(op, x))
      BY <2>3, <2>4 DEF RemovalCovered
    <2> QED BY <1>0, <2>2, <2>5, CallStartCovered DEF nothingYet, authzVars
  <1>2. ASSUME NEW g \in GrantKeys, NEW op \in GrantOps,
               Start(c, [NewCall(op, g) EXCEPT !.row = grants[g]]),
               op = "REVOKE_GRANT" => EnsureApplicationAdminGrantRemains(g)
        PROVE  CallsCovered
    <2>1. PICK call : call = [NewCall(op, g) EXCEPT !.row = grants[g]]
      OBVIOUS
    <2>2. call.op = op /\ call.on = g /\ op # "DEACTIVATE_ACTOR"
      BY <2>1 DEF NewCall, GrantOps
    <2>3. RemovalCovered(call)
      BY <1>2, <2>2 DEF RemovalCovered, EnsureApplicationAdminGrantRemains, Covered
    <2> QED BY <1>0, <1>2, <2>1, <2>3, CallStartCovered DEF nothingYet, authzVars
  <1>3. ASSUME NEW g \in GrantKeys, GrantActorRole(c, g) PROVE CallsCovered
    BY <1>2, <1>3 DEF GrantActorRole, GrantOps
  <1>4. ASSUME NEW g \in GrantKeys, RevokeActorRoleGrant(c, g) PROVE CallsCovered
    BY <1>2, <1>4 DEF RevokeActorRoleGrant, GrantOps
  <1>5. ASSUME NEW g \in GrantKeys, g[2] = "EXPENSE_OPERATOR",
               GrantTenantOperatorRole(c, g[1]) \/ RevokeTenantOperatorRoleGrant(c, g[1])
        PROVE  CallsCovered
    <2>1. Operator(g[1]) = g
      BY <1>5 DEF GrantKeys, AdminKeys, Operator
    <2>2. EnsureApplicationAdminGrantRemains(g)
      BY <1>5 DEF EnsureApplicationAdminGrantRemains
    <2>3. CASE GrantTenantOperatorRole(c, g[1])
      BY <1>3, <2>1, <2>3 DEF GrantTenantOperatorRole
    <2>4. CASE RevokeTenantOperatorRoleGrant(c, g[1])
      BY <1>2, <2>1, <2>2, <2>4 DEF RevokeTenantOperatorRoleGrant, GrantOps
    <2> QED BY <1>5, <2>3, <2>4
  <1> QED BY <1>0, <1>1, <1>3, <1>4, <1>5, AdministratorsLeft DEF nothingYet, authzVars

LEMMA SessionsLeaveAdministrators ==
    ASSUME IdentityInv, Sessions(Accounts, Callers) \/ Recovery(Accounts, Members, Callers)
    PROVE  AdministratorsRest /\ CallsCovered
  <1>1. UNCHANGED <<actors, grants>>
    BY DEF Sessions, Login, CreateSession, ChangePassword, LoginRecheck, Logout, ResolveSession,
           UpdatePasswordAndRevokeSessions, Recovery, IssuePasswordResetToken, RequestSelfReactivation,
           IssueTenantPersonPasswordResetToken, RequestTenantPersonReactivation, CreatePasswordResetToken,
           ResetPassword, ConsumePasswordResetToken, CreateOrRefreshReactivationRequest,
           ReviewReactivationRequest, SetAccountActive, nothingYet, sessionsOnly, credentials, authzVars
  <1>2. ASSUME NEW c \in Callers, NEW s, CreateSession(c, s) PROVE CallsCovered
    <2>1. PICK old \in Call : old = calls[c] /\ old.op = "LOGIN"
      BY <1>2, AccountTypes DEF CreateSession, Running
    <2>2. PICK call : call = [old EXCEPT !.ref = s]
      OBVIOUS
    <2>3. \A d \in Callers : calls'[d] = IF d = c THEN call ELSE calls[d]
      BY <1>2, <2>1, <2>2, AccountTypes DEF CreateSession
    <2>4. call.op = "LOGIN"
      BY <2>1, <2>2 DEF Call
    <2> QED BY <2>3, <2>4 DEF CallsCovered
  <1>3. ASSUME NEW c \in Callers, NEW k, ResetPassword(c, k) PROVE CallsCovered
    <2>1. PICK call : call = [NewCall("RESET_PASSWORD", tokens[k]) EXCEPT !.ref = k]
      OBVIOUS
    <2>2. call.op = "RESET_PASSWORD"
      BY <2>1 DEF NewCall
    <2> QED BY <1>3, <2>1, <2>2, CallStartCovered DEF ResetPassword
  <1>4. ASSUME Sessions(Accounts, Callers) PROVE CallsCovered
    BY <1>2, <1>4, CallsEndCovered, OtherCalls
       DEF Sessions, Login, ChangePassword, LoginRecheck, Logout, ResolveSession, UpdatePasswordAndRevokeSessions
  <1>5. ASSUME Recovery(Accounts, Members, Callers) PROVE CallsCovered
    BY <1>3, <1>5, CallsEndCovered, OtherCalls
       DEF Recovery, IssuePasswordResetToken, RequestSelfReactivation, IssueTenantPersonPasswordResetToken,
           RequestTenantPersonReactivation, CreatePasswordResetToken, ConsumePasswordResetToken,
           CreateOrRefreshReactivationRequest, ReviewReactivationRequest, SetAccountActive
  <1> QED BY <1>1, <1>4, <1>5, AdministratorsLeft

LEMMA RegistersLeaveAdministrators ==
    ASSUME IdentityInv,
           \/ TenantAdministration(Tenants, Members) \/ Leasing(Globals, Persons, Tenants)
           \/ Journeying(Members, Callers)
    PROVE  AdministratorsRest /\ CallsCovered
  <1>1. CASE TenantAdministration(Tenants, Members)
    <2>1. UNCHANGED <<actors, calls>>
      BY <1>1 DEF TenantAdministration, CreateTenant, SetActive, AssignTenantAdmin, RevokeTenantAdmin,
                  grantsOnly, authzVars
    <2>2. UNCHANGED grants \/ \E m \in Members : \E row : grants' = [grants EXCEPT ![TenantAdmin(m)] = row]
      BY <1>1 DEF TenantAdministration, CreateTenant, SetActive, AssignTenantAdmin, RevokeTenantAdmin, authzVars
    <2>3. ASSUME NEW m \in Members, NEW row, grants' = [grants EXCEPT ![TenantAdmin(m)] = row], NEW g \in Globals
          PROVE  grants'[AppAdmin(g)] = grants[AppAdmin(g)]
      <3>1. AppAdmin(g) # TenantAdmin(m) /\ AppAdmin(g) \in GrantKeys
        BY DEF AppAdmin, TenantAdmin, GrantKeys
      <3> QED BY <2>3, <3>1, AuthzTypes
    <2> QED BY <2>1, <2>2, <2>3, CallsEndCovered DEF AdministratorsRest
  <1>2. CASE Leasing(Globals, Persons, Tenants)
    BY <1>2, CallsEndCovered, AdministratorsLeft
       DEF Leasing, Expire, CreateSupportAccessLease, TransitionSupportAccessLease, leasesOnly, authzVars
  <1>3. CASE Journeying(Members, Callers)
    <2>1. UNCHANGED <<actors, grants>>
      BY <1>3 DEF Journeying, CreateJourney, InsertJourney, ExtendJourney, UpdateExtension, CloseJourney,
                  UpdateJourney, journeysOnly, authzVars
    <2>2. ASSUME NEW c \in Callers, NEW j, ExtendJourney(c, j, 1) PROVE CallsCovered
      <3>1. PICK call : call = [NewCall("EXTEND_JOURNEY", j) EXCEPT !.days = journeys[j].extension + 1]
        OBVIOUS
      <3>2. call.op = "EXTEND_JOURNEY"
        BY <3>1 DEF NewCall
      <3> QED BY <2>2, <3>1, <3>2, CallStartCovered DEF ExtendJourney
    <2>3. CallsCovered
      BY <1>3, <2>2, CallsEndCovered, OtherCalls
         DEF Journeying, CreateJourney, InsertJourney, UpdateExtension, CloseJourney, UpdateJourney
    <2> QED BY <2>1, <2>3, AdministratorsLeft
  <1> QED BY <1>1, <1>2, <1>3

\* The lifecycle of people and the making of accounts reach actors and grants
\* of members, and make actors; no administrator is a member.
LEMMA PeopleLeaveAdministrators ==
    ASSUME IdentityInv, Directory(Persons, Tenants)
    PROVE  AdministratorsRest /\ CallsCovered
  <1>0. \A g \in Globals : g \in Actors /\ g \notin Members /\ AppAdmin(g) \in GrantKeys /\ AppAdmin(g)[1] = g
    BY IdentityConstants DEF Actors, AppAdmin, GrantKeys
  <1>1. ASSUME NEW m \in Members, NEW complete, ReactivateTenantMembership(m, complete)
        PROVE  AdministratorsRest /\ UNCHANGED calls
    <2>1. UNCHANGED <<grants, calls>> /\ (UNCHANGED actors \/ actors' = [actors EXCEPT ![m] = TRUE])
      BY <1>1 DEF ReactivateTenantMembership, ReactivateAccount
    <2> QED BY <1>0, <2>1, AuthzTypes DEF AdministratorsRest
  <1>2. ASSUME NEW p, NEW members \in SUBSET Members, DeactivateAccount(p, members) PROVE AdministratorsRest
    BY <1>0, <1>2 DEF DeactivateAccount, AdministratorsRest
  <1>3. ASSUME NEW m \in Members, NEW status, NEW complete, UpdatePerson(m, status, complete)
        PROVE  AdministratorsRest /\ UNCHANGED calls
    <2>1. PICK members : members = {x \in MembersOf(PersonOf(m)) : memberships[x] # None} \cup {m}
      OBVIOUS
    <2>2. members \in SUBSET Members
      BY <2>1 DEF MembersOf
    <2>3. UNCHANGED <<actors, grants>> \/ DeactivateAccount(PersonOf(m), members)
      BY <1>3, <2>1 DEF UpdatePerson, DeactivateOperationalPerson, authzVars
    <2>4. UNCHANGED calls
      BY <1>3 DEF UpdatePerson
    <2> QED BY <1>2, <2>2, <2>3, <2>4, AdministratorsLeft
  <1>4. ASSUME NEW p \in Persons, NEW s \in Tenants, NEW status, NEW missing,
               Create(p, s, status, missing) \/ Update(<<p, s>>, status, missing)
        PROVE  AdministratorsRest /\ UNCHANGED calls
    <2>1. CASE Create(p, s, status, missing)
      BY <2>1, AdministratorsLeft DEF Create, CreatePerson, authzVars
    <2>2. CASE Update(<<p, s>>, status, missing)
      <3>1. PICK m \in Members : m = <<p, s>>
        BY DEF Members
      <3>2. UpdatePerson(m, status, ComputeCompletion(missing))
        BY <2>2, <3>1 DEF Update
      <3> QED BY <1>3, <3>2
    <2> QED BY <1>4, <2>1, <2>2
  <1>5. ASSUME NEW p \in Persons, NEW s \in Tenants, NEW status, CreateMembership(p, s, status)
        PROVE  AdministratorsRest /\ UNCHANGED calls
    <2>1. PICK m \in Members : m = <<p, s>>
      BY DEF Members
    <2>2. \/ ReactivateTenantMembership(m, people[p].complete)
          \/ UNCHANGED <<actors, grants, calls>>
      BY <1>5, <2>1 DEF CreateMembership, authzVars
    <2> QED BY <1>1, <2>2, AdministratorsLeft
  <1>6. ASSUME NEW m \in Members, Reactivate(m) PROVE AdministratorsRest /\ UNCHANGED calls
    BY <1>1, <1>6 DEF Reactivate
  <1>7. ASSUME NEW s, EnsureGlobalPersonMembershipFoundation(s) PROVE AdministratorsRest /\ UNCHANGED calls
    BY <1>7, AdministratorsLeft DEF EnsureGlobalPersonMembershipFoundation, authzVars
  <1>8. \A m \in Persons \X Tenants : m \in Members
    BY DEF Members
  <1>9. AdministratorsRest /\ UNCHANGED calls
    BY <1>4, <1>5, <1>6, <1>7, <1>8 DEF Directory
  <1> QED BY <1>9, CallsEndCovered

LEMMA AccountsLeaveAdministrators ==
    ASSUME IdentityInv, AccountCreation(Members, Actors, Callers)
    PROVE  AdministratorsRest /\ CallsCovered
  <1>0. \A g \in Globals : g \in Actors /\ g \notin Members
    BY IdentityConstants DEF Actors
  <1>1. ASSUME NEW m, CreatePersonAccountTx(m) PROVE \A g \in Globals : actors[g] = TRUE => actors'[g] = TRUE
    <2>1. actors' = [actors EXCEPT ![m] = TRUE]
      BY <1>1 DEF CreatePersonAccountTx, EnsurePersonTenantActor
    <2> QED BY <1>0, <2>1, AuthzTypes
  <1>2. ASSUME NEW x, NEW active, CreateActor(x, active) PROVE \A g \in Globals : actors[g] = TRUE => actors'[g] = TRUE
    <2>1. actors[x] # TRUE /\ actors' = [actors EXCEPT ![x] = active]
      BY <1>2, IdentityConstants DEF CreateActor
    <2> QED BY <1>0, <2>1, AuthzTypes
  <1>3. UNCHANGED grants
    BY DEF AccountCreation, CreatePersonAccount, EnablePersonAuthentication, CreateAccount,
           EnableCreateAccount, CreateAccountTx, CreateActor, EnsureAccountActorFoundation, nothingYet,
           accountCreation, actorsOnly, authzVars
  <1>4. \A g \in Globals : actors[g] = TRUE => actors'[g] = TRUE
    BY <1>1, <1>2 DEF AccountCreation, CreatePersonAccount, EnablePersonAuthentication, CreateAccount,
                      EnableCreateAccount, CreateAccountTx, EnsureAccountActorFoundation, nothingYet, authzVars
  <1>5. CallsCovered
    BY CallsEndCovered, OtherCalls
       DEF AccountCreation, CreatePersonAccount, EnablePersonAuthentication, CreateAccount,
           EnableCreateAccount, CreateAccountTx, CreateActor, EnsureAccountActorFoundation
  <1> QED BY <1>3, <1>4, <1>5 DEF AdministratorsRest

\* The steps that do write administrators: the three saves and provisioning.
SaveStep == \E c \in Callers : SaveActor(c) \/ SaveGrant(c) \/ SaveRevocation(c)

LEMMA QuietOrSave ==
    ASSUME IdentityInv, Next
    PROVE  CallsCovered /\ (AdministratorsRest \/ SaveStep \/ ApplicationAdministration(Globals))
  <1>1. CASE SaveStep
    <2>1. \E c \in Callers : Finish(c)
      BY <1>1 DEF SaveStep, SaveActor, SaveGrant, SaveRevocation
    <2> QED BY <1>1, <2>1, CallsEndCovered
  <1>2. CASE ApplicationAdministration(Globals)
    <2>1. UNCHANGED calls
      BY <1>2 DEF ApplicationAdministration, BootstrapAtStartup, ProvisionApplicationAdmin
    <2> QED BY <1>2, <2>1, CallsEndCovered
  <1>3. CASE ActorAdministration(Actors, Callers) \/ GrantAdministration(GrantKeys, Callers)
    BY <1>1, <1>3, RemovalStarts DEF ActorAdministration, GrantAdministration, SaveStep
  <1> QED BY <1>2, <1>3, PeopleLeaveAdministrators, RegistersLeaveAdministrators, SessionsLeaveAdministrators,
             AccountsLeaveAdministrators DEF Next

\* No step takes the last administrator away but the save of an outdated
\* removal: of a covered one another administrator is left.
LEMMA AdministratorLeft ==
    ASSUME IdentityInv, RemovalsCovered, Next, ApplicationAdministrators # {},
           ~\E c \in outdated : Removing(c) /\ calls'[c] = None
    PROVE  ApplicationAdministrators' # {}
  <1>0. \A g \in Globals : g \in Actors /\ AppAdmin(g) \in GrantKeys
    BY DEF Actors, AppAdmin, GrantKeys
  <1>1. PICK h \in Globals : actors[h] = TRUE /\ Held(AppAdmin(h))
    BY DEF ApplicationAdministrators
  <1>2. ASSUME NEW g \in Globals, actors'[g] = TRUE, grants'[AppAdmin(g)] # None, grants'[AppAdmin(g)].active
        PROVE  ApplicationAdministrators' # {}
    <2>1. Held(AppAdmin(g))'
      BY <1>2 DEF Held, AppAdmin
    <2> QED BY <1>2, <2>1 DEF ApplicationAdministrators
  <1>3. ASSUME NEW g \in Globals, actors[g] = TRUE, Held(AppAdmin(g)),
               actors'[g] = TRUE, grants'[AppAdmin(g)] = grants[AppAdmin(g)]
        PROVE  ApplicationAdministrators' # {}
    BY <1>2, <1>3 DEF Held
  <1>4. CASE AdministratorsRest
    BY <1>1, <1>3, <1>4 DEF AdministratorsRest
  <1>10. ASSUME NEW c \in Callers, Removing(c), Finish(c) PROVE c \notin outdated
    <2>1. calls'[c] = None
      BY <1>10, AccountTypes DEF Finish
    <2> QED BY <1>10, <2>1
  <1>5. ASSUME NEW c \in Callers, SaveActor(c) PROVE ApplicationAdministrators' # {}
    <2>1. PICK active \in BOOLEAN, x \in Actors :
              /\ x = calls[c].on /\ Running(c, IF active THEN "ACTIVATE_ACTOR" ELSE "DEACTIVATE_ACTOR")
              /\ actors' = [actors EXCEPT ![x] = active] /\ UNCHANGED grants
      BY <1>5 DEF SaveActor, actorsOnly, Running, IdentityInv, CallsAimed, Aimed, ActorOps
    <2>2. \A y \in Actors : y # x => actors'[y] = actors[y]
      BY <2>1, AuthzTypes
    <2>3. CASE h # x
      BY <1>0, <1>1, <1>3, <2>1, <2>2, <2>3
    <2>4. CASE h = x /\ active
      <3>1. actors'[h] = TRUE
        BY <1>0, <2>1, <2>4, AuthzTypes
      <3> QED BY <1>1, <1>3, <2>1, <3>1
    <2>5. CASE h = x /\ ~active
      <3>0. c \notin outdated
        BY <1>5, <1>10, <2>1, <2>5 DEF SaveActor, Removing
      <3>1. Covered(x)
        BY <2>1, <2>5, <3>0 DEF Running, RemovalsCovered, RemovalCovered
      <3>2. PICK g \in Globals : g # x /\ actors[g] = TRUE /\ Held(AppAdmin(g))
        BY <1>1, <2>5, <3>1 DEF Covered, ApplicationAdministrators, EnsureApplicationAdminRemains
      <3> QED BY <1>0, <1>3, <2>1, <2>2, <3>2
    <2> QED BY <2>3, <2>4, <2>5
  <1>6. ASSUME NEW c \in Callers, SaveGrant(c) PROVE ApplicationAdministrators' # {}
    <2>1. PICK g \in GrantKeys, row \in Grant :
              /\ row.active /\ UNCHANGED actors
              /\ UNCHANGED grants \/ grants' = [grants EXCEPT ![g] = row]
      <3>1. PICK row \in Grant : row.active /\ row = [active |-> TRUE, suspended |-> FALSE]
        BY DEF Grant
      <3>2. calls[c].on \in GrantKeys
        BY <1>6 DEF SaveGrant, Running, IdentityInv, CallsAimed, Aimed, GrantOps
      <3>3. UNCHANGED actors /\ (UNCHANGED grants \/ grants' = [grants EXCEPT ![calls[c].on] = row])
        BY <1>6, <3>1 DEF SaveGrant, grantsOnly
      <3> QED BY <3>1, <3>2, <3>3
    <2>2. CASE g # AppAdmin(h) \/ UNCHANGED grants
      <3>1. grants'[AppAdmin(h)] = grants[AppAdmin(h)]
        BY <1>0, <2>1, <2>2, AuthzTypes
      <3> QED BY <1>1, <1>3, <2>1, <3>1
    <2>3. CASE g = AppAdmin(h) /\ ~UNCHANGED grants
      <3>1. grants'[AppAdmin(h)] = row /\ row # None
        BY <2>1, <2>3, AuthzTypes, IdentityConstants
      <3> QED BY <1>1, <1>2, <2>1, <3>1
    <2> QED BY <2>2, <2>3
  <1>7. ASSUME NEW c \in Callers, SaveRevocation(c) PROVE ApplicationAdministrators' # {}
    <2>1. PICK g \in GrantKeys : g = calls[c].on
      BY <1>7 DEF SaveRevocation, Running, IdentityInv, CallsAimed, Aimed, GrantOps
    <2>2. UNCHANGED actors /\ \A k \in GrantKeys : k # g => grants'[k] = grants[k]
      BY <1>7, <2>1, AuthzTypes DEF SaveRevocation, grantsOnly
    <2>3. CASE g # AppAdmin(h)
      BY <1>0, <1>1, <1>3, <2>2, <2>3
    <2>4. CASE g = AppAdmin(h)
      <3>0. c \notin outdated
        BY <1>7, <1>10 DEF SaveRevocation, Removing
      <3>1. g[1] = h /\ g[2] = "APPLICATION_ADMIN"
        BY <2>4 DEF AppAdmin
      <3>2. EnsureApplicationAdminRemains(h)
        BY <1>1, <1>7, <2>1, <3>0, <3>1
           DEF SaveRevocation, Running, RemovalsCovered, RemovalCovered, Covered, ApplicationAdministrators
      <3>3. PICK k \in Globals : k # h /\ actors[k] = TRUE /\ Held(AppAdmin(k))
        BY <3>2 DEF EnsureApplicationAdminRemains
      <3>4. AppAdmin(k) # g
        BY <2>4, <3>3 DEF AppAdmin
      <3> QED BY <1>0, <1>3, <2>2, <3>3, <3>4
    <2> QED BY <2>3, <2>4
  <1>8. CASE ApplicationAdministration(Globals)
    <2>1. PICK g \in Globals : EnsureBootstrapActor(g)
      BY <1>8 DEF ApplicationAdministration, BootstrapAtStartup, ProvisionApplicationAdmin
    <2>2. PICK row \in Grant : row.active /\ row = [active |-> TRUE, suspended |-> FALSE]
      BY DEF Grant
    <2>3. actors'[g] = TRUE /\ grants'[AppAdmin(g)] = row /\ row # None
      BY <1>0, <2>1, <2>2, AuthzTypes, IdentityConstants DEF EnsureBootstrapActor
    <2> QED BY <1>2, <2>2, <2>3
  <1> QED BY <1>4, <1>5, <1>6, <1>7, <1>8, QuietOrSave DEF SaveStep

\* ApplicationAdminRemains: whatever calls overlap, the last active application
\* administrator is removed, by revoking the grant or by deactivating the actor,
\* only by a call whose check is older than the last change of administrators.
THEOREM AdministratorRemains == HistorySpec => ApplicationAdminRemains
  <1>1. Init => RemovalsCovered
    BY DEF Init, RemovalsCovered
  <1>2. ASSUME IdentityInv, RemovalsCovered, [Next /\ RecordOutdated]_HistoryVars
        PROVE  RemovalsCovered'
    <2>1. CASE UNCHANGED HistoryVars
      <3>1. UNCHANGED <<actors, grants, calls, outdated>>
        BY <2>1 DEF HistoryVars, identityVars, authzVars
      <3>2. ASSUME NEW c \in Callers \ outdated', calls'[c] # None PROVE RemovalCovered(calls[c])'
        <4>1. PICK call : call = calls[c] /\ call = calls'[c] /\ RemovalCovered(call)
          BY <1>2, <3>1, <3>2 DEF RemovalsCovered
        <4>2. RemovalCovered(call)'
          BY <3>1, <4>1, AdministratorsSame, CoverSame
        <4> QED BY <4>1, <4>2 DEF RemovalCovered
      <3> QED BY <3>2 DEF RemovalsCovered
    <2>2. CASE Next /\ RecordOutdated
      BY <1>2, <2>2, QuietOrSave, CoverKept
    <2> QED BY <1>2, <2>1, <2>2
  <1>3. ASSUME IdentityInv, RemovalsCovered, [Next /\ RecordOutdated]_HistoryVars
        PROVE  [ApplicationAdministrators # {} /\ ApplicationAdministrators' = {}
                   => \E c \in outdated : Removing(c) /\ calls'[c] = None]_HistoryVars
    BY <1>3, AdministratorLeft
  <1>4. [Next /\ RecordOutdated]_HistoryVars => [Next]_identityVars
    BY DEF HistoryVars
  <1>5. HistorySpec => Spec
    BY <1>4, PTL DEF HistorySpec, Spec
  <1>6. HistorySpec => []IdentityInv
    BY <1>5, IdentityInvariant, PTL
  <1> QED BY <1>1, <1>2, <1>3, <1>6, PTL DEF HistorySpec, ApplicationAdminRemains
=============================================================================
