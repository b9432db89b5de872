--------------------------- MODULE Authentication ---------------------------
(***************************************************************************)
(* Accounts, sessions, reset tokens and reactivation requests.             *)
(*                                                                         *)
(* The service reads an account, works on the answer (hashing a password   *)
(* takes a while) and then calls the repository again: a call in flight in *)
(* between.  Each repository write is one transaction.  Passwords and      *)
(* logins are left out; a new password is the end of the account's         *)
(* sessions and tokens.  Operations that begin with                        *)
(* EnsureGlobalPersonMembershipFoundation require Repaired: that repair is *)
(* an action of its own and changes nothing the second time.               *)
(***************************************************************************)
EXTENDS Authorization

\* What login and every request read of the account: accountQuery,
\* mapAccountProjection and hydrateAccountActors.
Usable(a) ==
    /\ accounts[a] # None /\ accounts[a].active /\ ~accounts[a].suspended
    /\ a \in Persons => people[a] # None /\ people[a].operational

ActiveAccount(a) == accounts[a] # None /\ accounts[a].active

\* A session whose token the client has: the login that made it has returned.
Delivered(s) == sessions[s] # None /\ \A c \in Callers : Running(c, "LOGIN") => calls[c].ref # s

\* An identifier no row and no call knows.
Fresh(table, k) == table[k] = None /\ \A c \in Callers : calls[c] # None => calls[c].ref # k

RevokeSessions(a)            == sessions' = [s \in SessionIds |-> IF sessions[s] = a THEN None ELSE sessions[s]]
InvalidatePasswordResetTokens(a) == tokens' = [k \in TokenIds |-> IF tokens[k] = a THEN None ELSE tokens[k]]

sessionsOnly == <<directoryVars, accounts, tokens, requests, authzVars, leases, journeys>>
credentials  == <<directoryVars, accounts, requests, authzVars, leases, journeys>>

-----------------------------------------------------------------------------
(***************************************************************************)
(* Login and sessions.                                                     *)
(***************************************************************************)
Login(c, a) ==
    /\ Usable(a)
    /\ Start(c, NewCall("LOGIN", a))
    /\ UNCHANGED nothingYet

CreateSession(c, s) ==
    /\ Running(c, "LOGIN") /\ calls[c].ref = None
    /\ Fresh(sessions, s)
    /\ sessions' = [sessions EXCEPT ![s] = calls[c].on]
    /\ calls' = [calls EXCEPT ![c].ref = s]
    /\ UNCHANGED sessionsOnly

\* A mutant of the next definition: the account is not read a second time.
LoginWithoutRecheck(c, ok) ==
    /\ Running(c, "LOGIN") /\ calls[c].ref # None
    /\ sessions' = IF ok THEN sessions ELSE [sessions EXCEPT ![calls[c].ref] = None]
    /\ Finish(c)
    /\ UNCHANGED sessionsOnly

\* The account is read again after the session exists; the session is revoked
\* when the account is unusable, or when the update of last_login_at fails.
LoginRecheck(c, ok) ==
    /\ Running(c, "LOGIN") /\ calls[c].ref # None
    /\ sessions' = IF Usable(calls[c].on) /\ ok THEN sessions
                   ELSE [sessions EXCEPT ![calls[c].ref] = None]
    /\ Finish(c)
    /\ UNCHANGED sessionsOnly

\* ResolveSession, where it changes anything.
ResolveSession(s, expired) ==
    /\ Delivered(s)
    /\ ~Usable(sessions[s]) \/ expired
    /\ sessions' = [sessions EXCEPT ![s] = None]
    /\ UNCHANGED <<sessionsOnly, calls>>

Logout(s) ==
    /\ Delivered(s)
    /\ sessions' = [sessions EXCEPT ![s] = None]
    /\ UNCHANGED <<sessionsOnly, calls>>

-----------------------------------------------------------------------------
(***************************************************************************)
(* Passwords and reset tokens.                                             *)
(***************************************************************************)
ChangePassword(c, s) ==
    /\ Delivered(s) /\ Usable(sessions[s])
    /\ Start(c, NewCall("CHANGE_PASSWORD", sessions[s]))
    /\ UNCHANGED nothingYet

UpdatePasswordAndRevokeSessions(c) ==
    /\ Running(c, "CHANGE_PASSWORD")
    /\ RevokeSessions(calls[c].on) /\ InvalidatePasswordResetTokens(calls[c].on)
    /\ Finish(c)
    /\ UNCHANGED credentials

IssuePasswordResetToken(c, a) ==
    /\ ActiveAccount(a)
    /\ Start(c, NewCall("ISSUE_TOKEN", a))
    /\ UNCHANGED nothingYet

\* A mutant of the next definition: earlier tokens stay valid.
KeepEarlierTokens(c, k) ==
    /\ Running(c, "ISSUE_TOKEN") /\ Fresh(tokens, k)
    /\ tokens' = [tokens EXCEPT ![k] = calls[c].on]
    /\ Finish(c)
    /\ UNCHANGED <<credentials, sessions>>

CreatePasswordResetToken(c, k) ==
    /\ Running(c, "ISSUE_TOKEN") /\ Fresh(tokens, k)
    /\ tokens' = [j \in TokenIds |-> IF j = k THEN calls[c].on
                                     ELSE IF tokens[j] = calls[c].on THEN None ELSE tokens[j]]
    /\ Finish(c)
    /\ UNCHANGED <<credentials, sessions>>

ResetPassword(c, k) ==
    /\ tokens[k] # None /\ ActiveAccount(tokens[k])
    /\ Start(c, [NewCall("RESET_PASSWORD", tokens[k]) EXCEPT !.ref = k])
    /\ UNCHANGED nothingYet

\* The token must still be unused, and not have expired meanwhile.
ConsumePasswordResetToken(c, expired) ==
    /\ Running(c, "RESET_PASSWORD")
    /\ IF tokens[calls[c].ref] # None /\ ~expired
       THEN RevokeSessions(calls[c].on) /\ InvalidatePasswordResetTokens(calls[c].on)
       ELSE UNCHANGED <<sessions, tokens>>
    /\ Finish(c)
    /\ UNCHANGED credentials

-----------------------------------------------------------------------------
(***************************************************************************)
(* The state of an account.                                                *)
(***************************************************************************)
EffectiveActive(a) == a \in Persons => people[a].operational

\* A mutant of the next definition: tokens outlive the deactivation.
SetAccountActiveKeepTokens(a, active) ==
    /\ accounts[a] # None
    /\ LET effective == active /\ EffectiveActive(a)
       IN  /\ accounts' = [accounts EXCEPT ![a] = [active |-> effective, suspended |-> ~active]]
           /\ IF effective THEN UNCHANGED sessions ELSE RevokeSessions(a)
    /\ UNCHANGED <<directoryVars, tokens, requests, authzVars, leases, journeys, calls>>

\* Activation clears the suspension but leaves an operationally inactive
\* person's account inactive; deactivation suspends.
SetAccountActive(a, active) ==
    /\ accounts[a] # None
    /\ LET effective == active /\ EffectiveActive(a)
       IN  /\ accounts' = [accounts EXCEPT ![a] = [active |-> effective, suspended |-> ~active]]
           /\ IF effective THEN UNCHANGED <<sessions, tokens>>
              ELSE RevokeSessions(a) /\ InvalidatePasswordResetTokens(a)
    /\ UNCHANGED <<directoryVars, requests, authzVars, leases, journeys, calls>>

\* What a tenant's administrator is told about a person.
FindPersonAuthentication(m) ==
    [membershipActive |-> memberships[m] = "ACTIVE",
     accountExists    |-> accounts[PersonOf(m)] # None,
     suspended        |-> PersonAccountSecuritySuspended(PersonOf(m)),
     enabled          |-> accounts[PersonOf(m)] # None /\ m \in bound]

IssueTenantPersonPasswordResetToken(c, m) ==
    /\ Repaired /\ projections[m] # None
    /\ FindPersonAuthentication(m).membershipActive /\ FindPersonAuthentication(m).enabled
    /\ IssuePasswordResetToken(c, PersonOf(m))

RequestSelfReactivation(c, a) ==
    /\ accounts[a] # None /\ accounts[a].suspended
    /\ Start(c, NewCall("REQUEST_REACTIVATION", a))
    /\ UNCHANGED nothingYet

RequestTenantPersonReactivation(c, m) ==
    /\ Repaired /\ projections[m] # None
    /\ FindPersonAuthentication(m).accountExists /\ FindPersonAuthentication(m).suspended
    /\ Start(c, NewCall("REQUEST_REACTIVATION", PersonOf(m)))
    /\ UNCHANGED nothingYet

CreateOrRefreshReactivationRequest(c) ==
    /\ Running(c, "REQUEST_REACTIVATION")
    /\ LET a == calls[c].on
       IN  requests' = IF ~accounts[a].active /\ accounts[a].suspended
                       THEN requests \cup {a} ELSE requests
    /\ Finish(c)
    /\ UNCHANGED <<directoryVars, accounts, sessions, tokens, authzVars, leases, journeys>>

ReviewReactivationRequest(a, approve) ==
    /\ a \in requests
    /\ approve => accounts[a] # None /\ ~accounts[a].active
    /\ requests' = requests \ {a}
    /\ IF approve
       THEN /\ accounts' = [accounts EXCEPT ![a] =
                                [active |-> EffectiveActive(a), suspended |-> FALSE]]
            /\ RevokeSessions(a)
       ELSE UNCHANGED <<accounts, sessions>>
    /\ UNCHANGED <<directoryVars, tokens, authzVars, leases, journeys, calls>>

-----------------------------------------------------------------------------
(***************************************************************************)
(* Making accounts and binding actors to them.                             *)
(***************************************************************************)
\* A mutant of the next definition: the account is bound, not its actor.
BindAccount(x) == bound' = bound \cup {AccountOf(x)}

\* validateAccountActorBinding and ensureAccountActorBinding: a membership and
\* its actor belong together by identity here, so the binding is just added.
EnsureAccountActorBinding(x) == bound' = bound \cup {x}

\* createAuthenticationAccount: accounts start active, whatever the state of
\* the person.
CreateAuthenticationAccount(a) ==
    accounts' = IF accounts[a] # None THEN accounts
                ELSE [accounts EXCEPT ![a] = [active |-> TRUE, suspended |-> FALSE]]

\* ensurePersonTenantActor: the actor of the membership, made if there is none.
EnsurePersonTenantActor(m) == actors' = [actors EXCEPT ![m] = TRUE]

\* What the transaction refuses: an inactive tenant, an unknown person, and an
\* inactive actor, bound or not.
PersonAccountAllowed(m) ==
    /\ tenants[TenantOf(m)] = TRUE
    /\ projections[m] # None /\ memberships[m] # None
    /\ actors[m] # FALSE

CreatePersonAccountTx(m) ==
    /\ EnsurePersonTenantActor(m)
    /\ CreateAuthenticationAccount(PersonOf(m))
    /\ EnsureAccountActorBinding(m)

accountCreation == <<directoryVars, sessions, tokens, requests, grants, leases, journeys>>

\* An application administrator creates the account of a tenant's person.
CreatePersonAccount(m) ==
    /\ Repaired /\ PersonAccountAllowed(m)
    /\ CreatePersonAccountTx(m)
    /\ UNCHANGED <<accountCreation, calls>>

\* A tenant administrator enables authentication for a person.
EnablePersonAuthentication(c, m) ==
    /\ Repaired /\ projections[m] # None
    /\ FindPersonAuthentication(m).membershipActive /\ ~FindPersonAuthentication(m).enabled
    /\ Start(c, NewCall("ENABLE_AUTHENTICATION", m))
    /\ UNCHANGED nothingYet

EnableCreateAccount(c) ==
    /\ Running(c, "ENABLE_AUTHENTICATION") /\ Repaired
    /\ IF PersonAccountAllowed(calls[c].on) THEN CreatePersonAccountTx(calls[c].on)
       ELSE UNCHANGED <<accounts, actors, bound>>
    /\ Finish(c)
    /\ UNCHANGED accountCreation

\* ActorHasActiveTenantAccess.  The tenant row of a person's first membership
\* shares its identifier with the person, so any tenant may count.
ActorHasActiveTenantAccess(x) ==
    /\ actors[x] = TRUE
    /\ \/ /\ x \in Members
          /\ \E m \in MembersOf(PersonOf(x)) : memberships[m] = "ACTIVE" /\ tenants[TenantOf(m)] = TRUE
       \/ ListActorTenantOptions(x) # {}

\* An account for an existing actor.
CreateAccount(c, x) ==
    /\ ActorHasActiveTenantAccess(x)
    /\ Start(c, NewCall("CREATE_ACCOUNT", x))
    /\ UNCHANGED nothingYet

\* ensureAccountActorFoundation: an application administrator gets a global
\* binding, a person's actor the binding of its tenant, any other none.
FoundationBinding(x) ==
    IF x \in Globals /\ grants[AppAdmin(x)] = None THEN {} ELSE {x}

\* The person's existing account is extended by the actor; otherwise an actor
\* that already has an account is refused.
CreateAccountTx(c) ==
    /\ Running(c, "CREATE_ACCOUNT") /\ Repaired
    /\ LET x == calls[c].on
       IN  IF x \in Globals /\ accounts[x] # None THEN UNCHANGED <<accounts, bound>>
           ELSE /\ CreateAuthenticationAccount(AccountOf(x))
                /\ bound' = bound \cup FoundationBinding(x)
    /\ Finish(c)
    /\ UNCHANGED <<accountCreation, actors>>

\* EnsureAccountActorFoundation at startup, where it changes anything.
EnsureAccountActorFoundation ==
    /\ LET missing == {g \in Globals : accounts[g] # None /\ FoundationBinding(g) # {}} \ bound
       IN  missing # {} /\ bound' = bound \cup missing
    /\ UNCHANGED <<accountCreation, accounts, actors, calls>>

\* The command that makes or repairs an application administrator; `changed'
\* says whether it is given another login or password than the account has.
ProvisionApplicationAdmin(g, changed) ==
    /\ EnsureBootstrapActor(g)
    /\ accounts' = [accounts EXCEPT ![g] = [active |-> TRUE, suspended |-> FALSE]]
    /\ bound' = bound \cup {g}
    /\ IF \/ changed
          \/ accounts[g] # None /\ (~accounts[g].active \/ accounts[g].suspended)
          \/ actors[g] = FALSE
          \/ grants[AppAdmin(g)] # None /\ ~grants[AppAdmin(g)].active
       THEN RevokeSessions(g) /\ InvalidatePasswordResetTokens(g)
       ELSE UNCHANGED <<sessions, tokens>>
    /\ UNCHANGED <<directoryVars, requests, leases, journeys, calls>>
=============================================================================
