--------------------------- MODULE IdentitySystem ---------------------------
(***************************************************************************)
(* The identity packages together: people, tenants, authentication,        *)
(* authorization, support leases and collaborator journeys on one          *)
(* database.  Each package's operations are collected in one operator,     *)
(* over the people, tenants and actors it may touch, so that a model can   *)
(* ask for part of them.                                                   *)
(***************************************************************************)
EXTENDS Authentication, Tenants, SupportLeases, Collaborators

VARIABLE outdated    \* history: removals of administrators that checked before
                     \* the administrators last changed

IdentityTypeOK ==
    /\ tenants \in [Tenants -> BOOLEAN \cup {None}]
    /\ people \in [Persons -> Person \cup {None}]
    /\ memberships \in [Members -> Statuses \cup {None}]
    /\ projections \in [Members -> Projection \cup {None}]
    /\ accounts \in [Accounts -> Account \cup {None}]
    /\ sessions \in [SessionIds -> Accounts \cup {None}]
    /\ tokens \in [TokenIds -> Accounts \cup {None}]
    /\ requests \in SUBSET Accounts
    /\ actors \in [Actors -> BOOLEAN \cup {None}]
    /\ bound \in SUBSET Actors
    /\ grants \in [GrantKeys -> Grant \cup {None}]
    /\ leases \in [LeaseIds -> Lease \cup {None}]
    /\ journeys \in [JourneyIds -> Journey \cup {None}]
    /\ calls \in [Callers -> Call \cup {None}]

\* A new database: tenants as seeded, and perhaps people rows of the time
\* before global people existed.
Init ==
    /\ tenants \in [Tenants -> BOOLEAN \cup {None}]
    /\ people = [p \in Persons |-> None]
    /\ memberships = [m \in Members |-> None]
    /\ projections \in [Members -> Projection \cup {None}]
    /\ accounts = [a \in Accounts |-> None]
    /\ sessions = [s \in SessionIds |-> None]
    /\ tokens = [k \in TokenIds |-> None]
    /\ requests = {} /\ bound = {}
    /\ actors = [x \in Actors |-> None]
    /\ grants = [g \in GrantKeys |-> None]
    /\ leases = [l \in LeaseIds |-> None]
    /\ journeys = [j \in JourneyIds |-> None]
    /\ calls = [c \in Callers |-> None]

-----------------------------------------------------------------------------
Directory(P, T) ==
    \/ \E t \in T : EnsureGlobalPersonMembershipFoundation(t)
    \/ \E p \in P, t \in T, status \in Statuses :
          \/ CreateMembership(p, t, status)
          \/ \E missing \in {{}, Sections} :
                Create(p, t, status, missing) \/ Update(<<p, t>>, status, missing)
    \/ \E m \in P \X T : Reactivate(m)

TenantAdministration(T, M) ==
    \/ \E t \in T, active \in BOOLEAN : CreateTenant(t, active) \/ SetActive(t, active)
    \/ \E m \in M : AssignTenantAdmin(m) \/ RevokeTenantAdmin(m)

Sessions(A, C) ==
    \/ \E c \in C, a \in A : Login(c, a)
    \/ \E c \in C, s \in SessionIds : CreateSession(c, s) \/ ChangePassword(c, s)
    \/ \E c \in C, ok \in BOOLEAN : LoginRecheck(c, ok)
    \/ \E s \in SessionIds : Logout(s) \/ \E expired \in BOOLEAN : ResolveSession(s, expired)
    \/ \E c \in C : UpdatePasswordAndRevokeSessions(c)

Recovery(A, M, C) ==
    \/ \E c \in C, a \in A : IssuePasswordResetToken(c, a) \/ RequestSelfReactivation(c, a)
    \/ \E c \in C, m \in M : \/ IssueTenantPersonPasswordResetToken(c, m)
                             \/ RequestTenantPersonReactivation(c, m)
    \/ \E c \in C, k \in TokenIds : CreatePasswordResetToken(c, k) \/ ResetPassword(c, k)
    \/ \E c \in C, expired \in BOOLEAN : ConsumePasswordResetToken(c, expired)
    \/ \E c \in C : CreateOrRefreshReactivationRequest(c)
    \/ \E a \in A, yes \in BOOLEAN : ReviewReactivationRequest(a, yes) \/ SetAccountActive(a, yes)

AccountCreation(M, X, C) ==
    \/ \E m \in M : CreatePersonAccount(m) \/ \E c \in C : EnablePersonAuthentication(c, m)
    \/ \E c \in C, x \in X : CreateAccount(c, x)
    \/ \E c \in C : EnableCreateAccount(c) \/ CreateAccountTx(c)
    \/ \E x \in X, active \in BOOLEAN : CreateActor(x, active)
    \/ EnsureAccountActorFoundation

ApplicationAdministration(G) ==
    \E g \in G : BootstrapAtStartup(g) \/ \E changed \in BOOLEAN : ProvisionApplicationAdmin(g, changed)

ActorAdministration(X, C) ==
    \/ \E c \in C, x \in X, active \in BOOLEAN :
          SetActorActive(c, x, active) \/ (x \in Members /\ SetTenantActorActive(c, x, active))
    \/ \E c \in C : SaveActor(c)

GrantAdministration(K, C) ==
    \/ \E c \in C, g \in K : GrantActorRole(c, g) \/ RevokeActorRoleGrant(c, g)
    \/ \E c \in C, g \in K : /\ g[2] = "EXPENSE_OPERATOR"
                             /\ GrantTenantOperatorRole(c, g[1]) \/ RevokeTenantOperatorRoleGrant(c, g[1])
    \/ \E c \in C : SaveGrant(c) \/ SaveRevocation(c)

Leasing(A, P, T) ==
    \E l \in LeaseIds :
        \/ Expire(l)
        \/ \E a \in A, t \in T : CreateSupportAccessLease(l, a, t)
        \/ \E p \in P, t \in T, approve \in BOOLEAN : TransitionSupportAccessLease(l, p, t, approve)

Journeying(M, C) ==
    \/ \E c \in C, m \in M : CreateJourney(c, m)
    \/ \E c \in C, j \in JourneyIds : InsertJourney(c, j) \/ ExtendJourney(c, j, 1)
    \/ \E c \in C : UpdateExtension(c)
    \/ \E j \in JourneyIds : CloseJourney(j) \/ \E days \in 0..MaxExtension : UpdateJourney(j, days)

Next ==
    \/ Directory(Persons, Tenants)
    \/ TenantAdministration(Tenants, Members)
    \/ Sessions(Accounts, Callers)
    \/ Recovery(Accounts, Members, Callers)
    \/ AccountCreation(Members, Actors, Callers)
    \/ ApplicationAdministration(Globals)
    \/ ActorAdministration(Actors, Callers)
    \/ GrantAdministration(GrantKeys, Callers)
    \/ Leasing(Globals, Persons, Tenants)
    \/ Journeying(Members, Callers)

Spec == Init /\ [][Next]_identityVars

-----------------------------------------------------------------------------
(***************************************************************************)
(* Access.                                                                 *)
(***************************************************************************)
\* No session in a client's hands belongs to an account that may not be used,
\* however the login that made it and the deactivation of the person or the
\* suspension of the account overlapped.  Login reads the account again after
\* it has written the session for this reason.
ShutOut == \A s \in SessionIds : Delivered(s) => Usable(sessions[s])

\* The same as a contract on the history of accounts and sessions: every step
\* of the packages is a step of AccountAccess or changes nothing it speaks of.
Access == INSTANCE AccountAccess WITH
    Account   <- Accounts,
    Session   <- SessionIds,
    NoAccount <- None,
    usable    <- {a \in Accounts : Usable(a)},
    granted   <- [s \in SessionIds |-> IF Delivered(s) THEN sessions[s] ELSE None]

ImplementsAccountAccess == Access!Spec

\* A security suspension outlives every operation on the person, its
\* memberships and its actors: a suspended account is never active.
SuspensionHolds == \A a \in Accounts : accounts[a] # None /\ accounts[a].suspended => ~accounts[a].active

\* A password reset that will succeed does so for an active account, although
\* the account may have been deactivated, and activated again, since the reset
\* read it: deactivation uses up the token the reset holds.
ResetOnlyActive ==
    \A c \in Callers : Running(c, "RESET_PASSWORD") /\ tokens[calls[c].ref] # None
                            => ActiveAccount(calls[c].on)

\* An account has at most one reset token that still works, even when two
\* administrators issue one at the same time.
OneLiveToken == \A j, k \in TokenIds : tokens[j] # None /\ tokens[j] = tokens[k] => j = k

-----------------------------------------------------------------------------
(***************************************************************************)
(* People.                                                                 *)
(***************************************************************************)
\* A membership always has its person and its tenant row with the same status,
\* and once the rows of other programs are repaired every known person is
\* either in a tenant's directory or among those the tenant may add.
DirectoryConsistent ==
    /\ \A m \in Members : memberships[m] # None =>
           /\ people[PersonOf(m)] # None
           /\ projections[m] # None /\ projections[m].status = memberships[m]
    /\ Repaired => \A t \in Tenants, p \in Persons : people[p] # None =>
           (<<p, t>> \in List(t)) # (p \in SearchGlobal(t))

\* The comments on Update and on the foundation repair promise that explicit
\* reactivation is the only way back to ACTIVE for the member of an
\* operationally inactive person.
OnlyReactivationRestores ==
    \A m \in Members : memberships[m] = "ACTIVE" => people[PersonOf(m)].operational

-----------------------------------------------------------------------------
(***************************************************************************)
(* Administrators.                                                         *)
(***************************************************************************)
\* At most two administrators per tenant and one tenant per administrator,
\* suspended assignments included, although grants are validated in one step
\* and written in a later one.
AdministratorCardinality ==
    /\ \A t \in Tenants : Cardinality(Administrators(t)) <= 2
    /\ \A p \in Persons : Cardinality({m \in MembersOf(p) : Held(TenantAdmin(m))}) <= 1

\* Whoever the console offers as a candidate can be assigned.
CandidatesAssignable ==
    \A t \in Tenants : tenants[t] # None =>
        \A m \in ListTenantAdminCandidates(t) : Held(TenantAdmin(m)) \/ AssignmentAllowed(m)

ApplicationAdministrators == {g \in Globals : actors[g] = TRUE /\ Held(AppAdmin(g))}

Removing(c) == Running(c, "DEACTIVATE_ACTOR") \/ Running(c, "REVOKE_GRANT")

\* How the history follows a step.
RecordOutdated ==
    outdated' = {c \in Callers : /\ Removing(c) /\ calls'[c] = calls[c]
                                 /\ c \in outdated \/ ApplicationAdministrators' # ApplicationAdministrators}

HistoryVars == <<identityVars, outdated>>
HistorySpec == Init /\ outdated = {} /\ [][Next /\ RecordOutdated]_HistoryVars

\* The last active application administrator is not removed, by revoking the
\* grant, by deactivating the actor or by any other operation, except by a
\* removal that looked for another administrator before the administrators
\* last changed.  The check and the save are separate statements, so of two
\* overlapping removals the later save does take the last one away.
ApplicationAdminRemains ==
    [][ApplicationAdministrators # {} /\ ApplicationAdministrators' = {}
          => \E c \in outdated : Removing(c) /\ calls'[c] = None]_HistoryVars

\* The documentation and the migration say that a re-grant by an administrator
\* ends the suspension a deactivation left on an assignment.
AssignmentTakesEffect ==
    [][\A m \in Members : AssignTenantAdmin(m) => Effective(TenantAdmin(m))']_identityVars

-----------------------------------------------------------------------------
(***************************************************************************)
(* Leases and journeys.                                                    *)
(***************************************************************************)
\* Every tenant an account is offered after login is one in which it then
\* resolves to an actor.
OptionsUsable ==
    \A a \in Accounts : \A t \in ListAccountTenantOptions(a) : FindAccountActor(a, t) # Unavailable

\* An application administrator never has two leases of a tenant that are
\* waiting or in force at once.
OneOpenLease ==
    \A k, l \in LeaseIds :
        /\ k # l /\ leases[k] # None /\ leases[l] # None
        /\ leases[k].actor = leases[l].actor /\ leases[k].tenant = leases[l].tenant
        => ~({EffectiveStatus(k), EffectiveStatus(l)} \subseteq {"PENDING", "APPROVED"})

\* A member never has two open journeys, although two creations may both have
\* found none.
OneOpenJourney == \A m \in Members : Cardinality(OpenJourneys(m)) <= 1
=============================================================================
