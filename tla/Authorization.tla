--------------------------- MODULE Authorization ---------------------------
(***************************************************************************)
(* Actors, role grants and what an account may do in a tenant.             *)
(*                                                                         *)
(* None of the administration operations runs in a transaction: each reads *)
(* and validates first and later saves the whole row it read, so it is a   *)
(* call in flight between the two.  The database repeats the limits on     *)
(* tenant administrators in triggers.  The routes' permission checks are   *)
(* left out: any caller may ask for any operation.                         *)
(***************************************************************************)
EXTENDS People

\* A grant row is held while active; a deactivated person's grants stay held
\* but are suspended and give nothing.
Held(g)      == grants[g] # None /\ grants[g].active
Effective(g) == Held(g) /\ ~grants[g].suspended

AppAdmin(g)    == <<g, "APPLICATION_ADMIN">>
TenantAdmin(m) == <<m, "TENANT_ADMIN">>
Operator(m)    == <<m, "EXPENSE_OPERATOR">>

\* loadDelegatedAuthorization, for the actor's own scope.
RolesOf(x) == {g[2] : g \in {k \in GrantKeys : k[1] = x /\ Effective(k)}}

-----------------------------------------------------------------------------
(***************************************************************************)
(* Resolving the actor of a request.                                       *)
(***************************************************************************)
GlobalScope == "*"

\* No tenant has that identifier.
ASSUME ScopeAssumption == GlobalScope \notin Tenants

\* findActiveSupportAccessLease
ActiveLeases(x, t) ==
    {l \in LeaseIds : /\ leases[l] # None /\ leases[l].actor = x /\ leases[l].tenant = t
                      /\ leases[l].status = "APPROVED" /\ ~leases[l].expired}

\* intrinsicSelfServicePermissions, by the group of permissions.
SelfService(m) ==
    LET own == {j \in JourneyIds : journeys[j] # None /\ journeys[j].member = m}
    IN  {"PROFILE"} \cup (IF own = {} THEN {} ELSE {"JOURNEYS"})
                    \cup (IF \E j \in own : journeys[j].open THEN {"CURRENT_ACCOUNT"} ELSE {})

Unavailable == {}

\* buildTenantBoundActor: the account's actor in the tenant, if the membership
\* is active.  A set with the actor, or nothing.
TenantBoundActor(m) ==
    IF memberships[m] = "ACTIVE"
    THEN {[actor |-> m, scope |-> "TENANT", roles |-> RolesOf(m), self |-> SelfService(m)]}
    ELSE Unavailable

\* buildSupportLeaseActorForAccount
SupportLeaseActor(a, t) ==
    IF /\ a \in Globals /\ a \in bound /\ actors[a] = TRUE
       /\ "APPLICATION_ADMIN" \in RolesOf(a) /\ ActiveLeases(a, t) # {}
    THEN {[actor |-> a, scope |-> "APPLICATION", roles |-> RolesOf(a), self |-> {}]}
    ELSE Unavailable

\* FindAccountActor for the account of a session and the selected scope.
FindAccountActor(a, t) ==
    IF t = GlobalScope
    THEN IF a \in Globals /\ a \in bound /\ actors[a] = TRUE /\ RolesOf(a) # {}
         THEN {[actor |-> a, scope |-> "APPLICATION", roles |-> RolesOf(a), self |-> {}]}
         ELSE Unavailable
    ELSE LET own == IF <<a, t>> \in bound /\ actors[<<a, t>>] = TRUE
                    THEN TenantBoundActor(<<a, t>>) ELSE Unavailable
         IN  IF own # Unavailable THEN own ELSE SupportLeaseActor(a, t)

\* A mutant of the next definition: an expired lease still offers its tenant.
ApprovedLeaseOptions(x) ==
    {t \in Tenants : /\ tenants[t] = TRUE
                     /\ \E l \in LeaseIds : /\ leases[l] # None /\ leases[l].actor = x
                                            /\ leases[l].tenant = t /\ leases[l].status = "APPROVED"}

\* supportLeaseTenantOptions
SupportLeaseTenantOptions(x) ==
    {t \in Tenants : tenants[t] = TRUE /\ ActiveLeases(x, t) # {}}

\* ListActorTenantOptions: by role, for an actor on its own.
ListActorTenantOptions(x) ==
    IF actors[x] # TRUE \/ RolesOf(x) = {} THEN {}
    ELSE IF x \in Globals THEN {GlobalScope} \cup SupportLeaseTenantOptions(x)
    ELSE {t \in {TenantOf(x)} : tenants[t] = TRUE}

\* ListAccountTenantOptions: by identity, for the account of a session.
ListAccountTenantOptions(a) ==
    IF a \in Globals
    THEN IF a \in bound THEN ListActorTenantOptions(a) ELSE {}
    ELSE {t \in Tenants : /\ <<a, t>> \in bound /\ actors[<<a, t>>] = TRUE
                          /\ tenants[t] = TRUE /\ memberships[<<a, t>>] = "ACTIVE"}

\* ListTenantActors: who may be chosen as second person in the tenant.
ListTenantActors(t) == {m \in Members : TenantOf(m) = t /\ actors[m] = TRUE /\ RolesOf(m) # {}}

\* ListTenantRoleActors: whom the tenant's administrators see, inactive included.
ListTenantRoleActors(t) == {m \in bound \cap Members : TenantOf(m) = t}

-----------------------------------------------------------------------------
(***************************************************************************)
(* Rules on grants.                                                        *)
(***************************************************************************)
\* tenantActorBindingsForAdministration and ensureActiveTenantMemberActor
EnsureActiveTenantMemberActor(m) ==
    m \in bound /\ actors[m] = TRUE /\ memberships[m] = "ACTIVE"

OtherAdministrators(m) == {x \in Members \ {m} : TenantOf(x) = TenantOf(m) /\ Held(TenantAdmin(x))}

\* tenantAdministratorGlobalPersonID gives the person of the bound membership.
AdministersElsewhere(m) ==
    \E x \in (bound \cap MembersOf(PersonOf(m))) \ {m} : Held(TenantAdmin(x))

\* validateTenantAdministratorCardinality
TenantAdministratorCardinality(m) ==
    Cardinality(OtherAdministrators(m)) < 2 /\ ~AdministersElsewhere(m)

\* ValidateDelegatedRoleGrant with requireTenantBinding
ValidateDelegatedRoleGrant(g) ==
    g[2] # "APPLICATION_ADMIN" =>
        /\ g[1] \in bound
        /\ g[2] = "TENANT_ADMIN" => TenantAdministratorCardinality(g[1])

\* A mutant of the next definition: the database does not repeat the limits.
WithoutTriggers(g) == TRUE

\* The triggers on authz_actor_role_grants for a row written as active.
AdministratorTriggers(g) ==
    g[2] = "TENANT_ADMIN" =>
        /\ g[1] \in bound /\ memberships[g[1]] # None
        /\ TenantAdministratorCardinality(g[1])

\* A mutant of the next definition: an inactive administrator counts.
CountInactiveAdministrators(x) == \E g \in Globals \ {x} : Held(AppAdmin(g))

\* ensureApplicationAdminRemains: somebody else than x administers.
EnsureApplicationAdminRemains(x) ==
    \E g \in Globals \ {x} : actors[g] = TRUE /\ Held(AppAdmin(g))

EnsureActorDeactivationAllowed(x) ==
    x \in Globals /\ Held(AppAdmin(x)) => EnsureApplicationAdminRemains(x)

EnsureApplicationAdminGrantRemains(g) ==
    g[2] = "APPLICATION_ADMIN" => EnsureApplicationAdminRemains(g[1])

-----------------------------------------------------------------------------
(***************************************************************************)
(* Administration of actors.                                               *)
(***************************************************************************)
actorsOnly == <<directoryVars, accountVars, bound, grants, leases, journeys>>
grantsOnly == <<directoryVars, accountVars, actors, bound, leases, journeys>>
nothingYet == <<directoryVars, accountVars, authzVars, leases, journeys>>

\* An actor made by hand, for a tenant's person or for nobody.
CreateActor(x, active) ==
    /\ actors[x] = None
    /\ x \in Members => projections[x] # None
    /\ actors' = [actors EXCEPT ![x] = active]
    /\ UNCHANGED <<actorsOnly, calls>>

\* SetActorActive and SetTenantActorActive up to the save.
SetActorActive(c, x, active) ==
    /\ actors[x] = ~active
    /\ ~active => EnsureActorDeactivationAllowed(x)
    /\ Start(c, NewCall(IF active THEN "ACTIVATE_ACTOR" ELSE "DEACTIVATE_ACTOR", x))
    /\ UNCHANGED nothingYet

SetTenantActorActive(c, m, active) ==
    /\ m \in bound
    /\ active => memberships[m] = "ACTIVE"
    /\ actors[m] = ~active
    /\ Start(c, NewCall(IF active THEN "ACTIVATE_ACTOR" ELSE "DEACTIVATE_ACTOR", m))
    /\ UNCHANGED nothingYet

SaveActor(c) ==
    \E active \in BOOLEAN :
        /\ Running(c, IF active THEN "ACTIVATE_ACTOR" ELSE "DEACTIVATE_ACTOR")
        /\ actors' = [actors EXCEPT ![calls[c].on] = active]
        /\ Finish(c)
        /\ UNCHANGED actorsOnly

\* EnsureBootstrapActor: the configured actor becomes an active application
\* administrator.  At startup only on an empty actor table or for a known key.
EnsureBootstrapActor(g) ==
    /\ actors' = [actors EXCEPT ![g] = TRUE]
    /\ grants' = [grants EXCEPT ![AppAdmin(g)] = [active |-> TRUE, suspended |-> FALSE]]

BootstrapAtStartup(g) ==
    /\ actors[g] # None \/ \A x \in Actors : actors[x] = None
    /\ EnsureBootstrapActor(g)
    /\ UNCHANGED <<directoryVars, accountVars, bound, leases, journeys, calls>>

-----------------------------------------------------------------------------
(***************************************************************************)
(* Administration of grants.                                               *)
(***************************************************************************)
\* GrantActorRole up to the write.  A grant that is active and not suspended
\* is left alone.
GrantActorRole(c, g) ==
    /\ actors[g[1]] # None
    /\ g[1] \in Members => EnsureActiveTenantMemberActor(g[1])
    /\ ValidateDelegatedRoleGrant(g)
    /\ ~Effective(g)
    /\ Start(c, [NewCall("GRANT_ROLE", g) EXCEPT !.row = grants[g]])
    /\ UNCHANGED nothingYet

\* GrantTenantOperatorRole: only operator roles, for an active member.
GrantTenantOperatorRole(c, m) ==
    /\ EnsureActiveTenantMemberActor(m)
    /\ GrantActorRole(c, Operator(m))

\* A new row fails on the unique index when another call has inserted it.
SaveGrant(c) ==
    /\ Running(c, "GRANT_ROLE")
    /\ LET g  == calls[c].on
           ok == AdministratorTriggers(g) /\ (calls[c].row = None => grants[g] = None)
       IN  grants' = IF ok THEN [grants EXCEPT ![g] = [active |-> TRUE, suspended |-> FALSE]]
                     ELSE grants
    /\ Finish(c)
    /\ UNCHANGED grantsOnly

\* RevokeActorRoleGrant up to the save.
RevokeActorRoleGrant(c, g) ==
    /\ Held(g)
    /\ EnsureApplicationAdminGrantRemains(g)
    /\ Start(c, [NewCall("REVOKE_GRANT", g) EXCEPT !.row = grants[g]])
    /\ UNCHANGED nothingYet

\* RevokeTenantOperatorRoleGrant up to the save.
RevokeTenantOperatorRoleGrant(c, m) ==
    /\ Held(Operator(m))
    /\ Start(c, [NewCall("REVOKE_GRANT", Operator(m)) EXCEPT !.row = grants[Operator(m)]])
    /\ UNCHANGED nothingYet

\* The row read is written back whole, its suspension included.
SaveRevocation(c) ==
    /\ Running(c, "REVOKE_GRANT")
    /\ grants' = [grants EXCEPT ![calls[c].on] = [calls[c].row EXCEPT !.active = FALSE]]
    /\ Finish(c)
    /\ UNCHANGED grantsOnly
=============================================================================
