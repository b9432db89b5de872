------------------------------- MODULE Tenants -------------------------------
(***************************************************************************)
(* Tenants and the assignment of their administrators.  Renaming a tenant  *)
(* changes nothing modelled here.  An assignment is validated and written  *)
(* in one transaction, unlike the grants of the authorization package.     *)
(***************************************************************************)
EXTENDS Authorization

CreateTenant(t, active) ==
    /\ tenants[t] = None
    /\ tenants' = [tenants EXCEPT ![t] = active]
    /\ UNCHANGED <<people, memberships, projections, accountVars, authzVars, leases, journeys, calls>>

SetActive(t, active) ==
    /\ tenants[t] = ~active
    /\ tenants' = [tenants EXCEPT ![t] = active]
    /\ UNCHANGED <<people, memberships, projections, accountVars, authzVars, leases, journeys, calls>>

RequireActive(t) == tenants[t] = TRUE

-----------------------------------------------------------------------------
Administrators(t) == {m \in Members : TenantOf(m) = t /\ Held(TenantAdmin(m))}

\* countActiveTenantAdmins leaves out inactive actors, mapTenant turns the
\* count into the state the console shows.
OperationalStatus(t) ==
    IF tenants[t] # TRUE THEN "INACTIVE"
    ELSE IF \E m \in Administrators(t) : actors[m] = TRUE THEN "ACTIVE_READY"
    ELSE "ACTIVE_NO_ADMIN"

\* A mutant of the next definition: suspended assignments free their slot.
CountEffectiveOnly(t) ==
    {m \in bound \cap Members :
        /\ TenantOf(m) = t
        /\ \/ Held(TenantAdmin(m))
           \/ /\ actors[m] = TRUE /\ memberships[m] # None
              /\ Cardinality({x \in Administrators(t) : Effective(TenantAdmin(x))}) < 2
              /\ ~AdministersElsewhere(m)}

\* ListTenantAdminCandidates: the eligible ones.  An assignment counts for the
\* limit even when it is suspended or its actor is inactive.
ListTenantAdminCandidates(t) ==
    {m \in bound \cap Members :
        /\ TenantOf(m) = t
        /\ \/ Held(TenantAdmin(m))
           \/ /\ actors[m] = TRUE /\ memberships[m] # None
              /\ Cardinality(Administrators(t)) < 2
              /\ ~AdministersElsewhere(m)}

\* What the transaction of an assignment checks.
AssignmentAllowed(m) ==
    /\ tenants[TenantOf(m)] # None
    /\ actors[m] = TRUE
    /\ ValidateDelegatedRoleGrant(TenantAdmin(m)) /\ AdministratorTriggers(TenantAdmin(m))

\* An existing assignment is only made active again; an active one is left as
\* it is.  Neither clears a suspension.
AssignTenantAdmin(m) ==
    /\ AssignmentAllowed(m)
    /\ ~Held(TenantAdmin(m))
    /\ grants' = [grants EXCEPT ![TenantAdmin(m)] =
           IF @ = None THEN [active |-> TRUE, suspended |-> FALSE]
           ELSE [@ EXCEPT !.active = TRUE]]
    /\ UNCHANGED <<grantsOnly, calls>>

RevokeTenantAdmin(m) ==
    /\ Held(TenantAdmin(m))
    /\ grants' = [grants EXCEPT ![TenantAdmin(m)].active = FALSE]
    /\ UNCHANGED <<grantsOnly, calls>>
=============================================================================
