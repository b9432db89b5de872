---------------------------- MODULE SupportLeases ----------------------------
(***************************************************************************)
(* Support access leases: an application administrator asks for temporary  *)
(* access to a tenant, one of the tenant's administrators approves it and  *)
(* may end it.  Every operation is one transaction; time is the action     *)
(* Expire.                                                                 *)
(***************************************************************************)
EXTENDS Authorization

leasesOnly == <<directoryVars, accountVars, authzVars, journeys, calls>>

\* effectiveSupportAccessLeaseStatus
EffectiveStatus(l) ==
    IF leases[l].status \in {"PENDING", "APPROVED"} /\ leases[l].expired THEN "EXPIRED"
    ELSE leases[l].status

\* A mutant of the next definition: requests still waiting are overlooked.
ApprovedOnly(x, t) ==
    {l \in LeaseIds : /\ leases[l] # None /\ leases[l].actor = x /\ leases[l].tenant = t
                      /\ EffectiveStatus(l) = "APPROVED"}

OpenLeases(x, t) ==
    {l \in LeaseIds : /\ leases[l] # None /\ leases[l].actor = x /\ leases[l].tenant = t
                      /\ EffectiveStatus(l) \in {"PENDING", "APPROVED"}}

\* Only an application administrator in the global context may ask.
CreateSupportAccessLease(l, a, t) ==
    /\ leases[l] = None
    /\ \E x \in FindAccountActor(a, GlobalScope) : "APPLICATION_ADMIN" \in x.roles
    /\ tenants[t] = TRUE
    /\ OpenLeases(a, t) = {}
    /\ leases' = [leases EXCEPT ![l] =
           [actor |-> a, tenant |-> t, status |-> "PENDING", expired |-> FALSE]]
    /\ UNCHANGED leasesOnly

\* isCanonicalTenantAdministrator
IsCanonicalTenantAdministrator(m) ==
    Effective(TenantAdmin(m)) /\ m \in bound /\ memberships[m] = "ACTIVE"

\* The account p acts in tenant t as one of its administrators.
ActsAsTenantAdministrator(p, t) ==
    \E x \in FindAccountActor(p, t) :
        /\ x.scope = "TENANT" /\ "TENANT_ADMIN" \in x.roles
        /\ IsCanonicalTenantAdministrator(x.actor)

\* What account a sees in scope t: in the global context an application
\* administrator sees the leases of every tenant.
ListSupportAccessLeases(a, t) ==
    {l \in LeaseIds :
        /\ leases[l] # None
        /\ \E x \in FindAccountActor(a, t) :
              \/ x.scope = "APPLICATION" /\ t = GlobalScope /\ "APPLICATION_ADMIN" \in x.roles
              \/ x.scope = "TENANT" /\ "TENANT_ADMIN" \in x.roles /\ leases[l].tenant = t}

\* transitionSupportAccessLease: approval or termination by account p, acting
\* in tenant t.
TransitionSupportAccessLease(l, p, t, approve) ==
    /\ leases[l] # None /\ leases[l].tenant = t
    /\ ActsAsTenantAdministrator(p, t)
    /\ EffectiveStatus(l) = IF approve THEN "PENDING" ELSE "APPROVED"
    /\ approve => /\ tenants[t] = TRUE
                  /\ ActiveLeases(leases[l].actor, t) \ {l} = {}
    /\ leases' = [leases EXCEPT ![l].status = IF approve THEN "APPROVED" ELSE "TERMINATED"]
    /\ UNCHANGED leasesOnly

\* expires_at passes.
Expire(l) ==
    /\ leases[l] # None /\ ~leases[l].expired
    /\ leases' = [leases EXCEPT ![l].expired = TRUE]
    /\ UNCHANGED leasesOnly
=============================================================================
