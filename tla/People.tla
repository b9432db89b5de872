------------------------------- MODULE People -------------------------------
(***************************************************************************)
(* People and their memberships of tenants.  Each operation is one         *)
(* database transaction.  The service checks before it (required fields,   *)
(* uniqueness of e-mail, RG and cellular) refuse a request and change      *)
(* nothing; uniqueness of the CPF is the identity of a person here.        *)
(*                                                                         *)
(* Deactivating a person reaches into the tables of the authentication and *)
(* authorization packages; reactivating restores the account and the       *)
(* tenant's actor but none of the role grants.                             *)
(***************************************************************************)
EXTENDS Identity

PersonOf(m) == m[1]
TenantOf(m) == m[2]
MembersOf(p) == {m \in Members : PersonOf(m) = p}
Rows(p)      == {m \in MembersOf(p) : projections[m] # None}

\* CanCreateCollaborator: none of the three sections of the profile is missing.
Sections == {"ADDRESS", "BANK", "EMERGENCY"}
ComputeCompletion(missing) == missing = {}

\* What a person that has only legacy rows is taken for.
LegacyOperationalActive(p) ==
    LET codes == {projections[m].status : m \in Rows(p)}
    IN  "ACTIVE" \in codes \/ "INACTIVE" \notin codes

FromLegacy(m) == [operational |-> LegacyOperationalActive(PersonOf(m)),
                  complete    |-> projections[m].complete]

-----------------------------------------------------------------------------
(***************************************************************************)
(* EnsureGlobalPersonMembershipFoundation: people rows written by other    *)
(* programs get a global person and a membership.  Of several rows of one  *)
(* person the latest is copied, here the one of tenant `latest' if any.    *)
(***************************************************************************)
RepairedPerson(p, latest) ==
    IF people[p] # None \/ Rows(p) = {} THEN people[p]
    ELSE FromLegacy(IF <<p, latest>> \in Rows(p) THEN <<p, latest>>
                    ELSE CHOOSE m \in Rows(p) : TRUE)

RepairedMembership(m, latest) ==
    IF memberships[m] # None \/ projections[m] = None THEN memberships[m]
    ELSE IF ~RepairedPerson(PersonOf(m), latest).operational THEN "INACTIVE"
    ELSE projections[m].status

RepairFoundation(latest) ==
    /\ people' = [p \in Persons |-> RepairedPerson(p, latest)]
    /\ memberships' = [m \in Members |-> RepairedMembership(m, latest)]
    /\ projections' = [m \in Members |->
           IF projections[m] = None THEN None
           ELSE [projections[m] EXCEPT !.status = RepairedMembership(m, latest)]]

Repaired == \A m \in Members : projections[m] # None => memberships[m] # None

\* At startup, and inside the authentication operations that need it.
EnsureGlobalPersonMembershipFoundation(latest) ==
    /\ ~Repaired
    /\ RepairFoundation(latest)
    /\ UNCHANGED <<tenants, accountVars, authzVars, leases, journeys, calls>>

-----------------------------------------------------------------------------
\* Whether the CPF belongs to somebody else than the edited row m (None for a
\* new person).  A row without a membership is not yet tied to its person.
UniqueConflicts(p, m) ==
    /\ m = None \/ memberships[m] = None
    /\ people[p] # None \/ Rows(p) \ {m} # {}

\* The repository's transaction: person, tenant row and membership together.
CreatePerson(p, t, status, complete) ==
    /\ people' = [people EXCEPT ![p] =
           [operational |-> status # "INACTIVE", complete |-> complete]]
    /\ projections' = [projections EXCEPT ![<<p, t>>] = [status |-> status, complete |-> complete]]
    /\ memberships' = [memberships EXCEPT ![<<p, t>>] = status]
    /\ UNCHANGED <<tenants, accountVars, authzVars, leases, journeys, calls>>

Create(p, t, status, missing) ==
    /\ ~UniqueConflicts(p, None)
    /\ CreatePerson(p, t, status, ComputeCompletion(missing))

\* A mutant of the next definition: the sessions are left to expire.
DeactivateAccountOnly(p, members) ==
    /\ accounts' = IF accounts[p] = None THEN accounts
                   ELSE [accounts EXCEPT ![p].active = FALSE]
    /\ tokens'   = [k \in TokenIds |-> IF tokens[k] = p THEN None ELSE tokens[k]]
    /\ actors'   = [x \in Actors |->
                       IF x \in members /\ actors[x] # None THEN FALSE ELSE actors[x]]
    /\ grants'   = [g \in GrantKeys |->
                       IF g[1] \in members /\ grants[g] # None /\ grants[g].active
                       THEN [grants[g] EXCEPT !.suspended = TRUE] ELSE grants[g]]
    /\ UNCHANGED <<sessions, requests, bound>>

\* deactivateOperationalPersonTx, the part on the other packages' tables:
\* `members' are the person's memberships.
DeactivateAccount(p, members) ==
    /\ accounts' = IF accounts[p] = None THEN accounts
                   ELSE [accounts EXCEPT ![p].active = FALSE]
    /\ sessions' = [s \in SessionIds |-> IF sessions[s] = p THEN None ELSE sessions[s]]
    /\ tokens'   = [k \in TokenIds |-> IF tokens[k] = p THEN None ELSE tokens[k]]
    /\ actors'   = [x \in Actors |->
                       IF x \in members /\ actors[x] # None THEN FALSE ELSE actors[x]]
    /\ grants'   = [g \in GrantKeys |->
                       IF g[1] \in members /\ grants[g] # None /\ grants[g].active
                       THEN [grants[g] EXCEPT !.suspended = TRUE] ELSE grants[g]]
    /\ UNCHANGED <<requests, bound>>

\* A mutant of the next definition: the tenants' own rows keep their status.
DeactivateMembershipsOnly(p, members, complete) ==
    /\ people' = [people EXCEPT ![p] = [operational |-> FALSE, complete |-> complete]]
    /\ memberships' = [m \in Members |-> IF m \in members THEN "INACTIVE" ELSE memberships[m]]
    /\ UNCHANGED projections
    /\ DeactivateAccount(p, members)

DeactivateOperationalPerson(p, members, complete) ==
    /\ people' = [people EXCEPT ![p] = [operational |-> FALSE, complete |-> complete]]
    /\ memberships' = [m \in Members |-> IF m \in members THEN "INACTIVE" ELSE memberships[m]]
    /\ projections' = [m \in Members |->
           IF m \in members /\ projections[m] # None
           THEN [status |-> "INACTIVE", complete |-> complete] ELSE projections[m]]
    /\ DeactivateAccount(p, members)

\* findOrCreateMembershipForLegacyPerson: the person and the membership status
\* an edit of row m works on; a legacy row gets both in the same transaction.
FindOrCreateMembership(m) ==
    LET person == IF people[PersonOf(m)] = None THEN FromLegacy(m) ELSE people[PersonOf(m)]
    IN  [person |-> person,
         status |-> IF memberships[m] # None THEN memberships[m]
                    ELSE IF ~person.operational THEN "INACTIVE" ELSE projections[m].status]

\* The repository's transaction for an edit through tenant TenantOf(m): the
\* profile, shared with the person's other tenants, and the status.
UpdatePerson(m, status, complete) ==
    LET p       == PersonOf(m)
        found   == FindOrCreateMembership(m)
        members == {x \in MembersOf(p) : memberships[x] # None} \cup {m}
    IN  /\ ~(found.status = "INACTIVE" /\ status = "ACTIVE")
        /\ IF found.status # "INACTIVE" /\ status = "INACTIVE"
           THEN DeactivateOperationalPerson(p, members, complete)
           ELSE /\ people' = [people EXCEPT ![p] = [found.person EXCEPT !.complete = complete]]
                /\ memberships' = [memberships EXCEPT ![m] = status]
                /\ projections' = [x \in Members |->
                       IF x = m THEN [status |-> status, complete |-> complete]
                       ELSE IF x \in members /\ projections[x] # None
                       THEN [projections[x] EXCEPT !.complete = complete]
                       ELSE projections[x]]
                /\ UNCHANGED <<accountVars, authzVars>>
        /\ UNCHANGED <<tenants, leases, journeys, calls>>

Update(m, status, missing) ==
    /\ projections[m] # None
    /\ ~UniqueConflicts(PersonOf(m), m)
    /\ UpdatePerson(m, status, ComputeCompletion(missing))

-----------------------------------------------------------------------------
PersonAccountSecuritySuspended(p) == accounts[p] # None /\ accounts[p].suspended

\* reactivateTenantMembershipTx on the account and the tenant's actor, once the
\* status of the membership is known to be INACTIVE.  A member without a bound
\* actor gets a new one; an actor made for it by hand is then left aside,
\* without roles, or has the new actor's key and the transaction fails.
ReactivateAccount(m) ==
    LET p == PersonOf(m)
    IN  IF accounts[p] = None THEN UNCHANGED <<accounts, actors, bound>>
        ELSE /\ accounts' = [accounts EXCEPT ![p].active = TRUE]
             /\ actors' = [actors EXCEPT ![m] = TRUE]
             /\ bound' = bound \cup {m}

\* A mutant of the next definition: a suspended account is reactivated too.
ReactivateSuspended(m, complete) ==
    /\ people' = [people EXCEPT ![PersonOf(m)].operational = TRUE]
    /\ memberships' = [memberships EXCEPT ![m] = "ACTIVE"]
    /\ projections' = [projections EXCEPT ![m] = [status |-> "ACTIVE", complete |-> complete]]
    /\ ReactivateAccount(m)
    /\ UNCHANGED <<tenants, sessions, tokens, requests, grants, leases, journeys, calls>>

ReactivateTenantMembership(m, complete) ==
    /\ ~PersonAccountSecuritySuspended(PersonOf(m))
    /\ people' = [people EXCEPT ![PersonOf(m)].operational = TRUE]
    /\ memberships' = [memberships EXCEPT ![m] = "ACTIVE"]
    /\ projections' = [projections EXCEPT ![m] = [status |-> "ACTIVE", complete |-> complete]]
    /\ ReactivateAccount(m)
    /\ UNCHANGED <<tenants, sessions, tokens, requests, grants, leases, journeys, calls>>

Reactivate(m) ==
    /\ projections[m] # None /\ memberships[m] = "INACTIVE"
    /\ ReactivateTenantMembership(m, projections[m].complete)

\* A person known from another tenant joins this one.  Joining as ACTIVE
\* reactivates a person who is operationally inactive.
CreateMembership(p, t, status) ==
    /\ people[p] # None
    /\ memberships[<<p, t>>] = None /\ projections[<<p, t>>] = None
    /\ IF ~people[p].operational /\ status = "ACTIVE"
       THEN ReactivateTenantMembership(<<p, t>>, people[p].complete)
       ELSE /\ memberships' = [memberships EXCEPT ![<<p, t>>] = status]
            /\ projections' = [projections EXCEPT ![<<p, t>>] =
                   [status |-> status, complete |-> people[p].complete]]
            /\ UNCHANGED <<tenants, people, accountVars, authzVars, leases, journeys, calls>>

-----------------------------------------------------------------------------
(***************************************************************************)
(* What a tenant sees: its own directory, with the status and completion   *)
(* of the membership and the person where they exist, and the people of    *)
(* other tenants it may add.                                               *)
(***************************************************************************)
List(t) == {m \in Members : TenantOf(m) = t /\ projections[m] # None}

ListedStatus(m) == IF memberships[m] # None THEN memberships[m] ELSE projections[m].status

SearchGlobal(t) == {p \in Persons : people[p] # None /\ memberships[<<p, t>>] = None}
=============================================================================
