------------------------------ MODULE Identity ------------------------------
(***************************************************************************)
(* The tables that say who may use the system: people and their            *)
(* memberships of tenants, authentication accounts with their sessions and *)
(* reset tokens, authorization actors with their role grants, and the      *)
(* collaborator journeys and support leases that hang on them.  Every      *)
(* package below writes several of these tables, so they are declared here *)
(* and shared.                                                             *)
(*                                                                         *)
(* A global person is identified by its CPF (unique index), a membership   *)
(* by person and tenant (unique index), and a person owns one account.     *)
(* The account's actor for a tenant is identified by the same pair         *)
(* (unique index on account and tenant).  Application administrators are   *)
(* accounts without a person, each with one actor of the same name.        *)
(*                                                                         *)
(* A revoked session and a used reset token are never read again except to *)
(* be refused, so only live ones are kept.                                 *)
(***************************************************************************)
EXTENDS Integers, FiniteSets

CONSTANTS Persons,      \* global people, by CPF
          Globals,      \* application actors and their accounts
          Tenants,
          SessionIds,
          TokenIds,     \* password reset tokens
          LeaseIds,
          JourneyIds,   \* collaborator journeys
          MaxExtension, \* bound on the days added to a journey
          Callers,      \* calls that may be in flight at once
          None          \* no row, or nobody

VARIABLES tenants,      \* tenants: None, or whether active
          people,       \* global_people
          memberships,  \* person_tenant_memberships, by status code
          projections,  \* people: the tenant's own copy of a person
          accounts,     \* auth_user_accounts
          sessions,     \* auth_sessions not revoked: the account
          tokens,       \* auth_password_reset_tokens not used: the account
          requests,     \* accounts with a PENDING reactivation request
          actors,       \* authz_actors: None, or whether active
          bound,        \* actors bound to their account (auth_account_actors)
          grants,       \* authz_actor_role_grants
          leases,       \* tenant_support_access_leases
          journeys,     \* collaborator_journeys
          calls         \* the calls in flight

Accounts == Persons \cup Globals
Members  == Persons \X Tenants
Actors   == Globals \cup Members

AccountOf(x) == IF x \in Members THEN x[1] ELSE x

Statuses == {"ACTIVE", "INACTIVE", "DISCONTINUED"}

Person     == [operational : BOOLEAN, complete : BOOLEAN]
Projection == [status : Statuses, complete : BOOLEAN]
Account    == [active : BOOLEAN, suspended : BOOLEAN]   \* security_suspended

\* Role grants: an application role belongs to an application actor, a tenant
\* role to the actor of a member, in that member's tenant.  The code would
\* also give an application role to an actor that carries a person's id and is
\* bound to no account; here such an actor is one of Globals, without account.
AdminKeys == Members \X {"TENANT_ADMIN"}
GrantKeys == (Globals \X {"APPLICATION_ADMIN"})
             \cup AdminKeys \cup (Members \X {"EXPENSE_OPERATOR"})
Grant     == [active : BOOLEAN, suspended : BOOLEAN]   \* lifecycle_suspended

Lease == [actor : Globals, tenant : Tenants,
          status : {"PENDING", "APPROVED", "TERMINATED"}, expired : BOOLEAN]

Journey == [member : Members, open : BOOLEAN, extension : 0..MaxExtension]

CallOps == {"LOGIN", "CHANGE_PASSWORD", "RESET_PASSWORD", "ISSUE_TOKEN",
            "REQUEST_REACTIVATION", "ENABLE_AUTHENTICATION", "CREATE_ACCOUNT",
            "GRANT_ROLE", "REVOKE_GRANT", "ACTIVATE_ACTOR", "DEACTIVATE_ACTOR",
            "CREATE_JOURNEY", "EXTEND_JOURNEY"}

\* A call in flight: what it is about (an account, an actor, a grant, a member
\* or a journey) and what an earlier step of it has read or created.
Call == [op   : CallOps,
         on   : Accounts \cup Actors \cup GrantKeys \cup JourneyIds,
         ref  : SessionIds \cup TokenIds \cup {None},
         row  : Grant \cup {None},
         days : 0..MaxExtension]

ASSUME IdentityConstants ==
    /\ Globals \cap (Persons \cup Members) = {}
    /\ None \notin Person \cup Projection \cup Account \cup Grant \cup Lease
                   \cup Journey \cup Call \cup Accounts \cup BOOLEAN \cup Statuses
    /\ None \notin SessionIds \cup TokenIds
    /\ MaxExtension \in Nat

NewCall(op, on) == [op |-> op, on |-> on, ref |-> None, row |-> None, days |-> 0]

Start(c, call)   == calls[c] = None /\ calls' = [calls EXCEPT ![c] = call]
Running(c, op)   == calls[c] # None /\ calls[c].op = op
Finish(c)        == calls' = [calls EXCEPT ![c] = None]

directoryVars == <<tenants, people, memberships, projections>>
accountVars   == <<accounts, sessions, tokens, requests>>
authzVars     == <<actors, bound, grants>>
identityVars  == <<directoryVars, accountVars, authzVars, leases, journeys, calls>>
=============================================================================
