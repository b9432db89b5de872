---------------------------- MODULE Collaborators ----------------------------
(***************************************************************************)
(* Journeys of collaborators.  The service checks, then inserts; the       *)
(* database repeats two of the checks in triggers on the insert.  Closing  *)
(* a journey belongs to the current account (module Settlements); here it  *)
(* is an action of the environment.  Payment terms and the work assignment *)
(* of a journey are left out.                                              *)
(***************************************************************************)
EXTENDS People

journeysOnly == <<directoryVars, accountVars, authzVars, leases>>

\* ExistsOpenJourneyForMembership
OpenJourneys(m) ==
    {j \in JourneyIds : journeys[j] # None /\ journeys[j].member = m /\ journeys[j].open}

\* ListCandidates
ListCandidates(t) ==
    {m \in Members : /\ TenantOf(m) = t /\ memberships[m] = "ACTIVE" /\ projections[m] # None
                     /\ people[PersonOf(m)].complete /\ OpenJourneys(m) = {}}

\* Create up to the insert.
CreateJourney(c, m) ==
    /\ memberships[m] = "ACTIVE" /\ projections[m] # None
    /\ people[PersonOf(m)].complete
    /\ OpenJourneys(m) = {}
    /\ Start(c, NewCall("CREATE_JOURNEY", m))
    /\ UNCHANGED <<journeysOnly, journeys>>

\* A mutant of the next definition: only the service looks for an open journey.
UncheckedInsert(m) == memberships[m] = "ACTIVE"

\* The triggers on the insert of an open journey.
JourneyTriggers(m) == memberships[m] = "ACTIVE" /\ OpenJourneys(m) = {}

InsertJourney(c, j) ==
    /\ Running(c, "CREATE_JOURNEY") /\ journeys[j] = None
    /\ LET m == calls[c].on
       IN  journeys' = IF JourneyTriggers(m)
                       THEN [journeys EXCEPT ![j] = [member |-> m, open |-> TRUE, extension |-> 0]]
                       ELSE journeys
    /\ Finish(c)
    /\ UNCHANGED journeysOnly

\* Update sets the extension, on a closed journey too.
UpdateJourney(j, days) ==
    /\ journeys[j] # None
    /\ journeys' = [journeys EXCEPT ![j].extension = days]
    /\ UNCHANGED <<journeysOnly, calls>>

\* ExtendJourney up to the write: the new total is computed from what was read.
ExtendJourney(c, j, days) ==
    /\ journeys[j] # None /\ journeys[j].open
    /\ journeys[j].extension + days <= MaxExtension
    /\ Start(c, [NewCall("EXTEND_JOURNEY", j) EXCEPT !.days = journeys[j].extension + days])
    /\ UNCHANGED <<journeysOnly, journeys>>

UpdateExtension(c) ==
    /\ Running(c, "EXTEND_JOURNEY")
    /\ LET j == calls[c].on
       IN  journeys' = IF journeys[j].open
                       THEN [journeys EXCEPT ![j].extension = calls[c].days] ELSE journeys
    /\ Finish(c)
    /\ UNCHANGED journeysOnly

CloseJourney(j) ==
    /\ journeys[j] # None /\ journeys[j].open
    /\ journeys' = [journeys EXCEPT ![j].open = FALSE]
    /\ UNCHANGED <<journeysOnly, calls>>
=============================================================================
