--------------------------- MODULE ApprovalPolicy ---------------------------
(***************************************************************************)
(* The tenant setting that makes a second person approve the sensitive     *)
(* current-account operations (settlements, journey closure, corrections,  *)
(* receipt backfill).  Each such operation reads the setting once, as its  *)
(* first database access, and refuses a request without a second approver. *)
(***************************************************************************)
VARIABLE secondApproval  \* the setting is stored and true

ApprovalTypeOK == secondApproval \in BOOLEAN

ApprovalInit == secondApproval = FALSE

\* Mutant of RequireSecondApproval: the setting is never consulted.
ApprovalOptional(approved) == TRUE

\* The request may proceed: `approved` says that it names a second approver
\* other than the authorizing actor.
RequireSecondApproval(approved) == secondApproval => approved

\* Upsert of the setting by an administrator.
UpdateSecondPersonApprovalPolicy(required) == secondApproval' = required
=============================================================================
