---------------------------- MODULE TicketStatus ----------------------------
(***************************************************************************)
(* The status of a match ticket and of a match session, and the table of   *)
(* the changes nMatchTicketStatusEx allows.  CMatchTicket::ChangeStatus,   *)
(* CMatchTicket::ChangeStatusIfCurrent and CMatchSession::ChangeStatus all *)
(* consult it before they write; only ForceSetStatus bypasses it.          *)
(***************************************************************************)

NextStatuses ==
  [None                |-> {"QUEUED", "CANCELLED", "FAILED"},
   QUEUED              |-> {"SEARCHING", "CANCELLED", "FAILED"},
   SEARCHING           |-> {"REQUIRES_ACCEPTANCE", "PLACING", "FAILED"},
   REQUIRES_ACCEPTANCE |-> {"PLACING", "TIMED_OUT", "FAILED"},
   PLACING             |-> {"COMPLETED", "TIMED_OUT", "FAILED"},
   COMPLETED           |-> {},
   FAILED              |-> {},
   CANCELLED           |-> {},
   TIMED_OUT           |-> {}]

Statuses == {"None", "QUEUED", "SEARCHING", "REQUIRES_ACCEPTANCE", "PLACING",
             "COMPLETED", "FAILED", "CANCELLED", "TIMED_OUT"}

CanChangeStatus(curr, next) == next \in NextStatuses[curr]

\* A status the table never leaves.
FinalStatuses == {"COMPLETED", "FAILED", "CANCELLED", "TIMED_OUT"}

=============================================================================
