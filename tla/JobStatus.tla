------------------------------ MODULE JobStatus ------------------------------
(***************************************************************************)
(* The durable-job status model of app/jobs/status.py: the lifecycle       *)
(* states, their classes and the adjacency map the store consults before   *)
(* every status write.  Pure: no state of its own.                         *)
(***************************************************************************)

TERMINAL_STATUSES == {"succeeded", "failed", "dead_lettered", "cancelled"}

ENQUEUED_STATUSES == {"pending", "scheduled", "retry_wait"}

ACTIVE_STATUSES == {"claimed", "running", "cancel_requested"}

JobStatuses == TERMINAL_STATUSES \cup ENQUEUED_STATUSES \cup ACTIVE_STATUSES

\* _ALLOWED: the only targets each status may move to.
AllowedTargets(s) ==
    CASE s = "scheduled" -> {"pending", "claimed", "cancel_requested", "cancelled"}
      [] s = "pending"   -> {"claimed", "cancel_requested", "cancelled"}
      [] s = "retry_wait" -> {"pending", "claimed", "cancel_requested", "cancelled"}
      [] s = "claimed" ->
            {"running", "retry_wait", "failed", "dead_lettered",
             "cancel_requested", "cancelled", "pending"}
      [] s = "running" ->
            {"succeeded", "failed", "retry_wait", "dead_lettered",
             "cancel_requested", "cancelled", "pending"}
      [] s = "cancel_requested" ->
            {"cancelled", "running", "succeeded", "failed", "dead_lettered",
             "retry_wait"}
      [] OTHER -> {}

\* can_transition; ensure_transition raises InvalidJobTransition where it is FALSE.
CanTransition(current, target) == target \in AllowedTargets(current)

=============================================================================
