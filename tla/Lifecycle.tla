----------------------------- MODULE Lifecycle ------------------------------
(***************************************************************************)
(* The lifecycle an agent run goes through, shared by the two runtimes:    *)
(* LoyalRuntime.transition() looks its moves up in the table of            *)
(* lucy_edge/agent/runtime.py.                                             *)
(***************************************************************************)

Transitions(s) ==
    CASE s = "CREATED"          -> {"PLANNING", "ABORTED"}
      [] s = "PLANNING"         -> {"RUNNING", "FAILED", "ABORTED"}
      [] s = "RUNNING"          -> {"WAITING_APPROVAL", "VERIFYING", "COMPLETED",
                                    "FAILED", "TIMED_OUT", "ABORTED"}
      [] s = "WAITING_APPROVAL" -> {"RUNNING", "DENIED", "ABORTED", "TIMED_OUT"}
      [] s = "VERIFYING"        -> {"RUNNING", "COMPLETED", "FAILED", "ABORTED",
                                    "TIMED_OUT"}
      [] OTHER                  -> {}

Terminal == {"COMPLETED", "FAILED", "DENIED", "TIMED_OUT", "ABORTED"}

States == Terminal \cup {"CREATED", "PLANNING", "RUNNING", "WAITING_APPROVAL",
                         "VERIFYING"}

(* What the permission policy may answer. *)
Outcomes == {"ALLOW", "ASK", "DENY"}

(* The actions of a plan step; "other" stands for any the executor does not *)
(* know.                                                                    *)
ToolActions == {"execute", "retrieve_memory", "record_evidence"}

Actions == ToolActions \cup {"verify", "stop", "other"}
=============================================================================
