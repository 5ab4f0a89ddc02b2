-------------------------- MODULE InterviewStates --------------------------
(***************************************************************************)
(* The status machine of an interview_session row (interview/state.py).    *)
(* Statuses are the values of InterviewSessionStatus.                      *)
(***************************************************************************)

Statuses == {"created", "planning", "questioning", "paused", "interrupted",
             "completed", "cancelled", "error"}

TRANSITIONS ==
  [s \in Statuses |->
     CASE s = "created"     -> {"planning", "cancelled"}
       [] s = "planning"    -> {"questioning", "cancelled", "error"}
       [] s = "questioning" -> {"paused", "interrupted", "completed",
                                "cancelled", "error"}
       [] s = "paused"      -> {"questioning", "cancelled"}
       [] s = "interrupted" -> {"questioning", "paused", "cancelled", "error"}
       [] s = "error"       -> {"cancelled"}
       [] s \in {"completed", "cancelled"} -> {}]

\* StateTransition.is_legal; transition() raises unless it holds.
IsLegal(current, target) == target \in TRANSITIONS[current]

\* begin() first moves a created session to planning, then to questioning.
BeginIsLegal(current) ==
  IF current = "created"
    THEN IsLegal("created", "planning") /\ IsLegal("planning", "questioning")
    ELSE IsLegal(current, "questioning")

\* The statuses _require_questioning accepts.
Questioning == {"questioning", "interrupted"}

Terminal == {"completed", "cancelled"}
=============================================================================
