------------------------- MODULE InterviewContract -------------------------
(***************************************************************************)
(* What the interview service promises of a session, every operation one   *)
(* atomic step: the status follows TRANSITIONS and a terminal one is       *)
(* final; the grounding snapshot is fixed by the first begin; a question   *)
(* is answered at most once and evaluated at most once, while the session  *)
(* is questioning; a directive, once recorded, stays; a completed          *)
(* interview leaves at most one feedback row, and it aggregates every      *)
(* evaluation; a hint adds one.                                            *)
(***************************************************************************)
EXTENDS InterviewStates, Integers, Sequences

CONSTANTS Snapshot, None, QuestionId

VARIABLES status, context, asked, answered, evaluated, directives, hints, feedback

vars == <<status, context, asked, answered, evaluated, directives, hints, feedback>>

Init ==
  /\ status = "created"
  /\ context = None
  /\ asked = {} /\ answered = {} /\ evaluated = {} /\ directives = {}
  /\ hints = [q \in QuestionId |-> 0]
  /\ feedback = << >>

Begin ==
  /\ BeginIsLegal(status)
  /\ status' = "questioning"
  /\ IF context = None THEN context' \in Snapshot ELSE UNCHANGED context
  /\ UNCHANGED <<asked, answered, evaluated, directives, hints, feedback>>

Move(target) ==
  /\ IsLegal(status, target)
  /\ status' = target
  /\ UNCHANGED <<context, asked, answered, evaluated, directives, hints, feedback>>

Stop ==
  /\ IsLegal(status, "completed")
  /\ status' = "completed"
  /\ feedback' = IF evaluated = {} THEN feedback ELSE Append(feedback, evaluated)
  /\ UNCHANGED <<context, asked, answered, evaluated, directives, hints>>

Ask(q) ==
  /\ status \in Questioning
  /\ \A earlier \in asked : earlier < q
  /\ asked' = asked \cup {q}
  /\ UNCHANGED <<status, context, answered, evaluated, directives, hints, feedback>>

Answer(q) ==
  /\ status \in Questioning
  /\ q \in asked \ answered
  /\ answered' = answered \cup {q}
  /\ UNCHANGED <<status, context, asked, evaluated, directives, hints, feedback>>

Evaluate(q) ==
  /\ status \in Questioning
  /\ q \in answered \ evaluated
  /\ evaluated' = evaluated \cup {q}
  /\ directives' \in {directives, directives \cup {q}}
  /\ UNCHANGED <<status, context, asked, answered, hints, feedback>>

Hint(q) ==
  /\ status \in Questioning
  /\ q \in asked
  /\ hints' = [hints EXCEPT ![q] = @ + 1]
  /\ UNCHANGED <<status, context, asked, answered, evaluated, directives, feedback>>

Next ==
  \/ Begin
  \/ \E target \in {"paused", "questioning", "cancelled"} : Move(target)
  \/ Stop
  \/ \E q \in QuestionId : Ask(q) \/ Answer(q) \/ Evaluate(q) \/ Hint(q)

Spec == Init /\ [][Next]_vars
=============================================================================
