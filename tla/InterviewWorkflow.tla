--------------------------- MODULE InterviewWorkflow ---------------------------
(***************************************************************************)
(* The LangGraph workflow of one InterviewService (interview/workflow.py),  *)
(* the model calls of its nodes (interview/generation.py and                *)
(* ai/langchain/structured.py) and what the service does around a run.     *)
(*                                                                         *)
(* A run starts from its thread's last checkpoint overwritten by its input, *)
(* and saves its values after each node.  Questions and reports use the    *)
(* thread graph_thread_id, answers and hints the thread s<id>; a run on one *)
(* thread may start before another has ended, or after it was cancelled    *)
(* half way.  Whatever a node does not write is therefore an earlier run's. *)
(* A value is modelled by the run it belongs to: 0 when there is none, or   *)
(* when it was made from another run's values.                             *)
(***************************************************************************)
EXTENDS InferenceRouter

CONSTANTS
  MaxAttempts,  \* generate_structured's max_attempts
  Tries,        \* evaluate_answer's tries of the whole graph
  MaxRuns       \* bound: operations of one service

ASSUME WorkflowAssumption ==
  MaxAttempts \in Nat \ {0} /\ Tries \in Nat \ {0} /\ MaxRuns \in Nat \ {0}

VARIABLES
  mode,    \* a service of one request ("text") or of one socket ("voice")
  started, \* operations started so far
  run,     \* the operation each slot works on
  thread   \* the last checkpoint of each thread

vars == <<providers, call, mode, started, run, thread>>

Lane == {"question", "question_stream", "answer", "hint", "report"}
LanesOf == [text |-> {"question", "answer", "hint", "report"},
            voice |-> {"question_stream", "answer"}]
Thread == {"graph_thread_id", "s_id"}
ThreadOf(lane) == IF lane \in {"answer", "hint"} THEN "s_id" ELSE "graph_thread_id"

\* The node a lane starts with, after load_session.
RouteAction(lane) ==
  CASE lane = "hint" -> "generate_hint"
    [] lane = "report" -> "generate_report"
    [] OTHER -> "retrieve_context"

RouteAfterRetrieval(lane) ==
  IF lane = "answer" THEN "evaluate_answer" ELSE "generate_question"

\* The values the model follows, each named for the node that writes it.
Node == {"retrieve_context", "generate_question", "evaluate_answer",
         "interviewer_reasoning", "extract_evidence", "update_candidate_state",
         "determine_next_action", "generate_hint", "generate_report"}

\* Mutant: reasoning is no longer awaited between evaluation and routing.
Edge_WithoutReasoning(node) ==
  CASE node = "evaluate_answer" -> "extract_evidence"
    [] node = "extract_evidence" -> "update_candidate_state"
    [] node = "update_candidate_state" -> "determine_next_action"
    [] OTHER -> "END"

\* No decision is "finish", so determine_next_action never leads to a report.
Edge(node) ==
  CASE node = "evaluate_answer" -> "interviewer_reasoning"
    [] node = "interviewer_reasoning" -> "extract_evidence"
    [] node = "extract_evidence" -> "update_candidate_state"
    [] node = "update_candidate_state" -> "determine_next_action"
    [] OTHER -> "END"

\* The values of other nodes that a node reads.
Reads(node) ==
  CASE node \in {"interviewer_reasoning", "extract_evidence",
                 "update_candidate_state"} -> {"evaluate_answer"}
    [] node = "determine_next_action" -> {"evaluate_answer", "interviewer_reasoning"}
    [] OTHER -> {}

\* The values the service takes from a finished run and stores.
Returns(lane) ==
  CASE lane \in {"question", "question_stream"} -> {"generate_question"}
    [] lane = "answer" -> {"evaluate_answer", "interviewer_reasoning", "determine_next_action"}
    [] lane = "hint" -> {"generate_hint"}
    [] lane = "report" -> {"generate_report"}

Structured == {"evaluate_answer", "interviewer_reasoning", "generate_hint"}
Streaming == {"generate_question"}
Plain == {"extract_evidence", "update_candidate_state", "determine_next_action"}

TaskOf(node) ==
  CASE node = "evaluate_answer" -> "deep_evaluation"
    [] node = "interviewer_reasoning" -> "complex_reasoning"
    [] node = "generate_report" -> "final_synthesis"
    [] OTHER -> "interview_content_generation"

NoValues == [n \in Node |-> 0]
NoRun == [lane |-> "question", id |-> 0, node |-> "idle", attempt |-> 0,
          try |-> 0, regenerated |-> FALSE, calls |-> 0, values |-> NoValues,
          error |-> "none"]

At(r, node) == run[r].node = node
Become(r, x) == run' = [run EXCEPT ![r] = x]
Save(r, values) == thread' = [thread EXCEPT ![ThreadOf(run[r].lane)] = values]

-----------------------------------------------------------------------------
Init ==
  /\ RouterInit
  /\ mode \in {"text", "voice"}
  /\ started = 0
  /\ run = [r \in Run |-> NoRun]
  /\ thread = [t \in Thread |-> NoValues]

\* x enters a node: a node that calls the model makes its first attempt.
Enter(r, x, node) ==
  IF node \in Structured \cup Streaming \cup {"generate_report"}
    THEN /\ Become(r, [x EXCEPT !.node = node, !.attempt = 1, !.calls = @ + 1])
         /\ Set(r, Ask(TaskOf(node), node \in Streaming))
    ELSE /\ Become(r, [x EXCEPT !.node = node, !.attempt = 0])
         /\ Set(r, NoCall)

\* ainvoke: the checkpoint is loaded, load_session routes by the action.
Invoke(r, x) ==
  Enter(r, [x EXCEPT !.values = thread[ThreadOf(x.lane)]], RouteAction(x.lane))

Start(r) ==
  /\ At(r, "idle")
  /\ started < (IF mode = "text" THEN 1 ELSE MaxRuns)
  /\ started' = started + 1
  /\ \E lane \in LanesOf[mode] :
       Invoke(r, [NoRun EXCEPT !.lane = lane, !.id = started + 1, !.try = 1])
  /\ UNCHANGED <<providers, mode, thread>>

\* Mutant: the failed call is not given up.
Fail_KeepsCall(r, error) ==
  /\ Become(r, [run[r] EXCEPT !.node = "failed", !.error = error, !.attempt = 0,
                             !.values = NoValues])
  /\ UNCHANGED <<call, thread>>

\* An operation that raises.
Fail(r, error) ==
  /\ Become(r, [run[r] EXCEPT !.node = "failed", !.error = error, !.attempt = 0,
                             !.values = NoValues])
  /\ Set(r, NoCall)
  /\ UNCHANGED thread

\* What a node has made: its own run's when all it read was.
Made(r, node) ==
  IF \A n \in Reads(node) : run[r].values[n] = run[r].id THEN run[r].id ELSE 0

\* The node's values are saved, and the run goes on or ends.
Finish(r) ==
  LET x == run[r]
      values == [x.values EXCEPT ![x.node] = Made(r, x.node)] IN
  /\ Save(r, values)
  /\ IF Edge(x.node) = "END"
       THEN /\ Become(r, [x EXCEPT !.node = "returned", !.attempt = 0, !.values = values])
            /\ Set(r, NoCall)
       ELSE Enter(r, [x EXCEPT !.values = values], Edge(x.node))

\* RetrievalService.search.  The leg whose call raised an AIError is left out, a
\* rerank that raised one leaves the fused order; nothing else is caught, and the
\* first vector of an empty list is an IndexError.
Search(embedded, vectorHits, textHits, reranked) ==
  CASE ~({embedded, reranked} \subseteq {"ok"} \cup AIErrors) -> "raised"
    [] (embedded = "ok" /\ vectorHits) \/ textHits -> "found"
    [] OTHER -> "none"

\* Nothing to search for, or a search.
Searches ==
  {"none"} \cup {Search(e, v, t, k) : e \in EmbedOutcomes, v, t \in BOOLEAN,
                                     k \in RerankOutcomes}

Retrieve(r) ==
  /\ At(r, "retrieve_context")
  /\ \E s \in Searches :
       LET found  == IF s = "found" THEN run[r].id ELSE 0
           values == [run[r].values EXCEPT !["retrieve_context"] = found] IN
       IF s = "raised"
         THEN Fail(r, "retrieval")
         ELSE /\ Save(r, values)
              /\ Enter(r, [run[r] EXCEPT !.values = values], RouteAfterRetrieval(run[r].lane))
  /\ UNCHANGED <<providers, mode, started>>

PlainNode(r) ==
  /\ run[r].node \in Plain
  /\ Finish(r)
  /\ UNCHANGED <<providers, mode, started>>

\* generate_structured has given up: evaluate_answer tries the graph again.
StructuredFails(r) ==
  IF run[r].lane = "answer" /\ run[r].try < Tries
    THEN /\ Invoke(r, [run[r] EXCEPT !.try = @ + 1])
         /\ UNCHANGED thread
    ELSE Fail(r, "structured_output")

\* Mutant: the attempts are counted from the last failure of the schema.
Again_Uncounted(r) ==
  /\ Become(r, [run[r] EXCEPT !.calls = @ + 1])
  /\ Set(r, Ask(TaskOf(run[r].node), FALSE))
  /\ UNCHANGED thread

\* The validation errors are sent back with the same prompt.
Again(r) ==
  /\ Become(r, [run[r] EXCEPT !.attempt = @ + 1, !.calls = @ + 1])
  /\ Set(r, Ask(TaskOf(run[r].node), FALSE))
  /\ UNCHANGED thread

\* A structured node has its answer: any failure is a StructuredOutputError.
StructuredNode(r, c) ==
  /\ run[r].node \in Structured
  /\ \/ c.step = "failed" /\ StructuredFails(r)
     \/ c.step = "answered" /\ Finish(r)
     \/ /\ c.step = "answered"
        /\ IF run[r].attempt < MaxAttempts THEN Again(r) ELSE StructuredFails(r)

\* parse_question_output found no question in the text.
NoQuestion(r) == Fail(r, "validation_failed")

\* The question names an entity nobody told the model of: one more run, with a
\* note, whose question is taken whatever it says.
Regenerate(r) ==
  LET values == [run[r].values EXCEPT !["generate_question"] = run[r].id] IN
  /\ run[r].lane = "question" /\ ~run[r].regenerated
  /\ Save(r, values)
  /\ Enter(r, [run[r] EXCEPT !.regenerated = TRUE, !.values = values], "retrieve_context")

\* A difficulty or type outside the enums: _persist_question raises.
UnknownLabel(r) == Fail(r, "value_error")

QuestionNode(r, c) ==
  /\ run[r].node \in Streaming
  /\ \/ c.step = "failed" /\ Fail(r, c.error)
     \/ c.step = "answered" /\ (Finish(r) \/ NoQuestion(r) \/ Regenerate(r) \/ UnknownLabel(r))

ReportNode(r, c) ==
  /\ At(r, "generate_report")
  /\ \/ c.step = "failed" /\ Fail(r, c.error)
     \/ c.step = "answered" /\ Finish(r)

\* The router goes on, or returns to the node that asked; nothing is awaited
\* between the answer and what the node makes of it.
ModelCall(r) ==
  /\ \E c \in Answers(call[r]) :
       \/ /\ c.step \notin Ended
          /\ Set(r, c)
          /\ UNCHANGED <<run, thread>>
       \/ c.step \in Ended /\ (StructuredNode(r, c) \/ QuestionNode(r, c) \/ ReportNode(r, c))
  /\ UNCHANGED <<providers, mode, started>>

\* No provider: the call has failed before it was sent.
Unsent(r) ==
  /\ call[r].step = "failed"
  /\ StructuredNode(r, call[r]) \/ QuestionNode(r, call[r]) \/ ReportNode(r, call[r])
  /\ UNCHANGED <<providers, mode, started>>

\* The client leaves, or the engine cancels the task: what is saved stays.
Cancel(r) ==
  /\ run[r].node \notin {"idle", "returned", "failed"}
  /\ Become(r, NoRun)
  /\ Set(r, NoCall)
  /\ UNCHANGED <<providers, mode, started, thread>>

\* The service has stored the result, or reported the error.
Done(r) ==
  /\ run[r].node \in {"returned", "failed"}
  /\ Become(r, NoRun)
  /\ UNCHANGED <<providers, call, mode, started, thread>>

GraphStep(r) ==
  \/ Retrieve(r)
  \/ PlainNode(r)
  \/ ModelCall(r)
  \/ Unsent(r)

Next == \E r \in Run : \/ Start(r)
                       \/ GraphStep(r)
                       \/ Cancel(r)
                       \/ Done(r)

Spec == Init /\ [][Next]_vars
\* httpx ends every exchange by its timeout and the event loop runs what is ready.
FairSpec == Spec /\ \A r \in Run : WF_vars(GraphStep(r))

-----------------------------------------------------------------------------
(* Types.  Model calls and runs are in step.                               *)
CallType == [task : TextTask \cup {"none"}, stream : BOOLEAN,
             step : {"idle", "asking", "streaming", "failed"},
             at : Nat, deltas : 0 .. MaxDeltas, decision : Nat,
             error : AIErrors \cup {"none"}]
Values == [Node -> 0 .. MaxRuns]
RunType == [lane : Lane, id : 0 .. MaxRuns,
            node : Node \cup {"idle", "returned", "failed"},
            attempt : 0 .. MaxAttempts, try : 0 .. Tries, regenerated : BOOLEAN,
            calls : Nat, values : Values,
            error : AIErrors \cup {"none", "structured_output", "retrieval",
                                 "validation_failed", "value_error"}]

\* Every variable has its type, and a slot has a model call exactly while its
\* run stands at a node that awaits one.
TypeOK ==
  /\ providers \subseteq {"deepseek"}
  /\ mode \in {"text", "voice"}
  /\ started \in 0 .. MaxRuns
  /\ call \in [Run -> CallType]
  /\ run \in [Run -> RunType]
  /\ thread \in [Thread -> Values]
  /\ \A r \in Run : call[r].step # "idle" <=>
       run[r].node \in Structured \cup Streaming \cup {"generate_report"}

\* What a finished run hands to the service was made by that run, from values of
\* that run: an evaluation, a directive or a question is never that of an
\* earlier operation left in the thread's checkpoint, although runs are
\* cancelled half way, tried again, and overlap on one thread (workflow.py:315).
FreshOutput ==
  \A r \in Run : At(r, "returned") =>
    \A n \in Returns(run[r].lane) : run[r].values[n] = run[r].id

\* One operation asks the models a bounded number of times, however its two
\* nested retries (structured.py:71 within service.py:764) and the second
\* question (service.py:447) combine.
CallsAreBounded ==
  \A r \in Run : run[r].calls <=
    CASE run[r].lane = "question" -> 2
      [] run[r].lane = "answer" -> Tries * (2 * MaxAttempts)
      [] run[r].lane = "hint" -> MaxAttempts
      [] OTHER -> 1

\* The evaluation of a stored answer is given up for a model's failure only
\* after the whole graph was tried again (service.py:758).
SurfacesAfterRetry ==
  \A r \in Run : (At(r, "failed") /\ run[r].lane = "answer" /\ run[r].error # "retrieval")
                   => run[r].try = Tries

\* Every operation ends: nested retries, a stream's deltas and the walk down the
\* chain all come to an end (service.py:764, structured.py:71, router.py:178).
RunsEnd ==
  \A r \in Run : []<>(run[r].node \in {"idle", "returned", "failed"})
=============================================================================
