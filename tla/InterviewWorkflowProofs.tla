------------------------ MODULE InterviewWorkflowProofs ------------------------
(***************************************************************************)
(* The invariants of InterviewWorkflow for any number of callers, attempts, *)
(* tries, deltas and operations.                                           *)
(*                                                                         *)
(* A step changes one slot, so the invariant is a statement SlotOK about a  *)
(* run and its model call: which nodes a lane visits, which values are its  *)
(* own by then, and how many model calls it can have made so far.          *)
(***************************************************************************)
EXTENDS InterviewWorkflow, FiniteSetTheorems, TLAPS

USE DeltasAssumption, WorkflowAssumption

Resting == {"idle", "returned", "failed"}
Asks == Structured \cup Streaming \cup {"generate_report"}

NodesOf(lane) ==
  CASE lane = "hint" -> {"generate_hint"}
    [] lane = "report" -> {"generate_report"}
    [] lane = "answer" -> {"retrieve_context", "evaluate_answer", "interviewer_reasoning"} \cup Plain
    [] OTHER -> {"retrieve_context", "generate_question"}

\* A call that is under way stands at the first and only model of a text chain.
CallOK(c) ==
  /\ c \in CallType
  /\ c.step # "idle" => c.task \in TextTask
  /\ c.step \in {"asking", "streaming"} => c.at = 1
  /\ c.step = "failed" => c.error \in AIErrors

\* What the tries before this one, and the whole operation, may have asked for.
Budget(tries) == tries * (2 * MaxAttempts)
Limit(lane) ==
  CASE lane = "question" -> 2
    [] lane = "answer" -> Budget(Tries)
    [] lane = "hint" -> MaxAttempts
    [] OTHER -> 1
Again1(x) == IF x.regenerated THEN 1 ELSE 0

\* The most calls a run can have made when it stands where it stands.
Allowed(x) ==
  CASE x.node = "retrieve_context" /\ x.lane = "answer" -> Budget(x.try - 1)
    [] x.node = "retrieve_context" /\ x.lane # "answer" -> Again1(x)
    [] x.node = "generate_question" -> Again1(x) + 1
    [] x.node = "evaluate_answer" -> Budget(x.try - 1) + x.attempt
    [] x.node = "interviewer_reasoning" -> Budget(x.try - 1) + MaxAttempts + x.attempt
    [] x.node \in Plain -> Budget(x.try)
    [] x.node = "generate_hint" -> x.attempt
    [] x.node = "generate_report" -> 1
    [] OTHER -> Limit(x.lane)

\* The values that are this run's own by the time it stands at a node.
OwnAt(node) ==
  CASE node = "interviewer_reasoning" -> {"evaluate_answer"}
    [] node \in Plain -> {"evaluate_answer", "interviewer_reasoning"}
    [] OTHER -> {}
Own(x) == IF x.node = "returned" THEN Returns(x.lane) ELSE OwnAt(x.node)

RunOK(x) ==
  /\ x \in RunType
  /\ x.node \in NodesOf(x.lane) \cup Resting
  /\ x.node \notin Resting => x.try \in 1 .. Tries
  /\ x.regenerated => x.lane = "question"
  /\ x.calls <= Allowed(x)
  /\ \A n \in Own(x) : x.values[n] = x.id
  /\ (x.node = "failed" /\ x.lane = "answer" /\ x.error # "retrieval") => x.try = Tries

SlotOK(x, c) ==
  /\ RunOK(x) /\ CallOK(c)
  /\ c.step # "idle" <=> x.node \in Asks

IInv ==
  /\ providers \subseteq {"deepseek"}
  /\ mode \in {"text", "voice"}
  /\ started \in 0 .. MaxRuns
  /\ thread \in [Thread -> Values]
  /\ run \in [Run -> RunType]
  /\ call \in [Run -> CallType]
  /\ \A r \in Run : SlotOK(run[r], call[r])

-----------------------------------------------------------------------------
(* Model calls.                                                            *)

LEMMA NoCallOK == CallOK(NoCall)
BY DEF NoCall, CallOK, CallType

\* A call that moves on keeps its type.
LEMMA CallMoves ==
  ASSUME NEW c \in CallType
  PROVE  /\ [c EXCEPT !.step = "asking", !.at = 1] \in CallType
         /\ [c EXCEPT !.step = "streaming", !.deltas = 0] \in CallType
<1>1. [c EXCEPT !.step = "asking", !.at = 1] \in CallType
  BY DEF CallType
<1>2. ASSUME NEW n \in 0 .. MaxDeltas
      PROVE  [c EXCEPT !.step = "streaming", !.deltas = n] \in CallType
  BY DEF CallType
<1>3. 0 \in 0 .. MaxDeltas
  OBVIOUS
<1>. QED BY <1>1, <1>2, <1>3

\* A text task has one model; without its provider, or after it, nothing is left.
LEMMA ProceedOK ==
  ASSUME NEW c \in CallType, c.task \in TextTask, NEW i \in {1, 2}
  PROVE  LET d == Proceed(c, i) IN
         /\ CallOK(d) /\ d.step \in {"asking", "failed"}
         /\ i = 2 => d.step = "failed"
         /\ d.step = "failed" => d.error = Unavailable
<1> DEFINE usable == {j \in i .. Len(Chain(c.task)) :
                        \/ Capability[ModelOf(c.task, j)] # "generate"
                        \/ Provider[ModelOf(c.task, j)] \in providers}
           k == CHOOSE m \in usable : \A n \in usable : m <= n
<1>1. Chain(c.task) = <<"deepseek-v4-flash">>
  BY DEF Chain, TextTask
<1>2. Len(Chain(c.task)) = 1 /\ ModelOf(c.task, 1) = "deepseek-v4-flash"
  BY <1>1 DEF ModelOf
<1>3. Capability["deepseek-v4-flash"] = "generate"
  BY DEF Capability, Model
<1>4. usable \subseteq {1} /\ (i = 2 => usable = {})
  BY <1>2
<1>5. CASE usable = {}
  <2>1. Proceed(c, i) = [c EXCEPT !.step = "failed", !.error = Unavailable]
    BY <1>5 DEF Proceed
  <2>. QED BY <2>1 DEF CallOK, CallType, Unavailable, AIErrors
<1>6. CASE usable # {}
  <2>1. usable = {1} /\ i = 1
    BY <1>4, <1>6
  <2>2. k = 1
    <3>. HIDE DEF usable
    <3>. QED BY <2>1
  <2>3. Capability[ModelOf(c.task, k)] = "generate"
    BY <1>2, <1>3, <2>2
  <2>4. Proceed(c, i) = [c EXCEPT !.step = "asking", !.at = k]
    BY <1>6, <2>3 DEF Proceed
  <2>. HIDE DEF usable, k
  <2>5. Proceed(c, i) = [c EXCEPT !.step = "asking", !.at = 1]
    BY <2>2, <2>4
  <2>6. Proceed(c, i) \in CallType
    BY <2>5, CallMoves
  <2>7. /\ Proceed(c, i).step = "asking" /\ Proceed(c, i).at = 1
        /\ Proceed(c, i).task = c.task
    BY <2>5 DEF CallType
  <2>. QED BY <2>1, <2>6, <2>7 DEF CallOK
<1>. QED BY <1>5, <1>6

LEMMA AskOK ==
  ASSUME NEW task \in TextTask, NEW stream \in BOOLEAN
  PROVE  CallOK(Ask(task, stream)) /\ Ask(task, stream).step # "idle"
<1> DEFINE c == [NoCall EXCEPT !.task = task, !.stream = stream]
<1>1. c \in CallType /\ c.task = task
  <2>1. NoCall \in CallType
    BY DEF NoCall, CallType
  <2>2. c \in CallType
    BY <2>1 DEF CallType
  <2>3. c.task = task
    BY <2>1 DEF CallType
  <2>. QED BY <2>1, <2>2, <2>3
<1>2. Ask(task, stream) = Proceed(c, 1)
  BY DEF Ask
<1>. HIDE DEF c
<1>3. CallOK(Proceed(c, 1)) /\ Proceed(c, 1).step \in {"asking", "failed"}
  BY <1>1, ProceedOK
<1>. QED BY <1>2, <1>3

LEMMA OutcomeTyped ==
  ASSUME NEW outcome \in Outcomes
  PROVE  outcome = "ok" \/ outcome \in Refused \/ outcome = Unavailable
BY DEF Outcomes, Outcome, Refused, Unavailable

\* What comes back leaves a sound call, and an error where it failed.
LEMMA AnswersOK ==
  ASSUME NEW c, CallOK(c), c.step # "idle", NEW d \in Answers(c)
  PROVE  /\ d.step \in {"asking", "streaming", "answered", "failed"}
         /\ d.step \notin Ended => CallOK(d)
         /\ d.step = "failed" => d.error \in AIErrors
<1>1. c \in CallType /\ c.task \in TextTask
      /\ (c.step \in {"asking", "streaming"} => c.at = 1)
  BY DEF CallOK
<1>2. ASSUME c.at = 1, NEW outcome, outcome \in Refused \/ outcome = Unavailable,
             d = PassOver(c, outcome)
      PROVE  d.step = "failed" /\ d.error \in AIErrors
  <2>1. CASE outcome = Unavailable
    <3>1. d = Proceed(c, 2)
      BY <1>2, <2>1 DEF PassOver
    <3>. QED BY <1>1, <3>1, ProceedOK DEF AIErrors
  <2>2. CASE outcome # Unavailable
    <3>1. d = [c EXCEPT !.step = "failed", !.error = outcome]
      BY <1>2, <2>2 DEF PassOver
    <3>. QED BY <1>1, <1>2, <2>2, <3>1 DEF AIErrors, CallType
  <2>. QED BY <2>1, <2>2
<1>3. CASE c.step = "asking"
  <2>1. PICK outcome \in Outcomes :
          d = CASE outcome # "ok" -> PassOver(c, outcome)
                [] outcome = "ok" /\ c.stream -> [c EXCEPT !.step = "streaming", !.deltas = 0]
                [] OTHER -> [c EXCEPT !.step = "answered", !.decision = c.at]
    BY <1>3 DEF Answers, Responded
  <2>2. CASE outcome # "ok"
    <3>1. d = PassOver(c, outcome)
      BY <2>1, <2>2
    <3>. QED BY <1>1, <1>2, <1>3, <2>2, <3>1, OutcomeTyped DEF Ended
  <2>3. CASE outcome = "ok" /\ c.stream
    <3>1. d = [c EXCEPT !.step = "streaming", !.deltas = 0]
      BY <2>1, <2>3
    <3>2. d \in CallType
      BY <1>1, <3>1, CallMoves
    <3>3. d.step = "streaming" /\ d.at = c.at /\ d.task = c.task
      BY <1>1, <3>1 DEF CallType
    <3>. QED BY <1>1, <1>3, <3>2, <3>3 DEF CallOK
  <2>4. CASE outcome = "ok" /\ ~c.stream
    <3>1. d = [c EXCEPT !.step = "answered", !.decision = c.at]
      BY <2>1, <2>4
    <3>2. d.step = "answered"
      BY <1>1, <3>1 DEF CallType
    <3>. QED BY <3>2 DEF Ended
  <2>. QED BY <2>2, <2>3, <2>4
<1>4. CASE c.step = "streaming"
  <2>1. \/ c.deltas < MaxDeltas /\ d = Delta(c)
        \/ d = EndOfStream(c) \/ d = Broken(c)
    BY <1>4 DEF Answers, Streamed
  <2>2. CASE c.deltas < MaxDeltas /\ d = Delta(c)
    <3>1. d = [c EXCEPT !.deltas = @ + 1, !.decision = IF @ = 0 THEN c.at ELSE @]
      BY <2>2 DEF Delta
    <3>2. c.deltas + 1 \in 0 .. MaxDeltas /\ c.at = 1 /\ c.decision \in Nat
      BY <1>1, <1>4, <2>2 DEF CallType
    <3>. QED BY <1>1, <1>4, <3>1, <3>2 DEF CallOK, CallType
  <2>3. CASE d = EndOfStream(c)
    <3>1. d.step = "answered"
      BY <1>1, <2>3 DEF EndOfStream, CallType
    <3>. QED BY <3>1 DEF Ended
  <2>4. CASE d = Broken(c)
    BY <1>1, <1>2, <1>4, <2>4 DEF Broken, Ended
  <2>. QED BY <2>1, <2>2, <2>3, <2>4
<1>5. CASE c.step \notin {"asking", "streaming"}
  BY <1>5 DEF Answers
<1>. QED BY <1>3, <1>4, <1>5

-----------------------------------------------------------------------------
(* Arithmetic of the calls.                                                *)

LEMMA BudgetFacts ==
  /\ Budget(0) = 0
  /\ \A t \in 0 .. Tries : Budget(t) \in Nat /\ Budget(t) <= Budget(Tries)
  /\ \A t \in 1 .. Tries : Budget(t) = Budget(t - 1) + 2 * MaxAttempts
<1>1. Budget(0) = 0
  BY DEF Budget
<1>2. ASSUME NEW t \in 0 .. Tries PROVE Budget(t) \in Nat /\ Budget(t) <= Budget(Tries)
  <2>1. Budget(t) \in Nat /\ Budget(Tries) \in Nat
    BY DEF Budget
  <2>2. Budget(Tries) - Budget(t) = (Tries - t) * (2 * MaxAttempts)
    BY DEF Budget
  <2>3. (Tries - t) * (2 * MaxAttempts) >= 0
    OBVIOUS
  <2>. QED BY <2>1, <2>2, <2>3
<1>3. ASSUME NEW t \in 1 .. Tries PROVE Budget(t) = Budget(t - 1) + 2 * MaxAttempts
  BY DEF Budget
<1>. QED BY <1>1, <1>2, <1>3

\* Wherever a run stands, it has not yet passed its limit.
LEMMA AllowedWithinLimit ==
  ASSUME NEW x \in RunType, RunOK(x)
  PROVE  x.calls <= Limit(x.lane) /\ Limit(x.lane) \in Nat
<1>1. /\ x.node \in NodesOf(x.lane) \cup Resting /\ x.lane \in Lane
      /\ x.node \notin Resting => x.try \in 1 .. Tries
      /\ x.regenerated => x.lane = "question"
      /\ x.calls <= Allowed(x) /\ x.calls \in Nat /\ x.attempt \in 0 .. MaxAttempts
      /\ x.regenerated \in BOOLEAN
  BY DEF RunOK, RunType
<1>2. Limit(x.lane) \in Nat
  BY <1>1, BudgetFacts DEF Limit, Lane
<1>3. CASE x.node \in Resting
  <2>1. Allowed(x) = Limit(x.lane)
    BY <1>3 DEF Allowed, Resting, Plain
  <2>. QED BY <1>1, <1>2, <2>1
<1>4. CASE x.node \notin Resting /\ x.lane = "answer"
  <2>1. x.try \in 1 .. Tries /\ x.node \in NodesOf("answer")
    BY <1>1, <1>4
  <2>2. /\ Budget(x.try) <= Budget(Tries) /\ Budget(x.try) = Budget(x.try - 1) + 2 * MaxAttempts
        /\ Budget(x.try) \in Nat /\ Budget(x.try - 1) \in Nat /\ Budget(Tries) \in Nat
    BY <2>1, BudgetFacts
  <2>3. Allowed(x) \in {Budget(x.try - 1), Budget(x.try - 1) + x.attempt,
                        Budget(x.try - 1) + MaxAttempts + x.attempt, Budget(x.try)}
    BY <1>4, <2>1 DEF Allowed, NodesOf, Plain
  <2>4. Limit(x.lane) = Budget(Tries)
    BY <1>4 DEF Limit
  <2>. QED BY <1>1, <2>2, <2>3, <2>4
<1>5. CASE x.node \notin Resting /\ x.lane = "hint"
  <2>1. x.node = "generate_hint"
    BY <1>1, <1>5 DEF NodesOf
  <2>2. Allowed(x) = x.attempt /\ Limit(x.lane) = MaxAttempts
    BY <1>5, <2>1 DEF Allowed, Limit, Plain
  <2>. QED BY <1>1, <2>2
<1>6. CASE x.node \notin Resting /\ x.lane = "report"
  <2>1. x.node = "generate_report"
    BY <1>1, <1>6 DEF NodesOf
  <2>2. Allowed(x) = 1 /\ Limit(x.lane) = 1
    BY <1>6, <2>1 DEF Allowed, Limit, Plain
  <2>. QED BY <1>1, <2>2
<1>7. CASE x.node \notin Resting /\ x.lane \in {"question", "question_stream"}
  <2>1. x.node \in {"retrieve_context", "generate_question"}
    BY <1>1, <1>7 DEF NodesOf
  <2>2. Allowed(x) \in {Again1(x), Again1(x) + 1}
    BY <1>7, <2>1 DEF Allowed, Plain
  <2>3. Again1(x) + 1 <= Limit(x.lane)
    BY <1>1, <1>7 DEF Again1, Limit
  <2>4. Again1(x) \in {0, 1}
    BY DEF Again1
  <2>. QED BY <1>1, <1>2, <2>2, <2>3, <2>4
<1>. QED BY <1>1, <1>3, <1>4, <1>5, <1>6, <1>7 DEF Lane

-----------------------------------------------------------------------------
(* Slots.                                                                  *)

LEMMA InitInv == Init => IInv
<1> SUFFICES ASSUME Init PROVE IInv
  OBVIOUS
<1>1. NoValues \in Values
  BY DEF NoValues, Values
<1>2. NoRun \in RunType
  BY <1>1 DEF NoRun, RunType, Lane
<1>3. RunOK(NoRun)
  <2>1. /\ NoRun.node = "idle" /\ NoRun.lane = "question" /\ NoRun.calls = 0
        /\ NoRun.regenerated = FALSE
    BY DEF NoRun
  <2>2. Allowed(NoRun) = 2 /\ Own(NoRun) = {}
    BY <2>1 DEF Allowed, Limit, Own, OwnAt, Plain
  <2>. QED BY <1>2, <2>1, <2>2 DEF RunOK, Resting
<1>4. NoCall.step = "idle"
  BY DEF NoCall
<1>5. NoRun.node \notin Asks
  BY DEF NoRun, Asks, Structured, Streaming
<1>6. NoCall \in CallType
  BY NoCallOK DEF CallOK
<1>7. \A r \in Run : run[r] = NoRun /\ call[r] = NoCall
  BY DEF Init, RouterInit
<1>. QED BY <1>1, <1>2, <1>3, <1>4, <1>5, <1>6, <1>7, NoCallOK DEF Init, RouterInit, IInv, SlotOK

\* A step of one slot that leaves it sound keeps the invariant.
LEMMA SlotStep ==
  ASSUME IInv, NEW r \in Run, NEW x, NEW c, SlotOK(x, c),
         run' = [run EXCEPT ![r] = x], call' = [call EXCEPT ![r] = c],
         providers' = providers, mode' = mode, started' \in 0 .. MaxRuns,
         thread' \in [Thread -> Values]
  PROVE  IInv'
<1>1. x \in RunType /\ c \in CallType
  BY DEF SlotOK, RunOK, CallOK
<1>2. run' \in [Run -> RunType] /\ call' \in [Run -> CallType]
  BY <1>1 DEF IInv
<1>3. \A s \in Run : run'[s] = (IF s = r THEN x ELSE run[s])
                     /\ call'[s] = (IF s = r THEN c ELSE call[s])
  BY DEF IInv
<1>4. \A s \in Run : SlotOK(run'[s], call'[s])
  BY <1>3 DEF IInv
<1>. QED BY <1>2, <1>4 DEF IInv

\* The most calls a run can have made when it comes to a node.
Before(x, node) ==
  CASE node = "retrieve_context" /\ x.lane = "answer" -> Budget(x.try - 1)
    [] node = "retrieve_context" /\ x.lane # "answer" -> Again1(x)
    [] node = "generate_question" -> Again1(x)
    [] node = "evaluate_answer" -> Budget(x.try - 1)
    [] node = "interviewer_reasoning" -> Budget(x.try - 1) + MaxAttempts
    [] node \in Plain -> Budget(x.try)
    [] OTHER -> 0

\* A run may come to a node of its lane, with its own values and calls to spare.
MayEnter(x, node) ==
  /\ x \in RunType
  /\ node \in NodesOf(x.lane)
  /\ x.try \in 1 .. Tries
  /\ x.regenerated => x.lane = "question"
  /\ x.calls <= Before(x, node)
  /\ \A n \in OwnAt(node) : x.values[n] = x.id

LEMMA NodeNames ==
  ASSUME NEW lane \in Lane, NEW node \in NodesOf(lane)
  PROVE  node \in Node \ Resting
BY DEF NodesOf, Node, Resting, Plain, Lane

LEMMA TaskTyped ==
  ASSUME NEW node \in Node
  PROVE  TaskOf(node) \in TextTask
BY DEF TaskOf, TextTask

LEMMA EnterStep ==
  ASSUME NEW r \in Run, NEW x, NEW node, MayEnter(x, node), Enter(r, x, node)
  PROVE  \E y, c : /\ SlotOK(y, c)
                   /\ run' = [run EXCEPT ![r] = y] /\ call' = [call EXCEPT ![r] = c]
<1>1. /\ x \in RunType /\ node \in NodesOf(x.lane) /\ x.lane \in Lane
      /\ x.calls \in Nat /\ x.calls <= Before(x, node) /\ x.try \in 1 .. Tries
      /\ x.regenerated \in BOOLEAN
  BY DEF MayEnter, RunType
<1>2. node \in Node \ Resting
  BY <1>1, NodeNames
<1>3. Asks = {"evaluate_answer", "interviewer_reasoning", "generate_hint",
              "generate_question", "generate_report"}
  BY DEF Asks, Structured, Streaming
<1>4. /\ Budget(x.try) \in Nat /\ Budget(x.try - 1) \in Nat
  BY <1>1, BudgetFacts
<1>5. CASE node \in Asks
  <2> DEFINE y == [x EXCEPT !.node = node, !.attempt = 1, !.calls = @ + 1]
             c == Ask(TaskOf(node), node \in Streaming)
  <2>1. run' = [run EXCEPT ![r] = y] /\ call' = [call EXCEPT ![r] = c]
    BY <1>5 DEF Enter, Become, Set, Asks
  <2>2. CallOK(c) /\ c.step # "idle"
    <3>1. TaskOf(node) \in TextTask
      BY <1>2, TaskTyped
    <3>2. (node \in Streaming) \in BOOLEAN
      OBVIOUS
    <3>3. \A task \in TextTask, stream \in BOOLEAN :
            CallOK(Ask(task, stream)) /\ Ask(task, stream).step # "idle"
      BY AskOK
    <3>. QED BY <3>1, <3>2, <3>3, Zenon
  <2>3. y \in RunType
    <3>1. 1 \in 0 .. MaxAttempts /\ x.calls + 1 \in Nat
      BY <1>1
    <3>. QED BY <1>1, <1>2, <3>1 DEF RunType
  <2>4. /\ y.node = node /\ y.attempt = 1 /\ y.calls = x.calls + 1 /\ y.lane = x.lane
        /\ y.try = x.try /\ y.regenerated = x.regenerated /\ y.values = x.values /\ y.id = x.id
    BY <1>1 DEF RunType
  <2>. HIDE DEF y, c
  <2>5. Again1(y) = Again1(x) /\ Again1(x) \in Nat
    BY <2>4 DEF Again1
  <2>6. Allowed(y) = Before(x, node) + 1
    BY <1>3, <1>4, <1>5, <2>4, <2>5 DEF Allowed, Before, Plain
  <2>7. Before(x, node) \in Nat
    BY <1>3, <1>4, <1>5, <2>5 DEF Before, Plain
  <2>8. RunOK(y)
    BY <1>1, <1>2, <2>3, <2>4, <2>6, <2>7 DEF RunOK, MayEnter, Own, Resting
  <2>. QED BY <1>5, <2>1, <2>2, <2>4, <2>8 DEF SlotOK
<1>6. CASE node \notin Asks
  <2> DEFINE y == [x EXCEPT !.node = node, !.attempt = 0]
  <2>1. run' = [run EXCEPT ![r] = y] /\ call' = [call EXCEPT ![r] = NoCall]
    BY <1>6 DEF Enter, Become, Set, Asks
  <2>2. CallOK(NoCall) /\ NoCall.step = "idle"
    BY NoCallOK DEF NoCall
  <2>3. 0 \in 0 .. MaxAttempts
    OBVIOUS
  <2>4. y \in RunType
    BY <1>1, <1>2, <2>3 DEF RunType
  <2>5. /\ y.node = node /\ y.calls = x.calls /\ y.lane = x.lane
        /\ y.try = x.try /\ y.regenerated = x.regenerated /\ y.values = x.values /\ y.id = x.id
    BY <1>1 DEF RunType
  <2>. HIDE DEF y
  <2>6. Again1(y) = Again1(x)
    BY <2>5 DEF Again1
  <2>7. node \in {"retrieve_context"} \cup Plain
    BY <1>1, <1>3, <1>6 DEF NodesOf, Plain, Lane
  <2>8. Allowed(y) = Before(x, node)
    BY <2>5, <2>6, <2>7 DEF Allowed, Before, Plain
  <2>9. RunOK(y)
    BY <1>1, <1>2, <2>4, <2>5, <2>8 DEF RunOK, MayEnter, Own, Resting
  <2>. QED BY <1>6, <2>1, <2>2, <2>5, <2>9 DEF SlotOK
<1>. QED BY <1>5, <1>6

\* A run that comes to rest, with the values it returns and the error it has.
LEMMA RestStep ==
  ASSUME NEW x, RunOK(x), NEW y \in RunType, y.node \in {"returned", "failed"},
         y.lane = x.lane, y.regenerated = x.regenerated, y.calls = x.calls,
         y.node = "returned" => \A n \in Returns(x.lane) : y.values[n] = y.id,
         (y.node = "failed" /\ y.lane = "answer" /\ y.error # "retrieval") => y.try = Tries
  PROVE  SlotOK(y, NoCall)
<1>1. x \in RunType /\ x.calls <= Limit(x.lane) /\ (x.regenerated => x.lane = "question")
  BY AllowedWithinLimit DEF RunOK
<1>2. Allowed(y) = Limit(y.lane)
  BY DEF Allowed, Plain
<1>3. \A n \in Own(y) : y.values[n] = y.id
  BY DEF Own, OwnAt, Plain
<1>4. RunOK(y)
  BY <1>1, <1>2, <1>3 DEF RunOK, Resting
<1>5. CallOK(NoCall) /\ NoCall.step = "idle" /\ y.node \notin Asks
  BY NoCallOK DEF NoCall, Asks, Structured, Streaming
<1>. QED BY <1>4, <1>5 DEF SlotOK

-----------------------------------------------------------------------------
(* The steps.  Moved(r) is what each leaves in the slot of its run.         *)

Moved(r) == \E y, c : /\ SlotOK(y, c)
                      /\ run' = [run EXCEPT ![r] = y] /\ call' = [call EXCEPT ![r] = c]

Checkpointed == thread' \in [Thread -> Values]

LEMMA InvokeStep ==
  ASSUME IInv, NEW r \in Run, NEW x \in RunType, Invoke(r, x),
         x.try \in 1 .. Tries, x.regenerated => x.lane = "question",
         x.calls <= IF x.lane = "answer" THEN Budget(x.try - 1) ELSE 0
  PROVE  Moved(r)
<1> DEFINE y    == [x EXCEPT !.values = thread[ThreadOf(x.lane)]]
           node == RouteAction(x.lane)
<1>1. x.lane \in Lane /\ x.calls \in Nat /\ x.regenerated \in BOOLEAN
  BY DEF RunType
<1>2. thread[ThreadOf(x.lane)] \in Values
  BY <1>1 DEF IInv, ThreadOf, Thread
<1>3. y \in RunType
  BY <1>2 DEF RunType
<1>4. /\ y.lane = x.lane /\ y.try = x.try /\ y.calls = x.calls /\ y.regenerated = x.regenerated
  BY DEF RunType
<1>5. Enter(r, y, node)
  BY DEF Invoke
<1>. HIDE DEF y
<1>6. node \in NodesOf(x.lane)
  BY <1>1 DEF RouteAction, NodesOf, Lane
<1>7. OwnAt(node) = {}
  BY DEF OwnAt, RouteAction, Plain
<1>8. y.calls <= Before(y, node)
  <2>1. CASE x.lane = "answer"
    <3>1. node = "retrieve_context" /\ y.lane = "answer"
      BY <1>4, <2>1 DEF RouteAction
    <3>2. Before(y, node) = Budget(y.try - 1)
      BY <3>1 DEF Before, Plain
    <3>. QED BY <1>4, <2>1, <3>2
  <2>2. CASE x.lane # "answer"
    <3>1. Before(y, node) \in {0, Again1(y)}
      BY <1>4, <2>2 DEF Before, RouteAction, Plain
    <3>2. Again1(y) \in {0, 1}
      BY DEF Again1
    <3>. QED BY <1>1, <1>4, <2>2, <3>1, <3>2
  <2>. QED BY <2>1, <2>2
<1>9. MayEnter(y, node)
  BY <1>3, <1>4, <1>6, <1>7, <1>8 DEF MayEnter
<1>. QED BY <1>5, <1>9, EnterStep DEF Moved

LEMMA FailStep ==
  ASSUME IInv, NEW r \in Run,
         NEW error \in AIErrors \cup {"structured_output", "retrieval", "validation_failed",
                                     "value_error"},
         (run[r].lane = "answer" /\ error # "retrieval") => run[r].try = Tries,
         Fail(r, error)
  PROVE  Moved(r) /\ Checkpointed
<1> DEFINE y == [run[r] EXCEPT !.node = "failed", !.error = error, !.attempt = 0,
                               !.values = NoValues]
<1>1. run' = [run EXCEPT ![r] = y] /\ call' = [call EXCEPT ![r] = NoCall] /\ thread' = thread
  BY DEF Fail, Become, Set
<1>2. RunOK(run[r]) /\ run[r] \in RunType
  BY DEF IInv, SlotOK
<1>3. NoValues \in Values /\ 0 \in 0 .. MaxAttempts
  BY DEF NoValues, Values
<1>4. y \in RunType
  BY <1>2, <1>3 DEF RunType
<1>5. /\ y.node = "failed" /\ y.error = error /\ y.lane = run[r].lane /\ y.try = run[r].try
      /\ y.regenerated = run[r].regenerated /\ y.calls = run[r].calls
  BY <1>2 DEF RunType
<1>. HIDE DEF y
<1>6. SlotOK(y, NoCall)
  BY <1>2, <1>4, <1>5, RestStep
<1>. QED BY <1>1, <1>6 DEF Moved, Checkpointed, IInv

\* What a run has asked for when its node has what it wants.
LEMMA Spent ==
  ASSUME NEW x, RunOK(x)
  PROVE  /\ x.node = "retrieve_context" /\ x.lane = "answer" => x.calls <= Budget(x.try - 1)
         /\ x.node = "retrieve_context" /\ x.lane # "answer" => x.calls <= Again1(x)
         /\ x.node = "generate_question" => x.calls <= Again1(x) + 1
         /\ x.node = "evaluate_answer" =>
              x.calls <= Budget(x.try - 1) + MaxAttempts /\ x.calls <= Budget(x.try)
         /\ x.node = "interviewer_reasoning" => x.calls <= Budget(x.try)
         /\ x.node \in Plain => x.calls <= Budget(x.try)
<1>1. x.calls <= Allowed(x) /\ x.calls \in Nat /\ x.attempt \in 0 .. MaxAttempts
      /\ (x.node \notin Resting => x.try \in 1 .. Tries)
  BY DEF RunOK, RunType
<1>2. CASE x.node \in {"evaluate_answer", "interviewer_reasoning"}
  <2>1. Budget(x.try) = Budget(x.try - 1) + 2 * MaxAttempts /\ Budget(x.try - 1) \in Nat
    BY <1>1, <1>2, BudgetFacts DEF Resting
  <2>2. Allowed(x) = IF x.node = "evaluate_answer" THEN Budget(x.try - 1) + x.attempt
                     ELSE Budget(x.try - 1) + MaxAttempts + x.attempt
    BY <1>2 DEF Allowed, Plain
  <2>3. x.calls <= Budget(x.try)
    BY <1>1, <1>2, <2>1, <2>2
  <2>4. x.node = "evaluate_answer" => x.calls <= Budget(x.try - 1) + MaxAttempts
    BY <1>1, <2>1, <2>2
  <2>. QED BY <1>2, <2>3, <2>4 DEF Plain
<1>3. CASE x.node \notin {"evaluate_answer", "interviewer_reasoning"}
  BY <1>1, <1>3 DEF Allowed, Plain
<1>. QED BY <1>2, <1>3

\* A node that has what it wants has made a value of its own run.
LEMMA FinishStep ==
  ASSUME IInv, NEW r \in Run, run[r].node \in Asks \cup Plain, Finish(r)
  PROVE  Moved(r) /\ Checkpointed
<1> DEFINE x      == run[r]
           values == [x.values EXCEPT ![x.node] = Made(r, x.node)]
<1>1. RunOK(x) /\ x \in RunType /\ x.lane \in Lane /\ x.values \in Values
      /\ x.node \in NodesOf(x.lane) /\ x.try \in 1 .. Tries /\ x.id \in 0 .. MaxRuns
      /\ (x.regenerated => x.lane = "question")
  BY DEF IInv, SlotOK, RunOK, RunType, Resting, Asks, Structured, Streaming, Plain
<1>2. \A n \in Reads(x.node) : x.values[n] = x.id
  BY <1>1 DEF RunOK, Own, OwnAt, Reads, Plain
<1>3. Made(r, x.node) = x.id
  BY <1>2 DEF Made
<1>4. x.node \in Node
  BY <1>1, NodeNames
<1>5. values \in Values
  BY <1>1, <1>3, <1>4 DEF Values
<1>6. \A n \in Node : values[n] = IF n = x.node THEN x.id ELSE x.values[n]
  BY <1>1, <1>3, <1>4 DEF Values
<1>7. Save(r, values)
  BY DEF Finish
<1>. HIDE DEF values
<1>8. Checkpointed
  BY <1>5, <1>7 DEF Save, Checkpointed, IInv
<1>9. CASE Edge(x.node) = "END"
  <2> DEFINE y == [x EXCEPT !.node = "returned", !.attempt = 0, !.values = values]
  <2>1. run' = [run EXCEPT ![r] = y] /\ call' = [call EXCEPT ![r] = NoCall]
    BY <1>9 DEF Finish, Become, Set, values
  <2>2. 0 \in 0 .. MaxAttempts
    OBVIOUS
  <2>3. y \in RunType
    BY <1>1, <1>5, <2>2 DEF RunType
  <2>4. /\ y.node = "returned" /\ y.lane = x.lane /\ y.regenerated = x.regenerated
        /\ y.calls = x.calls /\ y.values = values /\ y.id = x.id
    BY <1>1 DEF RunType
  <2>. HIDE DEF y
  <2>5. \A n \in Returns(x.lane) : n \in Node /\ values[n] = x.id
    <3>1. CASE x.lane = "answer"
      <4>1. x.node = "determine_next_action"
        BY <1>1, <1>9, <3>1 DEF NodesOf, Edge, Plain, Asks, Structured, Streaming
      <4>2. x.values["evaluate_answer"] = x.id /\ x.values["interviewer_reasoning"] = x.id
        BY <1>1, <4>1 DEF RunOK, Own, OwnAt, Plain
      <4>. QED BY <1>6, <3>1, <4>1, <4>2 DEF Returns, Node
    <3>2. CASE x.lane # "answer"
      <4>1. x.node # "retrieve_context"
        BY DEF Asks, Structured, Streaming, Plain
      <4>2. Returns(x.lane) = {x.node}
        BY <1>1, <3>2, <4>1 DEF NodesOf, Returns, Lane
      <4>. QED BY <1>4, <1>6, <4>2
    <3>. QED BY <3>1, <3>2
  <2>6. SlotOK(y, NoCall)
    BY <1>1, <2>3, <2>4, <2>5, RestStep
  <2>. QED BY <1>8, <2>1, <2>6 DEF Moved
<1>10. CASE Edge(x.node) # "END"
  <2> DEFINE y    == [x EXCEPT !.values = values]
             node == Edge(x.node)
  <2>1. Enter(r, y, node)
    BY <1>10 DEF Finish, values
  <2>2. y \in RunType
    BY <1>1, <1>5 DEF RunType
  <2>3. /\ y.lane = x.lane /\ y.regenerated = x.regenerated /\ y.try = x.try
        /\ y.calls = x.calls /\ y.values = values /\ y.id = x.id
    BY <1>1 DEF RunType
  <2>. HIDE DEF y
  <2>4. /\ x.lane = "answer"
        /\ x.node \in {"evaluate_answer", "interviewer_reasoning", "extract_evidence",
                       "update_candidate_state"}
    BY <1>1, <1>10 DEF Edge, NodesOf, Plain, Lane
  <2>5. node \in NodesOf(x.lane)
    BY <2>4 DEF Edge, NodesOf, Plain
  <2>6. \A n \in OwnAt(node) : n \in Node /\ values[n] = x.id
    <3>1. \A n \in OwnAt(x.node) : n \in Node /\ x.values[n] = x.id
      BY <1>1, <2>4 DEF RunOK, Own, OwnAt, Plain, Node
    <3>2. OwnAt(node) \subseteq OwnAt(x.node) \cup {x.node}
      BY <2>4 DEF OwnAt, Edge, Plain
    <3>. QED BY <1>4, <1>6, <3>1, <3>2
  <2>7. y.calls <= Before(y, node)
    <3>1. CASE x.node = "evaluate_answer"
      <4>1. Before(y, node) = Budget(x.try - 1) + MaxAttempts
        BY <2>3, <3>1 DEF Before, Edge, Plain
      <4>. QED BY <1>1, <2>3, <3>1, <4>1, Spent
    <3>2. CASE x.node # "evaluate_answer"
      <4>1. Before(y, node) = Budget(x.try)
        BY <2>3, <2>4, <3>2 DEF Before, Edge, Plain
      <4>2. x.node = "interviewer_reasoning" \/ x.node \in Plain
        BY <2>4, <3>2 DEF Plain
      <4>. QED BY <1>1, <2>3, <4>1, <4>2, Spent
    <3>. QED BY <3>1, <3>2
  <2>8. MayEnter(y, node)
    BY <1>1, <2>2, <2>3, <2>5, <2>6, <2>7 DEF MayEnter
  <2>. QED BY <1>8, <2>1, <2>8, EnterStep DEF Moved
<1>. QED BY <1>9, <1>10

LEMMA StartStep ==
  ASSUME IInv, NEW r \in Run, Start(r)
  PROVE  Moved(r) /\ Checkpointed /\ started' \in 0 .. MaxRuns
<1>1. started \in 0 .. MaxRuns /\ mode \in {"text", "voice"}
  BY DEF IInv
<1>2. started' = started + 1 /\ started' \in 1 .. MaxRuns
  BY <1>1 DEF Start
<1>3. PICK lane \in LanesOf[mode] :
        Invoke(r, [NoRun EXCEPT !.lane = lane, !.id = started + 1, !.try = 1])
  BY DEF Start
<1> DEFINE x == [NoRun EXCEPT !.lane = lane, !.id = started + 1, !.try = 1]
<1>4. lane \in Lane
  BY <1>1 DEF LanesOf, Lane
<1>5. 1 \in 1 .. Tries /\ 1 \in 0 .. Tries /\ started + 1 \in 0 .. MaxRuns
      /\ 0 \in 0 .. MaxAttempts
  BY <1>2
<1>6. NoValues \in Values
  BY DEF NoValues, Values
<1>7. x \in RunType
  BY <1>4, <1>5, <1>6 DEF NoRun, RunType
<1>8. x.try = 1 /\ x.regenerated = FALSE /\ x.calls = 0
  BY DEF NoRun
<1>9. Invoke(r, x)
  BY <1>3
<1>. HIDE DEF x
<1>10. Moved(r)
  BY <1>5, <1>7, <1>8, <1>9, BudgetFacts, InvokeStep
<1>11. Checkpointed
  BY DEF Start, Checkpointed, IInv
<1>. QED BY <1>2, <1>10, <1>11

LEMMA RetrieveStep ==
  ASSUME IInv, NEW r \in Run, Retrieve(r)
  PROVE  Moved(r) /\ Checkpointed
<1> DEFINE x == run[r]
<1>1. /\ RunOK(x) /\ x \in RunType /\ x.lane \in Lane /\ x.values \in Values
      /\ x.node = "retrieve_context" /\ x.node \in NodesOf(x.lane) /\ x.try \in 1 .. Tries
      /\ x.id \in 0 .. MaxRuns /\ (x.regenerated => x.lane = "question")
  BY DEF IInv, SlotOK, RunOK, RunType, Resting, Retrieve, At
<1>2. PICK s \in Searches :
        LET found  == IF s = "found" THEN x.id ELSE 0
            values == [x.values EXCEPT !["retrieve_context"] = found] IN
        IF s = "raised"
          THEN Fail(r, "retrieval")
          ELSE /\ Save(r, values)
               /\ Enter(r, [x EXCEPT !.values = values], RouteAfterRetrieval(x.lane))
  BY DEF Retrieve
<1>3. CASE s = "raised"
  BY <1>2, <1>3, FailStep
<1>4. CASE s # "raised"
  <2> DEFINE found  == IF s = "found" THEN x.id ELSE 0
             values == [x.values EXCEPT !["retrieve_context"] = found]
             y      == [x EXCEPT !.values = values]
             node   == RouteAfterRetrieval(x.lane)
  <2>1. found \in 0 .. MaxRuns
    BY <1>1
  <2>. HIDE DEF found
  <2>2. values \in Values
    BY <1>1, <2>1 DEF Values
  <2>3. Save(r, values) /\ Enter(r, y, node)
    BY <1>2, <1>4 DEF found
  <2>. HIDE DEF values
  <2>4. Checkpointed
    BY <2>2, <2>3 DEF Save, Checkpointed, IInv
  <2>5. y \in RunType
    BY <1>1, <2>2 DEF RunType
  <2>6. /\ y.lane = x.lane /\ y.try = x.try /\ y.calls = x.calls
        /\ y.regenerated = x.regenerated
    BY <1>1 DEF RunType
  <2>. HIDE DEF y
  <2>7. node \in NodesOf(x.lane) /\ OwnAt(node) = {}
    BY <1>1 DEF NodesOf, RouteAfterRetrieval, OwnAt, Plain, Lane
  <2>8. y.calls <= Before(y, node)
    <3>1. CASE x.lane = "answer"
      <4>1. node = "evaluate_answer"
        BY <3>1 DEF RouteAfterRetrieval
      <4>2. Before(y, node) = Budget(y.try - 1)
        BY <4>1 DEF Before, Plain
      <4>. QED BY <1>1, <2>6, <3>1, <4>2, Spent
    <3>2. CASE x.lane # "answer"
      <4>1. node = "generate_question"
        BY <3>2 DEF RouteAfterRetrieval
      <4>2. Before(y, node) = Again1(y)
        BY <4>1 DEF Before, Plain
      <4>3. Again1(y) = Again1(x)
        BY <2>6 DEF Again1
      <4>. QED BY <1>1, <2>6, <3>2, <4>2, <4>3, Spent
    <3>. QED BY <3>1, <3>2
  <2>9. MayEnter(y, node)
    BY <1>1, <2>5, <2>6, <2>7, <2>8 DEF MayEnter
  <2>. QED BY <2>3, <2>4, <2>9, EnterStep DEF Moved
<1>. QED BY <1>3, <1>4

\* A structured node that gives up starts the graph again, or ends the run.
LEMMA StructuredFailsStep ==
  ASSUME IInv, NEW r \in Run, run[r].node \in Structured, StructuredFails(r)
  PROVE  Moved(r) /\ Checkpointed
<1> DEFINE x == run[r]
<1>1. /\ RunOK(x) /\ x \in RunType /\ x.try \in 1 .. Tries /\ x.calls \in Nat
      /\ x.node \in NodesOf(x.lane) /\ (x.regenerated => x.lane = "question")
  BY DEF IInv, SlotOK, RunOK, RunType, Resting, Structured
<1>2. CASE x.lane = "answer" /\ x.try < Tries
  <2> DEFINE y == [x EXCEPT !.try = @ + 1]
  <2>1. Invoke(r, y) /\ thread' = thread
    BY <1>2 DEF StructuredFails
  <2>2. x.try + 1 \in 1 .. Tries /\ x.try + 1 \in 0 .. Tries
    BY <1>1, <1>2
  <2>3. y \in RunType
    BY <1>1, <2>2 DEF RunType
  <2>4. /\ y.try = x.try + 1 /\ y.lane = x.lane /\ y.calls = x.calls
        /\ y.regenerated = x.regenerated
    BY <1>1 DEF RunType
  <2>. HIDE DEF y
  <2>5. x.calls <= Budget(x.try)
    <3>1. x.node \in {"evaluate_answer", "interviewer_reasoning"}
      BY <1>1, <1>2 DEF NodesOf, Structured, Plain
    <3>. QED BY <1>1, <3>1, Spent
  <2>6. y.try - 1 = x.try
    BY <1>1, <2>4
  <2>7. y.calls <= IF y.lane = "answer" THEN Budget(y.try - 1) ELSE 0
    BY <1>2, <2>4, <2>5, <2>6
  <2>8. Moved(r)
    BY <1>1, <2>1, <2>2, <2>3, <2>4, <2>7, InvokeStep
  <2>. QED BY <2>1, <2>8 DEF Checkpointed, IInv
<1>3. CASE ~(x.lane = "answer" /\ x.try < Tries)
  <2>1. Fail(r, "structured_output")
    BY <1>3 DEF StructuredFails
  <2>2. x.lane = "answer" => x.try = Tries
    BY <1>1, <1>3
  <2>. QED BY <2>1, <2>2, FailStep
<1>. QED BY <1>2, <1>3

\* The next attempt at the same node asks once more.
LEMMA AgainStep ==
  ASSUME IInv, NEW r \in Run, run[r].node \in Structured, run[r].attempt < MaxAttempts,
         Again(r)
  PROVE  Moved(r) /\ Checkpointed
<1> DEFINE x == run[r]
           y == [x EXCEPT !.attempt = @ + 1, !.calls = @ + 1]
           c == Ask(TaskOf(x.node), FALSE)
<1>1. /\ RunOK(x) /\ x \in RunType /\ x.try \in 1 .. Tries /\ x.calls \in Nat
      /\ x.node \in NodesOf(x.lane) /\ x.lane \in Lane /\ x.attempt \in 0 .. MaxAttempts
      /\ x.calls <= Allowed(x)
  BY DEF IInv, SlotOK, RunOK, RunType, Resting, Structured
<1>2. x.node \in {"evaluate_answer", "interviewer_reasoning", "generate_hint"}
  BY DEF Structured
<1>3. run' = [run EXCEPT ![r] = y] /\ call' = [call EXCEPT ![r] = c] /\ thread' = thread
  BY DEF Again, Become, Set
<1>4. CallOK(c) /\ c.step # "idle"
  <2>1. TaskOf(x.node) \in TextTask
    BY <1>2, TaskTyped DEF Node
  <2>. QED BY <2>1, AskOK
<1>5. x.attempt + 1 \in 0 .. MaxAttempts /\ x.calls + 1 \in Nat
  BY <1>1
<1>6. y \in RunType
  BY <1>1, <1>5 DEF RunType
<1>7. /\ y.node = x.node /\ y.attempt = x.attempt + 1 /\ y.calls = x.calls + 1
      /\ y.lane = x.lane /\ y.try = x.try /\ y.regenerated = x.regenerated
      /\ y.values = x.values /\ y.id = x.id
  BY <1>1 DEF RunType
<1>. HIDE DEF y, c
<1>8. Budget(x.try - 1) \in Nat
  BY <1>1, BudgetFacts
<1>9. Allowed(y) = Allowed(x) + 1 /\ Allowed(x) \in Nat
  BY <1>1, <1>2, <1>7, <1>8 DEF Allowed, Plain
<1>10. y.calls <= Allowed(y)
  BY <1>1, <1>7, <1>9
<1>11. Own(y) = Own(x)
  BY <1>2, <1>7 DEF Own
<1>12. y.node \notin Resting /\ y.node \in Asks
  BY <1>2, <1>7 DEF Resting, Asks, Structured
<1>13. RunOK(y)
  BY <1>1, <1>6, <1>7, <1>10, <1>11, <1>12 DEF RunOK, Resting
<1>. QED BY <1>3, <1>4, <1>12, <1>13 DEF SlotOK, Moved, Checkpointed, IInv

LEMMA StructuredNodeStep ==
  ASSUME IInv, NEW r \in Run, NEW c, StructuredNode(r, c)
  PROVE  Moved(r) /\ Checkpointed
<1>1. run[r].node \in Structured
  BY DEF StructuredNode
<1>2. run[r].node \in Asks \cup Plain
  BY <1>1 DEF Asks
<1>3. \/ StructuredFails(r) \/ Finish(r)
      \/ run[r].attempt < MaxAttempts /\ Again(r)
  BY DEF StructuredNode
<1>. QED BY <1>1, <1>2, <1>3, StructuredFailsStep, FinishStep, AgainStep

\* A second question starts from retrieval with one call behind it.
LEMMA RegenerateStep ==
  ASSUME IInv, NEW r \in Run, run[r].node = "generate_question", Regenerate(r)
  PROVE  Moved(r) /\ Checkpointed
<1> DEFINE x      == run[r]
           values == [x.values EXCEPT !["generate_question"] = x.id]
           y      == [x EXCEPT !.regenerated = TRUE, !.values = values]
<1>1. /\ RunOK(x) /\ x \in RunType /\ x.try \in 1 .. Tries /\ x.values \in Values
      /\ x.id \in 0 .. MaxRuns /\ x.lane = "question" /\ x.regenerated = FALSE
  BY DEF IInv, SlotOK, RunOK, RunType, Resting, Regenerate
<1>2. Save(r, values) /\ Enter(r, y, "retrieve_context")
  BY DEF Regenerate
<1>3. values \in Values
  BY <1>1 DEF Values
<1>. HIDE DEF values
<1>4. Checkpointed
  BY <1>2, <1>3 DEF Save, Checkpointed, IInv
<1>5. y \in RunType
  BY <1>1, <1>3 DEF RunType
<1>6. y.lane = "question" /\ y.try = x.try /\ y.calls = x.calls /\ y.regenerated = TRUE
  BY <1>1 DEF RunType
<1>. HIDE DEF y
<1>7. y.calls <= Before(y, "retrieve_context")
  <2>1. x.calls <= Again1(x) + 1
    BY <1>1, Spent
  <2>2. Again1(x) = 0 /\ Again1(y) = 1
    BY <1>1, <1>6 DEF Again1
  <2>3. Before(y, "retrieve_context") = Again1(y)
    BY <1>6 DEF Before, Plain
  <2>. QED BY <1>6, <2>1, <2>2, <2>3
<1>8. MayEnter(y, "retrieve_context")
  BY <1>1, <1>5, <1>6, <1>7 DEF MayEnter, NodesOf, OwnAt, Plain
<1>. QED BY <1>2, <1>4, <1>8, EnterStep DEF Moved

LEMMA QuestionNodeStep ==
  ASSUME IInv, NEW r \in Run, NEW c, c.step = "failed" => c.error \in AIErrors,
         QuestionNode(r, c)
  PROVE  Moved(r) /\ Checkpointed
<1>1. run[r].node = "generate_question" /\ run[r].node \in Asks
  BY DEF QuestionNode, Streaming, Asks
<1>2. run[r].lane # "answer"
  <2>1. run[r].node \in NodesOf(run[r].lane) \cup Resting
    BY DEF IInv, SlotOK, RunOK
  <2>. QED BY <1>1, <2>1 DEF NodesOf, Plain, Resting
<1>3. \/ c.error \in AIErrors /\ Fail(r, c.error)
      \/ Fail(r, "validation_failed") \/ Fail(r, "value_error")
      \/ Finish(r) \/ Regenerate(r)
  BY DEF QuestionNode, NoQuestion, UnknownLabel
<1>4. CASE c.error \in AIErrors /\ Fail(r, c.error)
  BY <1>2, <1>4, FailStep
<1>5. CASE Fail(r, "validation_failed") \/ Fail(r, "value_error")
  BY <1>2, <1>5, FailStep
<1>6. CASE Finish(r)
  BY <1>1, <1>6, FinishStep
<1>7. CASE Regenerate(r)
  BY <1>1, <1>7, RegenerateStep
<1>. QED BY <1>3, <1>4, <1>5, <1>6, <1>7

LEMMA ReportNodeStep ==
  ASSUME IInv, NEW r \in Run, NEW c, c.step = "failed" => c.error \in AIErrors,
         ReportNode(r, c)
  PROVE  Moved(r) /\ Checkpointed
<1>1. run[r].node = "generate_report" /\ run[r].node \in Asks
  BY DEF ReportNode, At, Asks
<1>2. run[r].lane # "answer"
  <2>1. run[r].node \in NodesOf(run[r].lane) \cup Resting
    BY DEF IInv, SlotOK, RunOK
  <2>. QED BY <1>1, <2>1 DEF NodesOf, Plain, Resting
<1>3. (c.error \in AIErrors /\ Fail(r, c.error)) \/ Finish(r)
  BY DEF ReportNode
<1>. QED BY <1>1, <1>2, <1>3, FailStep, FinishStep

LEMMA ModelCallStep ==
  ASSUME IInv, NEW r \in Run, ModelCall(r)
  PROVE  Moved(r) /\ Checkpointed
<1>1. SlotOK(run[r], call[r])
  BY DEF IInv
<1>2. PICK d \in Answers(call[r]) :
        \/ d.step \notin Ended /\ Set(r, d) /\ run' = run /\ thread' = thread
        \/ d.step \in Ended /\ (StructuredNode(r, d) \/ QuestionNode(r, d) \/ ReportNode(r, d))
  BY DEF ModelCall
<1>3. call[r].step # "idle"
  BY DEF Answers, ModelCall
<1>4. /\ d.step \in {"asking", "streaming", "answered", "failed"}
      /\ d.step \notin Ended => CallOK(d)
      /\ d.step = "failed" => d.error \in AIErrors
  BY <1>1, <1>3, AnswersOK DEF SlotOK
<1>5. CASE d.step \in Ended
  BY <1>2, <1>4, <1>5, StructuredNodeStep, QuestionNodeStep, ReportNodeStep
<1>6. CASE d.step \notin Ended
  <2>1. call' = [call EXCEPT ![r] = d] /\ run' = run /\ thread' = thread
    BY <1>2, <1>6 DEF Set
  <2>2. run' = [run EXCEPT ![r] = run[r]]
    BY <2>1 DEF IInv
  <2>3. SlotOK(run[r], d)
    BY <1>1, <1>3, <1>4, <1>6 DEF SlotOK
  <2>4. Checkpointed
    BY <2>1 DEF Checkpointed, IInv
  <2>. QED BY <2>1, <2>2, <2>3, <2>4 DEF Moved
<1>. QED BY <1>5, <1>6

\* Nothing is left of a run that was cancelled, or whose result was taken.
LEMMA ReleaseStep ==
  ASSUME IInv, NEW r \in Run, Cancel(r) \/ Done(r)
  PROVE  Moved(r) /\ Checkpointed
<1>1. SlotOK(NoRun, NoCall)
  <2>1. NoValues \in Values /\ 0 \in 0 .. MaxAttempts
    BY DEF NoValues, Values
  <2>2. NoRun \in RunType
    BY <2>1 DEF NoRun, RunType, Lane
  <2>3. /\ NoRun.node = "idle" /\ NoRun.lane = "question" /\ NoRun.calls = 0
        /\ NoRun.regenerated = FALSE
    BY DEF NoRun
  <2>4. Allowed(NoRun) = 2 /\ Own(NoRun) = {}
    BY <2>3 DEF Allowed, Limit, Own, OwnAt, Plain
  <2>5. RunOK(NoRun)
    BY <2>2, <2>3, <2>4 DEF RunOK, Resting
  <2>. QED BY <2>3, <2>5, NoCallOK DEF SlotOK, NoCall, Asks, Structured, Streaming
<1>2. CASE Cancel(r)
  BY <1>1, <1>2 DEF Cancel, Become, Set, Moved, Checkpointed, IInv
<1>3. CASE Done(r)
  <2>1. call[r].step = "idle" /\ CallOK(call[r])
    BY <1>3 DEF IInv, SlotOK, Done, Asks, Structured, Streaming
  <2>2. SlotOK(NoRun, call[r])
    BY <1>1, <2>1 DEF SlotOK, NoCall
  <2>3. call' = [call EXCEPT ![r] = call[r]]
    BY <1>3 DEF Done, IInv
  <2>. QED BY <1>3, <2>2, <2>3 DEF Done, Become, Moved, Checkpointed, IInv
<1>. QED BY <1>2, <1>3

LEMMA NextInv == IInv /\ [Next]_vars => IInv'
<1> SUFFICES ASSUME IInv, [Next]_vars PROVE IInv'
  OBVIOUS
<1>1. ASSUME NEW r \in Run, Moved(r), Checkpointed, providers' = providers, mode' = mode,
             started' \in 0 .. MaxRuns
      PROVE  IInv'
  BY <1>1, SlotStep DEF Moved, Checkpointed
<1>2. started \in 0 .. MaxRuns
  BY DEF IInv
<1>3. ASSUME NEW r \in Run, Start(r) PROVE IInv'
  BY <1>1, <1>3, StartStep DEF Start
<1>4. ASSUME NEW r \in Run, Retrieve(r) PROVE IInv'
  BY <1>1, <1>2, <1>4, RetrieveStep DEF Retrieve
<1>5. ASSUME NEW r \in Run, PlainNode(r) PROVE IInv'
  <2>1. run[r].node \in Asks \cup Plain /\ Finish(r)
    BY <1>5 DEF PlainNode
  <2>. QED BY <1>1, <1>2, <1>5, <2>1, FinishStep DEF PlainNode
<1>6. ASSUME NEW r \in Run, ModelCall(r) PROVE IInv'
  BY <1>1, <1>2, <1>6, ModelCallStep DEF ModelCall
<1>7. ASSUME NEW r \in Run, Unsent(r) PROVE IInv'
  <2>1. call[r].step = "failed" => call[r].error \in AIErrors
    BY DEF IInv, SlotOK, CallOK
  <2>2. StructuredNode(r, call[r]) \/ QuestionNode(r, call[r]) \/ ReportNode(r, call[r])
    BY <1>7 DEF Unsent
  <2>3. Moved(r) /\ Checkpointed
    BY <2>1, <2>2, StructuredNodeStep, QuestionNodeStep, ReportNodeStep
  <2>. QED BY <1>1, <1>2, <1>7, <2>3 DEF Unsent
<1>8. ASSUME NEW r \in Run, Cancel(r) \/ Done(r) PROVE IInv'
  BY <1>1, <1>2, <1>8, ReleaseStep DEF Cancel, Done
<1>9. CASE UNCHANGED vars
  BY <1>9 DEF IInv, vars
<1>. QED BY <1>3, <1>4, <1>5, <1>6, <1>7, <1>8, <1>9 DEF Next, GraphStep

-----------------------------------------------------------------------------
(* The theorems.                                                           *)

\* The inductive invariant holds in every reachable state, whatever fails, is
\* tried again, overlaps or is cancelled.
THEOREM Invariance == Spec => []IInv
<1>. QED BY InitInv, NextInv, PTL DEF Spec

\* Every variable keeps its type, and a run awaits a model exactly at the nodes
\* that call one (workflow.py, structured.py).
THEOREM TypeCorrect == Spec => []TypeOK
<1>1. IInv => TypeOK
  BY DEF IInv, TypeOK, SlotOK, Asks
<1>. QED BY <1>1, Invariance, PTL

\* The service never stores a question, an evaluation, a directive, a hint or a
\* report of another run than the one it asked for: no thread's checkpoint, left
\* by a cancelled or overlapping run, reaches a result (workflow.py:315).
THEOREM FreshTheorem == Spec => []FreshOutput
<1>1. ASSUME IInv, NEW r \in Run, At(r, "returned"), NEW n \in Returns(run[r].lane)
      PROVE  run[r].values[n] = run[r].id
  BY <1>1 DEF IInv, SlotOK, RunOK, Own, At
<1>2. IInv => FreshOutput
  BY <1>1 DEF FreshOutput
<1>. QED BY <1>2, Invariance, PTL

\* One operation asks the models at most Tries * 2 * MaxAttempts times for an
\* answer, twice for a question, MaxAttempts times for a hint and once otherwise
\* (structured.py:71, service.py:764, service.py:447).
THEOREM CallsTheorem == Spec => []CallsAreBounded
<1>1. ASSUME IInv, NEW r \in Run
      PROVE  run[r].calls <= CASE run[r].lane = "question" -> 2
                               [] run[r].lane = "answer" -> Tries * (2 * MaxAttempts)
                               [] run[r].lane = "hint" -> MaxAttempts
                               [] OTHER -> 1
  <2>1. RunOK(run[r]) /\ run[r] \in RunType
    BY <1>1 DEF IInv, SlotOK
  <2>2. run[r].calls <= Limit(run[r].lane)
    BY <2>1, AllowedWithinLimit
  <2>. QED BY <2>2 DEF Limit, Budget
<1>2. IInv => CallsAreBounded
  BY <1>1 DEF CallsAreBounded
<1>. QED BY <1>2, Invariance, PTL

\* No evaluation of a stored answer is given up for a model's failure before the
\* whole graph has been tried Tries times (service.py:758).
THEOREM RetryTheorem == Spec => []SurfacesAfterRetry
<1>1. IInv => SurfacesAfterRetry
  BY DEF IInv, SlotOK, RunOK, SurfacesAfterRetry, At
<1>. QED BY <1>1, Invariance, PTL
=============================================================================
