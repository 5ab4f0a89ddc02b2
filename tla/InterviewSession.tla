-------------------------- MODULE InterviewSession --------------------------
(***************************************************************************)
(* One interview session, its rows in PostgreSQL and the requests that     *)
(* work on it at the same time (interview/service.py).                     *)
(*                                                                         *)
(* Every HTTP request has an AsyncSession of its own: it reads what is     *)
(* committed (READ COMMITTED), awaits the model or the database, and       *)
(* writes in one transaction at the end.  A request is therefore a         *)
(* sequence of steps, and any other request may run between two of them.   *)
(* The ORM object a request has read is never refreshed, and an UPDATE     *)
(* writes the whole column, so the config a request writes is the config   *)
(* it read plus its own change.                                            *)
(*                                                                         *)
(* A flushed INSERT under a unique constraint is a lock: another request   *)
(* that inserts the same key waits for the first to commit or to roll      *)
(* back.  A request's uncommitted rows are its fields in req[r].           *)
(***************************************************************************)
EXTENDS InterviewStates, Integers, Sequences, FiniteSetsExt

CONSTANTS
  Req,           \* concurrently served requests (request slots)
  Snapshot,      \* the grounding snapshots InterviewContextBuilder may build
  Key,           \* idempotency keys
  None,          \* no snapshot, no key
  Moves,         \* targets of the pause, resume and cancel requests clients send
  MaxQuestions,  \* bound: question ids drawn from the sequence
  MaxHints,      \* bound: hints_used of a turn
  MaxFeedback    \* bound: interview_feedback rows

ASSUME NoneAssumption == None \notin Snapshot \cup Key
ASSUME MovesAssumption == Moves \subseteq {"paused", "questioning", "cancelled"}
ASSUME ReqAssumption == IsFiniteSet(Req)
ASSUME BoundsAssumption ==
  /\ MaxQuestions \in Nat
  /\ MaxHints \in Nat
  /\ MaxFeedback \in Nat

VARIABLES
  status,        \* interview_session.status
  config,        \* interview_session.config
  questions,     \* question rows, each with the seq of its turn
  answers,       \* answer rows, each with the seq of its turn (its identity)
  evaluations,   \* evaluation rows: the answers that have one
  keys,          \* idempotency_record rows of scope answer:<session>
  hints,         \* interview_turn.hints_used of each question's turn
  feedback,      \* interview_feedback rows: the evaluations each aggregates
  qids,          \* last value drawn from the question id sequence
  req            \* what each request in flight holds

rows == <<status, config, questions, answers, evaluations, keys, hints,
          feedback, qids>>
vars == <<status, config, questions, answers, evaluations, keys, hints,
          feedback, qids, req>>

QuestionId == 1 .. MaxQuestions

\* The JSONB config: the snapshot, the questions coverage was marked for,
\* the questions with a follow-up directive, and the coverage the gaps were
\* computed from.
Config == [context : Snapshot \cup {None}, coverage : SUBSET QuestionId,
           directives : SUBSET QuestionId, gaps : SUBSET QuestionId]

PC == {"idle", "begin_commit", "status_commit", "stop_evals", "stop_commit",
       "question_llm", "question_seq", "question_turn", "question_commit",
       "answer_key", "answer_seq", "answer_turn", "answer_commit",
       "eval_read", "eval_llm", "eval_commit", "hint_commit"}

\* The config as create_session writes it.
NewConfig == [context |-> None, coverage |-> {}, directives |-> {}, gaps |-> {}]

\* The locals of a request that does nothing.
Idle == [pc |-> "idle", cfg |-> NewConfig, target |-> "created", q |-> 0,
         seq |-> 0, key |-> None, n |-> 0, evaluate |-> FALSE, evals |-> {}]

-----------------------------------------------------------------------------
(* What the committed rows say.                                            *)

\* Mutant: a question counts as soon as its id is drawn.
QuestionIds_Drawn == 1 .. qids
QuestionIds == {q.id : q \in questions}
AnsweredIds == {a.question : a \in answers}
EvaluatedIds == {a.question : a \in {b \in answers : b.seq \in evaluations}}
Turns == {q.seq : q \in questions} \cup {a.seq : a \in answers}

\* turns.max_seq, 0 without turns.
MaxSeq == IF Turns = {} THEN 0 ELSE Max(Turns)

\* answers.get_by_question: some answer row of the question.
AnswersTo(q) == {a \in answers : a.question = q}

\* Mutant: the snapshot is built and never stored.
EnsureContext_Never(cfg, snapshot) == cfg

\* _ensure_context: the snapshot is built only when the config has none.
EnsureContext(cfg, snapshot) ==
  IF cfg.context = None THEN [cfg EXCEPT !.context = snapshot] ELSE cfg

(* Uncommitted unique keys of the other requests.                          *)

\* Mutant: the (session, seq) index does not lock.
SeqLocked_Never(r) == FALSE
SeqLocked(r) ==
  \E o \in Req \ {r} : /\ req[o].pc \in {"question_commit", "answer_commit"}
                       /\ req[o].seq = req[r].seq

\* Mutant: the (scope, key) index does not lock.
KeyLocked_Never(r) == FALSE
KeyLocked(r) ==
  \E o \in Req \ {r} : /\ req[o].pc \in {"answer_seq", "answer_turn", "answer_commit"}
                       /\ req[o].key = req[r].key

EvaluationLocked(r) ==
  \E o \in Req \ {r} : /\ req[o].pc = "eval_commit"
                       /\ req[o].seq = req[r].seq

Become(r, locals) == req' = [req EXCEPT ![r] = locals]
At(r, pc) == req[r].pc = pc

-----------------------------------------------------------------------------
\* A freshly created session: the state create_session commits.
Init ==
  /\ status = "created"
  /\ config = NewConfig
  /\ questions = {}
  /\ answers = {}
  /\ evaluations = {}
  /\ keys = {}
  /\ hints = [q \in QuestionId |-> 0]
  /\ feedback = << >>
  /\ qids = 0
  /\ req = [r \in Req |-> Idle]

-----------------------------------------------------------------------------
(* begin: planning, then questioning, one transaction.                     *)

BeginRead(r) ==
  /\ At(r, "idle")
  /\ BeginIsLegal(status)
  /\ Become(r, [Idle EXCEPT !.pc = "begin_commit", !.cfg = config])
  /\ UNCHANGED rows

\* The config column is written only when the snapshot was missing.
BeginCommit(r) ==
  /\ At(r, "begin_commit")
  /\ status' = "questioning"
  /\ \E snapshot \in Snapshot :
       config' = IF req[r].cfg.context = None
                   THEN EnsureContext(req[r].cfg, snapshot)
                   ELSE config
  /\ Become(r, Idle)
  /\ UNCHANGED <<questions, answers, evaluations, keys, hints, feedback, qids>>

(* pause, resume, cancel: read the row, check the transition, write it.    *)

StatusRead(r, target) ==
  /\ At(r, "idle")
  /\ IsLegal(status, target)
  /\ Become(r, [Idle EXCEPT !.pc = "status_commit", !.target = target])
  /\ UNCHANGED rows

StatusCommit(r) ==
  /\ At(r, "status_commit")
  /\ status' = req[r].target
  /\ Become(r, Idle)
  /\ UNCHANGED <<config, questions, answers, evaluations, keys, hints, feedback, qids>>

(* stop: as above, and the prep-memory row is aggregated in between.       *)

StopRead(r) ==
  /\ At(r, "idle")
  /\ IsLegal(status, "completed")
  /\ Len(feedback) + Cardinality({o \in Req : req[o].pc \in {"stop_evals", "stop_commit"}})
       < MaxFeedback
  /\ Become(r, [Idle EXCEPT !.pc = "stop_evals"])
  /\ UNCHANGED rows

\* _evaluations_for_session takes one answer of each question.
StopEvals(r) ==
  /\ At(r, "stop_evals")
  /\ \E first \in [AnsweredIds -> answers] :
       /\ \A q \in AnsweredIds : first[q] \in AnswersTo(q)
       /\ Become(r, [req[r] EXCEPT !.pc = "stop_commit",
                       !.evals = {first[q].seq : q \in AnsweredIds} \cap evaluations])
  /\ UNCHANGED rows

\* Mutant: the early return on no evaluations is dropped.
StopCommit_Always(r) ==
  /\ At(r, "stop_commit")
  /\ status' = "completed"
  /\ feedback' = Append(feedback, req[r].evals)
  /\ Become(r, Idle)
  /\ UNCHANGED <<config, questions, answers, evaluations, keys, hints, qids>>

\* No row is written for a session without evaluations.
StopCommit(r) ==
  /\ At(r, "stop_commit")
  /\ status' = "completed"
  /\ feedback' = IF req[r].evals = {} THEN feedback ELSE Append(feedback, req[r].evals)
  /\ Become(r, Idle)
  /\ UNCHANGED <<config, questions, answers, evaluations, keys, hints, qids>>

-----------------------------------------------------------------------------
(* next_question.                                                          *)

\* The requests about to draw a question id (they bound it).
Generating == {o \in Req : req[o].pc = "question_llm"}

NextRead(r) ==
  /\ At(r, "idle")
  /\ status \in Questioning
  /\ qids + Cardinality(Generating) < MaxQuestions
  /\ \E snapshot \in Snapshot :
       Become(r, [Idle EXCEPT !.pc = "question_llm",
                              !.cfg = EnsureContext(config, snapshot)])
  /\ UNCHANGED rows

\* Mutant: the id is read before the sequence is advanced.
QuestionFlush_StaleId(r) ==
  /\ At(r, "question_llm")
  /\ qids' = qids + 1
  /\ Become(r, [req[r] EXCEPT !.pc = "question_seq", !.q = qids])
  /\ UNCHANGED <<status, config, questions, answers, evaluations, keys, hints, feedback>>

\* Mutant: coverage is marked, and committed, before the turn is stored.
QuestionFlush_MarksCoverage(r) ==
  /\ At(r, "question_llm")
  /\ qids' = qids + 1
  /\ config' = [config EXCEPT !.coverage = @ \cup {qids + 1}]
  /\ Become(r, [req[r] EXCEPT !.pc = "question_seq", !.q = qids + 1])
  /\ UNCHANGED <<status, questions, answers, evaluations, keys, hints, feedback>>

\* The workflow answered; the question row is flushed and draws its id.
QuestionFlush(r) ==
  /\ At(r, "question_llm")
  /\ qids' = qids + 1
  /\ Become(r, [req[r] EXCEPT !.pc = "question_seq", !.q = qids + 1])
  /\ UNCHANGED <<status, config, questions, answers, evaluations, keys, hints, feedback>>

QuestionSeq(r) ==
  /\ At(r, "question_seq")
  /\ Become(r, [req[r] EXCEPT !.pc = "question_turn", !.seq = MaxSeq + 1])
  /\ UNCHANGED rows

\* Mutant: a taken seq is waited for, not reported.
InsertTurn_Waits(r, from, to) ==
  /\ At(r, from)
  /\ ~SeqLocked(r) /\ req[r].seq \notin Turns
  /\ Become(r, [req[r] EXCEPT !.pc = to])
  /\ UNCHANGED rows

\* Unique (session, seq): wait for an uncommitted one, fail on a committed one.
InsertTurn(r, from, to) ==
  /\ At(r, from)
  /\ ~SeqLocked(r)
  /\ Become(r, IF req[r].seq \in Turns THEN Idle ELSE [req[r] EXCEPT !.pc = to])
  /\ UNCHANGED rows

QuestionTurn(r) == InsertTurn(r, "question_turn", "question_commit")

\* _mark_coverage rewrites the config the request read at its start.
QuestionCommit(r) ==
  /\ At(r, "question_commit")
  /\ questions' = questions \cup {[id |-> req[r].q, seq |-> req[r].seq]}
  /\ config' = [req[r].cfg EXCEPT !.coverage = @ \cup {req[r].q}]
  /\ Become(r, Idle)
  /\ UNCHANGED <<status, answers, evaluations, keys, hints, feedback, qids>>

-----------------------------------------------------------------------------
(* submit_answer; a question that has an answer is left alone.             *)

\* Mutant: the existing answer is not looked up.
SubmitRead_NoReplay(r, q, key, evaluate) ==
  /\ At(r, "idle")
  /\ status \in Questioning
  /\ q \in QuestionIds
  /\ Become(r, [Idle EXCEPT !.pc = "answer_key", !.q = q, !.key = key,
                            !.evaluate = evaluate])
  /\ UNCHANGED rows

SubmitRead(r, q, key, evaluate) ==
  /\ At(r, "idle")
  /\ status \in Questioning
  /\ q \in QuestionIds
  /\ AnswersTo(q) = {}
  /\ Become(r, [Idle EXCEPT !.pc = "answer_key", !.q = q, !.key = key,
                            !.evaluate = evaluate])
  /\ UNCHANGED rows

\* check_and_record, skipped without a key.
AnswerKey(r) ==
  /\ At(r, "answer_key")
  /\ req[r].key # None => ~KeyLocked(r)
  /\ Become(r, IF req[r].key \in keys THEN Idle ELSE [req[r] EXCEPT !.pc = "answer_seq"])
  /\ UNCHANGED rows

AnswerSeq(r) ==
  /\ At(r, "answer_seq")
  /\ Become(r, [req[r] EXCEPT !.pc = "answer_turn", !.seq = MaxSeq + 1])
  /\ UNCHANGED rows

AnswerTurn(r) == InsertTurn(r, "answer_turn", "answer_commit")

\* The answer, its turn and its key become durable together; the text API
\* goes on to the evaluation, the voice path returns.
AnswerCommit(r) ==
  /\ At(r, "answer_commit")
  /\ answers' = answers \cup
       {[question |-> req[r].q, seq |-> req[r].seq, key |-> req[r].key]}
  /\ keys' = keys \cup ({req[r].key} \ {None})
  /\ Become(r, IF req[r].evaluate THEN [Idle EXCEPT !.pc = "eval_read", !.q = req[r].q]
                                  ELSE Idle)
  /\ UNCHANGED <<status, config, questions, evaluations, hints, feedback, qids>>

-----------------------------------------------------------------------------
(* evaluate_answer, also called on its own by the voice engine.            *)

EvaluateStart(r, q) ==
  /\ At(r, "idle")
  /\ q \in AnsweredIds
  /\ Become(r, [Idle EXCEPT !.pc = "eval_read", !.q = q])
  /\ UNCHANGED rows

\* The status is checked again, and the row is read afresh.
EvalRead(r) ==
  /\ At(r, "eval_read")
  /\ \/ /\ status \in Questioning
        /\ \E a \in AnswersTo(req[r].q), snapshot \in Snapshot :
             Become(r, [req[r] EXCEPT !.pc = "eval_llm", !.seq = a.seq,
                                      !.cfg = EnsureContext(config, snapshot)])
     \/ /\ status \notin Questioning
        /\ Become(r, Idle)
  /\ UNCHANGED rows

\* A malformed first result is retried once.
EvalRetry(r) ==
  /\ At(r, "eval_llm")
  /\ req[r].n = 0
  /\ Become(r, [req[r] EXCEPT !.n = 1])
  /\ UNCHANGED rows

\* Unique evaluation.answer_id: wait, or fail.
EvalInsert(r) ==
  /\ At(r, "eval_llm")
  /\ ~EvaluationLocked(r)
  /\ Become(r, IF req[r].seq \in evaluations THEN Idle
                                            ELSE [req[r] EXCEPT !.pc = "eval_commit"])
  /\ UNCHANGED rows

\* _persist_directive (when the model gave its reasoning) and _update_gaps
\* rewrite the config the request read before the model ran.
EvalCommit(r) ==
  /\ At(r, "eval_commit")
  /\ evaluations' = evaluations \cup {req[r].seq}
  /\ \E directive \in {{}, {req[r].q}} :
       config' = [req[r].cfg EXCEPT !.directives = @ \cup directive,
                                    !.gaps = req[r].cfg.coverage]
  /\ Become(r, Idle)
  /\ UNCHANGED <<status, questions, answers, keys, hints, feedback, qids>>

-----------------------------------------------------------------------------
(* request_hint: hints_used is read before the model runs.                 *)

HintRead(r, q) ==
  /\ At(r, "idle")
  /\ status \in Questioning
  /\ q \in QuestionIds
  /\ hints[q] < MaxHints
  /\ Become(r, [Idle EXCEPT !.pc = "hint_commit", !.q = q, !.n = hints[q]])
  /\ UNCHANGED rows

HintCommit(r) ==
  /\ At(r, "hint_commit")
  /\ hints' = [hints EXCEPT ![req[r].q] = req[r].n + 1]
  /\ Become(r, Idle)
  /\ UNCHANGED <<status, config, questions, answers, evaluations, keys, feedback, qids>>

\* The request ends without committing: a model or database error, an
\* incomplete grounding, a second malformed evaluation, a process crash.
Abort(r) ==
  /\ ~At(r, "idle")
  /\ Become(r, Idle)
  /\ UNCHANGED rows

-----------------------------------------------------------------------------
\* A client sends a request.
Receive(r) ==
  \/ BeginRead(r)
  \/ \E target \in Moves : StatusRead(r, target)
  \/ StopRead(r)
  \/ NextRead(r)
  \/ \E q \in QuestionId, key \in Key \cup {None}, evaluate \in BOOLEAN :
       SubmitRead(r, q, key, evaluate)
  \/ \E q \in QuestionId : EvaluateStart(r, q) \/ HintRead(r, q)

\* A request in flight takes its next step.
Step(r) ==
  \/ BeginCommit(r) \/ StatusCommit(r)
  \/ StopEvals(r) \/ StopCommit(r)
  \/ QuestionFlush(r) \/ QuestionSeq(r) \/ QuestionTurn(r) \/ QuestionCommit(r)
  \/ AnswerKey(r) \/ AnswerSeq(r) \/ AnswerTurn(r) \/ AnswerCommit(r)
  \/ EvalRead(r) \/ EvalRetry(r) \/ EvalInsert(r) \/ EvalCommit(r)
  \/ HintCommit(r)

Next == \E r \in Req : Receive(r) \/ Step(r) \/ Abort(r)

Spec == Init /\ [][Next]_vars

\* The event loop runs every request that can run, and PostgreSQL wakes a
\* transaction that waits for another's unique key when the holder ends, so
\* it is not overtaken for ever (hence strong fairness).  Model calls have
\* timeouts: they end in an answer or in Abort.
FairSpec == Spec /\ \A r \in Req : SF_vars(Step(r))

-----------------------------------------------------------------------------
(* Properties.                                                             *)

Locals ==
  [pc : PC, cfg : Config, target : Statuses, q : 0 .. MaxQuestions, seq : Nat,
   key : Key \cup {None}, n : Nat, evaluate : BOOLEAN, evals : SUBSET Nat]

\* Every column and every local of a request in flight has its type.
TypeOK ==
  /\ status \in Statuses
  /\ config \in Config
  /\ questions \subseteq [id : QuestionId, seq : Nat]
  /\ answers \subseteq [question : QuestionId, seq : Nat, key : Key \cup {None}]
  /\ evaluations \subseteq Nat
  /\ keys \subseteq Key
  /\ hints \in [QuestionId -> Nat]
  /\ feedback \in Seq(SUBSET Nat)
  /\ qids \in 0 .. MaxQuestions
  /\ req \in [Req -> Locals]

\* The turns of a session are numbered 1, 2, 3, ... and no two rows share a
\* number, however the requests that number them (max_seq + 1, then an
\* insert) interleave, fail or abort.
TranscriptIsDense ==
  /\ Turns = 1 .. MaxSeq
  /\ \A x, y \in questions : x.seq = y.seq => x = y
  /\ \A x, y \in answers : x.seq = y.seq => x = y
  /\ \A x \in questions, y \in answers : x.seq # y.seq

\* An answer stands after the question it answers in the transcript, and a
\* row refers only to rows that exist: evaluations to answers.
AnswersFollowQuestions ==
  /\ \A a \in answers : \E q \in questions : q.id = a.question /\ q.seq < a.seq
  /\ evaluations \subseteq {a.seq : a \in answers}

\* check_and_record and the answer are one transaction: a recorded key
\* belongs to exactly one answer, and no aborted submission leaves its key
\* behind (the retry would be refused with nothing stored).
KeysIdentifyAnswers ==
  /\ keys = {a.key : a \in answers} \ {None}
  /\ \A x, y \in answers : x.key = y.key /\ x.key # None => x = y

\* No interview runs, and no question is asked, without the grounding
\* snapshot (_ensure_context is fail-fast): no late write of a stale config
\* takes the snapshot away again.
NeverUngrounded ==
  \/ config.context # None
  \/ status \in {"created", "cancelled"} /\ questions = {}

\* Whatever column writes are lost, the config names only rows that are
\* there: coverage committed questions, directives evaluated answers.
ConfigRefersToRows ==
  /\ config.coverage \cup config.gaps \subseteq QuestionIds
  /\ config.directives \subseteq EvaluatedIds

\* Prep memory aggregates evaluations that are stored, and never none.
FeedbackIsFounded ==
  \A i \in DOMAIN feedback : feedback[i] # {} /\ feedback[i] \subseteq evaluations

-----------------------------------------------------------------------------
(* What the requests in flight know.  The conjunction with the invariants  *)
(* above is inductive.                                                     *)

InsertingTurn == {"question_turn", "question_commit", "answer_turn", "answer_commit"}
TurnInserted == {"question_commit", "answer_commit"}
KeyInserted == {"answer_seq", "answer_turn", "answer_commit"}
Asking == {"question_llm", "question_seq", "question_turn", "question_commit"}
Answering == {"answer_key", "answer_seq", "answer_turn", "answer_commit"}
Evaluating == {"eval_llm", "eval_commit"}
Stopping == {"stop_evals", "stop_commit"}

\* The id bound is never overdrawn.
IdsInFlight == qids + Cardinality(Generating) <= MaxQuestions

\* A seq a request computed is at most one past the last committed one; an
\* inserted turn has a seq no committed or other inserted turn has.
SeqInFlight ==
  /\ MaxSeq \in Nat
  /\ \A r \in Req :
       /\ req[r].pc \in InsertingTurn => req[r].seq \in 1 .. MaxSeq + 1
       /\ req[r].pc \in TurnInserted =>
            /\ req[r].seq \notin Turns
            /\ \A o \in Req \ {r} :
                 req[o].pc \in TurnInserted => req[o].seq # req[r].seq

\* A submission answers a committed question, with a later seq and a key
\* nobody else has.
AnswerInFlight ==
  \A r \in Req :
    /\ req[r].pc \in Answering => req[r].q \in QuestionIds
    /\ req[r].pc \in {"answer_turn", "answer_commit"} =>
         \E q \in questions : q.id = req[r].q /\ q.seq < req[r].seq
    /\ req[r].pc \in KeyInserted /\ req[r].key # None =>
         /\ req[r].key \notin keys
         /\ \A o \in Req \ {r} :
              req[o].pc \in KeyInserted => req[o].key # req[r].key

\* A config to be written has the snapshot, and only coverage of committed
\* questions and directives of evaluated answers.
ConfigInFlight ==
  \A r \in Req :
    /\ req[r].pc \in Asking \cup Evaluating => req[r].cfg.context # None
    /\ req[r].cfg.context # None => config.context # None
    /\ req[r].cfg.coverage \cup req[r].cfg.gaps \subseteq QuestionIds
    /\ req[r].cfg.directives \subseteq EvaluatedIds
    /\ req[r].pc \in Asking \ {"question_llm"} => req[r].q \in QuestionId

\* A status to be written follows from one that needs the snapshot.
StatusInFlight ==
  \A r \in Req :
    /\ req[r].pc = "status_commit" /\ req[r].target # "cancelled" => config.context # None
    /\ req[r].pc \in Stopping => config.context # None

\* An evaluation in flight is of an answer to its question; the evaluations
\* a stop has read are stored.
EvaluationInFlight ==
  \A r \in Req :
    /\ req[r].pc = "eval_read" => req[r].q \in QuestionIds
    /\ req[r].pc \in Evaluating => \E a \in AnswersTo(req[r].q) : a.seq = req[r].seq
    /\ req[r].pc = "hint_commit" => req[r].q \in QuestionId
    /\ req[r].pc = "stop_commit" => req[r].evals \subseteq evaluations

IInv ==
  /\ TypeOK /\ TranscriptIsDense /\ AnswersFollowQuestions /\ KeysIdentifyAnswers
  /\ NeverUngrounded /\ ConfigRefersToRows /\ FeedbackIsFounded
  /\ IdsInFlight /\ SeqInFlight /\ AnswerInFlight /\ ConfigInFlight /\ StatusInFlight
  /\ EvaluationInFlight

-----------------------------------------------------------------------------
\* Every request ends: the waits on uncommitted unique keys form no cycle.
RequestsEnd == \A r \in Req : ~At(r, "idle") ~> At(r, "idle")

(* What the repository says of a session and one request at a time obeys. *)

\* state.py: "Terminal states are final: completed/cancelled cannot be left".
TerminalIsFinal == [][(status \in Terminal) => status' = status]_status

Contract == INSTANCE InterviewContract WITH
  context <- config.context,
  asked <- QuestionIds,
  answered <- AnsweredIds,
  evaluated <- EvaluatedIds,
  directives <- config.directives,
  feedback <- [i \in DOMAIN feedback |->
                 {a.question : a \in {b \in answers : b.seq \in feedback[i]}}]

\* A service that serves one request at a time keeps the whole contract,
\* with failures at every step.
ServesContract == Contract!Spec
=============================================================================
