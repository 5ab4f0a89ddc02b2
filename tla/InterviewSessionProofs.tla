----------------------- MODULE InterviewSessionProofs -----------------------
(***************************************************************************)
(* The safety invariants of InterviewSession hold for any number of        *)
(* concurrent requests, snapshots, keys, questions, hints and stops; and   *)
(* while its requests come one at a time, a session implements             *)
(* InterviewContract.                                                      *)
(***************************************************************************)
EXTENDS InterviewSession, FiniteSetTheorems, TLAPS

USE NoneAssumption, MovesAssumption, BoundsAssumption, ReqAssumption

\* A request that does nothing has well-typed locals.
LEMMA IdleTyped == Idle \in Locals
  BY DEF Idle, Locals, NewConfig, Config, PC, Statuses

\* The state create_session commits is well typed.
LEMMA InitTyped == Init => TypeOK
  BY IdleTyped DEF Init, TypeOK, Statuses, NewConfig, Config, Idle

\* _ensure_context yields a config with a snapshot and changes nothing else.
LEMMA EnsureContextTyped ==
  ASSUME NEW cfg \in Config, NEW snapshot \in Snapshot
  PROVE  /\ EnsureContext(cfg, snapshot) \in Config
         /\ EnsureContext(cfg, snapshot).context # None
         /\ EnsureContext(cfg, snapshot).coverage = cfg.coverage
         /\ EnsureContext(cfg, snapshot).directives = cfg.directives
         /\ EnsureContext(cfg, snapshot).gaps = cfg.gaps
  BY DEF EnsureContext, Config

\* The requests about to draw an id are finitely many.
LEMMA GeneratingCounted ==
  /\ IsFiniteSet(Generating)
  /\ Cardinality(Generating) \in Nat
  /\ \A r \in Req : req[r].pc = "question_llm" => Cardinality(Generating) >= 1
<1>1. IsFiniteSet(Generating)
  BY FS_Subset DEF Generating
<1>2. ASSUME NEW r \in Req, req[r].pc = "question_llm"
      PROVE  Cardinality(Generating) # 0
  BY <1>1, <1>2, FS_EmptySet DEF Generating
<1>. QED BY <1>1, <1>2, FS_CardinalityType

\* A step replaces the locals of one request, and the new ones have the type
\* of locals.
LEMMA TypeStep ==
  ASSUME TypeOK, IdsInFlight, SeqInFlight, ConfigInFlight, EvaluationInFlight,
         AnswerInFlight, [Next]_vars
  PROVE  TypeOK'
<1> USE IdleTyped DEF TypeOK
<1>0. QuestionId \subseteq 0 .. MaxQuestions
  BY DEF QuestionId
<1>1. ASSUME NEW r \in Req, NEW l \in Locals, Become(r, l)
      PROVE  req' \in [Req -> Locals]
  BY <1>1 DEF Become
<1>2. ASSUME UNCHANGED rows, req' \in [Req -> Locals] PROVE TypeOK'
  BY <1>2 DEF rows
<1>3. CASE UNCHANGED vars
  BY <1>3 DEF vars
<1>4. ASSUME NEW r \in Req, BeginRead(r) PROVE TypeOK'
  <2>1. [Idle EXCEPT !.pc = "begin_commit", !.cfg = config] \in Locals
    BY DEF Idle, Locals, PC
  <2>. QED BY <1>1, <1>2, <1>4, <2>1 DEF BeginRead
<1>5. ASSUME NEW r \in Req, BeginCommit(r) PROVE TypeOK'
  <2>1. config' \in Config
    BY <1>5, EnsureContextTyped DEF BeginCommit, Locals
  <2>. QED BY <1>1, <1>5, <2>1 DEF BeginCommit, Statuses
<1>6. ASSUME NEW r \in Req, NEW t \in Moves, StatusRead(r, t) PROVE TypeOK'
  <2>1. [Idle EXCEPT !.pc = "status_commit", !.target = t] \in Locals
    BY DEF Idle, Locals, PC, Statuses
  <2>. QED BY <1>1, <1>2, <1>6, <2>1 DEF StatusRead
<1>7. ASSUME NEW r \in Req, StatusCommit(r) PROVE TypeOK'
  BY <1>1, <1>7 DEF StatusCommit, Locals
<1>8. ASSUME NEW r \in Req, StopRead(r) PROVE TypeOK'
  <2>1. [Idle EXCEPT !.pc = "stop_evals"] \in Locals
    BY DEF Idle, Locals, PC
  <2>. QED BY <1>1, <1>2, <1>8, <2>1 DEF StopRead
<1>9. ASSUME NEW r \in Req, StopEvals(r) PROVE TypeOK'
  <2>1. PICK first \in [AnsweredIds -> answers] :
          Become(r, [req[r] EXCEPT !.pc = "stop_commit",
                       !.evals = {first[q].seq : q \in AnsweredIds} \cap evaluations])
    BY <1>9 DEF StopEvals
  <2>2. [req[r] EXCEPT !.pc = "stop_commit",
            !.evals = {first[q].seq : q \in AnsweredIds} \cap evaluations] \in Locals
    BY DEF Locals, PC
  <2>. QED BY <1>1, <1>2, <1>9, <2>1, <2>2 DEF StopEvals
<1>10. ASSUME NEW r \in Req, StopCommit(r) PROVE TypeOK'
  <2>1. req[r].evals \in SUBSET Nat
    BY DEF Locals
  <2>2. feedback' \in Seq(SUBSET Nat)
    BY <1>10, <2>1 DEF StopCommit
  <2>. QED BY <1>1, <1>10, <2>2 DEF StopCommit, Statuses
<1>11. ASSUME NEW r \in Req, NextRead(r) PROVE TypeOK'
  <2>1. PICK snapshot \in Snapshot :
          Become(r, [Idle EXCEPT !.pc = "question_llm",
                                 !.cfg = EnsureContext(config, snapshot)])
    BY <1>11 DEF NextRead
  <2>2. [Idle EXCEPT !.pc = "question_llm", !.cfg = EnsureContext(config, snapshot)] \in Locals
    BY EnsureContextTyped DEF Idle, Locals, PC
  <2>. QED BY <1>1, <1>2, <1>11, <2>1, <2>2 DEF NextRead
<1>12. ASSUME NEW r \in Req, QuestionFlush(r) PROVE TypeOK'
  <2>1. qids + 1 \in 0 .. MaxQuestions
    BY <1>12, GeneratingCounted DEF QuestionFlush, At, IdsInFlight
  <2>2. [req[r] EXCEPT !.pc = "question_seq", !.q = qids + 1] \in Locals
    BY <2>1 DEF Locals, PC
  <2>. QED BY <1>1, <1>12, <2>1, <2>2 DEF QuestionFlush
<1>13. ASSUME NEW r \in Req, NEW pc \in PC,
              Become(r, [req[r] EXCEPT !.pc = pc, !.seq = MaxSeq + 1])
       PROVE  req' \in [Req -> Locals]
  <2>1. MaxSeq + 1 \in Nat /\ req[r] \in Locals
    BY DEF SeqInFlight
  <2>2. [req[r] EXCEPT !.pc = pc, !.seq = MaxSeq + 1] \in Locals
    BY <2>1 DEF Locals
  <2>. QED BY <1>1, <1>13, <2>2
<1>14. ASSUME NEW r \in Req, NEW pc \in PC, NEW failed \in BOOLEAN,
              Become(r, IF failed THEN Idle ELSE [req[r] EXCEPT !.pc = pc])
       PROVE  req' \in [Req -> Locals]
  <2>1. [req[r] EXCEPT !.pc = pc] \in Locals
    BY DEF Locals
  <2>. QED BY <1>1, <1>14, <2>1
<1>15. ASSUME NEW r \in Req, QuestionSeq(r) \/ AnswerSeq(r) PROVE TypeOK'
  BY <1>2, <1>13, <1>15 DEF QuestionSeq, AnswerSeq, PC
<1>16. ASSUME NEW r \in Req, QuestionTurn(r) \/ AnswerTurn(r) PROVE TypeOK'
  BY <1>2, <1>14, <1>16 DEF QuestionTurn, AnswerTurn, InsertTurn, PC
<1>17. ASSUME NEW r \in Req, QuestionCommit(r) PROVE TypeOK'
  <2>1. req[r].q \in QuestionId
    BY <1>17 DEF QuestionCommit, At, ConfigInFlight, Asking
  <2>2. req[r].cfg \in Config /\ req[r].seq \in Nat
    BY DEF Locals
  <2>3. [req[r].cfg EXCEPT !.coverage = @ \cup {req[r].q}] \in Config
    BY <2>1, <2>2 DEF Config
  <2>. QED BY <1>1, <1>17, <2>1, <2>2, <2>3 DEF QuestionCommit
<1>18. ASSUME NEW r \in Req, NEW q \in QuestionId, NEW key \in Key \cup {None},
              NEW evaluate \in BOOLEAN, SubmitRead(r, q, key, evaluate)
       PROVE  TypeOK'
  <2>1. [Idle EXCEPT !.pc = "answer_key", !.q = q, !.key = key, !.evaluate = evaluate]
          \in Locals
    BY <1>0 DEF Locals, PC
  <2>. QED BY <1>1, <1>2, <1>18, <2>1 DEF SubmitRead
<1>19. ASSUME NEW r \in Req, AnswerKey(r) PROVE TypeOK'
  BY <1>2, <1>14, <1>19 DEF AnswerKey, PC
<1>20. ASSUME NEW r \in Req, AnswerCommit(r) PROVE TypeOK'
  <2>1. req[r].q \in QuestionId
    BY <1>20 DEF AnswerCommit, At, AnswerInFlight, Answering, QuestionIds
  <2>2. req[r].seq \in Nat /\ req[r].key \in Key \cup {None}
    BY DEF Locals
  <2>3. [Idle EXCEPT !.pc = "eval_read", !.q = req[r].q] \in Locals
    BY <2>1 DEF Idle, Locals, PC, QuestionId
  <2>4. req' \in [Req -> Locals]
    BY <1>1, <1>20, <2>3 DEF AnswerCommit
  <2>. QED BY <1>20, <2>1, <2>2, <2>4 DEF AnswerCommit
<1>21. ASSUME NEW r \in Req, NEW q \in QuestionId, EvaluateStart(r, q) PROVE TypeOK'
  <2>1. [Idle EXCEPT !.pc = "eval_read", !.q = q] \in Locals
    BY <1>0 DEF Locals, PC
  <2>. QED BY <1>1, <1>2, <1>21, <2>1 DEF EvaluateStart
<1>22. ASSUME NEW r \in Req, EvalRead(r) PROVE TypeOK'
  <2>1. CASE Become(r, Idle)
    BY <1>1, <1>2, <1>22, <2>1 DEF EvalRead
  <2>2. ASSUME NEW a \in AnswersTo(req[r].q), NEW snapshot \in Snapshot,
               Become(r, [req[r] EXCEPT !.pc = "eval_llm", !.seq = a.seq,
                                        !.cfg = EnsureContext(config, snapshot)])
        PROVE  TypeOK'
    <3>0. a.seq \in Nat /\ EnsureContext(config, snapshot) \in Config /\ req[r] \in Locals
      BY EnsureContextTyped DEF AnswersTo
    <3>1. [req[r] EXCEPT !.pc = "eval_llm", !.seq = a.seq,
                         !.cfg = EnsureContext(config, snapshot)] \in Locals
      BY <3>0 DEF Locals, PC
    <3>. QED BY <1>1, <1>2, <1>22, <2>2, <3>1 DEF EvalRead
  <2>. QED BY <1>22, <2>1, <2>2 DEF EvalRead
<1>23. ASSUME NEW r \in Req, EvalRetry(r) PROVE TypeOK'
  <2>1. [req[r] EXCEPT !.n = 1] \in Locals
    BY DEF Locals
  <2>. QED BY <1>1, <1>2, <1>23, <2>1 DEF EvalRetry
<1>24. ASSUME NEW r \in Req, EvalInsert(r) PROVE TypeOK'
  BY <1>2, <1>14, <1>24 DEF EvalInsert, PC
<1>25. ASSUME NEW r \in Req, EvalCommit(r) PROVE TypeOK'
  <2>1. req[r].q \in QuestionId
    BY <1>25 DEF EvalCommit, At, EvaluationInFlight, Evaluating, AnswersTo
  <2>2. req[r].cfg \in Config /\ req[r].seq \in Nat
    BY DEF Locals
  <2>3. config' \in Config
    BY <1>25, <2>1, <2>2 DEF EvalCommit, Config
  <2>. QED BY <1>1, <1>25, <2>2, <2>3 DEF EvalCommit
<1>26. ASSUME NEW r \in Req, NEW q \in QuestionId, HintRead(r, q) PROVE TypeOK'
  <2>0. hints[q] \in Nat
    OBVIOUS
  <2>1. [Idle EXCEPT !.pc = "hint_commit", !.q = q, !.n = hints[q]] \in Locals
    BY <1>0, <2>0 DEF Locals, PC
  <2>. QED BY <1>1, <1>2, <1>26, <2>1 DEF HintRead
<1>27. ASSUME NEW r \in Req, HintCommit(r) PROVE TypeOK'
  <2>1. req[r].n + 1 \in Nat
    BY DEF Locals
  <2>2. hints' \in [QuestionId -> Nat]
    BY <1>27, <2>1 DEF HintCommit
  <2>. QED BY <1>1, <1>27, <2>2 DEF HintCommit
<1>28. ASSUME NEW r \in Req, Abort(r) PROVE TypeOK'
  BY <1>1, <1>2, <1>28 DEF Abort
<1>. QED
  BY <1>3, <1>4, <1>5, <1>6, <1>7, <1>8, <1>9, <1>10, <1>11, <1>12, <1>15, <1>16,
     <1>17, <1>18, <1>19, <1>20, <1>21, <1>22, <1>23, <1>24, <1>25, <1>26, <1>27, <1>28
     DEF Next, Receive, Step

-----------------------------------------------------------------------------
(* Frames: which steps write which rows, and which steps lead where.       *)

Act(r) == Receive(r) \/ Step(r) \/ Abort(r)

\* Which actions write which column; every other one leaves it alone.
LEMMA RowFrames ==
  ASSUME NEW r \in Req, Act(r)
  PROVE  /\ UNCHANGED <<questions, answers, keys>> \/ QuestionCommit(r) \/ AnswerCommit(r)
         /\ UNCHANGED evaluations \/ EvalCommit(r)
         /\ UNCHANGED config \/ BeginCommit(r) \/ QuestionCommit(r) \/ EvalCommit(r)
         /\ UNCHANGED status \/ BeginCommit(r) \/ StatusCommit(r) \/ StopCommit(r)
         /\ UNCHANGED feedback \/ StopCommit(r)
<1>1. CASE Receive(r)
  BY <1>1 DEF Receive, BeginRead, StatusRead, StopRead, NextRead, SubmitRead,
              EvaluateStart, HintRead, rows
<1>2. CASE Abort(r)
  BY <1>2 DEF Abort, rows
<1>3. CASE Step(r)
  BY <1>3 DEF Step, BeginCommit, StatusCommit, StopEvals, StopCommit, QuestionFlush,
              QuestionSeq, QuestionTurn, QuestionCommit, AnswerKey, AnswerSeq,
              AnswerTurn, AnswerCommit, EvalRead, EvalRetry, EvalInsert, EvalCommit,
              HintCommit, InsertTurn, rows
<1>. QED BY <1>1, <1>2, <1>3 DEF Act

\* A step by r replaces the locals of r, and reaches a stage of an operation
\* only from the stage before it.
LEMMA LocalFrames ==
  ASSUME TypeOK, NEW r \in Req, Act(r)
  PROVE  /\ \A o \in Req \ {r} : req'[o] = req[o]
         /\ req'[r].pc = "status_commit" => \E t \in Moves : StatusRead(r, t)
         /\ req'[r].pc \in Stopping => StopRead(r) \/ StopEvals(r)
         /\ req'[r].pc \in Asking =>
              NextRead(r) \/ QuestionFlush(r) \/ QuestionSeq(r) \/ QuestionTurn(r)
         /\ req'[r].pc \in Answering =>
              \/ \E q \in QuestionId, key \in Key \cup {None}, evaluate \in BOOLEAN :
                   SubmitRead(r, q, key, evaluate)
              \/ AnswerKey(r) \/ AnswerSeq(r) \/ AnswerTurn(r)
         /\ req'[r].pc = "eval_read" =>
              (\E q \in QuestionId : EvaluateStart(r, q)) \/ AnswerCommit(r)
         /\ req'[r].pc \in Evaluating => EvalRead(r) \/ EvalRetry(r) \/ EvalInsert(r)
         /\ req'[r].pc = "hint_commit" => \E q \in QuestionId : HintRead(r, q)
<1> USE DEF TypeOK, Become, At
<1>0. \A o \in Req \ {r} : req'[o] = req[o]
  <2>1. ASSUME NEW l, Become(r, l) PROVE \A o \in Req \ {r} : req'[o] = req[o]
    BY <2>1
  <2>2. CASE Receive(r)
    BY <2>1, <2>2 DEF Receive, BeginRead, StatusRead, StopRead, NextRead, SubmitRead,
                      EvaluateStart, HintRead
  <2>3. CASE Abort(r)
    BY <2>1, <2>3 DEF Abort
  <2>4. CASE Step(r)
    BY <2>1, <2>4 DEF Step, BeginCommit, StatusCommit, StopEvals, StopCommit, QuestionFlush,
              QuestionSeq, QuestionTurn, QuestionCommit, AnswerKey, AnswerSeq,
              AnswerTurn, AnswerCommit, EvalRead, EvalRetry, EvalInsert, EvalCommit,
              HintCommit, InsertTurn
  <2>. QED BY <2>2, <2>3, <2>4 DEF Act
<1> DEFINE Reaches(pcs) == req'[r].pc \in pcs
<1>1. Idle.pc = "idle"
  BY DEF Idle
<1>2. BeginRead(r) => Reaches({"begin_commit"})
  BY DEF BeginRead, Idle
<1>3. BeginCommit(r) \/ StatusCommit(r) \/ StopCommit(r) \/ QuestionCommit(r)
      \/ EvalCommit(r) \/ HintCommit(r) \/ Abort(r) => Reaches({"idle"})
  BY <1>1 DEF BeginCommit, StatusCommit, StopCommit, QuestionCommit, EvalCommit,
              HintCommit, Abort
<1>4. StopRead(r) \/ StopEvals(r) => Reaches(Stopping)
  BY DEF StopRead, StopEvals, Idle, Stopping, Locals
<1>5. NextRead(r) \/ QuestionFlush(r) \/ QuestionSeq(r) => Reaches(Asking)
  <2>1. NextRead(r) => Reaches(Asking)
    BY DEF NextRead, Idle, Asking
  <2>2. QuestionFlush(r) => Reaches(Asking)
    BY DEF QuestionFlush, Asking, Locals
  <2>3. QuestionSeq(r) => Reaches(Asking)
    BY DEF QuestionSeq, Asking, Locals
  <2>. QED BY <2>1, <2>2, <2>3
<1>6. QuestionTurn(r) => Reaches(Asking \cup {"idle"})
  BY <1>1 DEF QuestionTurn, InsertTurn, Asking, Locals
<1>7. AnswerKey(r) \/ AnswerSeq(r) \/ AnswerTurn(r) => Reaches(Answering \cup {"idle"})
  <2>1. AnswerKey(r) => Reaches(Answering \cup {"idle"})
    BY <1>1 DEF AnswerKey, Answering, Locals
  <2>2. AnswerSeq(r) => Reaches(Answering)
    BY DEF AnswerSeq, Answering, Locals
  <2>3. AnswerTurn(r) => Reaches(Answering \cup {"idle"})
    BY <1>1 DEF AnswerTurn, InsertTurn, Answering, Locals
  <2>. QED BY <2>1, <2>2, <2>3
<1>8. \A q \in QuestionId, key \in Key \cup {None}, evaluate \in BOOLEAN :
        SubmitRead(r, q, key, evaluate) => Reaches(Answering)
  BY DEF SubmitRead, Idle, Answering
<1>9. AnswerCommit(r) => Reaches({"eval_read", "idle"})
  BY DEF AnswerCommit, Idle
<1>10. \A q \in QuestionId : EvaluateStart(r, q) => Reaches({"eval_read"})
  BY DEF EvaluateStart, Idle
<1>11. EvalRead(r) \/ EvalRetry(r) \/ EvalInsert(r) => Reaches(Evaluating \cup {"idle"})
  <2>1. EvalRead(r) => Reaches(Evaluating \cup {"idle"})
    BY <1>1 DEF EvalRead, Evaluating, Locals
  <2>2. EvalRetry(r) => Reaches(Evaluating)
    BY DEF EvalRetry, Evaluating, Locals
  <2>3. EvalInsert(r) => Reaches(Evaluating \cup {"idle"})
    BY <1>1 DEF EvalInsert, Evaluating, Locals
  <2>. QED BY <2>1, <2>2, <2>3
<1>12. \A q \in QuestionId : HintRead(r, q) => Reaches({"hint_commit"})
  BY DEF HintRead, Idle
<1>13. \A t \in Moves : StatusRead(r, t) => Reaches({"status_commit"})
  BY DEF StatusRead, Idle
<1> HIDE DEF Become, At, TypeOK
<1>. QED
  BY <1>0, <1>2, <1>3, <1>4, <1>5, <1>6, <1>7, <1>8, <1>9, <1>10, <1>11, <1>12, <1>13
     DEF Act, Receive, Step, Stopping, Asking, Answering, Evaluating

\* Waiting for a unique key ends in a rollback or leaves the locals as they are.
Kept(r) ==
  /\ req'[r].q = req[r].q /\ req'[r].seq = req[r].seq /\ req'[r].key = req[r].key
  /\ req'[r].cfg = req[r].cfg /\ req'[r].evals = req[r].evals

\* A request that meets a taken unique key ends, any other keeps its locals.
LEMMA Waits ==
  ASSUME TypeOK, NEW r \in Req,
         QuestionTurn(r) \/ AnswerTurn(r) \/ AnswerKey(r) \/ EvalInsert(r)
  PROVE  req'[r] = Idle \/ Kept(r)
<1>1. ASSUME NEW pc, NEW failed \in BOOLEAN,
             Become(r, IF failed THEN Idle ELSE [req[r] EXCEPT !.pc = pc])
      PROVE  req'[r] = Idle \/ Kept(r)
  <2>1. CASE failed
    BY <1>1, <2>1 DEF Become, TypeOK
  <2>2. CASE ~failed
    BY <1>1, <2>2 DEF Become, TypeOK, Locals, Kept
  <2>. QED BY <2>1, <2>2
<1>. QED BY <1>1 DEF QuestionTurn, AnswerTurn, InsertTurn, AnswerKey, EvalInsert

-----------------------------------------------------------------------------
(* The transcript.                                                         *)

\* The greatest number of 1 .. n is n.
LEMMA MaxOfInterval ==
  ASSUME NEW n \in Nat, n # 0
  PROVE  Max(1 .. n) = n
<1>1. n \in 1 .. n /\ \A y \in 1 .. n : n >= y
  OBVIOUS
<1>2. \A x \in 1 .. n : (\A y \in 1 .. n : x >= y) => x = n
  <2>1. ASSUME NEW x \in 1 .. n, \A y \in 1 .. n : x >= y PROVE x = n
    <3>1. x >= n
      BY <1>1, <2>1
    <3>. QED BY <3>1
  <2>. QED BY <2>1
<1>. QED BY <1>1, <1>2 DEF Max

\* No row is ever deleted.
LEMMA RowsGrow ==
  ASSUME NEW r \in Req, Act(r)
  PROVE  /\ questions \subseteq questions' /\ answers \subseteq answers'
         /\ evaluations \subseteq evaluations' /\ keys \subseteq keys'
         /\ QuestionIds \subseteq QuestionIds' /\ EvaluatedIds \subseteq EvaluatedIds'
<1>1. /\ questions \subseteq questions' /\ answers \subseteq answers'
      /\ evaluations \subseteq evaluations' /\ keys \subseteq keys'
  BY RowFrames DEF QuestionCommit, AnswerCommit, EvalCommit
<1>2. QuestionIds \subseteq QuestionIds'
  BY <1>1 DEF QuestionIds
<1>3. EvaluatedIds \subseteq EvaluatedIds'
  BY <1>1 DEF EvaluatedIds
<1>. QED BY <1>1, <1>2, <1>3

\* The committed turn's seq is the one after the last: at most that by the
\* max_seq it was computed from, and new by the unique constraint.
LEMMA NextTurn ==
  ASSUME TypeOK, TranscriptIsDense, SeqInFlight, NEW r \in Req,
         QuestionCommit(r) \/ AnswerCommit(r)
  PROVE  /\ req[r].seq = MaxSeq + 1 /\ req[r].seq \notin Turns
         /\ Turns' = 1 .. MaxSeq + 1
         /\ MaxSeq' = MaxSeq + 1
<1>1. MaxSeq \in Nat /\ req[r].seq \in 1 .. MaxSeq + 1 /\ req[r].seq \notin Turns
  BY DEF SeqInFlight, InsertingTurn, TurnInserted, QuestionCommit, AnswerCommit, At
<1>2. req[r].seq = MaxSeq + 1
  BY <1>1 DEF TranscriptIsDense
<1>3. Turns' = Turns \cup {req[r].seq}
  <2>1. CASE QuestionCommit(r)
    <3> DEFINE row == [id |-> req[r].q, seq |-> req[r].seq]
    <3>1. questions' = questions \cup {row} /\ answers' = answers
      BY <2>1 DEF QuestionCommit
    <3>2. row.seq = req[r].seq
      OBVIOUS
    <3> HIDE DEF row
    <3>. QED BY <3>1, <3>2 DEF Turns
  <2>2. CASE AnswerCommit(r)
    <3> DEFINE row == [question |-> req[r].q, seq |-> req[r].seq, key |-> req[r].key]
    <3>1. answers' = answers \cup {row} /\ questions' = questions
      BY <2>2 DEF AnswerCommit
    <3>2. row.seq = req[r].seq
      OBVIOUS
    <3> HIDE DEF row
    <3>. QED BY <3>1, <3>2 DEF Turns
  <2>. QED BY <2>1, <2>2
<1>4. Turns' = 1 .. MaxSeq + 1
  BY <1>1, <1>2, <1>3 DEF TranscriptIsDense
<1>5. MaxSeq' = MaxSeq + 1
  <2>1. Max(Turns') = MaxSeq + 1
    BY <1>1, <1>4, MaxOfInterval
  <2>2. Turns' # {}
    BY <1>1, <1>4
  <2>. QED BY <2>1, <2>2 DEF MaxSeq
<1>. QED BY <1>1, <1>2, <1>4, <1>5

\* Without a new question or answer the transcript is the same.
LEMMA SameTurns ==
  ASSUME UNCHANGED <<questions, answers>>
  PROVE  Turns' = Turns /\ MaxSeq' = MaxSeq
  BY DEF Turns, MaxSeq

\* A step appends at most one turn, numbered one past the last.
LEMMA DenseStep ==
  ASSUME TypeOK, TranscriptIsDense, SeqInFlight, NEW r \in Req, Act(r)
  PROVE  TranscriptIsDense' /\ MaxSeq' \in Nat /\ MaxSeq <= MaxSeq'
<1>0. MaxSeq \in Nat
  BY DEF SeqInFlight
<1>1. CASE UNCHANGED <<questions, answers, keys>>
  BY <1>0, <1>1, SameTurns DEF TranscriptIsDense
<1>2. CASE QuestionCommit(r)
  <2>1. \A x \in questions \cup answers : x.seq # req[r].seq
    BY <1>2, NextTurn DEF Turns
  <2>2. /\ questions' = questions \cup {[id |-> req[r].q, seq |-> req[r].seq]}
        /\ answers' = answers
    BY <1>2 DEF QuestionCommit
  <2>. QED BY <1>0, <1>2, <2>1, <2>2, NextTurn DEF TranscriptIsDense
<1>3. CASE AnswerCommit(r)
  <2>1. \A x \in questions \cup answers : x.seq # req[r].seq
    BY <1>3, NextTurn DEF Turns
  <2>2. /\ answers' = answers \cup
             {[question |-> req[r].q, seq |-> req[r].seq, key |-> req[r].key]}
        /\ questions' = questions
    BY <1>3 DEF AnswerCommit
  <2>. QED BY <1>0, <1>3, <2>1, <2>2, NextTurn DEF TranscriptIsDense
<1>. QED BY <1>1, <1>2, <1>3, RowFrames

\* A turn that was inserted keeps its seq to itself until it commits.
LEMMA SeqStep ==
  ASSUME TypeOK, TranscriptIsDense, SeqInFlight, NEW r \in Req, Act(r)
  PROVE  SeqInFlight'
<1>0. MaxSeq \in Nat /\ MaxSeq' \in Nat /\ MaxSeq <= MaxSeq'
  BY DenseStep DEF SeqInFlight
<1>1. CASE QuestionSeq(r) \/ AnswerSeq(r)
  <2>1. Turns' = Turns /\ MaxSeq' = MaxSeq
    BY <1>1, SameTurns DEF QuestionSeq, AnswerSeq, rows
  <2>2. req'[r].seq = MaxSeq + 1 /\ req'[r].pc \notin TurnInserted
    <3>1. CASE QuestionSeq(r)
      BY <3>1 DEF QuestionSeq, Become, TypeOK, Locals, TurnInserted
    <3>2. CASE AnswerSeq(r)
      BY <3>2 DEF AnswerSeq, Become, TypeOK, Locals, TurnInserted
    <3>. QED BY <1>1, <3>1, <3>2
  <2>. QED BY <1>0, <2>1, <2>2, LocalFrames DEF SeqInFlight
<1>2. CASE QuestionTurn(r) \/ AnswerTurn(r)
  <2>1. Turns' = Turns /\ MaxSeq' = MaxSeq
    BY <1>2, SameTurns DEF QuestionTurn, AnswerTurn, InsertTurn, rows
  <2>2. ~SeqLocked(r) /\ req[r].pc \in InsertingTurn
    BY <1>2 DEF QuestionTurn, AnswerTurn, InsertTurn, At, InsertingTurn
  <2>3. \/ req'[r].pc \notin InsertingTurn
        \/ req'[r].seq = req[r].seq /\ req[r].seq \notin Turns
    <3>1. CASE req[r].seq \in Turns
      BY <1>2, <3>1 DEF QuestionTurn, AnswerTurn, InsertTurn, Become, TypeOK, Idle,
                        InsertingTurn
    <3>2. CASE req[r].seq \notin Turns
      BY <1>2, <3>2 DEF QuestionTurn, AnswerTurn, InsertTurn, Become, TypeOK, Locals
    <3>. QED BY <3>1, <3>2
  <2>4. TurnInserted \subseteq InsertingTurn
    BY DEF TurnInserted, InsertingTurn
  <2>5. \A o \in Req \ {r} : req[o].pc \in TurnInserted => req[o].seq # req[r].seq
    BY <2>2 DEF SeqLocked, TurnInserted
  <2>. QED BY <1>0, <2>1, <2>2, <2>3, <2>4, <2>5, LocalFrames DEF SeqInFlight
<1>3. CASE ~(QuestionSeq(r) \/ AnswerSeq(r) \/ QuestionTurn(r) \/ AnswerTurn(r))
  <2>1. req'[r].pc \notin InsertingTurn
    <3>1. NextRead(r) \/ QuestionFlush(r) => req'[r].pc \in {"question_llm", "question_seq"}
      BY DEF NextRead, QuestionFlush, Become, TypeOK, Locals, Idle
    <3>2. AnswerKey(r) => req'[r].pc \in {"idle", "answer_seq"}
      BY DEF AnswerKey, Become, TypeOK, Locals, Idle
    <3>3. \A q \in QuestionId, key \in Key \cup {None}, evaluate \in BOOLEAN :
            SubmitRead(r, q, key, evaluate) => req'[r].pc = "answer_key"
      BY DEF SubmitRead, Become, TypeOK, Idle
    <3>4. InsertingTurn \subseteq Asking \cup Answering
      BY DEF InsertingTurn, Asking, Answering
    <3>. QED BY <1>3, <3>1, <3>2, <3>3, <3>4, LocalFrames DEF InsertingTurn
  <2>2. TurnInserted \subseteq InsertingTurn
    BY DEF TurnInserted, InsertingTurn
  <2>3. \A o \in Req \ {r} : req[o].pc \in TurnInserted => req[o].seq \notin Turns'
    <3>1. CASE UNCHANGED <<questions, answers, keys>>
      BY <3>1, SameTurns DEF SeqInFlight
    <3>2. CASE QuestionCommit(r) \/ AnswerCommit(r)
      <4>1. req[r].pc \in TurnInserted
        BY <3>2 DEF QuestionCommit, AnswerCommit, At, TurnInserted
      <4>2. Turns' = Turns \cup {req[r].seq}
        BY <1>0, <3>2, NextTurn DEF TranscriptIsDense
      <4>. QED BY <4>1, <4>2 DEF SeqInFlight
    <3>. QED BY <3>1, <3>2, RowFrames
  <2>4. \A o \in Req \ {r} : req[o].pc \in InsertingTurn => req[o].seq \in 1 .. MaxSeq' + 1
    BY <1>0 DEF SeqInFlight
  <2>. QED BY <1>0, <2>1, <2>2, <2>3, <2>4, LocalFrames DEF SeqInFlight
<1>. QED BY <1>1, <1>2, <1>3

-----------------------------------------------------------------------------
(* Answers and their keys.                                                 *)

\* A committed answer stands after its question; evaluations have answers.
LEMMA AnswerStep ==
  ASSUME TypeOK, AnswersFollowQuestions, AnswerInFlight, EvaluationInFlight,
         NEW r \in Req, Act(r)
  PROVE  AnswersFollowQuestions'
<1> DEFINE row == [question |-> req[r].q, seq |-> req[r].seq, key |-> req[r].key]
<1>1. \A a \in answers' : \E q \in questions' : q.id = a.question /\ q.seq < a.seq
  <2>1. answers' = answers \/ (answers' = answers \cup {row} /\ AnswerCommit(r))
    <3>1. CASE AnswerCommit(r)
      BY <3>1 DEF AnswerCommit
    <3>2. CASE QuestionCommit(r)
      BY <3>2 DEF QuestionCommit
    <3>. QED BY <3>1, <3>2, RowFrames
  <2>2. AnswerCommit(r) => \E q \in questions : q.id = row.question /\ q.seq < row.seq
    BY DEF AnswerCommit, At, AnswerInFlight
  <2> HIDE DEF row
  <2>. QED BY <2>1, <2>2, RowsGrow DEF AnswersFollowQuestions
<1>2. evaluations' \subseteq {a.seq : a \in answers'}
  <2>1. EvalCommit(r) => \E a \in answers : a.seq = req[r].seq
    BY DEF EvalCommit, At, EvaluationInFlight, Evaluating, AnswersTo
  <2>2. \/ evaluations' = evaluations
        \/ EvalCommit(r) /\ evaluations' = evaluations \cup {req[r].seq}
    <3>1. CASE EvalCommit(r)
      BY <3>1 DEF EvalCommit
    <3>. QED BY <3>1, RowFrames
  <2>. QED BY <2>1, <2>2, RowsGrow DEF AnswersFollowQuestions
<1>. QED BY <1>1, <1>2 DEF AnswersFollowQuestions

\* A recorded key is the key of exactly one committed answer.
LEMMA KeyStep ==
  ASSUME TypeOK, KeysIdentifyAnswers, AnswerInFlight, NEW r \in Req, Act(r)
  PROVE  KeysIdentifyAnswers'
<1>1. CASE UNCHANGED <<questions, answers, keys>>
  BY <1>1 DEF KeysIdentifyAnswers
<1>2. CASE QuestionCommit(r)
  BY <1>2 DEF KeysIdentifyAnswers, QuestionCommit
<1>3. CASE AnswerCommit(r)
  <2> DEFINE row == [question |-> req[r].q, seq |-> req[r].seq, key |-> req[r].key]
  <2>1. answers' = answers \cup {row} /\ keys' = keys \cup ({row.key} \ {None})
    BY <1>3 DEF AnswerCommit
  <2>2. row.key # None => row.key \notin keys
    BY <1>3 DEF AnswerCommit, At, AnswerInFlight, KeyInserted
  <2> HIDE DEF row
  <2>3. keys' = {a.key : a \in answers'} \ {None}
    BY <2>1 DEF KeysIdentifyAnswers
  <2>. QED BY <2>1, <2>2, <2>3 DEF KeysIdentifyAnswers
<1>. QED BY <1>1, <1>2, <1>3, RowFrames

\* A submission in flight keeps its question, its later seq and its key.
LEMMA AnswerFlightStep ==
  ASSUME TypeOK, TranscriptIsDense, SeqInFlight, AnswerInFlight, NEW r \in Req, Act(r)
  PROVE  AnswerInFlight'
<1> DEFINE Answered(q, seq) == \E x \in questions : x.id = q /\ x.seq < seq
           AnsweredNext(q, seq) == \E x \in questions' : x.id = q /\ x.seq < seq
<1>1. \A o \in Req \ {r} : req'[o] = req[o]
  BY LocalFrames
\* What the acting request then holds.
<1>2. req'[r].pc \in Answering => req'[r].q \in QuestionIds'
  <2>1. CASE AnswerKey(r) \/ AnswerSeq(r) \/ AnswerTurn(r)
    <3>1. req[r].q \in QuestionIds
      BY <2>1 DEF AnswerKey, AnswerSeq, AnswerTurn, InsertTurn, At, AnswerInFlight, Answering
    <3>2. AnswerKey(r) \/ AnswerTurn(r) => req'[r] = Idle \/ req'[r].q = req[r].q
      BY Waits DEF Kept
    <3>3. AnswerSeq(r) => req'[r].q = req[r].q
      BY DEF AnswerSeq, Become, TypeOK, Locals
    <3>. QED BY <2>1, <3>1, <3>2, <3>3, RowsGrow DEF Idle, Answering
  <2>2. ASSUME NEW q \in QuestionId, NEW key \in Key \cup {None}, NEW evaluate \in BOOLEAN,
               SubmitRead(r, q, key, evaluate)
        PROVE  req'[r].q \in QuestionIds'
    <3>1. q \in QuestionIds /\ req'[r].q = q
      BY <2>2 DEF SubmitRead, Become, TypeOK, Idle
    <3>. QED BY <3>1, RowsGrow
  <2>. QED BY <2>1, <2>2, LocalFrames
<1>3. req'[r].pc \in {"answer_turn", "answer_commit"} => AnsweredNext(req'[r].q, req'[r].seq)
  <2>1. CASE AnswerSeq(r)
    <3>1. req[r].q \in QuestionIds
      BY <2>1 DEF AnswerSeq, At, AnswerInFlight, Answering
    <3>2. req'[r].q = req[r].q /\ req'[r].seq = MaxSeq + 1
      BY <2>1 DEF AnswerSeq, Become, TypeOK, Locals
    <3>3. \A x \in questions : x.seq < MaxSeq + 1
      <4>1. \A x \in questions : x.seq \in 1 .. MaxSeq
        BY DEF TranscriptIsDense, Turns
      <4>. QED BY <4>1 DEF SeqInFlight
    <3>. QED BY <3>1, <3>2, <3>3, RowsGrow DEF QuestionIds
  <2>2. CASE AnswerTurn(r)
    <3>1. Answered(req[r].q, req[r].seq)
      BY <2>2 DEF AnswerTurn, InsertTurn, At, AnswerInFlight
    <3>2. req'[r] = Idle \/ (req'[r].q = req[r].q /\ req'[r].seq = req[r].seq)
      BY <2>2, Waits DEF Kept
    <3>. QED BY <3>1, <3>2, RowsGrow DEF Idle
  <2>3. AnswerKey(r) => req'[r].pc \in {"idle", "answer_seq"}
    BY DEF AnswerKey, Become, TypeOK, Locals, Idle
  <2>4. \A q \in QuestionId, key \in Key \cup {None}, evaluate \in BOOLEAN :
          SubmitRead(r, q, key, evaluate) => req'[r].pc = "answer_key"
    BY DEF SubmitRead, Become, TypeOK, Idle
  <2>5. {"answer_turn", "answer_commit"} \subseteq Answering
    BY DEF Answering
  <2> HIDE DEF AnsweredNext
  <2>. QED BY <2>1, <2>2, <2>3, <2>4, <2>5, LocalFrames
<1>4. req'[r].pc \in KeyInserted /\ req'[r].key # None =>
        /\ req'[r].key \notin keys'
        /\ \A o \in Req \ {r} : req[o].pc \in KeyInserted => req[o].key # req'[r].key
  <2>1. CASE AnswerKey(r)
    <3>1. req[r].key # None => ~KeyLocked(r)
      BY <2>1 DEF AnswerKey
    <3>2. keys' = keys /\ (req'[r] = Idle \/ (Kept(r) /\ req[r].key \notin keys))
      <4>1. CASE req[r].key \in keys
        BY <2>1, <4>1 DEF AnswerKey, Become, TypeOK, rows
      <4>2. CASE req[r].key \notin keys
        BY <2>1, <4>2, Waits DEF AnswerKey, rows
      <4>. QED BY <4>1, <4>2
    <3>. QED BY <3>1, <3>2 DEF KeyLocked, KeyInserted, Idle, Kept
  <2>2. CASE AnswerSeq(r) \/ AnswerTurn(r)
    <3>1. req[r].pc \in KeyInserted /\ keys' = keys
      BY <2>2 DEF AnswerSeq, AnswerTurn, InsertTurn, At, KeyInserted, rows
    <3>2. AnswerSeq(r) => req'[r].key = req[r].key
      BY DEF AnswerSeq, Become, TypeOK, Locals
    <3>3. AnswerTurn(r) => req'[r] = Idle \/ req'[r].key = req[r].key
      BY Waits DEF Kept
    <3>. QED BY <2>2, <3>1, <3>2, <3>3 DEF AnswerInFlight, Idle, KeyInserted
  <2>3. \A q \in QuestionId, key \in Key \cup {None}, evaluate \in BOOLEAN :
          SubmitRead(r, q, key, evaluate) => req'[r].pc \notin KeyInserted
    BY DEF SubmitRead, Become, TypeOK, Idle, KeyInserted
  <2>4. KeyInserted \subseteq Answering
    BY DEF KeyInserted, Answering
  <2>. QED BY <2>1, <2>2, <2>3, <2>4, LocalFrames
\* What the others keep.
<1>5. ASSUME NEW o \in Req \ {r}
      PROVE  /\ req[o].pc \in Answering => req[o].q \in QuestionIds'
             /\ req[o].pc \in {"answer_turn", "answer_commit"} =>
                  AnsweredNext(req[o].q, req[o].seq)
             /\ req[o].pc \in KeyInserted /\ req[o].key # None => req[o].key \notin keys'
  <2>1. req[o].pc \in Answering => req[o].q \in QuestionIds'
    BY RowsGrow DEF AnswerInFlight
  <2>2. req[o].pc \in {"answer_turn", "answer_commit"} => AnsweredNext(req[o].q, req[o].seq)
    BY RowsGrow DEF AnswerInFlight
  <2>3. ASSUME req[o].pc \in KeyInserted, req[o].key # None
        PROVE  req[o].key \notin keys'
    <3>1. AnswerCommit(r) => req[r].pc \in KeyInserted /\ keys' = keys \cup ({req[r].key} \ {None})
      BY DEF AnswerCommit, At, KeyInserted
    <3>2. keys' = keys \/ AnswerCommit(r)
      BY RowFrames DEF QuestionCommit
    <3>. QED BY <2>3, <3>1, <3>2 DEF AnswerInFlight
  <2>. QED BY <2>1, <2>2, <2>3
<1> HIDE DEF AnsweredNext
<1>6. ASSUME NEW o \in Req
      PROVE  /\ req'[o].pc \in Answering => req'[o].q \in QuestionIds'
             /\ req'[o].pc \in {"answer_turn", "answer_commit"} =>
                  AnsweredNext(req'[o].q, req'[o].seq)
             /\ req'[o].pc \in KeyInserted /\ req'[o].key # None =>
                  /\ req'[o].key \notin keys'
                  /\ \A p \in Req \ {o} : req'[p].pc \in KeyInserted => req'[p].key # req'[o].key
  <2>1. CASE o = r
    BY <1>1, <1>2, <1>3, <1>4, <2>1
  <2>2. CASE o # r
    <3>1. req[o].pc \in KeyInserted /\ req[o].key # None =>
            \A p \in Req \ {o} : req'[p].pc \in KeyInserted => req'[p].key # req[o].key
      BY <1>1, <1>4, <2>2 DEF AnswerInFlight
    <3>. QED BY <1>1, <1>5, <2>2, <3>1
  <2>. QED BY <2>1, <2>2
<1> USE DEF AnsweredNext
<1>. QED BY <1>6 DEF AnswerInFlight

-----------------------------------------------------------------------------
(* The config.                                                             *)

\* What each commit of a config column writes.
LEMMA ConfigWrites ==
  ASSUME TypeOK, ConfigInFlight, EvaluationInFlight, ConfigRefersToRows,
         NEW r \in Req, Act(r)
  PROVE  /\ config.context # None => config'.context # None
         /\ BeginCommit(r) \/ QuestionCommit(r) \/ EvalCommit(r) => config'.context # None
         /\ ConfigRefersToRows'
<1> USE DEF TypeOK
<1>1. CASE BeginCommit(r)
  <2>1. PICK snapshot \in Snapshot :
          config' = IF req[r].cfg.context = None THEN EnsureContext(req[r].cfg, snapshot)
                                                 ELSE config
    BY <1>1 DEF BeginCommit
  <2>4. req[r].cfg \in Config
    BY DEF Locals
  <2>2. CASE req[r].cfg.context = None
    <3>1. config' = EnsureContext(req[r].cfg, snapshot)
      BY <2>1, <2>2
    <3>. QED BY <2>4, <3>1, EnsureContextTyped, RowsGrow DEF ConfigInFlight, ConfigRefersToRows
  <2>3. CASE req[r].cfg.context # None
    BY <2>1, <2>3, RowsGrow DEF ConfigInFlight, ConfigRefersToRows
  <2>. QED BY <2>2, <2>3
<1>2. CASE QuestionCommit(r)
  <2>1. /\ config' = [req[r].cfg EXCEPT !.coverage = @ \cup {req[r].q}]
        /\ req[r].cfg \in Config
        /\ req[r].pc \in Asking
    BY <1>2 DEF QuestionCommit, Locals, At, Asking
  <2>2. /\ config'.context = req[r].cfg.context
        /\ config'.coverage = req[r].cfg.coverage \cup {req[r].q}
        /\ config'.gaps = req[r].cfg.gaps
        /\ config'.directives = req[r].cfg.directives
    BY <2>1 DEF Config
  <2>3. req[r].q \in QuestionIds'
    <3> DEFINE row == [id |-> req[r].q, seq |-> req[r].seq]
    <3>1. row \in questions' /\ row.id = req[r].q
      BY <1>2 DEF QuestionCommit
    <3>. QED BY <3>1 DEF QuestionIds
  <2>. QED BY <2>1, <2>2, <2>3, RowsGrow DEF ConfigInFlight, ConfigRefersToRows
<1>3. CASE EvalCommit(r)
  <2>1. PICK directive \in {{}, {req[r].q}} :
          config' = [req[r].cfg EXCEPT !.directives = @ \cup directive,
                                       !.gaps = req[r].cfg.coverage]
    BY <1>3 DEF EvalCommit
  <2>2. req[r].cfg \in Config /\ req[r].pc \in Evaluating
    BY <1>3 DEF EvalCommit, Locals, At, Evaluating
  <2>3. /\ config'.context = req[r].cfg.context
        /\ config'.coverage = req[r].cfg.coverage
        /\ config'.gaps = req[r].cfg.coverage
        /\ config'.directives = req[r].cfg.directives \cup directive
    BY <2>1, <2>2 DEF Config
  <2>4. req[r].q \in EvaluatedIds'
    <3>1. PICK a \in answers : a.question = req[r].q /\ a.seq = req[r].seq
      BY <2>2 DEF EvaluationInFlight, AnswersTo
    <3>2. a \in answers' /\ a.seq \in evaluations'
      BY <1>3, <3>1 DEF EvalCommit
    <3>. QED BY <3>1, <3>2 DEF EvaluatedIds
  <2>. QED BY <2>2, <2>3, <2>4, RowsGrow DEF ConfigInFlight, ConfigRefersToRows
<1>4. CASE UNCHANGED config
  <2>1. ~(BeginCommit(r) \/ QuestionCommit(r) \/ EvalCommit(r)) => ConfigRefersToRows'
    BY <1>4, RowsGrow DEF ConfigRefersToRows
  <2>. QED BY <1>1, <1>2, <1>3, <1>4, <2>1
<1>. QED BY <1>1, <1>2, <1>3, <1>4, RowFrames

\* A step that asks, or changes the status, leaves the snapshot in place.
LEMMA GroundedStep ==
  ASSUME TypeOK, NeverUngrounded, StatusInFlight, ConfigInFlight, EvaluationInFlight,
         ConfigRefersToRows, NEW r \in Req, Act(r)
  PROVE  NeverUngrounded'
<1>1. CASE config.context # None
  BY <1>1, ConfigWrites DEF NeverUngrounded
<1>2. CASE BeginCommit(r) \/ QuestionCommit(r) \/ EvalCommit(r)
  BY <1>2, ConfigWrites DEF NeverUngrounded
<1>3. CASE /\ config.context = None
           /\ ~(BeginCommit(r) \/ QuestionCommit(r) \/ EvalCommit(r))
  <2>1. questions = {} /\ status \in {"created", "cancelled"}
    BY <1>3 DEF NeverUngrounded
  <2>2. questions' = {}
    <3>1. AnswerCommit(r) => UNCHANGED questions
      BY DEF AnswerCommit
    <3>. QED BY <1>3, <2>1, <3>1, RowFrames
  <2>3. ~StopCommit(r)
    BY <1>3 DEF StopCommit, At, StatusInFlight, Stopping
  <2>4. StatusCommit(r) => status' = "cancelled"
    BY <1>3 DEF StatusCommit, At, StatusInFlight
  <2>5. status' \in {"created", "cancelled"}
    BY <1>3, <2>1, <2>3, <2>4, RowFrames
  <2>. QED BY <2>2, <2>5 DEF NeverUngrounded
<1>. QED BY <1>1, <1>2, <1>3

\* A status about to be written still needs no snapshot, or has it.
LEMMA StatusStep ==
  ASSUME TypeOK, NeverUngrounded, StatusInFlight, ConfigInFlight, EvaluationInFlight,
         ConfigRefersToRows, NEW r \in Req, Act(r)
  PROVE  StatusInFlight'
<1>1. config.context # None => config'.context # None
  BY ConfigWrites
<1>2. req'[r].pc = "status_commit" /\ req'[r].target # "cancelled" => config.context # None
  <2>1. ASSUME NEW t \in Moves, StatusRead(r, t), t # "cancelled"
        PROVE  config.context # None
    <3>1. status \notin {"created", "cancelled"}
      BY <2>1 DEF StatusRead, IsLegal, TRANSITIONS, TypeOK, Statuses
    <3>. QED BY <3>1 DEF NeverUngrounded
  <2>2. ASSUME NEW t \in Moves, StatusRead(r, t) PROVE req'[r].target = t
    BY <2>2 DEF StatusRead, Become, TypeOK, Idle
  <2>. QED BY <2>1, <2>2, LocalFrames
<1>3. req'[r].pc \in Stopping => config.context # None
  <2>1. StopRead(r) => status \notin {"created", "cancelled"}
    BY DEF StopRead, IsLegal, TRANSITIONS, TypeOK, Statuses
  <2>2. StopEvals(r) => config.context # None
    BY DEF StopEvals, At, StatusInFlight, Stopping
  <2>. QED BY <2>1, <2>2, LocalFrames DEF NeverUngrounded
<1>. QED BY <1>1, <1>2, <1>3, LocalFrames DEF StatusInFlight

\* The config a request carries: fresh from the row, kept, or dropped.
LEMMA ConfigFlightStep ==
  ASSUME TypeOK, NeverUngrounded, IdsInFlight, ConfigInFlight, EvaluationInFlight,
         ConfigRefersToRows, NEW r \in Req, Act(r)
  PROVE  ConfigInFlight'
<1> USE DEF TypeOK
<1> DEFINE Sound(cfg) ==
             /\ cfg.context # None => config'.context # None
             /\ cfg.coverage \cup cfg.gaps \subseteq QuestionIds'
             /\ cfg.directives \subseteq EvaluatedIds'
<1>1. \A o \in Req : Sound(req[o].cfg)
  BY ConfigWrites, RowsGrow DEF ConfigInFlight
<1>2. Sound(NewConfig) /\ Sound(config)
  BY ConfigWrites, RowsGrow DEF NewConfig, ConfigRefersToRows
<1>3. ASSUME NEW snapshot \in Snapshot, status \in Questioning
      PROVE  /\ Sound(EnsureContext(config, snapshot))
             /\ EnsureContext(config, snapshot).context # None
  <2>1. config.context # None
    BY <1>3 DEF NeverUngrounded, Questioning
  <2>. QED BY <1>2, <2>1, EnsureContextTyped DEF EnsureContext
<1> HIDE DEF Sound
\* Steps that read a config.
<1>4. NextRead(r) => Sound(req'[r].cfg) /\ req'[r].cfg.context # None
                     /\ req'[r].pc = "question_llm"
  <2>1. ASSUME NextRead(r)
        PROVE  \E snapshot \in Snapshot : /\ req'[r].cfg = EnsureContext(config, snapshot)
                                          /\ req'[r].pc = "question_llm"
    BY <2>1 DEF NextRead, Become, Idle
  <2>. QED BY <1>3, <2>1 DEF NextRead
<1>5. EvalRead(r) => req'[r] = Idle \/ (Sound(req'[r].cfg) /\ req'[r].cfg.context # None)
  <2>1. ASSUME EvalRead(r), req'[r] # Idle
        PROVE  /\ \E snapshot \in Snapshot : req'[r].cfg = EnsureContext(config, snapshot)
               /\ status \in Questioning
    BY <2>1 DEF EvalRead, Become, Locals
  <2>. QED BY <1>3, <2>1
<1>6. BeginRead(r) => req'[r].cfg = config
  BY DEF BeginRead, Become, Idle
\* Steps that keep it.
<1>7. QuestionSeq(r) \/ AnswerSeq(r) \/ StopEvals(r) \/ QuestionFlush(r) \/ EvalRetry(r)
        => req'[r].cfg = req[r].cfg
  <2>1. QuestionSeq(r) \/ AnswerSeq(r) => req'[r].cfg = req[r].cfg
    BY DEF QuestionSeq, AnswerSeq, Become, Locals
  <2>2. StopEvals(r) => req'[r].cfg = req[r].cfg
    BY DEF StopEvals, Become, Locals
  <2>3. QuestionFlush(r) \/ EvalRetry(r) => req'[r].cfg = req[r].cfg
    BY DEF QuestionFlush, EvalRetry, Become, Locals
  <2>. QED BY <2>1, <2>2, <2>3
<1>8. QuestionTurn(r) \/ AnswerTurn(r) \/ AnswerKey(r) \/ EvalInsert(r)
        => req'[r] = Idle \/ (req'[r].cfg = req[r].cfg /\ req'[r].q = req[r].q)
  BY Waits DEF Kept
\* Steps that drop it.
<1>9. Idle.cfg = NewConfig /\ Idle.pc = "idle"
  BY DEF Idle
<1>10. ASSUME \/ BeginCommit(r) \/ StatusCommit(r) \/ StopCommit(r) \/ QuestionCommit(r)
              \/ AnswerCommit(r) \/ EvalCommit(r) \/ HintCommit(r) \/ StopRead(r) \/ Abort(r)
              \/ \E t \in Moves : StatusRead(r, t)
              \/ \E q \in QuestionId : EvaluateStart(r, q) \/ HintRead(r, q)
              \/ \E q \in QuestionId, key \in Key \cup {None}, evaluate \in BOOLEAN :
                   SubmitRead(r, q, key, evaluate)
       PROVE  req'[r].cfg = NewConfig
  <2>1. BeginCommit(r) \/ StatusCommit(r) \/ StopCommit(r) \/ QuestionCommit(r)
          \/ EvalCommit(r) \/ HintCommit(r) \/ Abort(r) => req'[r] = Idle
    BY DEF BeginCommit, StatusCommit, StopCommit, QuestionCommit, EvalCommit, HintCommit,
           Abort, Become
  <2>2. AnswerCommit(r) => req'[r].cfg = NewConfig
    BY DEF AnswerCommit, Become, Idle
  <2>3. StopRead(r) => req'[r].cfg = NewConfig
    BY DEF StopRead, Become, Idle
  <2>4. \A t \in Moves : StatusRead(r, t) => req'[r].cfg = NewConfig
    BY DEF StatusRead, Become, Idle
  <2>5. \A q \in QuestionId : EvaluateStart(r, q) \/ HintRead(r, q) => req'[r].cfg = NewConfig
    BY DEF EvaluateStart, HintRead, Become, Idle
  <2>6. \A q \in QuestionId, key \in Key \cup {None}, evaluate \in BOOLEAN :
          SubmitRead(r, q, key, evaluate) => req'[r].cfg = NewConfig
    BY DEF SubmitRead, Become, Idle
  <2>. QED BY <1>9, <1>10, <2>1, <2>2, <2>3, <2>4, <2>5, <2>6
<1>11. Sound(req'[r].cfg)
  BY <1>1, <1>2, <1>4, <1>5, <1>6, <1>7, <1>8, <1>9, <1>10 DEF Act, Receive, Step
<1>12. req'[r].pc \in Asking \cup Evaluating => req'[r].cfg.context # None
  <2>1. QuestionFlush(r) \/ QuestionSeq(r) \/ QuestionTurn(r) \/ EvalRetry(r) \/ EvalInsert(r)
          => req[r].cfg.context # None
    BY DEF QuestionFlush, QuestionSeq, QuestionTurn, InsertTurn, EvalRetry, EvalInsert, At,
           ConfigInFlight, Asking, Evaluating
  <2>2. Idle.pc \notin Asking \cup Evaluating
    BY <1>9 DEF Asking, Evaluating
  <2>. QED BY <1>4, <1>5, <1>7, <1>8, <2>1, <2>2, LocalFrames
<1>13. req'[r].pc \in Asking \ {"question_llm"} => req'[r].q \in QuestionId
  <2>1. QuestionFlush(r) => req'[r].q = qids + 1 /\ qids + 1 \in QuestionId
    <3>1. QuestionFlush(r) => req'[r].q = qids + 1
      BY DEF QuestionFlush, Become, Locals
    <3>2. QuestionFlush(r) => qids + 1 \in QuestionId
      BY GeneratingCounted DEF QuestionFlush, At, IdsInFlight, QuestionId
    <3>. QED BY <3>1, <3>2
  <2>2. QuestionSeq(r) \/ QuestionTurn(r) => req[r].q \in QuestionId
    BY DEF QuestionSeq, QuestionTurn, InsertTurn, At, ConfigInFlight, Asking
  <2>3. QuestionSeq(r) => req'[r].q = req[r].q
    BY DEF QuestionSeq, Become, Locals
  <2>4. Idle.pc \notin Asking
    BY <1>9 DEF Asking
  <2>. QED BY <1>4, <1>8, <2>1, <2>2, <2>3, <2>4, LocalFrames
<1>. QED BY <1>1, <1>11, <1>12, <1>13, LocalFrames DEF ConfigInFlight, Sound

-----------------------------------------------------------------------------
(* Evaluations, hints and feedback.                                        *)

\* An evaluation in flight is still of an answer to its question.
LEMMA EvaluationStep ==
  ASSUME TypeOK, AnswersFollowQuestions, AnswerInFlight, EvaluationInFlight,
         NEW r \in Req, Act(r)
  PROVE  EvaluationInFlight'
<1> USE DEF TypeOK
<1>1. req'[r].pc = "eval_read" => req'[r].q \in QuestionIds'
  <2>1. ASSUME NEW q \in QuestionId, EvaluateStart(r, q)
        PROVE  req'[r].q \in QuestionIds'
    <3>1. req'[r].q = q /\ q \in AnsweredIds
      BY <2>1 DEF EvaluateStart, Become, Idle
    <3>2. q \in QuestionIds
      BY <3>1 DEF AnsweredIds, AnswersFollowQuestions, QuestionIds
    <3>. QED BY <3>1, <3>2, RowsGrow
  <2>2. AnswerCommit(r) /\ req'[r].pc = "eval_read" => req'[r].q = req[r].q
    BY DEF AnswerCommit, Become, Idle
  <2>3. AnswerCommit(r) => req[r].q \in QuestionIds
    BY DEF AnswerCommit, At, AnswerInFlight, Answering
  <2>. QED BY <2>1, <2>2, <2>3, LocalFrames, RowsGrow
<1>2. req'[r].pc \in Evaluating => \E a \in answers' : a.question = req'[r].q /\ a.seq = req'[r].seq
  <2>1. Idle.pc \notin Evaluating
    BY DEF Idle, Evaluating
  <2>2. EvalRead(r) => req'[r] = Idle \/ \E a \in answers : a.question = req'[r].q /\ a.seq = req'[r].seq
    <3>1. ASSUME NEW a \in AnswersTo(req[r].q), NEW snapshot \in Snapshot,
                 Become(r, [req[r] EXCEPT !.pc = "eval_llm", !.seq = a.seq,
                                          !.cfg = EnsureContext(config, snapshot)])
          PROVE  a \in answers /\ a.question = req'[r].q /\ a.seq = req'[r].seq
      BY <3>1 DEF Become, Locals, AnswersTo
    <3>. QED BY <3>1 DEF EvalRead, Become
  <2>3. EvalRetry(r) \/ EvalInsert(r) =>
          \E a \in answers : a.question = req[r].q /\ a.seq = req[r].seq
    BY DEF EvalRetry, EvalInsert, At, EvaluationInFlight, Evaluating, AnswersTo
  <2>4. EvalRetry(r) => req'[r].q = req[r].q /\ req'[r].seq = req[r].seq
    BY DEF EvalRetry, Become, Locals
  <2>5. EvalInsert(r) => req'[r] = Idle \/ (req'[r].q = req[r].q /\ req'[r].seq = req[r].seq)
    BY Waits DEF Kept
  <2>. QED BY <2>1, <2>2, <2>3, <2>4, <2>5, LocalFrames, RowsGrow
<1>3. req'[r].pc = "hint_commit" => req'[r].q \in QuestionId
  <2>1. \A q \in QuestionId : HintRead(r, q) => req'[r].q = q
    BY DEF HintRead, Become, Idle
  <2>. QED BY <2>1, LocalFrames
<1>4. req'[r].pc = "stop_commit" => req'[r].evals \subseteq evaluations'
  <2>1. StopRead(r) => req'[r].pc = "stop_evals"
    BY DEF StopRead, Become, Idle
  <2>2. StopEvals(r) => req'[r].evals \subseteq evaluations
    BY DEF StopEvals, Become, Locals
  <2>. QED BY <2>1, <2>2, LocalFrames, RowsGrow DEF Stopping
<1>5. ASSUME NEW o \in Req \ {r}
      PROVE  /\ req[o].pc = "eval_read" => req[o].q \in QuestionIds'
             /\ req[o].pc \in Evaluating =>
                  \E a \in answers' : a.question = req[o].q /\ a.seq = req[o].seq
             /\ req[o].pc = "hint_commit" => req[o].q \in QuestionId
             /\ req[o].pc = "stop_commit" => req[o].evals \subseteq evaluations'
  BY RowsGrow DEF EvaluationInFlight, AnswersTo
<1> HIDE DEF TypeOK
<1>6. \A o \in Req :
        /\ req'[o].pc = "eval_read" => req'[o].q \in QuestionIds'
        /\ req'[o].pc \in Evaluating =>
             \E a \in answers' : a.question = req'[o].q /\ a.seq = req'[o].seq
        /\ req'[o].pc = "hint_commit" => req'[o].q \in QuestionId
        /\ req'[o].pc = "stop_commit" => req'[o].evals \subseteq evaluations'
  BY <1>1, <1>2, <1>3, <1>4, <1>5, LocalFrames
<1>. QED BY <1>6 DEF EvaluationInFlight, AnswersTo

\* A feedback row is written from evaluations that are stored.
LEMMA FeedbackStep ==
  ASSUME TypeOK, FeedbackIsFounded, EvaluationInFlight, NEW r \in Req, Act(r)
  PROVE  FeedbackIsFounded'
<1>1. CASE UNCHANGED feedback
  BY <1>1, RowsGrow DEF FeedbackIsFounded
<1>2. CASE StopCommit(r)
  <2>1. CASE feedback' = feedback
    BY <2>1, RowsGrow DEF FeedbackIsFounded
  <2>2. CASE req[r].evals # {} /\ feedback' = Append(feedback, req[r].evals)
    <3>1. req[r].evals \subseteq evaluations
      BY <1>2 DEF StopCommit, At, EvaluationInFlight
    <3>2. feedback \in Seq(SUBSET Nat) /\ req[r].evals \in SUBSET Nat
      BY DEF TypeOK, Locals
    <3>3. ASSUME NEW i \in DOMAIN feedback'
          PROVE  feedback'[i] # {} /\ feedback'[i] \subseteq evaluations'
      <4>1. CASE i \in DOMAIN feedback
        <5>1. feedback'[i] = feedback[i]
          BY <2>2, <3>2, <4>1
        <5>. QED BY <4>1, <5>1, RowsGrow DEF FeedbackIsFounded
      <4>2. CASE i \notin DOMAIN feedback
        <5>1. feedback'[i] = req[r].evals
          BY <2>2, <3>2, <3>3, <4>2
        <5>. QED BY <2>2, <3>1, <5>1, RowsGrow
      <4>. QED BY <4>1, <4>2
    <3>. QED BY <3>3 DEF FeedbackIsFounded
  <2>. QED BY <1>2, <2>1, <2>2 DEF StopCommit
<1>. QED BY <1>1, <1>2, RowFrames

\* A request is admitted to generate a question only while an id is left for
\* it, and drawing the id ends its claim.
LEMMA IdsStep ==
  ASSUME TypeOK, IdsInFlight, NEW r \in Req, Act(r)
  PROVE  IdsInFlight'
<1> USE DEF TypeOK
<1>1. qids \in Nat /\ IsFiniteSet(Generating) /\ Cardinality(Generating) \in Nat
  BY GeneratingCounted
<1>2. CASE NextRead(r)
  <2>1. req'[r].pc = "question_llm" /\ req[r].pc = "idle" /\ qids' = qids
    BY <1>2 DEF NextRead, Become, Idle, At, rows
  <2>2. Generating' = Generating \cup {r} /\ r \notin Generating
    BY <2>1, LocalFrames DEF Generating
  <2>3. Cardinality(Generating') = Cardinality(Generating) + 1
    BY <1>1, <2>2, FS_AddElement
  <2>. QED BY <1>1, <1>2, <2>1, <2>3 DEF NextRead, IdsInFlight
<1>3. CASE QuestionFlush(r)
  <2>1. req'[r].pc = "question_seq" /\ req[r].pc = "question_llm" /\ qids' = qids + 1
    BY <1>3 DEF QuestionFlush, Become, Locals, At
  <2>2. Generating' = Generating \ {r} /\ r \in Generating
    BY <2>1, LocalFrames DEF Generating
  <2>3. Cardinality(Generating') = Cardinality(Generating) - 1
    BY <1>1, <2>2, FS_RemoveElement
  <2>. QED BY <1>1, <2>1, <2>3 DEF IdsInFlight
<1>4. CASE ~NextRead(r) /\ ~QuestionFlush(r)
  <2>1. qids' = qids
    <3>1. CASE Receive(r)
      BY <1>4, <3>1 DEF Receive, BeginRead, StatusRead, StopRead, SubmitRead,
                        EvaluateStart, HintRead, rows
    <3>2. CASE Abort(r)
      BY <3>2 DEF Abort, rows
    <3>3. CASE Step(r)
      BY <1>4, <3>3 DEF Step, BeginCommit, StatusCommit, StopEvals, StopCommit,
              QuestionSeq, QuestionTurn, QuestionCommit, AnswerKey, AnswerSeq,
              AnswerTurn, AnswerCommit, EvalRead, EvalRetry, EvalInsert, EvalCommit,
              HintCommit, InsertTurn, rows
    <3>. QED BY <3>1, <3>2, <3>3 DEF Act
  <2>2. req'[r].pc # "question_llm"
    <3>1. QuestionSeq(r) => req'[r].pc = "question_turn"
      BY DEF QuestionSeq, Become, Locals
    <3>2. QuestionTurn(r) => req'[r].pc \in {"idle", "question_commit"}
      BY DEF QuestionTurn, InsertTurn, Become, Locals, Idle
    <3>. QED BY <1>4, <3>1, <3>2, LocalFrames DEF Asking
  <2>3. Generating' \subseteq Generating
    BY <2>2, LocalFrames DEF Generating
  <2>4. Cardinality(Generating') <= Cardinality(Generating) /\ Cardinality(Generating') \in Nat
    BY <1>1, <2>3, FS_Subset, FS_CardinalityType
  <2>. QED BY <1>1, <2>1, <2>4 DEF IdsInFlight
<1>. QED BY <1>2, <1>3, <1>4

-----------------------------------------------------------------------------
(* The theorems.                                                           *)

\* A freshly created session satisfies every conjunct.
LEMMA InitInv == Init => IInv
<1> SUFFICES ASSUME Init PROVE IInv
  OBVIOUS
<1>1. /\ questions = {} /\ answers = {} /\ evaluations = {} /\ keys = {} /\ qids = 0
      /\ feedback = << >> /\ config = NewConfig /\ status = "created"
      /\ \A r \in Req : req[r] = Idle
  BY DEF Init
<1>2. Turns = {} /\ MaxSeq = 0
  BY <1>1 DEF Turns, MaxSeq
<1>3. TypeOK
  BY InitTyped
<1>4. TranscriptIsDense /\ AnswersFollowQuestions /\ KeysIdentifyAnswers
      /\ NeverUngrounded /\ FeedbackIsFounded
  BY <1>1, <1>2 DEF TranscriptIsDense, AnswersFollowQuestions, KeysIdentifyAnswers,
                    NeverUngrounded, FeedbackIsFounded
<1>5. ConfigRefersToRows
  BY <1>1 DEF ConfigRefersToRows, NewConfig
<1>6. IdsInFlight
  <2>1. Generating = {}
    BY <1>1 DEF Generating, Idle
  <2>. QED BY <1>1, <2>1, FS_EmptySet DEF IdsInFlight
<1>7. SeqInFlight /\ AnswerInFlight /\ StatusInFlight /\ EvaluationInFlight
  BY <1>1, <1>2 DEF SeqInFlight, AnswerInFlight, StatusInFlight, EvaluationInFlight, Idle,
     InsertingTurn, TurnInserted, Answering, KeyInserted, Stopping, Evaluating
<1>8. ConfigInFlight
  BY <1>1 DEF ConfigInFlight, Idle, NewConfig, Asking, Evaluating
<1>. QED BY <1>3, <1>4, <1>5, <1>6, <1>7, <1>8 DEF IInv

\* Every step keeps every conjunct: the lemmas above, one conjunct each.
LEMMA NextInv == IInv /\ [Next]_vars => IInv'
<1> SUFFICES ASSUME IInv, [Next]_vars PROVE IInv'
  OBVIOUS
<1>1. CASE UNCHANGED vars
  <2>1. /\ Turns' = Turns /\ MaxSeq' = MaxSeq
        /\ QuestionIds' = QuestionIds /\ EvaluatedIds' = EvaluatedIds
        /\ Generating' = Generating
    BY <1>1 DEF vars, Turns, MaxSeq, QuestionIds, EvaluatedIds, Generating
  <2>2. TypeOK' /\ TranscriptIsDense' /\ AnswersFollowQuestions' /\ KeysIdentifyAnswers'
    BY <1>1, <2>1 DEF vars, IInv, TypeOK, TranscriptIsDense, AnswersFollowQuestions,
                      KeysIdentifyAnswers
  <2>3. NeverUngrounded' /\ ConfigRefersToRows' /\ FeedbackIsFounded' /\ IdsInFlight'
    BY <1>1, <2>1 DEF vars, IInv, NeverUngrounded, ConfigRefersToRows, FeedbackIsFounded,
                      IdsInFlight
  <2>4. SeqInFlight'
    BY <1>1, <2>1 DEF vars, IInv, SeqInFlight
  <2>5. AnswerInFlight' /\ StatusInFlight'
    BY <1>1, <2>1 DEF vars, IInv, AnswerInFlight, StatusInFlight
  <2>6. ConfigInFlight' /\ EvaluationInFlight'
    BY <1>1, <2>1 DEF vars, IInv, ConfigInFlight, EvaluationInFlight, AnswersTo
  <2>. QED BY <2>2, <2>3, <2>4, <2>5, <2>6 DEF IInv
<1>2. ASSUME NEW r \in Req, Act(r) PROVE IInv'
  <2>. QED BY <1>2, TypeStep, DenseStep, SeqStep, AnswerStep, KeyStep, AnswerFlightStep,
              ConfigWrites, GroundedStep, StatusStep, ConfigFlightStep, EvaluationStep,
              FeedbackStep, IdsStep
           DEF IInv
<1>. QED BY <1>1, <1>2 DEF Next, Act

\* However many requests interleave, fail or abort, the session's invariants
\* and what the requests in flight rely on hold.
THEOREM Invariance == Spec => []IInv
  BY InitInv, NextInv, PTL DEF Spec

\* Every column and local keeps its type, for every size of the instance.
THEOREM TypeCorrect == Spec => []TypeOK
<1>1. IInv => TypeOK
  BY DEF IInv
<1>. QED BY Invariance, <1>1, PTL

\* The turns stay numbered 1, 2, 3, ... without a gap or a duplicate.
THEOREM TranscriptTheorem == Spec => []TranscriptIsDense
<1>1. IInv => TranscriptIsDense
  BY DEF IInv
<1>. QED BY Invariance, <1>1, PTL

\* Answers stand after the questions they answer; no evaluation dangles.
THEOREM AnswerTheorem == Spec => []AnswersFollowQuestions
<1>1. IInv => AnswersFollowQuestions
  BY DEF IInv
<1>. QED BY Invariance, <1>1, PTL

\* An idempotency key is recorded with, and only with, its one answer.
THEOREM KeyTheorem == Spec => []KeysIdentifyAnswers
<1>1. IInv => KeysIdentifyAnswers
  BY DEF IInv
<1>. QED BY Invariance, <1>1, PTL

\* No question is asked without the grounding snapshot, whatever config a
\* slow request writes back.
THEOREM GroundingTheorem == Spec => []NeverUngrounded
<1>1. IInv => NeverUngrounded
  BY DEF IInv
<1>. QED BY Invariance, <1>1, PTL

\* The config never names a row that is not there.
THEOREM ConfigTheorem == Spec => []ConfigRefersToRows
<1>1. IInv => ConfigRefersToRows
  BY DEF IInv
<1>. QED BY Invariance, <1>1, PTL

\* Prep memory is drawn from stored evaluations only.
THEOREM FeedbackTheorem == Spec => []FeedbackIsFounded
<1>1. IInv => FeedbackIsFounded
  BY DEF IInv
<1>. QED BY Invariance, <1>1, PTL

-----------------------------------------------------------------------------
(* A session whose requests are served one at a time implements              *)
(* InterviewContract, with failures at every step.  What a request has read  *)
(* is then what the rows still say when it writes.                           *)

\* No two requests are in flight at the same time.
OneAtATime == \A r, o \in Req : ~At(r, "idle") /\ ~At(o, "idle") => r = o

-----------------------------------------------------------------------------
(* The invariant of a session that is served one request at a time.        *)

\* What a request with the locals l has read is still so: the check it made
\* of the status, the config it will write back, the evaluations it
\* aggregates, and that its question is new, open or not yet evaluated.
Current(l) ==
  /\ l.pc = "begin_commit" => BeginIsLegal(status)
  /\ l.pc = "status_commit" => l.target \in Moves /\ IsLegal(status, l.target)
  /\ l.pc \in Stopping => IsLegal(status, "completed")
  /\ l.pc = "stop_commit" => l.evals = evaluations
  /\ l.pc \in Asking \cup Answering \cup Evaluating \cup {"hint_commit"} =>
       status \in Questioning
  /\ l.pc \in {"begin_commit"} \cup Asking \cup Evaluating => l.cfg = config
  /\ l.pc \in Asking \ {"question_llm"} => l.q <= qids /\ \A id \in QuestionIds : id < l.q
  /\ l.pc \in Answering => l.q \notin AnsweredIds
  /\ l.pc = "eval_commit" => l.seq \notin evaluations
  /\ l.pc = "hint_commit" => l.q \in QuestionIds /\ l.n = hints[l.q]

\* A question has an id the sequence gave out.
IdsAreDrawn == \A id \in QuestionIds : id <= qids

\* A question is answered once.
AnsweredOnce == \A x, y \in answers : x.question = y.question => x = y

\* A session is stopped once: it leaves one feedback row at most.
StoppedOnce == Len(feedback) <= 1 /\ (feedback # << >> => status = "completed")

SerialInv ==
  /\ \A r \in Req : Current(req[r])
  /\ IdsAreDrawn /\ AnsweredOnce /\ StoppedOnce

-----------------------------------------------------------------------------
(* The rows, as InterviewContract sees them.                               *)

\* The evaluations each feedback row aggregates, by question.
Aggregated ==
  [i \in DOMAIN feedback |-> {a.question : a \in {b \in answers : b.seq \in feedback[i]}}]

Seen == <<status, config.context, QuestionIds, AnsweredIds, EvaluatedIds,
          config.directives, hints, Aggregated>>

\* The contract's variables under the refinement mapping.
LEMMA SeenIsMapped == Contract!vars = Seen
  BY DEF Contract!vars, Seen, Aggregated

\* Both modules extend InterviewStates.
LEMMA SameStates ==
  /\ \A current, target : Contract!IsLegal(current, target) <=> IsLegal(current, target)
  /\ \A current : Contract!BeginIsLegal(current) <=> BeginIsLegal(current)
  /\ Contract!Questioning = Questioning
  BY DEF Contract!IsLegal, IsLegal, Contract!TRANSITIONS, TRANSITIONS, Contract!Statuses,
         Statuses, Contract!BeginIsLegal, BeginIsLegal, Contract!Questioning, Questioning

\* A freshly created session is a fresh session of the contract.
LEMMA InitSeen == Init => Contract!Init
<1> SUFFICES ASSUME Init PROVE Contract!Init
  OBVIOUS
<1>1. QuestionIds = {} /\ AnsweredIds = {} /\ EvaluatedIds = {}
  BY DEF Init, QuestionIds, AnsweredIds, EvaluatedIds
<1>2. config.context = None /\ config.directives = {}
  BY DEF Init, NewConfig
<1>3. Aggregated = << >>
  BY DEF Init, Aggregated
<1>. QED BY <1>1, <1>2, <1>3 DEF Init, Contract!Init, Aggregated, QuestionId

-----------------------------------------------------------------------------
(* A request that is served alone.                                         *)

\* A received request is in flight, and only one in flight takes a step.
LEMMA Starts ==
  ASSUME TypeOK, NEW r \in Req
  PROVE  /\ Receive(r) => ~At(r, "idle")'
         /\ Step(r) \/ Abort(r) => ~At(r, "idle")
<1>1. ASSUME NEW l, l.pc # "idle", Become(r, l) PROVE ~At(r, "idle")'
  BY <1>1 DEF TypeOK, Become, At
<1>2. Receive(r) => ~At(r, "idle")'
  <2>1. BeginRead(r) \/ StopRead(r) => ~At(r, "idle")'
    BY <1>1 DEF BeginRead, StopRead, Idle
  <2>2. NextRead(r) => ~At(r, "idle")'
    BY <1>1 DEF NextRead, Idle
  <2>3. \A t \in Moves : StatusRead(r, t) => ~At(r, "idle")'
    BY <1>1 DEF StatusRead, Idle
  <2>4. \A q \in QuestionId : EvaluateStart(r, q) \/ HintRead(r, q) => ~At(r, "idle")'
    BY <1>1 DEF EvaluateStart, HintRead, Idle
  <2>5. \A q \in QuestionId, key \in Key \cup {None}, evaluate \in BOOLEAN :
          SubmitRead(r, q, key, evaluate) => ~At(r, "idle")'
    BY <1>1 DEF SubmitRead, Idle
  <2>. QED BY <2>1, <2>2, <2>3, <2>4, <2>5 DEF Receive
<1>3. Step(r) \/ Abort(r) => ~At(r, "idle")
  BY DEF Step, BeginCommit, StatusCommit, StopEvals, StopCommit, QuestionFlush,
         QuestionSeq, QuestionTurn, QuestionCommit, AnswerKey, AnswerSeq, AnswerTurn,
         AnswerCommit, EvalRead, EvalRetry, EvalInsert, EvalCommit, HintCommit,
         InsertTurn, Abort, At
<1>. QED BY <1>2, <1>3

\* While a request takes a step every other one is idle.
LEMMA ServedAlone ==
  ASSUME TypeOK, OneAtATime, OneAtATime', NEW r \in Req, Act(r), NEW o \in Req \ {r}
  PROVE  req[o].pc = "idle" /\ req'[o] = req[o]
<1>1. req'[o] = req[o]
  BY LocalFrames
<1>2. CASE Receive(r)
  <2>1. ~At(r, "idle")'
    BY <1>2, Starts
  <2>. QED BY <1>1, <2>1 DEF OneAtATime, At
<1>3. CASE Step(r) \/ Abort(r)
  <2>1. ~At(r, "idle")
    BY <1>3, Starts
  <2>. QED BY <1>1, <2>1 DEF OneAtATime, At
<1>. QED BY <1>2, <1>3 DEF Act

\* A request that has read nothing yet, or does nothing, relies on nothing.
LEMMA IdleCurrent ==
  ASSUME NEW l, l.pc \in {"idle", "eval_read"}
  PROVE  Current(l)
  BY DEF Current, Stopping, Asking, Answering, Evaluating

\* In a session that asks, the snapshot is there, and reading the config
\* leaves it as it is.
LEMMA NothingToBuild ==
  ASSUME IInv, NEW snapshot \in Snapshot, status \in Questioning
  PROVE  EnsureContext(config, snapshot) = config
<1>1. config.context # None
  BY DEF IInv, NeverUngrounded, Questioning
<1>. QED BY <1>1 DEF EnsureContext

-----------------------------------------------------------------------------
(* What a request has read stays so while it is served alone.              *)

\* A step that writes no row is judged by the locals it leaves.
LEMMA CurrentFrame ==
  ASSUME UNCHANGED rows, NEW r \in Req, NEW l, req'[r] = l, Current(l)
  PROVE  Current(req[r])'
<1>1. UNCHANGED <<status, config, evaluations, hints, qids, QuestionIds, AnsweredIds>>
  BY DEF rows, QuestionIds, AnsweredIds
<1>. QED BY <1>1 DEF Current

\* Every commit, and a step that fails, ends idle or before the evaluation.
LEMMA CurrentEnd ==
  ASSUME NEW r \in Req, req'[r].pc \in {"idle", "eval_read"}
  PROVE  Current(req[r])'
  BY DEF Current, Stopping, Asking, Answering, Evaluating

\* What a received request reads is what the rows say.
LEMMA CurrentAtStart ==
  ASSUME IInv, SerialInv, NEW r \in Req, Receive(r)
  PROVE  Current(req[r])'
<1>0. req \in [Req -> Locals]
  BY DEF IInv, TypeOK
<1>1. ASSUME NEW l, Become(r, l), UNCHANGED rows, Current(l) PROVE Current(req[r])'
  BY <1>0, <1>1, CurrentFrame DEF Become
<1>2. CASE BeginRead(r)
  <2> DEFINE l == [Idle EXCEPT !.pc = "begin_commit", !.cfg = config]
  <2>1. l.pc = "begin_commit" /\ l.cfg = config
    BY DEF Idle
  <2>2. BeginIsLegal(status) /\ Become(r, l) /\ UNCHANGED rows
    BY <1>2 DEF BeginRead
  <2> HIDE DEF l
  <2>3. Current(l)
    BY <2>1, <2>2 DEF Current, Stopping, Asking, Answering, Evaluating
  <2>. QED BY <1>1, <2>2, <2>3
<1>3. ASSUME NEW t \in Moves, StatusRead(r, t) PROVE Current(req[r])'
  <2> DEFINE l == [Idle EXCEPT !.pc = "status_commit", !.target = t]
  <2>1. l.pc = "status_commit" /\ l.target = t
    BY DEF Idle
  <2>2. IsLegal(status, t) /\ Become(r, l) /\ UNCHANGED rows
    BY <1>3 DEF StatusRead
  <2> HIDE DEF l
  <2>3. Current(l)
    BY <2>1, <2>2 DEF Current, Stopping, Asking, Answering, Evaluating
  <2>. QED BY <1>1, <2>2, <2>3
<1>4. CASE StopRead(r)
  <2> DEFINE l == [Idle EXCEPT !.pc = "stop_evals"]
  <2>1. l.pc = "stop_evals"
    BY DEF Idle
  <2>2. IsLegal(status, "completed") /\ Become(r, l) /\ UNCHANGED rows
    BY <1>4 DEF StopRead
  <2> HIDE DEF l
  <2>3. Current(l)
    BY <2>1, <2>2 DEF Current, Stopping, Asking, Answering, Evaluating
  <2>. QED BY <1>1, <2>2, <2>3
<1>5. CASE NextRead(r)
  <2>1. PICK snapshot \in Snapshot :
          Become(r, [Idle EXCEPT !.pc = "question_llm", !.cfg = EnsureContext(config, snapshot)])
    BY <1>5 DEF NextRead
  <2>2. status \in Questioning /\ UNCHANGED rows
    BY <1>5 DEF NextRead
  <2> DEFINE l == [Idle EXCEPT !.pc = "question_llm", !.cfg = EnsureContext(config, snapshot)]
  <2>3. l.pc = "question_llm" /\ l.cfg = config
    BY <2>2, NothingToBuild DEF Idle
  <2>4. Become(r, l)
    BY <2>1
  <2> HIDE DEF l
  <2>5. Current(l)
    BY <2>2, <2>3 DEF Current, Stopping, Asking, Answering, Evaluating
  <2>. QED BY <1>1, <2>2, <2>4, <2>5
<1>6. ASSUME NEW q \in QuestionId, NEW key \in Key \cup {None}, NEW evaluate \in BOOLEAN,
             SubmitRead(r, q, key, evaluate)
      PROVE  Current(req[r])'
  <2> DEFINE l == [Idle EXCEPT !.pc = "answer_key", !.q = q, !.key = key,
                               !.evaluate = evaluate]
  <2>1. l.pc = "answer_key" /\ l.q = q
    BY DEF Idle
  <2>2. status \in Questioning /\ Become(r, l) /\ UNCHANGED rows
    BY <1>6 DEF SubmitRead
  <2>3. q \notin AnsweredIds
    BY <1>6 DEF SubmitRead, AnswersTo, AnsweredIds
  <2> HIDE DEF l
  <2>4. Current(l)
    BY <2>1, <2>2, <2>3 DEF Current, Stopping, Asking, Answering, Evaluating
  <2>. QED BY <1>1, <2>2, <2>4
<1>7. ASSUME NEW q \in QuestionId, EvaluateStart(r, q) PROVE Current(req[r])'
  <2> DEFINE l == [Idle EXCEPT !.pc = "eval_read", !.q = q]
  <2>1. l.pc = "eval_read" /\ Become(r, l) /\ UNCHANGED rows
    BY <1>7 DEF EvaluateStart, Idle
  <2> HIDE DEF l
  <2>. QED BY <1>1, <2>1, IdleCurrent
<1>8. ASSUME NEW q \in QuestionId, HintRead(r, q) PROVE Current(req[r])'
  <2> DEFINE l == [Idle EXCEPT !.pc = "hint_commit", !.q = q, !.n = hints[q]]
  <2>1. l.pc = "hint_commit" /\ l.q = q /\ l.n = hints[q]
    BY DEF Idle
  <2>2. status \in Questioning /\ q \in QuestionIds /\ Become(r, l) /\ UNCHANGED rows
    BY <1>8 DEF HintRead
  <2> HIDE DEF l
  <2>3. Current(l)
    BY <2>1, <2>2 DEF Current, Stopping, Asking, Answering, Evaluating
  <2>. QED BY <1>1, <2>2, <2>3
<1>. QED BY <1>2, <1>3, <1>4, <1>5, <1>6, <1>7, <1>8 DEF Receive

\* A request's own steps keep what it relies on, and each check a request
\* makes before it goes on is made on what is still so.
LEMMA CurrentInFlight ==
  ASSUME IInv, SerialInv, NEW r \in Req, Step(r)
  PROVE  Current(req[r])'
<1>0. req \in [Req -> Locals] /\ req[r] \in Locals /\ Current(req[r])
  BY DEF IInv, TypeOK, SerialInv
<1> DEFINE now == req[r]
<1>1. ASSUME NEW l, Become(r, l), UNCHANGED rows, Current(l) PROVE Current(req[r])'
  BY <1>0, <1>1, CurrentFrame DEF Become
<1>2. ASSUME NEW l, Become(r, l), l.pc \in {"idle", "eval_read"} PROVE Current(req[r])'
  BY <1>0, <1>2, CurrentEnd DEF Become
<1>3. Idle.pc = "idle"
  BY DEF Idle
<1>4. CASE BeginCommit(r) \/ StatusCommit(r) \/ StopCommit(r) \/ QuestionCommit(r)
           \/ EvalCommit(r) \/ HintCommit(r)
  BY <1>2, <1>3, <1>4 DEF BeginCommit, StatusCommit, StopCommit, QuestionCommit, EvalCommit,
                          HintCommit
<1>5. CASE AnswerCommit(r)
  <2>1. [Idle EXCEPT !.pc = "eval_read", !.q = req[r].q].pc = "eval_read"
    BY DEF Idle
  <2>. QED BY <1>2, <1>3, <1>5, <2>1 DEF AnswerCommit
<1>6. CASE StopEvals(r)
  <2>1. PICK first \in [AnsweredIds -> answers] :
          /\ \A q \in AnsweredIds : first[q] \in AnswersTo(q)
          /\ Become(r, [req[r] EXCEPT !.pc = "stop_commit",
                          !.evals = {first[q].seq : q \in AnsweredIds} \cap evaluations])
    BY <1>6 DEF StopEvals
  <2>2. {first[q].seq : q \in AnsweredIds} \cap evaluations = evaluations
    <3>1. \A a \in answers : first[a.question] = a
      BY <2>1 DEF AnsweredIds, AnswersTo, SerialInv, AnsweredOnce
    <3>2. \A a \in answers : a.seq \in {first[q].seq : q \in AnsweredIds}
      BY <3>1 DEF AnsweredIds
    <3>3. evaluations \subseteq {a.seq : a \in answers}
      BY DEF IInv, AnswersFollowQuestions
    <3>. QED BY <3>2, <3>3
  <2> DEFINE l == [req[r] EXCEPT !.pc = "stop_commit", !.evals = evaluations]
  <2>3. l.pc = "stop_commit" /\ l.evals = evaluations
    BY <1>0 DEF Locals
  <2>4. Become(r, l) /\ UNCHANGED rows
    BY <1>6, <2>1, <2>2 DEF StopEvals
  <2>5. IsLegal(status, "completed")
    BY <1>0, <1>6 DEF StopEvals, At, Current, Stopping
  <2> HIDE DEF l
  <2>6. Current(l)
    BY <2>3, <2>5 DEF Current, Stopping, Asking, Answering, Evaluating
  <2>. QED BY <1>1, <2>4, <2>6
<1>7. CASE QuestionFlush(r)
  <2> DEFINE l == [req[r] EXCEPT !.pc = "question_seq", !.q = qids + 1]
  <2>1. l.pc = "question_seq" /\ l.q = qids + 1 /\ l.cfg = req[r].cfg
    BY <1>0 DEF Locals
  <2>2. status \in Questioning /\ req[r].cfg = config
    BY <1>0, <1>7 DEF QuestionFlush, At, Current, Asking
  <2>3. Become(r, l) /\ qids' = qids + 1
        /\ UNCHANGED <<status, config, evaluations, hints, QuestionIds, AnsweredIds>>
    BY <1>7 DEF QuestionFlush, QuestionIds, AnsweredIds
  <2>4. \A id \in QuestionIds : id < qids + 1
    <3>1. qids \in Nat /\ QuestionIds \subseteq Nat
      BY DEF IInv, TypeOK, QuestionIds, QuestionId
    <3>. QED BY <3>1 DEF SerialInv, IdsAreDrawn
  <2>5. qids + 1 <= qids + 1
    BY DEF IInv, TypeOK
  <2>6. req'[r] = l
    BY <1>0, <2>3 DEF Become
  <2> HIDE DEF l
  <2>. QED BY <2>1, <2>2, <2>3, <2>4, <2>5, <2>6
           DEF Current, Stopping, Asking, Answering, Evaluating
<1>8. ASSUME NEW l, req[r].pc \in Asking \ {"question_llm"},
             l.pc \in {"question_turn", "question_commit"},
             l.cfg = req[r].cfg, l.q = req[r].q
      PROVE  Current(l)
  BY <1>0, <1>8 DEF Current, Stopping, Asking, Answering, Evaluating
<1>9. ASSUME NEW l, req[r].pc \in Answering,
             l.pc \in {"answer_seq", "answer_turn", "answer_commit"}, l.q = req[r].q
      PROVE  Current(l)
  BY <1>0, <1>9 DEF Current, Stopping, Asking, Answering, Evaluating
<1>10. ASSUME NEW pc \in PC, NEW l, l = [req[r] EXCEPT !.pc = pc]
       PROVE  l.pc = pc /\ l.cfg = req[r].cfg /\ l.q = req[r].q /\ l.seq = req[r].seq
  BY <1>0, <1>10 DEF Locals
<1>12. CASE QuestionSeq(r)
  <2> DEFINE l == [req[r] EXCEPT !.pc = "question_turn", !.seq = MaxSeq + 1]
  <2>1. req[r].pc \in Asking \ {"question_llm"} /\ Become(r, l) /\ UNCHANGED rows
    BY <1>12 DEF QuestionSeq, At, Asking
  <2>2. l.pc = "question_turn" /\ l.cfg = req[r].cfg /\ l.q = req[r].q
    BY <1>0 DEF Locals
  <2> HIDE DEF l
  <2>. QED BY <1>1, <1>8, <2>1, <2>2
<1>13. CASE AnswerSeq(r)
  <2> DEFINE l == [req[r] EXCEPT !.pc = "answer_turn", !.seq = MaxSeq + 1]
  <2>1. req[r].pc \in Answering /\ Become(r, l) /\ UNCHANGED rows
    BY <1>13 DEF AnswerSeq, At, Answering
  <2>2. l.pc = "answer_turn" /\ l.q = req[r].q
    BY <1>0 DEF Locals
  <2> HIDE DEF l
  <2>. QED BY <1>1, <1>9, <2>1, <2>2
<1>14. ASSUME NEW failed \in BOOLEAN, NEW pc \in PC, UNCHANGED rows,
              Become(r, IF failed THEN Idle ELSE [req[r] EXCEPT !.pc = pc]),
              ~failed => Current([req[r] EXCEPT !.pc = pc])
       PROVE  Current(req[r])'
  BY <1>1, <1>2, <1>3, <1>14
<1>15. CASE QuestionTurn(r)
  <2>1. req[r].pc \in Asking \ {"question_llm"}
    BY <1>15 DEF QuestionTurn, InsertTurn, At, Asking
  <2>2. Current([req[r] EXCEPT !.pc = "question_commit"])
    BY <1>8, <1>10, <2>1 DEF PC
  <2>. QED BY <1>14, <1>15, <2>2 DEF QuestionTurn, InsertTurn, PC
<1>16. CASE AnswerTurn(r)
  <2>1. req[r].pc \in Answering
    BY <1>16 DEF AnswerTurn, InsertTurn, At, Answering
  <2>2. Current([req[r] EXCEPT !.pc = "answer_commit"])
    BY <1>9, <1>10, <2>1 DEF PC
  <2>. QED BY <1>14, <1>16, <2>2 DEF AnswerTurn, InsertTurn, PC
<1>17. CASE AnswerKey(r)
  <2>1. req[r].pc \in Answering
    BY <1>17 DEF AnswerKey, At, Answering
  <2>2. Current([req[r] EXCEPT !.pc = "answer_seq"])
    BY <1>9, <1>10, <2>1 DEF PC
  <2>. QED BY <1>14, <1>17, <2>2 DEF AnswerKey, PC
<1>18. CASE EvalRead(r)
  <2>1. CASE Become(r, Idle)
    BY <1>2, <1>3, <2>1
  <2>2. ASSUME status \in Questioning, NEW a \in AnswersTo(req[r].q), NEW snapshot \in Snapshot,
               Become(r, [req[r] EXCEPT !.pc = "eval_llm", !.seq = a.seq,
                                        !.cfg = EnsureContext(config, snapshot)])
        PROVE  Current(req[r])'
    <3> DEFINE l == [req[r] EXCEPT !.pc = "eval_llm", !.seq = a.seq,
                                   !.cfg = EnsureContext(config, snapshot)]
    <3>1. l.pc = "eval_llm" /\ l.cfg = config
      BY <1>0, <2>2, NothingToBuild DEF Locals
    <3>2. Become(r, l) /\ UNCHANGED rows
      BY <1>18, <2>2 DEF EvalRead
    <3> HIDE DEF l
    <3>3. Current(l)
      BY <2>2, <3>1 DEF Current, Stopping, Asking, Answering, Evaluating
    <3>. QED BY <1>1, <3>2, <3>3
  <2>. QED BY <1>18, <2>1, <2>2 DEF EvalRead
<1>19. CASE EvalRetry(r)
  <2> DEFINE l == [req[r] EXCEPT !.n = 1]
  <2>1. l.pc = "eval_llm" /\ l.cfg = req[r].cfg
    BY <1>0, <1>19 DEF Locals, EvalRetry, At
  <2>2. Become(r, l) /\ UNCHANGED rows /\ status \in Questioning /\ req[r].cfg = config
    BY <1>0, <1>19 DEF EvalRetry, At, Current, Evaluating
  <2> HIDE DEF l
  <2>3. Current(l)
    BY <2>1, <2>2 DEF Current, Stopping, Asking, Answering, Evaluating
  <2>. QED BY <1>1, <2>2, <2>3
<1>20. CASE EvalInsert(r)
  <2>1. status \in Questioning /\ req[r].cfg = config
    BY <1>0, <1>20 DEF EvalInsert, At, Current, Evaluating
  <2>2. ASSUME req[r].seq \notin evaluations
        PROVE  Current([req[r] EXCEPT !.pc = "eval_commit"])
    <3> DEFINE l == [req[r] EXCEPT !.pc = "eval_commit"]
    <3>1. l.pc = "eval_commit" /\ l.cfg = config /\ l.seq \notin evaluations
      BY <1>10, <2>1, <2>2 DEF PC
    <3> HIDE DEF l
    <3>2. Current(l)
      BY <2>1, <3>1 DEF Current, Stopping, Asking, Answering, Evaluating
    <3>. QED BY <3>2 DEF l
  <2>. QED BY <1>14, <1>20, <2>2 DEF EvalInsert, PC
<1>. QED BY <1>4, <1>5, <1>6, <1>7, <1>12, <1>13, <1>15, <1>16, <1>17, <1>18, <1>19, <1>20
         DEF Step

\* The locals every commit leaves to the others: a request that ends relies
\* on nothing, and the rest are idle.
LEMMA CurrentStep ==
  ASSUME IInv, SerialInv, OneAtATime, OneAtATime', NEW r \in Req, Act(r)
  PROVE  \A o \in Req : Current(req[o])'
<1>0. TypeOK /\ req \in [Req -> Locals]
  BY DEF IInv, TypeOK
<1>1. Current(req[r])'
  <2>1. CASE Abort(r)
    <3>1. req'[r].pc = "idle"
      BY <1>0, <2>1 DEF Abort, Become, Idle
    <3>. QED BY <3>1, CurrentEnd
  <2>. QED BY <2>1, CurrentAtStart, CurrentInFlight DEF Act
<1>2. ASSUME NEW o \in Req \ {r} PROVE Current(req[o])'
  <2>1. req'[o].pc = "idle"
    BY <1>0, ServedAlone
  <2>. QED BY <2>1, CurrentEnd
<1>. QED BY <1>1, <1>2

-----------------------------------------------------------------------------
(* What each commit does to the rows the contract speaks of.               *)

\* A question is new, an answered question was open.
LEMMA RowsStep ==
  ASSUME IInv, SerialInv, NEW r \in Req, Act(r)
  PROVE  /\ QuestionCommit(r) => QuestionIds' = QuestionIds \cup {req[r].q}
         /\ AnswerCommit(r) => AnsweredIds' = AnsweredIds \cup {req[r].q}
         /\ UNCHANGED QuestionIds \/ QuestionCommit(r)
         /\ UNCHANGED <<answers, AnsweredIds>> \/ AnswerCommit(r)
<1>1. ASSUME QuestionCommit(r) PROVE QuestionIds' = QuestionIds \cup {req[r].q}
  <2> DEFINE row == [id |-> req[r].q, seq |-> req[r].seq]
  <2>1. questions' = questions \cup {row} /\ row.id = req[r].q
    BY <1>1 DEF QuestionCommit
  <2> HIDE DEF row
  <2>. QED BY <2>1 DEF QuestionIds
<1>2. ASSUME AnswerCommit(r) PROVE AnsweredIds' = AnsweredIds \cup {req[r].q}
  <2> DEFINE row == [question |-> req[r].q, seq |-> req[r].seq, key |-> req[r].key]
  <2>1. answers' = answers \cup {row} /\ row.question = req[r].q
    BY <1>2 DEF AnswerCommit
  <2> HIDE DEF row
  <2>. QED BY <2>1 DEF AnsweredIds
<1>3. UNCHANGED questions \/ QuestionCommit(r)
  BY RowFrames DEF AnswerCommit
<1>4. UNCHANGED answers \/ AnswerCommit(r)
  BY RowFrames DEF QuestionCommit
<1>. QED BY <1>1, <1>2, <1>3, <1>4 DEF QuestionIds, AnsweredIds

\* An answer that is new has no evaluation and is in no feedback row.
LEMMA NewAnswer ==
  ASSUME IInv, SerialInv, NEW r \in Req, Act(r)
  PROVE  /\ AnswerCommit(r) => EvaluatedIds' = EvaluatedIds
         /\ UNCHANGED feedback => Aggregated' = Aggregated
<1>1. ASSUME NEW S \in SUBSET evaluations
      PROVE  {a.question : a \in {b \in answers' : b.seq \in S}} =
             {a.question : a \in {b \in answers : b.seq \in S}}
  <2>1. CASE AnswerCommit(r)
    <3> DEFINE row == [question |-> req[r].q, seq |-> req[r].seq, key |-> req[r].key]
    <3>1. answers' = answers \cup {row} /\ row.seq = req[r].seq
      BY <2>1 DEF AnswerCommit
    <3>2. req[r].seq \notin Turns
      BY <2>1, NextTurn DEF IInv
    <3>3. row.seq \notin evaluations
      BY <3>1, <3>2 DEF IInv, AnswersFollowQuestions, Turns
    <3> HIDE DEF row
    <3>4. {b \in answers' : b.seq \in S} = {b \in answers : b.seq \in S}
      BY <1>1, <3>1, <3>3
    <3>. QED BY <3>4
  <2>2. CASE UNCHANGED answers
    BY <2>2
  <2>. QED BY <2>1, <2>2, RowsStep
<1>2. ASSUME AnswerCommit(r) PROVE EvaluatedIds' = EvaluatedIds
  <2>1. evaluations' = evaluations
    BY <1>2 DEF AnswerCommit
  <2>. QED BY <1>1, <2>1 DEF EvaluatedIds
<1>3. ASSUME UNCHANGED feedback PROVE Aggregated' = Aggregated
  <2>1. \A i \in DOMAIN feedback : feedback[i] \in SUBSET evaluations
    BY DEF IInv, FeedbackIsFounded
  <2>. QED BY <1>1, <1>3, <2>1 DEF Aggregated
<1>. QED BY <1>2, <1>3

\* The evaluated question had an answer and no evaluation.
LEMMA NewEvaluation ==
  ASSUME IInv, SerialInv, NEW r \in Req, EvalCommit(r)
  PROVE  /\ req[r].q \in AnsweredIds \ EvaluatedIds
         /\ EvaluatedIds' = EvaluatedIds \cup {req[r].q}
<1>1. PICK a \in answers : a.question = req[r].q /\ a.seq = req[r].seq
  BY DEF EvalCommit, At, IInv, EvaluationInFlight, Evaluating, AnswersTo
<1>2. req[r].seq \notin evaluations
  BY DEF EvalCommit, At, SerialInv, Current
<1>3. answers' = answers /\ evaluations' = evaluations \cup {req[r].seq}
  BY DEF EvalCommit
<1>4. \A b \in answers : b.seq = req[r].seq => b = a
  BY <1>1 DEF IInv, TranscriptIsDense
<1>5. \A b \in answers : b.question = req[r].q => b = a
  BY <1>1 DEF SerialInv, AnsweredOnce
<1>6. req[r].q \in AnsweredIds \ EvaluatedIds
  BY <1>1, <1>2, <1>5 DEF AnsweredIds, EvaluatedIds
<1>7. EvaluatedIds' = EvaluatedIds \cup {req[r].q}
  BY <1>1, <1>3, <1>4 DEF EvaluatedIds
<1>. QED BY <1>6, <1>7

-----------------------------------------------------------------------------
(* The invariant is inductive.                                             *)

\* A completed interview is never begun, moved or stopped again.
LEMMA CompletedIsLeftAlone ==
  /\ ~BeginIsLegal("completed")
  /\ \A target : ~IsLegal("completed", target)
  /\ IsLegal(status, "completed") => status \in Questioning \/ status \notin Statuses
  BY DEF BeginIsLegal, IsLegal, TRANSITIONS, Statuses, Questioning

LEMMA SerialStep ==
  ASSUME IInv, SerialInv, OneAtATime, OneAtATime', NEW r \in Req, Act(r)
  PROVE  SerialInv'
<1>0. Current(req[r])
  BY DEF SerialInv
<1>1. IdsAreDrawn'
  <2>1. qids \in Nat /\ QuestionIds \subseteq Nat
    BY DEF IInv, TypeOK, QuestionIds, QuestionId
  <2>2. CASE QuestionCommit(r)
    <3>1. req[r].q <= qids /\ qids' = qids
      BY <1>0, <2>2 DEF QuestionCommit, At, Current, Asking
    <3>. QED BY <2>2, <3>1, RowsStep DEF SerialInv, IdsAreDrawn
  <2>3. CASE UNCHANGED QuestionIds
    <3>1. qids' = qids \/ qids' = qids + 1
      <4>1. CASE Receive(r)
        BY <4>1 DEF Receive, BeginRead, StatusRead, StopRead, NextRead, SubmitRead,
                    EvaluateStart, HintRead, rows
      <4>2. CASE Abort(r)
        BY <4>2 DEF Abort, rows
      <4>3. CASE Step(r)
        BY <4>3 DEF Step, BeginCommit, StatusCommit, StopEvals, StopCommit, QuestionFlush,
              QuestionSeq, QuestionTurn, QuestionCommit, AnswerKey, AnswerSeq,
              AnswerTurn, AnswerCommit, EvalRead, EvalRetry, EvalInsert, EvalCommit,
              HintCommit, InsertTurn, rows
      <4>. QED BY <4>1, <4>2, <4>3 DEF Act
    <3>. QED BY <2>1, <2>3, <3>1 DEF SerialInv, IdsAreDrawn
  <2>. QED BY <2>2, <2>3, RowsStep
<1>2. AnsweredOnce'
  <2>1. CASE AnswerCommit(r)
    <3> DEFINE row == [question |-> req[r].q, seq |-> req[r].seq, key |-> req[r].key]
    <3>1. answers' = answers \cup {row} /\ row.question = req[r].q
      BY <2>1 DEF AnswerCommit
    <3>2. req[r].q \notin AnsweredIds
      BY <1>0, <2>1 DEF AnswerCommit, At, Current, Answering
    <3> HIDE DEF row
    <3>. QED BY <3>1, <3>2 DEF AnsweredIds, SerialInv, AnsweredOnce
  <2>2. CASE UNCHANGED answers
    BY <2>2 DEF SerialInv, AnsweredOnce
  <2>. QED BY <2>1, <2>2, RowsStep
<1>3. StoppedOnce'
  <2>1. feedback \in Seq(SUBSET Nat) /\ req[r].evals \in SUBSET Nat /\ status \in Statuses
    BY DEF IInv, TypeOK, Locals
  <2>2. CASE UNCHANGED <<status, feedback>>
    BY <2>2 DEF SerialInv, StoppedOnce
  <2>3. CASE BeginCommit(r) \/ StatusCommit(r)
    <3>1. status # "completed"
      BY <1>0, <2>3, CompletedIsLeftAlone
         DEF BeginCommit, StatusCommit, At, Current
    <3>2. feedback' = feedback
      BY <2>3 DEF BeginCommit, StatusCommit
    <3>. QED BY <3>1, <3>2 DEF SerialInv, StoppedOnce
  <2>4. CASE StopCommit(r)
    <3>1. status # "completed"
      BY <1>0, <2>4, CompletedIsLeftAlone DEF StopCommit, At, Current, Stopping
    <3>2. feedback = << >> /\ status' = "completed"
      BY <2>4, <3>1 DEF StopCommit, SerialInv, StoppedOnce
    <3>3. feedback' = << >> \/ feedback' = Append(<< >>, req[r].evals)
      BY <2>4, <3>2 DEF StopCommit
    <3>4. Len(feedback') <= 1
      <4>1. ASSUME NEW s, NEW e \in SUBSET Nat, s = << >> \/ s = Append(<< >>, e)
            PROVE  Len(s) <= 1
        <5>1. CASE s = << >>
          BY <5>1
        <5>2. CASE s = Append(<< >>, e)
          <6>1. << >> \in Seq(SUBSET Nat) /\ Len(<< >>) = 0
            OBVIOUS
          <6>2. Len(s) = Len(<< >>) + 1
            BY <5>2, <6>1
          <6>. QED BY <6>1, <6>2
        <5>. QED BY <4>1, <5>1, <5>2
      <4>. QED BY <2>1, <3>3, <4>1
    <3>. QED BY <3>2, <3>4 DEF StoppedOnce
  <2>. QED BY <2>2, <2>3, <2>4, RowFrames
<1>. QED BY <1>1, <1>2, <1>3, CurrentStep DEF SerialInv

-----------------------------------------------------------------------------
(* Every commit is a step of the contract, every other step a stutter.     *)

LEMMA StepRefines ==
  ASSUME IInv, SerialInv, NEW r \in Req, Act(r)
  PROVE  Contract!Next \/ Seen' = Seen
<1>0. /\ Current(req[r]) /\ status \in Statuses /\ config \in Config
      /\ req[r] \in Locals /\ req[r].cfg \in Config
  BY DEF IInv, TypeOK, SerialInv, Locals
<1>1. CASE BeginCommit(r)
  <2>1. BeginIsLegal(status) /\ req[r].cfg = config
    BY <1>0, <1>1 DEF BeginCommit, At, Current
  <2>2. PICK snapshot \in Snapshot :
          config' = IF config.context = None THEN EnsureContext(config, snapshot) ELSE config
    BY <1>1, <2>1 DEF BeginCommit
  <2>3. config'.directives = config.directives
    BY <1>0, <2>2, EnsureContextTyped
  <2>4. IF config.context = None THEN config'.context \in Snapshot
                                 ELSE config'.context = config.context
    BY <1>0, <2>2 DEF EnsureContext, Config
  <2>5. /\ status' = "questioning" /\ hints' = hints /\ EvaluatedIds' = EvaluatedIds
        /\ Aggregated' = Aggregated
    BY <1>1, NewAnswer DEF BeginCommit, EvaluatedIds
  <2>6. QuestionIds' = QuestionIds /\ AnsweredIds' = AnsweredIds
    BY <1>1 DEF BeginCommit, QuestionIds, AnsweredIds
  <2>7. Contract!Begin
    BY <2>1, <2>3, <2>4, <2>5, <2>6, SameStates DEF Contract!Begin, Aggregated
  <2>. QED BY <2>7 DEF Contract!Next
<1>2. CASE StatusCommit(r)
  <2>1. IsLegal(status, req[r].target) /\ req[r].target \in {"paused", "questioning", "cancelled"}
    <3>1. req[r].pc = "status_commit"
      BY <1>2 DEF StatusCommit, At
    <3>2. IsLegal(status, req[r].target) /\ req[r].target \in Moves
      BY <1>0, <3>1 DEF Current
    <3>. QED BY <3>2, MovesAssumption
  <2>2. status' = req[r].target /\ UNCHANGED <<config, questions, answers, evaluations, hints, feedback>>
    BY <1>2 DEF StatusCommit
  <2>3. UNCHANGED <<QuestionIds, AnsweredIds, EvaluatedIds, Aggregated>>
    BY <2>2, NewAnswer DEF QuestionIds, AnsweredIds, EvaluatedIds
  <2>4. Contract!Move(req[r].target)
    BY <2>1, <2>2, <2>3, SameStates DEF Contract!Move, Aggregated
  <2>. QED BY <2>1, <2>4 DEF Contract!Next
<1>3. CASE StopCommit(r)
  <2>1. IsLegal(status, "completed") /\ req[r].evals = evaluations
    BY <1>0, <1>3 DEF StopCommit, At, Current, Stopping
  <2>2. status' = "completed" /\ UNCHANGED <<config, questions, answers, evaluations, hints>>
    BY <1>3 DEF StopCommit
  <2>3. UNCHANGED <<QuestionIds, AnsweredIds, EvaluatedIds>>
    BY <2>2 DEF QuestionIds, AnsweredIds, EvaluatedIds
  <2>4. EvaluatedIds = {} <=> evaluations = {}
    BY DEF EvaluatedIds, IInv, AnswersFollowQuestions
  <2>5. Aggregated' = IF EvaluatedIds = {} THEN Aggregated ELSE Append(Aggregated, EvaluatedIds)
    <3>1. CASE evaluations = {}
      <4>1. feedback' = feedback
        BY <1>3, <2>1, <3>1 DEF StopCommit
      <4>. QED BY <2>4, <3>1, <4>1, NewAnswer
    <3>2. CASE evaluations # {}
      <4>1. feedback' = Append(feedback, evaluations)
        BY <1>3, <2>1, <3>2 DEF StopCommit
      <4>2. feedback \in Seq(SUBSET Nat) /\ evaluations \in SUBSET Nat
        BY DEF IInv, TypeOK
      <4> DEFINE Ids(S) == {a.question : a \in {b \in answers : b.seq \in S}}
      <4>3. Aggregated' = [i \in DOMAIN feedback' |-> Ids(feedback'[i])]
        BY <2>2 DEF Aggregated
      <4>4. Aggregated = [i \in DOMAIN feedback |-> Ids(feedback[i])]
        BY DEF Aggregated
      <4>5. Ids(evaluations) = EvaluatedIds
        BY DEF EvaluatedIds
      <4>6. \A S : Ids(S) \subseteq AnsweredIds
        BY DEF AnsweredIds
      <4> HIDE DEF Ids
      <4>7. Aggregated \in Seq(SUBSET AnsweredIds)
        <5>1. Len(feedback) \in Nat /\ DOMAIN feedback = 1 .. Len(feedback)
          BY <4>2
        <5>2. Aggregated \in [1 .. Len(feedback) -> SUBSET AnsweredIds]
          BY <4>4, <4>6, <5>1
        <5>. QED BY <4>2, <5>1, <5>2
      <4>8. Aggregated' = Append(Aggregated, EvaluatedIds)
        BY <4>1, <4>2, <4>3, <4>4, <4>5, <4>7
      <4>. QED BY <2>4, <3>2, <4>8
    <3>. QED BY <3>1, <3>2
  <2>6. Contract!Stop
    BY <2>1, <2>2, <2>3, <2>5, SameStates DEF Contract!Stop, Aggregated
  <2>. QED BY <2>6 DEF Contract!Next
<1>4. CASE QuestionCommit(r)
  <2>1. /\ status \in Questioning /\ req[r].cfg = config
        /\ \A id \in QuestionIds : id < req[r].q
    BY <1>0, <1>4 DEF QuestionCommit, At, Current, Asking
  <2>2. req[r].q \in QuestionId
    BY <1>4 DEF QuestionCommit, At, IInv, ConfigInFlight, Asking
  <2>3. /\ config' = [config EXCEPT !.coverage = @ \cup {req[r].q}]
        /\ UNCHANGED <<status, answers, evaluations, hints, feedback>>
    BY <1>4, <2>1 DEF QuestionCommit
  <2>4. config'.context = config.context /\ config'.directives = config.directives
    BY <1>0, <2>3 DEF Config
  <2>5. UNCHANGED <<AnsweredIds, EvaluatedIds, Aggregated>>
    BY <2>3, NewAnswer DEF AnsweredIds, EvaluatedIds
  <2>6. Contract!Ask(req[r].q)
    BY <1>4, <2>1, <2>3, <2>4, <2>5, RowsStep, SameStates DEF Contract!Ask, Aggregated
  <2>. QED BY <2>2, <2>6 DEF Contract!Next
<1>5. CASE AnswerCommit(r)
  <2>1. status \in Questioning /\ req[r].q \notin AnsweredIds
    BY <1>0, <1>5 DEF AnswerCommit, At, Current, Answering
  <2>2. req[r].q \in QuestionIds
    BY <1>5 DEF AnswerCommit, At, IInv, AnswerInFlight, Answering
  <2>3. req[r].q \in QuestionId
    BY <2>2 DEF IInv, TypeOK, QuestionIds
  <2>4. UNCHANGED <<status, config, questions, evaluations, hints, feedback>>
    BY <1>5 DEF AnswerCommit
  <2>5. UNCHANGED <<QuestionIds, EvaluatedIds, Aggregated>>
    BY <1>5, <2>4, NewAnswer DEF QuestionIds
  <2>6. Contract!Answer(req[r].q)
    BY <1>5, <2>1, <2>2, <2>4, <2>5, RowsStep, SameStates DEF Contract!Answer, Aggregated
  <2>. QED BY <2>3, <2>6 DEF Contract!Next
<1>6. CASE EvalCommit(r)
  <2>1. status \in Questioning /\ req[r].cfg = config
    BY <1>0, <1>6 DEF EvalCommit, At, Current, Evaluating
  <2>2. PICK directive \in {{}, {req[r].q}} :
          config' = [config EXCEPT !.directives = @ \cup directive, !.gaps = config.coverage]
    BY <1>6, <2>1 DEF EvalCommit
  <2>3. /\ config'.context = config.context
        /\ config'.directives \in {config.directives, config.directives \cup {req[r].q}}
    BY <1>0, <2>2 DEF Config
  <2>4. UNCHANGED <<status, questions, answers, hints, feedback>>
    BY <1>6 DEF EvalCommit
  <2>5. UNCHANGED <<QuestionIds, AnsweredIds, Aggregated>>
    BY <2>4, NewAnswer DEF QuestionIds, AnsweredIds
  <2>6. Contract!Evaluate(req[r].q)
    BY <1>6, <2>1, <2>3, <2>4, <2>5, NewEvaluation, SameStates
       DEF Contract!Evaluate, Aggregated
  <2>7. req[r].q \in QuestionId
    BY <1>6, NewEvaluation DEF IInv, TypeOK, AnsweredIds
  <2>. QED BY <2>6, <2>7 DEF Contract!Next
<1>7. CASE HintCommit(r)
  <2>1. status \in Questioning /\ req[r].q \in QuestionIds /\ req[r].n = hints[req[r].q]
    BY <1>0, <1>7 DEF HintCommit, At, Current
  <2>2. hints' = [hints EXCEPT ![req[r].q] = @ + 1]
    BY <1>7, <2>1 DEF HintCommit
  <2>3. UNCHANGED <<status, config, questions, answers, evaluations, feedback>>
    BY <1>7 DEF HintCommit
  <2>4. UNCHANGED <<QuestionIds, AnsweredIds, EvaluatedIds, Aggregated>>
    BY <2>3, NewAnswer DEF QuestionIds, AnsweredIds, EvaluatedIds
  <2>5. Contract!Hint(req[r].q)
    BY <2>1, <2>2, <2>3, <2>4, SameStates DEF Contract!Hint, Aggregated
  <2>6. req[r].q \in QuestionId
    BY <2>1 DEF IInv, TypeOK, QuestionIds
  <2>. QED BY <2>5, <2>6 DEF Contract!Next
<1>8. CASE UNCHANGED <<status, config, questions, answers, evaluations, hints, feedback>>
  BY <1>8, NewAnswer DEF Seen, QuestionIds, AnsweredIds, EvaluatedIds
<1>9. \/ UNCHANGED <<status, config, questions, answers, evaluations, hints, feedback>>
      \/ BeginCommit(r) \/ StatusCommit(r) \/ StopCommit(r) \/ QuestionCommit(r)
      \/ AnswerCommit(r) \/ EvalCommit(r) \/ HintCommit(r)
  <2>1. CASE Receive(r)
    BY <2>1 DEF Receive, BeginRead, StatusRead, StopRead, NextRead, SubmitRead,
                EvaluateStart, HintRead, rows
  <2>2. CASE Abort(r)
    BY <2>2 DEF Abort, rows
  <2>3. CASE Step(r)
    BY <2>3 DEF Step, StopEvals, QuestionFlush, QuestionSeq, QuestionTurn, AnswerKey,
                AnswerSeq, AnswerTurn, EvalRead, EvalRetry, EvalInsert, InsertTurn, rows
  <2>. QED BY <2>1, <2>2, <2>3 DEF Act
<1>. QED BY <1>1, <1>2, <1>3, <1>4, <1>5, <1>6, <1>7, <1>8, <1>9

-----------------------------------------------------------------------------
(* The theorems.                                                           *)

LEMMA SerialInit == Init => SerialInv
<1> SUFFICES ASSUME Init PROVE SerialInv
  OBVIOUS
<1>1. QuestionIds = {} /\ answers = {} /\ feedback = << >> /\ \A r \in Req : req[r].pc = "idle"
  BY DEF Init, QuestionIds, Idle
<1>2. \A r \in Req : Current(req[r])
  BY <1>1, IdleCurrent
<1>3. Len(feedback) <= 1
  BY <1>1
<1>. QED BY <1>1, <1>2, <1>3 DEF SerialInv, IdsAreDrawn, AnsweredOnce, StoppedOnce

LEMMA SerialNext ==
  IInv /\ SerialInv /\ OneAtATime /\ OneAtATime' /\ [Next]_vars => SerialInv'
<1> SUFFICES ASSUME IInv, SerialInv, OneAtATime, OneAtATime', [Next]_vars
             PROVE  SerialInv'
  OBVIOUS
<1>1. CASE UNCHANGED vars
  <2>1. UNCHANGED <<QuestionIds, AnsweredIds, status, config, evaluations, hints, qids, req>>
    BY <1>1 DEF vars, QuestionIds, AnsweredIds
  <2>2. \A r \in Req : Current(req[r])'
    BY <2>1 DEF SerialInv, Current
  <2>. QED BY <1>1, <2>1, <2>2 DEF vars, SerialInv, IdsAreDrawn, AnsweredOnce, StoppedOnce
<1>2. CASE Next
  BY <1>2, SerialStep DEF Next, Act
<1>. QED BY <1>1, <1>2

LEMMA NextSeen == IInv /\ SerialInv /\ [Next]_vars => Contract!Next \/ Seen' = Seen
<1> SUFFICES ASSUME IInv, SerialInv, [Next]_vars PROVE Contract!Next \/ Seen' = Seen
  OBVIOUS
<1>1. CASE UNCHANGED vars
  BY <1>1 DEF vars, Seen, QuestionIds, AnsweredIds, EvaluatedIds, Aggregated
<1>2. CASE Next
  BY <1>2, StepRefines DEF Next, Act
<1>. QED BY <1>1, <1>2

LEMMA NextRefines == IInv /\ SerialInv /\ [Next]_vars => [Contract!Next]_(Contract!vars)
<1>1. (Contract!vars)' = Seen' /\ Contract!vars = Seen
  BY SeenIsMapped DEF Contract!vars, Seen, Aggregated
<1>. QED BY <1>1, NextSeen

\* While no two requests of a session are in flight together, what each has
\* read is current until it writes.
THEOREM SerialInvariance == Spec /\ []OneAtATime => [](IInv /\ SerialInv)
  BY InitInv, NextInv, SerialInit, SerialNext, PTL DEF Spec

\* Refinement: such a session keeps the contract of the interview service,
\* each commit one step of it, however many slots, keys or questions there
\* are and wherever a request fails.
THEOREM ContractTheorem == Spec /\ []OneAtATime => ServesContract
<1>1. ServesContract <=> Contract!Init /\ [][Contract!Next]_(Contract!vars)
  BY DEF ServesContract, Contract!Spec
<1>. QED BY SerialInvariance, InitSeen, NextRefines, <1>1, PTL DEF Spec

\* A deployment that has one request slot for a session serves one at a time.
COROLLARY OneSlot ==
  ASSUME \A r, o \in Req : r = o
  PROVE  Spec => ServesContract
<1>1. OneAtATime
  BY DEF OneAtATime
<1>. QED BY <1>1, ContractTheorem, PTL

\* A session served one request at a time is answered once, stopped once and
\* leaves one feedback row at most: a second row is the mark of a race.
THEOREM SerialRows == Spec /\ []OneAtATime => [](AnsweredOnce /\ StoppedOnce)
<1>1. SerialInv => AnsweredOnce /\ StoppedOnce
  BY DEF SerialInv
<1>. QED BY SerialInvariance, <1>1, PTL

\* state.py's claim, "completed/cancelled cannot be left", which two requests
\* in flight together refute, is true of a session served one at a time.
THEOREM SerialTerminal == Spec /\ []OneAtATime => TerminalIsFinal
<1>1. ASSUME IInv, Contract!Next \/ Seen' = Seen, status \in Terminal
      PROVE  status' = status
  <2>1. CASE Seen' = Seen
    BY <2>1 DEF Seen
  <2>2. CASE Contract!Next
    <3>1. \A target : ~IsLegal(status, target)
      BY <1>1 DEF IsLegal, TRANSITIONS, Statuses, Terminal
    <3>2. ~BeginIsLegal(status)
      BY <1>1, <3>1 DEF BeginIsLegal, Terminal
    <3>3. ~Contract!Begin /\ ~Contract!Stop
          /\ \A target \in {"paused", "questioning", "cancelled"} : ~Contract!Move(target)
      BY <3>1, <3>2, SameStates DEF Contract!Begin, Contract!Stop, Contract!Move
    <3>4. \A q \in QuestionId : Contract!Ask(q) \/ Contract!Answer(q) \/ Contract!Evaluate(q)
                                \/ Contract!Hint(q) => status' = status
      BY DEF Contract!Ask, Contract!Answer, Contract!Evaluate, Contract!Hint
    <3>. QED BY <2>2, <3>3, <3>4 DEF Contract!Next
  <2>. QED BY <1>1, <2>1, <2>2
<1>2. IInv /\ SerialInv /\ [Next]_vars =>
        [(status \in Terminal) => status' = status]_status
  BY <1>1, NextSeen
<1>. QED BY SerialInvariance, <1>2, PTL DEF Spec, TerminalIsFinal

\* What the session learns is never taken away: the snapshot stays the one
\* the first begin fixed, a recorded directive stays recorded, an evaluated
\* question stays evaluated.
NothingIsForgotten ==
  [][/\ config.context # None => config'.context = config.context
     /\ config.directives \subseteq config'.directives
     /\ EvaluatedIds \subseteq EvaluatedIds']_vars

\* With one request in flight no write of a stale config loses a directive
\* or replaces the snapshot, as concurrent requests may.
THEOREM SerialMemory == Spec /\ []OneAtATime => NothingIsForgotten
<1>1. ASSUME Contract!Next \/ Seen' = Seen
      PROVE  /\ config.context # None => config'.context = config.context
             /\ config.directives \subseteq config'.directives
             /\ EvaluatedIds \subseteq EvaluatedIds'
  <2>1. CASE Seen' = Seen
    BY <2>1 DEF Seen
  <2>2. CASE Contract!Begin
    BY <2>2 DEF Contract!Begin
  <2>3. ASSUME NEW target, Contract!Move(target)
        PROVE  UNCHANGED <<config.context, config.directives, EvaluatedIds>>
    BY <2>3 DEF Contract!Move
  <2>4. CASE Contract!Stop
    BY <2>4 DEF Contract!Stop
  <2>5. ASSUME NEW q, Contract!Ask(q) \/ Contract!Answer(q) \/ Contract!Hint(q)
        PROVE  UNCHANGED <<config.context, config.directives, EvaluatedIds>>
    BY <2>5 DEF Contract!Ask, Contract!Answer, Contract!Hint
  <2>6. ASSUME NEW q, Contract!Evaluate(q)
        PROVE  /\ config'.context = config.context
               /\ config.directives \subseteq config'.directives
               /\ EvaluatedIds \subseteq EvaluatedIds'
    BY <2>6 DEF Contract!Evaluate
  <2>. QED BY <1>1, <2>1, <2>2, <2>3, <2>4, <2>5, <2>6 DEF Contract!Next
<1>2. IInv /\ SerialInv /\ [Next]_vars =>
        [/\ config.context # None => config'.context = config.context
         /\ config.directives \subseteq config'.directives
         /\ EvaluatedIds \subseteq EvaluatedIds']_vars
  BY <1>1, NextSeen
<1>. QED BY SerialInvariance, <1>2, PTL DEF Spec, NothingIsForgotten
=============================================================================
