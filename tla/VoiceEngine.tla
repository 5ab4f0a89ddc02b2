----------------------------- MODULE VoiceEngine -----------------------------
(***************************************************************************)
(* The voice engine of one WebSocket (voice/engine.py): a receive loop     *)
(* that handles one message at a time, and the asyncio tasks it starts,    *)
(* waits for and cancels.                                                  *)
(*                                                                         *)
(* Tasks interleave only where they await something that is not ready: a   *)
(* model, the database, a queue, a timer, or the end of a cancelled task.  *)
(* What lies between two such awaits is one action.  Sending to the socket *)
(* is taken not to suspend (its write buffer has room).                    *)
(*                                                                         *)
(* An attribute such as _answer_task refers to one task; when it is set    *)
(* again while that task runs, the task goes on unreachable.  A task is    *)
(* held while its attribute refers to it.                                  *)
(***************************************************************************)
EXTENDS Integers, Sequences, FiniteSets, Functions

CONSTANTS
  Controls,        \* the control messages the client sends
  MaxGeneration    \* bound: generations drawn while the session runs

ASSUME ControlsAssumption ==
  Controls \subseteq {"start_turn", "end_turn", "playback_complete", "interrupt",
                      "pause", "resume", "stop", "cancel"}
ASSUME BoundAssumption == MaxGeneration \in Nat \ {0}

VARIABLES
  state,        \* VoiceState
  running,      \* _running
  connected,    \* the socket is open
  generation,   \* _generation
  pending,      \* _playback_pending_generation, 0 for None
  tasks,        \* the tasks that have not ended
  loop,         \* what the receive loop is doing
  heard,        \* _audio_buf holds sound of the candidate
  lastQuestion, \* _last_question_id, 0 for None
  toEvaluate,   \* the question of _pending_evaluation, 0 for None
  started,      \* _evaluated_qids
  questions,    \* rows: number of questions stored
  answered,     \* rows: questions with an answer
  evaluated,    \* rows: questions with an evaluation
  out           \* the last stream message the client was sent

rows == <<questions, answered, evaluated>>
turn == <<heard, lastQuestion, toEvaluate, started>>
stream == <<generation, pending, out>>
vars == <<state, running, connected, generation, pending, tasks, loop, heard,
          lastQuestion, toEvaluate, started, questions, answered, evaluated, out>>

\* VoiceState; "interrupted" is left in the step that enters it, "error" is
\* never entered.
States == {"idle", "starting", "thinking", "speaking", "listening", "processing",
           "paused", "completed", "cancelled"}

\* The points at which a task of each kind waits.
Points == [start    |-> {"begin", "resume", "warmup"},
           ask      |-> {"new", "llm", "store", "transcript", "speak"},
           speech   |-> {"waiting", "speaking", "ending"},
           answer   |-> {"new", "asr", "submit", "transcript"},
           evaluate |-> {"llm", "store"},
           watchdog |-> {"sleep", "ending"}]
Kinds == DOMAIN Points

\* A new task, held; speech has sent no frame.
Task(kind, at, gen, q) ==
  [kind |-> kind, at |-> at, gen |-> gen, q |-> q, held |-> TRUE, spoke |-> FALSE]

Held(ts, kind) == {t \in ts : t.kind = kind /\ t.held}
Release(ts, kind) ==
  {[t EXCEPT !.held = @ /\ t.kind # kind] : t \in ts}

\* self._x_task = asyncio.create_task(...)
Create(ts, task) == Release(ts, task.kind) \cup {task}
Move(t, at) == (tasks \ {t}) \cup {[t EXCEPT !.at = at]}
Ended(t) == tasks \ {t}

\* The loop waits for a message; ran matters to handlers that await.
Idle == [control |-> "receive", todo |-> << >>, ran |-> FALSE]

Closed == [Idle EXCEPT !.control = "closed"]

-----------------------------------------------------------------------------
(* Helpers that several handlers and tasks call.                           *)

\* The client gets what is sent while the socket is open.
Sent(type, gen) == IF connected THEN [type |-> type, gen |-> gen] ELSE out

\* _start_silence_watchdog: only when the last one has ended.
Watched(ts) ==
  IF Held(ts, "watchdog") # {} THEN ts ELSE Create(ts, Task("watchdog", "sleep", 0, 0))

\* Mutant: a worker does not compare generations before it sends.
Outdate_Never(ts) == ts

\* A new generation: every send is preceded by a comparison of generations,
\* so the older workers send nothing more and are left out from here on.
Outdate(ts) == {t \in ts : t.kind # "speech"}

\* Mutant: _evaluated_qids is not consulted.
MayEvaluate_Always == toEvaluate # 0

\* _maybe_start_evaluation: a pending answer whose question is not marked.
MayEvaluate == toEvaluate # 0 /\ toEvaluate \notin started

\* The tasks after ts when the deferred evaluation is started too.
Evaluating(ts) ==
  /\ tasks' = IF MayEvaluate
                THEN Create(ts, Task("evaluate", "llm", 0, toEvaluate))
                ELSE ts
  /\ started' = IF MayEvaluate THEN started \cup {toEvaluate} ELSE started
  /\ toEvaluate' = IF MayEvaluate THEN 0 ELSE toEvaluate

\* Sets LISTENING and starts the watchdog: the way back from a failed turn.
Listen(ts) == state' = "listening" /\ tasks' = Watched(ts)

\* _start_listening: a new candidate window.
StartListening(ts) ==
  /\ state' = "listening"
  /\ heard' = FALSE
  /\ pending' = 0
  /\ Evaluating(Watched(ts))
  /\ UNCHANGED lastQuestion

\* The bound: a turn or a cancellation begins only when a generation is left
\* beside those the tasks under way will draw.
Room ==
  generation
    + Cardinality({t \in tasks : \/ t.kind \in {"start", "answer"}
                                 \/ t.kind = "ask" /\ t.at = "new"
                                 \/ t.kind = "watchdog" /\ t.at = "ending"})
    + (IF loop.control = "end_turn" THEN 1 ELSE 0) < MaxGeneration

-----------------------------------------------------------------------------
\* run: a first connection, or one to an interview that is under way.
Init ==
  /\ state = "idle"
  /\ running = TRUE
  /\ connected = TRUE
  /\ generation = 0
  /\ pending = 0
  /\ loop = Idle
  /\ heard = FALSE
  /\ lastQuestion = 0
  /\ toEvaluate = 0
  /\ started = {}
  /\ out = [type |-> "none", gen |-> 0]
  /\ \/ /\ tasks = {Task("start", "begin", 0, 0)}
        /\ questions = 0
     \/ /\ tasks = {Task("start", "resume", 0, 0)}
        /\ questions = 1
  /\ answered = {}
  /\ evaluated = {}

-----------------------------------------------------------------------------
(* _start_session                                                          *)

StartBegin(t) ==
  /\ t.kind = "start" /\ t.at = "begin"
  /\ state' = "starting"
  /\ tasks' = Move(t, "warmup")
  /\ UNCHANGED <<running, connected, stream, turn, rows>>

StartAsks(t) ==
  /\ t.kind = "start" /\ t.at = "warmup"
  /\ tasks' = Create(Ended(t), Task("ask", "new", 0, 0))
  /\ UNCHANGED <<state, running, connected, stream, turn, rows>>

\* The interview is under way: the client is told the last question, and the
\* candidate window opens.
StartResumes(t) ==
  /\ t.kind = "start" /\ t.at = "resume"
  /\ StartListening(Ended(t))
  /\ UNCHANGED <<running, connected, generation, out, rows>>

\* begin failed: an error is sent, and that is all.
StartFails(t) ==
  /\ t.kind = "start" /\ t.at \in {"begin", "resume"}
  /\ tasks' = Ended(t)
  /\ UNCHANGED <<state, running, connected, stream, turn, rows>>

-----------------------------------------------------------------------------
(* _speak_next_question                                                    *)

AskStart(t) ==
  /\ t.kind = "ask" /\ t.at = "new"
  /\ generation' = generation + 1
  /\ state' = "thinking"
  /\ out' = Sent("tts_start", generation')
  /\ LET pipeline == [t EXCEPT !.at = "llm", !.gen = generation']
     IN  tasks' = Create((Outdate(tasks) \ {t}) \cup {pipeline},
                         Task("speech", "waiting", generation', 0))
  /\ UNCHANGED <<running, connected, pending, turn, rows>>

\* The model is done, the row is about to be written.
AskProceeds(t) ==
  /\ t.kind = "ask" /\ t.at = "llm"
  /\ tasks' = Move(t, "store")
  /\ UNCHANGED <<state, running, connected, stream, turn, rows>>

\* The tasks ts after t has put a segment, or the end, in its worker's queue:
\* the worker waits at one of from no more, but at to.
Fed(t, ts, from, to) ==
  {IF s.kind = "speech" /\ s.gen = t.gen /\ s.at \in from
     THEN [s EXCEPT !.at = to] ELSE s : s \in ts}

\* A sentence is complete while the model still streams.
AskToken(t) ==
  /\ t.kind = "ask" /\ t.at = "llm"
  /\ tasks' = Fed(t, tasks, {"waiting"}, "speaking")
  /\ UNCHANGED <<state, running, connected, stream, turn, rows>>

\* The question event: the id is taken, the tail of the text is spoken.
AskStored(t) ==
  /\ t.kind = "ask" /\ t.at = "store"
  /\ questions' = questions + 1
  /\ lastQuestion' = questions'
  /\ tasks' = Fed(t, Move(t, "transcript"), {"waiting"}, "speaking")
  /\ UNCHANGED <<state, running, connected, stream, heard, toEvaluate, started,
                 answered, evaluated>>

\* The transcript is stored: the question is sent, the segments end, and the
\* deferred evaluation starts.
AskShown(t) ==
  /\ t.kind = "ask" /\ t.at = "transcript"
  /\ Evaluating(Fed(t, Move(t, "speak"), {"waiting", "speaking"}, "ending"))
  /\ UNCHANGED <<state, running, connected, stream, heard, lastQuestion, rows>>

Speaking(t) == \E s \in tasks : s.kind = "speech" /\ s.gen = t.gen

\* Mutant: tts_stop does not wait for the speech worker.
AskSpoken_Early(t) ==
  /\ t.kind = "ask" /\ t.at = "speak"
  /\ IF t.gen = generation /\ state \in {"thinking", "speaking"}
       THEN /\ out' = Sent("tts_stop", t.gen)
            /\ pending' = t.gen
            /\ tasks' = Ended(t)
       ELSE /\ tasks' = Ended(t)
            /\ UNCHANGED <<out, pending>>
  /\ UNCHANGED <<state, running, connected, generation, turn, rows>>

\* All audio is sent: the client is to confirm that it has been played.
AskSpoken(t) ==
  /\ t.kind = "ask" /\ t.at = "speak"
  /\ ~Speaking(t)
  /\ IF t.gen = generation /\ state \in {"thinking", "speaking"}
       THEN /\ out' = Sent("tts_stop", t.gen)
            /\ pending' = t.gen
            /\ tasks' = Ended(t)
       ELSE /\ tasks' = Ended(t)
            /\ UNCHANGED <<out, pending>>
  /\ UNCHANGED <<state, running, connected, generation, turn, rows>>

\* "degrading to text": the worker is left alone.
AskFails(t) ==
  /\ t.kind = "ask" /\ t.at \in {"llm", "store", "transcript"}
  /\ \/ Listen(Ended(t))
     \/ ~connected /\ tasks' = Ended(t) /\ UNCHANGED state
  /\ UNCHANGED <<running, connected, stream, turn, rows>>

-----------------------------------------------------------------------------
(* _speech_worker: the producer and the sender of one stream.              *)

\* A frame is sent; the first one makes the engine SPEAKING.
SpeechFrame(t) ==
  /\ t.kind = "speech" /\ t.at \in {"speaking", "ending"}
  /\ running /\ connected
  /\ state' = IF t.spoke THEN state ELSE "speaking"
  /\ out' = Sent("frame", t.gen)
  /\ tasks' = (tasks \ {t}) \cup {[t EXCEPT !.spoke = TRUE]}
  /\ UNCHANGED <<running, connected, generation, pending, turn, rows>>

\* The queued segments are spoken, or were skipped because synthesis failed.
SpeechSegment(t) ==
  /\ t.kind = "speech" /\ t.at \in {"speaking", "ending"}
  /\ tasks' = IF t.at = "ending" THEN Ended(t) ELSE Move(t, "waiting")
  /\ UNCHANGED <<state, running, connected, stream, turn, rows>>

\* The send fails: the worker ends, and the pipeline that waits for it.
SpeechFails(t) ==
  /\ t.kind = "speech" /\ t.at \in {"speaking", "ending"}
  /\ running /\ ~connected
  /\ tasks' = {s \in Ended(t) : ~(s.kind = "ask" /\ s.at = "speak" /\ s.gen = t.gen)}
  /\ UNCHANGED <<state, running, connected, stream, turn, rows>>

-----------------------------------------------------------------------------
(* _process_answer                                                         *)

AnswerStart(t) ==
  /\ t.kind = "answer" /\ t.at = "new"
  /\ heard' = FALSE
  /\ IF heard THEN state' = "processing" /\ tasks' = Move(t, "asr")
              ELSE Listen(Ended(t))
  /\ UNCHANGED <<running, connected, stream, lastQuestion, toEvaluate, started, rows>>

\* Nothing was said.
AnswerEmpty(t) ==
  /\ t.kind = "answer" /\ t.at = "asr"
  /\ Listen(Ended(t))
  /\ UNCHANGED <<running, connected, stream, turn, rows>>

\* Mutant: an answer is submitted without a question.
AnswerSubmit_Unasked(t) ==
  /\ t.kind = "answer" /\ t.at = "asr"
  /\ tasks' = (tasks \ {t}) \cup {[t EXCEPT !.at = "submit", !.q = lastQuestion]}
  /\ UNCHANGED <<state, running, connected, stream, turn, rows>>

\* Recognised, and to be stored for the question that was asked last.
AnswerSubmit(t) ==
  /\ t.kind = "answer" /\ t.at = "asr"
  /\ lastQuestion # 0
  /\ tasks' = (tasks \ {t}) \cup {[t EXCEPT !.at = "submit", !.q = lastQuestion]}
  /\ UNCHANGED <<state, running, connected, stream, turn, rows>>

\* A question that has an answer keeps it: submit_answer returns the old one.
AnswerStored(t) ==
  /\ t.kind = "answer" /\ t.at = "submit"
  /\ answered' = answered \cup {t.q}
  /\ tasks' = Move(t, "transcript")
  /\ UNCHANGED <<state, running, connected, stream, turn, questions, evaluated>>

\* The evaluation is deferred, the next question is asked.
AnswerEnds(t) ==
  /\ t.kind = "answer" /\ t.at = "transcript"
  /\ toEvaluate' = lastQuestion
  /\ tasks' = IF running THEN Create(Ended(t), Task("ask", "new", 0, 0)) ELSE Ended(t)
  /\ UNCHANGED <<state, running, connected, stream, heard, lastQuestion, started, rows>>

\* Recognition or the service fails, or no question is known: the exception
\* ends the task and nothing else.
AnswerFails(t) ==
  /\ t.kind = "answer" /\ t.at \in {"asr", "submit", "transcript"}
  /\ tasks' = Ended(t)
  /\ UNCHANGED <<state, running, connected, stream, turn, rows>>

-----------------------------------------------------------------------------
(* _evaluate_answer_background                                             *)

EvaluateProceeds(t) ==
  /\ t.kind = "evaluate" /\ t.at = "llm"
  /\ tasks' = Move(t, "store")
  /\ UNCHANGED <<state, running, connected, stream, turn, rows>>

EvaluateStored(t) ==
  /\ t.kind = "evaluate" /\ t.at = "store"
  /\ evaluated' = evaluated \cup {t.q}
  /\ tasks' = Ended(t)
  /\ UNCHANGED <<state, running, connected, stream, turn, questions, answered>>

EvaluateFails(t) ==
  /\ t.kind = "evaluate"
  /\ tasks' = Ended(t)
  /\ UNCHANGED <<state, running, connected, stream, turn, rows>>

-----------------------------------------------------------------------------
(* Timers.                                                                 *)

\* _silence_watchdog leaves its loop.
WatchdogEnds(t) ==
  /\ t.kind = "watchdog" /\ t.at = "sleep"
  /\ ~running \/ state # "listening"
  /\ tasks' = Ended(t)
  /\ UNCHANGED <<state, running, connected, stream, turn, rows>>

\* The silence is long enough: _request_end_turn stops the watchdog, which is
\* this task, and gets to its next line when it runs again.
WatchdogFires(t) ==
  /\ t.kind = "watchdog" /\ t.at = "sleep"
  /\ running /\ state = "listening" /\ heard
  /\ IF Held(tasks, "answer") # {}
       THEN tasks' = Ended(t)
       ELSE /\ Room
            /\ tasks' = Move(t, "ending") \ (Held(tasks, "watchdog") \ {t})
  /\ UNCHANGED <<state, running, connected, stream, turn, rows>>

WatchdogEndsTurn(t) ==
  /\ t.kind = "watchdog" /\ t.at = "ending"
  /\ tasks' = Create(Ended(t), Task("answer", "new", 0, 0))
  /\ UNCHANGED <<state, running, connected, stream, turn, rows>>

\* _playback_timeout_guard, started with the pending generation.
TimerFires ==
  /\ pending # 0 /\ state = "speaking" /\ pending = generation
  /\ StartListening(tasks)
  /\ UNCHANGED <<running, connected, generation, out, rows>>

-----------------------------------------------------------------------------
(* The receive loop.  A handler that cancels tasks cancels and awaits them *)
(* one after the other; tasks that are still running may act in between.   *)

\* What each handler cancels, in order.
Cancels(control) ==
  CASE control \in {"interrupt", "stop", "cancel"} ->
         <<"speech", "ask", "answer", "evaluate", "watchdog">>
    [] control = "close" -> <<"speech", "ask", "answer", "evaluate">>
    [] control = "pause_speech" -> <<"speech", "ask", "watchdog">>
    [] control \in {"pause", "end_turn"} -> <<"watchdog">>

\* Cancelling a worker ends the pipeline that waits for it.
Victims(ts, kind) ==
  LET held == Held(ts, kind)
  IN held \cup {t \in ts : /\ kind = "speech" /\ t.kind = "ask" /\ t.at = "speak"
                           /\ \E s \in held : s.gen = t.gen}

\* The watchdog that has begun to end the turn is past cancelling.
Survivors(ts) == {t \in ts : t.kind = "watchdog" /\ t.at = "ending"}

\* A commit that was under way when its task was cancelled may have landed.
Landed(victims) ==
  \E landed \in SUBSET {t \in victims : t.at \in {"store", "submit"}} :
    /\ questions' = questions + Cardinality({t \in landed : t.kind = "ask"})
    /\ answered' = answered \cup {t.q : t \in {u \in landed : u.kind = "answer"}}
    /\ evaluated' = evaluated \cup {t.q : t \in {u \in landed : u.kind = "evaluate"}}

\* What a handler does when everything it cancels has ended.
Finish(control, ts) ==
  CASE control = "interrupt" ->
         /\ pending' = 0
         /\ heard' = FALSE
         /\ Listen(ts)
         /\ loop' = Idle
         /\ UNCHANGED running
    [] control \in {"pause", "pause_speech"} ->
         /\ state' = "paused"
         /\ pending' = IF control = "pause" THEN pending ELSE 0
         /\ tasks' = ts
         /\ loop' = Idle
         /\ UNCHANGED <<heard, running>>
    [] control = "end_turn" ->
         /\ tasks' = Create(ts, Task("answer", "new", 0, 0))
         /\ loop' = Idle
         /\ UNCHANGED <<state, pending, heard, running>>
    [] control \in {"stop", "cancel"} ->
         /\ state' = IF control = "stop" THEN "completed" ELSE "cancelled"
         /\ pending' = 0
         /\ tasks' = ts
         /\ running' = FALSE
         /\ loop' = Idle
         /\ UNCHANGED heard
    [] control = "close" ->
         /\ tasks' = ts
         /\ loop' = Closed
         /\ UNCHANGED <<state, pending, heard, running>>

\* Go on with the cancellations todo, from the tasks ts: cancel the first
\* that is running and wait, or finish.
Proceed(control, todo, ts) ==
  LET live == {i \in DOMAIN todo : Held(ts, todo[i]) # {}}
      first == CHOOSE i \in live : \A j \in live : i <= j
      victims == Victims(ts, todo[first])
  IN  IF live = {}
        THEN Finish(control, ts) /\ UNCHANGED rows
        ELSE /\ tasks' = ts \ (victims \ Survivors(ts))
             /\ loop' = [control |-> control, ran |-> FALSE,
                       todo |-> SubSeq(todo, first, Len(todo))]
             /\ Landed(victims)
             /\ UNCHANGED <<state, pending, heard, running>>

\* A handler begins to cancel; _cancel_tts starts with a new generation.
Cancelling(control) ==
  /\ Proceed(control, Cancels(control), tasks)
  /\ generation' = IF "speech" \in Range(Cancels(control)) THEN generation + 1 ELSE generation
  /\ connected' = (control # "close" /\ connected)
  /\ UNCHANGED <<lastQuestion, toEvaluate, started, out>>

\* The loop waits for a message, and gets one of this type.
Receives(control) ==
  /\ control \in Controls
  /\ loop = Idle /\ running /\ connected

StartTurn ==
  /\ Receives("start_turn")
  /\ StartListening(tasks)
  /\ UNCHANGED <<running, connected, generation, out, loop, rows>>

\* The acknowledgement of a generation; a stale one is ignored.
PlaybackComplete(gen) ==
  /\ Receives("playback_complete")
  /\ state = "speaking" /\ pending = gen
  /\ StartListening(tasks)
  /\ UNCHANGED <<running, connected, generation, out, loop, rows>>

EndTurn ==
  /\ Receives("end_turn")
  /\ Room
  /\ state = "listening" /\ Held(tasks, "answer") = {}
  /\ Cancelling("end_turn")

Interrupt ==
  /\ Receives("interrupt")
  /\ Room
  /\ Cancelling("interrupt")

Pause ==
  /\ Receives("pause")
  /\ state \in {"listening", "processing", "speaking", "thinking"}
  /\ IF state \in {"speaking", "thinking"}
       THEN Room /\ Cancelling("pause_speech")
       ELSE Cancelling("pause")

Resume ==
  /\ Receives("resume")
  /\ state = "paused"
  /\ heard' = FALSE
  /\ Listen(tasks)
  /\ UNCHANGED <<running, connected, stream, loop, lastQuestion, toEvaluate, started, rows>>

\* stop and cancel first wait for the service.
StopOrCancel(control) ==
  /\ Receives(control)
  /\ loop' = [Idle EXCEPT !.control = control]
  /\ UNCHANGED <<state, running, connected, stream, tasks, turn, rows>>

\* A terminal session is tolerated; another error ends the loop.
ServiceReturns ==
  /\ loop.control \in {"stop", "cancel"} /\ loop.todo = << >>
  /\ Cancelling(loop.control) \/ Cancelling("close")

\* Audio of the candidate.  (While the loop waits for a partial transcript
\* it takes no message, which is also what it may do without one.)
Audio ==
  /\ loop = Idle /\ running /\ connected
  /\ state = "listening"
  /\ heard' = TRUE
  /\ UNCHANGED <<state, running, connected, stream, tasks, loop, lastQuestion, toEvaluate,
                 started, rows>>

\* Mutant: the handler waits for the pipeline, not for the task it cancelled.
Continue_WaitsForAnswer ==
  /\ loop.todo # << >>
  /\ ~\E t \in tasks : t.kind \in {"answer", "ask"}
  /\ Proceed(loop.control, Tail(loop.todo), Release(tasks, Head(loop.todo)))
  /\ UNCHANGED <<generation, connected, lastQuestion, toEvaluate, started, out>>

\* The cancelled task has ended: its attribute is cleared, and the handler
\* goes on.
Continue ==
  /\ loop.todo # << >>
  /\ Head(loop.todo) = "watchdog" => Survivors(Held(tasks, "watchdog")) = {}
  /\ Proceed(loop.control, Tail(loop.todo), Release(tasks, Head(loop.todo)))
  /\ UNCHANGED <<generation, connected, lastQuestion, toEvaluate, started, out>>

\* The session has ended or the client has gone away: the finally block of
\* run, which leaves the start task and the watchdog alone.
Close ==
  /\ loop = Idle
  /\ Cancelling("close")

-----------------------------------------------------------------------------
Start == \E t \in tasks : StartBegin(t) \/ StartAsks(t) \/ StartResumes(t) \/ StartFails(t)

Ask == \E t \in tasks : \/ AskStart(t) \/ AskProceeds(t) \/ AskToken(t) \/ AskStored(t)
                        \/ AskShown(t) \/ AskSpoken(t) \/ AskFails(t)

Speech == \E t \in tasks : SpeechFrame(t) \/ SpeechSegment(t) \/ SpeechFails(t)

Answer == \E t \in tasks : \/ AnswerStart(t) \/ AnswerEmpty(t) \/ AnswerSubmit(t)
                           \/ AnswerStored(t) \/ AnswerEnds(t) \/ AnswerFails(t)

Evaluate == \E t \in tasks : EvaluateProceeds(t) \/ EvaluateStored(t) \/ EvaluateFails(t)

Timers == TimerFires \/ \E t \in tasks : WatchdogEnds(t) \/ WatchdogFires(t)

EndsTurn == \E t \in tasks : WatchdogEndsTurn(t)

\* While a handler awaits a task it has cancelled, which ends at its next
\* step, one other task that was ready may run.
Meanwhile ==
  IF loop.todo = << >> THEN UNCHANGED loop
                       ELSE ~loop.ran /\ loop' = [loop EXCEPT !.ran = TRUE]

Loop == \/ StartTurn \/ EndTurn \/ Interrupt \/ Pause \/ Resume \/ Audio \/ Close
        \/ \E gen \in 1 .. MaxGeneration : PlaybackComplete(gen)
        \/ \E control \in {"stop", "cancel"} : StopOrCancel(control)

\* A handler that has awaited something goes on.
Handler == ServiceReturns \/ Continue

Next ==
  \/ (Start \/ Ask \/ Speech \/ Answer \/ Evaluate \/ Timers) /\ Meanwhile
  \/ EndsTurn /\ UNCHANGED loop
  \/ Loop \/ Handler

Spec == Init /\ [][Next]_vars

\* The event loop resumes what is ready, and the service answers a stop or a
\* cancel, if only with an error.
FairSpec ==
  /\ Spec
  /\ WF_vars(Handler)
  /\ WF_vars(EndsTurn /\ UNCHANGED loop)

-----------------------------------------------------------------------------
(* Properties.                                                             *)

TaskRecords ==
  [kind : Kinds, at : UNION {Points[k] : k \in Kinds}, gen : Nat, q : Nat,
   held : BOOLEAN, spoke : BOOLEAN]

TypeOK ==
  /\ state \in States
  /\ running \in BOOLEAN /\ connected \in BOOLEAN /\ heard \in BOOLEAN
  /\ {generation, pending, lastQuestion, toEvaluate, questions} \subseteq Nat
  /\ \A t \in tasks : t \in TaskRecords /\ t.at \in Points[t.kind]
  /\ loop.control \in {"receive", "interrupt", "pause", "pause_speech", "end_turn", "stop",
                       "cancel", "close", "closed"}
  /\ started \cup answered \cup evaluated \subseteq 1 .. questions
  /\ out \in [type : {"none", "tts_start", "frame", "tts_stop"}, gen : Nat]

\* One stream at a time reaches the client: frames carry no generation, so a
\* frame or a tts_stop follows the tts_start of its own stream, nothing of a
\* stream follows its end, and no frame is sent after stop or cancel.
StreamsAreSerial ==
  [][out' # out =>
       /\ out'.type \in {"frame", "tts_stop"} => out.gen = out'.gen /\ out.type # "tts_stop"
       /\ out'.type = "frame" => running]_out

\* The client is asked to confirm the playback of a generation only when no
\* worker can still send audio of it.
PlaybackIsComplete ==
  pending # 0 => \A t \in tasks : t.kind = "speech" => t.gen # pending

\* Two evaluations of one answer never run, and none runs that is stored:
\* _evaluated_qids survives interruptions and replays of a question.
EvaluatedOnce ==
  \A t \in tasks : t.kind = "evaluate" =>
    /\ t.q \notin evaluated
    /\ \A u \in tasks \ {t} : u.kind = "evaluate" => u.q # t.q

\* Every control message is served: no handler waits for ever for a task it
\* cancels.
ControlsServed == loop \notin {Idle, Closed} ~> loop \in {Idle, Closed}

=============================================================================
