# Pramya in TLA+

Pramya is a mock-interview platform: a FastAPI backend (`backend/app`) with a
PostgreSQL store, a LangGraph workflow over hosted and local models, a voice engine
over a WebSocket, and a React browser application (`frontend/src`).  This
directory models the parts of it where requests, tasks, streams and failures
interleave and the pure algorithms behind them, checks them with TLC on small
instances, and proves their safety properties with TLAPS for instances of every size.

## Inventory

| Part | State | Operations | What is hard | What makes it correct |
|---|---|---|---|---|
| Interview state machine (`interview/state.py`) | `interview_session.status` | `transition` | nothing by itself | terminal states are final |
| `InterviewService` (`interview/service.py`) | rows of one session: session, turn, question, answer, evaluation, idempotency record, feedback; the JSONB `config` (snapshot, coverage, directives, gaps) | create, begin, next question, submit answer, evaluate, hint, pause, resume, stop, cancel | every request has its own `AsyncSession`; model calls of many seconds between read and write; whole-column writes; check-then-insert | numbered transcript, answers after questions, keys with answers, grounding never lost, config refers to rows, feedback founded on evaluations |
| `EventBus`, SSE (`service.py`, `useSSE.ts`) | one bounded `asyncio.Queue` and a consumer count per session | publish, subscribe, unsubscribe, stream | several tabs on one queue, overflow, generators closed at a yield, reconnects | no orphaned stream, newest events kept, no event twice, the end is reported |
| LangGraph workflow, generation (`interview/workflow.py`, `generation.py`, `ai/langchain/structured.py`) | graph values per thread in a checkpointer | question, answer, hint and report lanes | retries of a call inside retries of a graph; values left by an earlier or a cancelled run on the same thread | what is stored was made by this run; calls are bounded; no lane is lost |
| Inference router, providers (`ai/router.py`, `ai/policy.py`, `ai/providers/`) | providers built at start-up | generate, stream, embed, rerank | provider failure, fallback in mid-stream | policy order respected; every call ends, in one outcome of its last provider |
| Voice engine (`voice/engine.py`, `api/v1/voice.py`) | state, current question, buffers, timers and a dozen tasks per socket | control messages, audio, question pipeline, speech worker, answer pipeline, evaluation, two timers, reconnect | tasks cancelled at any await, double triggers, timers, disconnect and resume, one shared `AsyncSession` | playback complete before listening, one stream at a time, each answer evaluated once, controls served |
| Sentence segmenter (`voice/segmenter.py`) | text held back, current line | feed, flush | cuts at any token; two parsers of one text | what is spoken is what is stored |
| Browser voice client (`lib/voice.ts`) | socket, state, accepted and unconfirmed generation, sources that play, reconnect timer | start, dispatch, playback, confirm, interrupt, reconnect, teardown | messages and audio in flight across an interruption; underruns; timers and sockets that outlive the end | a question is heard whole or given up, confirmed once, silence after the end |
| Interview page (`InterviewPage.tsx`) | current question, transcript, pending mutation | start, submit, hint, stop | the question arrives only on the event stream; events overtake commits | the page shows the question the server asked last |
| Profiles, documents, roles, evidence (`services/user.py`, `document.py`, `extraction.py`, `role.py`, `ingestion.py`, `interview_context.py`) | user, active profile, preferred documents, documents, chunks, stored files, roles, evidence | create, activate, delete, prefer, upload, index, extract, analyse, build a context | deletes that cross with inserts; stale ORM rows; files outside transactions; re-indexing that fails half way | every row has its owner, pointers stay inside the user's rows, stored files readable, context of one profile only |
| Coverage, readiness, preparation, progress (`services/`) | none (pure), over session config and rows | focus, gaps, scores, ranking, series | empty inputs, ties, caps, case | agree with a reference definition |
| Chunking, retrieval (`knowledge/chunking.py`, `retrieval.py`) | none (pure) | split, rank fusion, rerank, degrade | overlap and hard splits; a missing leg; a failed reranker | no word lost, dominated hits never ahead |
| Communication, demo, stories, configuration, migrations, rendering | rows, settings | thin routes | little | not modelled |

Interactions: a browser calls the HTTP API (one request, one `AsyncSession`,
one `InterviewService`); the service takes its grounding from the profile's
documents, calls the workflow, which calls the router; the service commits to
PostgreSQL and publishes to the in-process `EventBus`; SSE streams and the voice engine
carry events back to the browser.

## Modules

```
InterviewStates <- InterviewSession <- MCInterviewSession
       ^                 ^   |  \
       |                 |   |   InterviewSessionProofs
InterviewContract <------+---+ (INSTANCE, refinement)

EventBus <- MCEventBus              VoiceEngine <- MCVoiceEngine
        \- EventBusProofs                     \- VoiceEngineProofs

InferenceRouter <- InterviewWorkflow <- MCInterviewWorkflow
                                    \- InterviewWorkflowProofs

ProfileWorkspace <- MCProfileWorkspace              VoicePlayback
                \- ProfileWorkspaceProofs                       \- VoicePlaybackProofs

Ordering <- Retrieval, Coverage, Readiness, Progress   \
                               SpeechText, Chunking   <- Algorithms <- AlgorithmsProofs
                                                           FoldLaws <-/ (INSTANCE)
```

An `MC` module adds only what TLC needs (symmetry sets); the constants get
their values in the `.cfg` files.  Each definition's source lines are in
`PROJECT.json` under `map`.  An operator whose name has an underscore
(`SeqLocked_Never`) is the definition before the underscore with a plausible
bug; it is not used by the model, and shows which property would notice.

### InterviewStates, InterviewSession, InterviewContract

`InterviewStates` is `interview/state.py`: `TRANSITIONS`, `is_legal`, and the
two conditions the service builds from them.

`InterviewSession` is one session and a set `Req` of request slots.  A slot runs
one request at a time: `begin`, `pause`, `resume`, `cancel`, `stop`,
`next_question`, `submit_answer` (with or without its inline evaluation),
`evaluate_answer`, `request_hint`.  `req[r]` holds the locals of a request, `pc`
says what it awaits.

| Code | Model |
|---|---|
| `interview_session.status`, `.config` | `status`; `config` (the snapshot, which questions coverage was marked for, directives, gaps) |
| rows of `question`, `answer`, `interview_turn` | `questions`, `answers`, each with the `seq` of its turn |
| `evaluation`, `idempotency_record`, `interview_feedback` | `evaluations`, `keys`, `feedback` |
| read, check `transition` | `BeginRead`, `StatusRead`, `StopRead`, `NextRead`, `SubmitRead`, `HintRead`, `EvaluateStart` |
| `add` + `flush` of a row with a unique key | the request keeps the row in `req[r]`; `SeqLocked`, `KeyLocked`, `EvaluationLocked` make others wait |
| `commit()` | `BeginCommit`, `StatusCommit`, `StopCommit`, `QuestionCommit`, `AnswerCommit`, `EvalCommit`, `HintCommit` |
| exception, cancelled request, lost connection | `Abort`: the transaction is rolled back |
| sequence `question_id_seq` | `qids`, which a roll-back does not return |

A request reads committed rows only (PostgreSQL's READ COMMITTED), keeps the ORM
object it read, and writes whole columns: that the object is not refreshed is
what makes `config` and `status` interesting.  A model call is a step boundary.

`InterviewContract` is the abstract specification: every operation atomic, a
question answered and evaluated at most once, a terminal status final, the
snapshot fixed, directives permanent.  `InterviewSession` maps to it by `Contract`;
`ServesContract` says that a service with one request at a time implements it,
with a failure at any step and retries after it (checked with one slot, proved for any
number of slots of which one is in use).  With two requests it does not:
`V_TerminalIsFinal` shows one promise broken, and *Seen while modelling* lists others.

### EventBus

The queue, the consumer count and the streams of one session.  A stream is an
async generator; `pc` is the `yield` or `get()` at which it stands, because that is
where a client that leaves closes it: `LeaveEarly` at the first yield, outside
the `try`, where no `finally` runs, `Leave` elsewhere.  `queue` keeps the
`Queue` objects apart, because a stream holds on to the object it subscribed to.
Keepalive comments and `task_done` are left out.

### VoiceEngine

One `VoiceEngine` object.  Its coroutines run in one event loop, so a step lasts
from one await of something that is not ready to the next.

| Code | Model |
|---|---|
| `state`, `_running`, `_generation`, `_playback_pending_generation` | `state`, `running`, `generation`, `pending` |
| `_start_session_task`, `_tts_task`, `_speech_task`, `_answer_task`, `_evaluation_task`, `_silence_task` | members of `tasks`, by `kind`; `at` is the await a task stands at; `held` is lost when the attribute is set to another task |
| the receive loop in `run` | `loop`: waiting (`Idle`), or in the handler `control` with the cancellations `todo` |
| `_audio_buf` is not empty | `heard` |
| `_last_question_id`, `_pending_evaluation`, `_evaluated_qids` | `lastQuestion`, `toEvaluate`, `started` |
| rows the engine has stored | `questions`, `answered`, `evaluated` |
| `tts_start`, audio frames, `tts_stop` on the socket | `out`, the last of them |
| `_on_control` | `StartTurn`, `EndTurn`, `PlaybackComplete`, `Interrupt`, `Pause`, `Resume`, `StopOrCancel` |
| `_cancel_tts`, `_cancel_answer`, `_cancel_evaluation`, `_stop_silence_watchdog` | `Proceed`, `Continue`: cancel, await, go on |
| `finally` of `run`, a lost socket, an invalid message | `Close` |

What deserves attention:

- A handler awaits each task it cancels.  `asyncio` resumes the cancelled task at
  its next turn, so at most a ready task runs in between: `Meanwhile` lets one other
  task act in each such window.  A cleanup that itself takes several turns of the loop (a roll-back)
  is one such window.
- A commit that was under way when its task was cancelled may or may not have
  landed: `Landed` chooses.
- The watchdog that ends a turn cancels and awaits itself.  `asyncio` refuses and
  the coroutine goes on one turn later (`at = "ending"`), and in that turn the
  button may end the turn as well; nothing can cancel it any more (`Survivors`).
- A task that lost its attribute goes on: an old pipeline still stores its question.
- The playback timer has no task of its own in the model: when `pending` is set
  there is a timer, and it may fire (`TimerFires`) at any time.  The timer of an
  earlier question that was not stopped is thereby included.
- A speech worker compares generations before each send, so the workers of older
  generations are left out once there is a newer one (`Outdate`).
- Opt-in voice barge-in is `Interrupt`.  Left out: partial transcripts, the lock on
  the speech models, stored audio, transcript rows, metrics, and a
  socket that is lost while a handler is waiting (it is noticed when the handler
  has returned).  A send is taken not to suspend.

### VoicePlayback

The browser's `VoiceClient` and the engine's side of its protocol, with the messages in
flight between them; `VoiceEngine` has the engine's tasks and no client,
`VoicePlayback` the client and an engine reduced to what the protocol shows of it.

| Code | Model |
|---|---|
| `VoiceClient`: `state`, `currentGeneration`, `pendingPlaybackGeneration` | `client.state`, `.cur`, `.pending` (0 for -1) |
| `ws`, `closedByUser`, `reconnectAttempts`, `reconnectTimer` | `client.socket`, `.phase`, `.attempts`, `.timer` |
| `activeSources` (the queue is always empty between events) | `client.sounding`, in the order they play; `.stopped` counts flushed sources whose `onended` is still to come |
| the socket | `toClient`, `toServer`: in order, of limited size; `Break` loses what did not arrive |
| `start`, `openSocket`, `onclose`, `teardown` | `Start`, `MicrophoneReady`, `Opened`, `Closed`, `ReconnectTimer`, `End` |
| `handleMessage`, `dispatch`, `enqueuePlayback` | `HandleMessage` |
| `onended`, `notifyPlaybackComplete` | `SourceEnded`, `StoppedSourceEnded`, `NotifyPlaybackComplete` |
| the page's buttons, in the states it shows them (`InterviewPage.tsx:1053`) | `Press`, `Offered` |
| `VoiceEngine`: state, generation, awaited confirmation, question pipeline, worker | `engine.state`, `.gen`, `.pending`, `.pipeline`, `.worker`; `.asker` is the task that will ask the next question |
| its handlers, the 45 s guard, the watchdog, opt-in barge-in, a failing pipeline | `OnControl`, `PlaybackTimeout`, `SilenceEndsTurn`, `BargeIn`, `PipelineFails` |

The client is one event handler at a time, so each is one step.  A frame is a
generation and a number, which only the model knows: on the wire a frame is bare
samples, and `HeardIsUncut` asks whether state and generation announced before it are
enough to tell where it belongs.  A connection has an engine of its own; `begun` is the row that tells a
later engine to resume.  Left out: the microphone's audio, the heartbeat, the states
STARTING, COMPLETED and CANCELLED (the client acts on none of them, or has closed its
socket), the messages that carry text, and the cancellations an engine handler awaits,
which are in `VoiceEngine`.  The `AudioContext` runs once it has started (frames
that come while it does not are dropped), and `End` includes its closing.

### InferenceRouter, InterviewWorkflow

`InferenceRouter` is a call of `ai/router.py`: `Chain` is the policy of its task,
`Outcome` classifies an HTTP exchange by status and body (`_http.py`), `Proceed`
and `PassOver` walk the fallbacks, `Responded` and `Streamed` are `generate` and
`stream`.  Every chain of the policy table has one model today, so what a fallback
would do is read off the code and not run (see *Seen while modelling*).

`InterviewWorkflow` extends it with the compiled graph and what the service does
around one run of it, for a service that lives for one HTTP request or one socket.

| Code | Model |
|---|---|
| `InterviewService` of a request or of a socket | `mode`; `started` counts its operations |
| a graph run, at a node | `run[slot]`: `lane`, `node`, `attempt`, `try`, the values so far |
| checkpoint of a thread id | `thread`: questions and reports share `graph_thread_id`, answers and hints `s<id>` |
| `route_action`, `route_after_retrieval`, edges | `RouteAction`, `RouteAfterRetrieval`, `Edge` |
| `invoke`/`astream` from the last checkpoint | `Invoke`: the checkpoint overwritten by the input |
| `retrieve_context` and its degradation | `Retrieve` |
| nodes without a model call | `PlainNode` |
| `generate_structured` with `max_attempts` | `StructuredNode`, `Again`, `StructuredFails` |
| retry of the whole answer graph | `StructuredFails` with a try left |
| anti-hallucination regeneration | `Regenerate` |
| question from a stream, report | `QuestionNode`, `ReportNode` |
| nobody takes the tokens any more; a cancelled task | `Unsent`; `Cancel` |
| the service takes the values and stores them | `Finish`, `Done` |

A value stands for the run that made it, so that an old value is told from a new
one; the texts are left out.  The streaming path reads its result from the checkpoint again after
the stream (`service.py:359`); the model takes the values of the run in the same step, which is the same
as long as the questions of a socket are generated one at a time (`StreamsAreSerial`).  `embed` and `rerank` enter as the outcomes of a search.

### ProfileWorkspace

One user's rows and the requests on them.  As in `InterviewSession`, a request
reads committed rows, awaits, and writes; each operation is a read step and a commit
step with the same name.

| Code | Model |
|---|---|
| `user`, `candidate_profile`, `active_profile_id` | `user`, `profiles`, `active` |
| preferred resume and jd of a profile | `preferred` |
| `document`, its `document_chunk` rows | `documents`, `indexed` |
| `evidence`, `role` with profile and source document | `evidence`, `roles` |
| files under `upload_storage_dir` | `files`, by digest and kind; outside any transaction |
| foreign keys, CASCADE, SET NULL | `Referenced`, `Unlocked`, `DropChunks`, `ClearPreferences`, `Unsourced` |
| `upload_document` | `Upload` (dedup), `Store` (file, flush), `Parsed` (commit) |
| the two indexing paths and their failures | `Index`, `IndexCommit`, `IndexDegraded`, `ReindexFailed`, `ReindexReply` |
| `extract_document`, `analyze_role` | `Extract`, `Analyze` and their commits |
| `InterviewContextBuilder` | `Context`, `ContextDocs`, `ContextLegacy`, `ContextText`: the preference, the profile's documents, else those of no profile, the preferred or the latest, its chunks |
| exception or lost client | `Fail`: the transaction is rolled back, its ids and files stay |

The ORM keeps the row it read first and emits no UPDATE for a column that already
had the new value; both matter for `active_profile_id`.

### SpeechText, Chunking, Ordering, Retrieval, Coverage, Readiness, Progress, Algorithms

Operators, one module for each part.  `SpeechText` is the segmenter, the question
extractor of the voice pipeline and `parse_question_output`, which reads the same
text for the database; `Chunking` is `chunk_text` over words and lengths;
`Retrieval` is reciprocal rank fusion, reranking and degradation; `Coverage` is
`mark_asked`, `focus_competency` and `compute_gaps`, composed over a session as the service
composes them: asking (`Ask`: the focus, the question's row, `_mark_coverage`) and
evaluating (`Evaluate`: `_persist_directive`, `_update_gaps`) are events of their own, and an
answer is evaluated at once, after later questions, in another order, or never.  Each
event is atomic there: what requests that overlap do to the one config they all write is in
`InterviewSession`.  An evaluation without reasoning is what the guard at `service.py:824` provides for;
the answer lane reasons always.  The competencies are those of the snapshot; a session without them
falls back to the rows of its role (`service.py:497`), a list of the same kind.  `Readiness` is the scores, caps and preparation priorities in
integer arithmetic scaled so that nothing is rounded where the code does not; `Progress` is
the selection of evaluations and their series.  `Algorithms` builds an input one
element at a time (a character, a paragraph, a hit, a question or an evaluation, a row), so every
prefix is judged.  `Ordering` is Python's stable `sorted(..., reverse=True)` and the
list comprehension with a condition, defined by counting places so that they can be
reasoned about; a loop is a fold.

## Runs

Passing runs:

| Run | Instance | Shows |
|---|---|---|
| `InterviewRequests` | 2 requests, 2 snapshots, 1 key, all status changes, 1 question, 2 feedback rows, fair | `TypeOK`, `TranscriptIsDense`, `AnswersFollowQuestions`, `ConfigRefersToRows`, `KeysIdentifyAnswers`, `NeverUngrounded`, `FeedbackIsFounded`, `RequestsEnd`: waits on unique keys form no cycle |
| `InterviewSerial` | 1 request at a time, 2 questions, 2 keys, all operations and failures | `ServesContract`: the refinement of `InterviewContract` |
| `EventBusStreams` | 2 streams, a queue of 2, 4 events, fair | `StreamsShareQueue`, `QueueHoldsTheNewest`, `DeliveredOnce`, `FinalStatusEndsStream` |
| `VoiceTurns` | 3 generations; `start_turn`, `playback_complete`, `interrupt`, turns ended by silence | `TypeOK`, `PlaybackIsComplete`, `EvaluatedOnce` |
| `VoiceControl` | 2 generations, every control, fair | `ControlsServed`, `StreamsAreSerial` |
| `VoiceBrowser` | 2 questions of 2 frames, 1 button or voice interruption and a resume, 1 lost connection, 4 messages in flight, 1 attempt to reconnect | `TypeOK`, `HeardIsUncut`, `ConfirmedOnce`, `EndedIsQuiet` |
| `Workflow` | 2 slots, 2 operations, 2 attempts within 2 tries, fair | `TypeOK`, `FreshOutput` (nothing stored was made by another run), `CallsAreBounded`, `RunsEnd` |
| `Workspace` | 2 requests at a time and 6 in all, 2 profiles, 2 documents of one content, 1 claim | `TypeOK`, `RowsHaveOwners`, `PointersAreOwned`, `StoredContentIsReadable`, `ContextIsOwn`, `ReindexKeepsText` |
| `Algorithms` | every input of 6 characters, 4 paragraphs, 3 hits in each leg, 5 questions and evaluations, 3 evidence records or gaps, 4 rows or points | `SpokenIsStored`; `EveryWordIsIndexed`; `BestComeFirst`; `RotationCoversAll`, `NewestTopicLeads`, `GapsFollowEvaluations`; `ProofNeverHurts`, `LargestGapsFirst` |

Violation runs, each of one sentence the repository says of itself
(`PROJECT.json`, `findings`):

| Run | The sentence | What happens |
|---|---|---|
| `V_TerminalIsFinal` | "Terminal states are final" (`state.py:64`) | a `begin` and a cancel both read `created`; the begin awaits the snapshot (`service.py:309`), the cancel commits, and the begin writes `questioning` over it |
| `V_ConfirmedIsPlayed` | "called only when the playback queue has ACTUALLY drained (or nothing was queued)" (`voice.ts:337`) | when synthesis is slower than speech a source ends with nothing queued (`voice.ts:516`): the client confirms, and spends, the confirmation of a stream that goes on |
| `V_ProgressIsOwn` | progress aggregates "only the requested profile's" evaluations (`PROFILE_WORKSPACE.md:89`) | evaluations are selected by comparing `answer_id` with ids of questions (`analytics.py:235`), two sequences that have nothing to do with each other |

Bounds.  Two requests show every race between one request's read and another's
commit; that a third adds nothing but longer waits is what the theorems below say of
the invariants, for any number of requests and questions.  `InterviewRequests` has one
question, on whose turn, answers and evaluation two requests already collide, and room for
two feedback rows, which two stops at once write;
`InterviewSerial` has two, the least at which turns, coverage and ids can be confused.  In `EventBusStreams` a queue of 2 overflows with 4 events while
two streams come, go, leak their count (`MaxConsumers`) and find a new queue
(`MaxQueues`).  Three generations give two whole turns of the interviewer and a
third beginning (or interruptions in their place): the smallest number at which a
question that was answered and evaluated can be answered and evaluated again; the
other controls come with two generations in `VoiceControl`, enough for an old stream
to meet a new one.  In `VoiceBrowser` two questions are an old stream and a
new one, two frames make an order and an underrun, and four messages let the engine be
in its next question while the client still plays; one button decides each race once,
and the resume has a place of its own because no pause would end without it (the
code tries to reconnect 5 times).  In `Workflow` two runs are what a stale value needs: one that
leaves it, one that could read it; two attempts and two tries let a retry happen
at both levels (the code has 3 and 2), and one delta is enough to be in mid-stream.
In `Workspace` two profiles can be confused, two documents of one content share a file,
six requests are enough to create two profiles, fill one, and delete across a
request in flight.  `Algorithms` keeps the ratios of the code's constants where
they matter and not their size: segments of 2 to 3 characters (60 to 200 in the code),
chunks of 8 with an overlap of 4 (1200 and 200), legs of 3 (20) and 2 results (5).  Five
events of a session are three questions, as many as the role has competencies, and two
evaluations in either order, or fewer of the one and more of the other.

Deadlock is not checked: a session that is completed, streams that have left, a
closed socket, an interview that was ended in the browser and a service whose request is over have nothing more to do, and the
bounds stop the rest.

Fairness.  `InterviewSession!FairSpec`: strong fairness of each request's own
steps, since the event loop resumes a coroutine whose await is done and PostgreSQL
wakes a waiter each time the lock it wants is free; clients need not send
anything.  `EventBus!FairSpec`: weak fairness of `Greet` and `Sent` (the server
writes the chunk) and of some `Take` (an `asyncio.Queue` wakes one getter, not
each).  `VoiceEngine!FairSpec`: weak fairness of `Handler` (an awaited task has
ended) and of `EndsTurn` (a task that is ready runs); nothing is assumed of the
client, the models or the timers.  `InterviewWorkflow!FairSpec`: weak fairness of each
slot's `GraphStep`: every HTTP exchange ends, since `httpx` has timeouts, and a node
that is ready runs; nothing is assumed of what the exchange comes to.

## Proofs

Each proof module of a component with actions proves `Spec => []IInv` (`Invariance`) for an inductive `IInv`,
and from it the properties the runs check, for every value of the constants that
satisfies the assumptions of the component's module (bounds are naturals, some of
them positive; `None` is no snapshot and no key; `Moves` are three statuses; the
requests of a session and the streams of a bus are finitely many; `Words` has the words the
inputs of `Algorithms` use and the code's "general", `Unnamed` is no name and `Unavailable` no list of hits).  A step lemma for each conjunct has one step per
action; frame lemmas say once which actions leave which variables alone.

`InterviewSessionProofs` proves the seven invariants of the interview (`TypeCorrect`,
`TranscriptTheorem`, `AnswerTheorem`, `KeyTheorem`, `GroundingTheorem`,
`ConfigTheorem`, `FeedbackTheorem`).  They speak of committed rows and are not
inductive: what a request is about to commit matters as much.  `IInv` adds what is in
flight.

- `SeqInFlight`: a `seq` computed and not inserted is at most one past the last, and
  two inserted turns have different ones.  This is why the transcript has no gap
  although requests compute `max + 1` without a lock: the unique index turns a
  collision into a wait and then an error.
- `AnswerInFlight`: a submission answers a committed question with a later `seq`, and
  its key is nobody else's.
- `ConfigInFlight`, `StatusInFlight`: the copy of the config a request will write
  has a snapshot if the committed one has, and mentions only committed
  rows; so a lost update can lose marks, never invent them.
- `EvaluationInFlight`, `IdsInFlight`: what an evaluation or a stop has read is
  still there; ids are not overdrawn.

The module then proves the refinement: `ContractTheorem`, for any
behaviour in which no two requests of the session are in flight together
(`OneAtATime`), and `OneSlot` for a service with one slot.  `IInv` is not enough for it:
the invariants of the interview hold under races, the contract only without them.  `SerialInv` says why: what a request
has read is `Current` until it writes (the status its transition was checked against, the
config it will write back whole, that the question has no answer, the answer no
evaluation and the session no feedback), and a question has at most one answer, the session one feedback row.  A step then maps
to one step of the contract or none: reads, model calls and roll-backs to none, each
commit to the operation it commits (`StepRefines`).  The same
invariant gives `SerialTerminal`, `SerialRows` and `SerialMemory`, which name what the races of
*Seen while modelling* break: terminal statuses, single answers and feedback rows,
directives and the snapshot.

`EventBusProofs` proves `SharingTheorem`, `OverflowTheorem` and `DeliveryTheorem` for
any set of streams and any queue size.  Its invariant adds that a count of zero and
an absent queue go together (`ConsumersHaveQueue`), and that objects not yet made are
empty.  `PutKeepsOrder` is the lemma about a full queue.

`VoiceEngineProofs` proves `TypeCorrect`, `PlaybackTheorem`, `EvaluatedTheorem` and the
action property `SerialTheorem` for any number of generations and any choice of
controls.  A handler may cancel, start and let run several tasks in one step, so the
proof rests on a relation, `Grows`: a task keeps its kind, generation and question
while its place changes, or is new and blank.  What `Grows` preserves is proved once:
workers and pipelines have generations already given out, one pipeline for each
(`Streams`); an evaluation under way is of an answer that is marked, not evaluated yet and
nobody else's (`Evaluations`).  The worker that may send belongs to the stream the
client hears, which is why an interruption cannot let two streams mix.

`InterviewWorkflowProofs` proves `TypeCorrect`, `FreshTheorem`, `CallsTheorem`
and `RetryTheorem` for any number of slots, attempts, tries and runs.
A step changes one slot, and `SlotOK` says of one slot what the properties need: which
nodes its lane visits, which values are the run's own at each of them (`OwnAt`), and how
many model calls it may have made by then (`Budget`).  The checkpoints of the
threads need no invariant beyond their type: that whatever they hold is overwritten
before it is read is the content of `FreshOutput`, and the reason the shared thread id is
harmless.

`ProfileWorkspaceProofs` proves `TypeCorrect`, `OwnerTheorem`, `PointerTheorem`,
`FileTheorem`, `ContextTheorem` and the action property `TextTheorem` for any set of
requests and contents and any bounds.  `IInv` adds what is flushed and not
committed (`FlushedIsFresh`: an uploaded document's id is nobody else's, its file is stored and
its profile, which the flushed row locks, is there) and what a context builder has selected (`SelectedIsOwn`).

`VoicePlaybackProofs` proves `TypeCorrect`, `ConfirmedTheorem`, `QuietTheorem` and
`UncutTheorem` for any number of questions, frames, buttons, lost connections and messages
in flight.  The properties speak of the client, and `IInv` of what is on its way to it:

- `StreamsInOrder`: the streams announced in flight are newer than what the client
  accepts, gave up or confirmed, and come in order, up to the engine's generation.
- `FramesFollowStarts`: a frame in flight is of the newest stream announced before it, to
  the client or in flight.
- `FramesAreSettled`: before a frame in flight, each earlier frame of its stream is in
  flight with no new state to speak behind it, or was taken, or was dropped for a reason
  that still stands when the frame is handled.  This is why frames that carry no
  generation can be taken or dropped by the last state and announcement without a gap.
- `SocketsFollowPhases`, `PlaysInTurn`, `HeardInOrder`: what a phase of the client allows.

A step of the engine adds messages at the end, of three kinds (`QuietStep`, `AskStep`,
`AudioStep`); every other step but a new connection takes at most the first message and may
lose the last ones (`Advance`).  Each conjunct has one lemma for each of the two.

`AlgorithmsProofs` proves what the algorithms promise for inputs of every length:
`LargestGapsTheorem`, `ProofNeverHurtsTheorem`, `RotationTheorem`, `NewestTopicTheorem`, `GapsTheorem`,
`SummaryIsOrderFreeTheorem`, `BestComeFirstTheorem`, `EveryWordTheorem` and `SpokenTheorem`.  The state
invariant is small (`InputTypes`, what an input is made of; that
the points of a series have different times, that a leg has no chunk twice); the rest are lemmas about operators.

- `Arranged`: the places of a set, counted by how many come before each, are a sequence in
  order with each place once.  `Sorted` and `PickedInOrder` say the same of `SortedBy` and
  `Picked`, and every ranking above rests on them.
- `FoldLaws` has what a loop needs.  `FoldLeft` unfolds to a recursion over finite sets whose
  definition the library says nothing about, so the module takes the operator of the fold as
  a parameter, shows that the recursion has exactly one solution, and proves
  `FoldEmpty` and `FoldAppend`.  An algorithm instantiates it (`Adding`, `Happening`,
  `Packing`, `Extracting`).  Its hypothesis `WellOrdered`, that a set of numbers has a least one, is
  `LeastNumber`, proved from the library's theorems on finite sets: instances of a module that
  extended those would copy them, and every proof would carry the copies.
  `SequenceInduction` rests on the same fact and speaks of a set instead of a predicate.
- Sessions: `Rotates`, `Following` and `Telling` are proved by that induction over the events.
  `Rotates`: coverage grows, and while competencies are left the focus takes one that is not
  covered.  `Following`: the directives are those of the questions evaluated with reasoning, each
  evaluated once (`EvaluatedOnce`), so the one with the greatest number is the newest's whatever came
  last.  `Telling`: coverage has what the stored questions are about, and the gaps are what the
  last evaluation computed from it.
- Readiness: a sum of weights over a count moves towards the weight that is added, and `Round`,
  `Capped` and the levels are monotone.
- Retrieval: `FactorsDivide` shows that the common denominator is divisible by each rank's
  factor, so `Share` is exact and strictly falling; a dominated chunk has the smaller sum.
- Chunking: `Packs` is the invariant of the loop: the words of the chunks and then of the buffer,
  each at its first time, are the words read so far.  `CarriedFrom` says that a flush carries
  nothing that is not in the chunk it closes, `HardSplitLoses` that the pieces of an oversized
  paragraph are its words.  Lengths do not matter to it, so neither do the two sizes.
- Speech: `Holds` says that the segments spoken and the text held are, blanks aside, the text fed;
  whatever `Cut` chooses keeps it, so the bounds of a segment do not matter (`FeedAdds`,
  `FlushSays`).  `Agree` relates the streaming reader and the parser of the whole text after
  the same complete lines: one has left the question when the other has, and they have the same
  text up to blanks.  `LineStep` shows that a line keeps it, the header and
  the keys included, and `ReadersAgree` follows it through a text character by character.  Headers
  are at the margin (`Margins`), as the property asks.

Only model-checked: the liveness properties `RequestsEnd`, `FinalStatusEndsStream`,
`ControlsServed` and `RunsEnd` (out of the prover's reach).
`SurfacesAfterRetry` and `SummaryIsOrderFree` are proved and no run repeats them.

## Seen while modelling, without a run of its own

The interview:

- Two concurrent `begin` calls build a snapshot each and the second replaces the
  first, although the snapshot is called immutable (`service.py:305`).
- A directive is lost when a question that was being generated meanwhile writes the
  config back (`service.py:666`), against "permanent record" (`service.py:819`); the latest
  directive is never consumed.
- Two answers to one question, and two feedback rows, are possible under
  concurrent requests with different keys.
- A stream closed at its first yield stays in the consumer count, and its queue is
  kept (`service.py:1185`, against `service.py:138`).
- `_mark_coverage` marks every skill that resume and job description share.
- Only an evaluation rewrites the gaps (`service.py:801`), so a competency that was a gap and is
  asked about afterwards stays among the gaps of the report (`service.py:1016`) and of the feedback
  (`service.py:931`) if that question is never evaluated, against "no evidence, not asked"
  (`ADR-028-interview-productization.md:44`); `GapsFollowEvaluations` says what they are.
- The gaps an interviewer detected are replaced by those of the next evaluation
  (`service.py:850`); a late evaluation of an old answer replaces the newer's.

The voice engine:

- When all synthesis fails the engine waits for the playback in THINKING, where both
  confirmation and timer are ignored (`engine.py:482`, against
  `VOICE_ARCHITECTURE.md:184`).
- A resumed connection has no `_last_question_id` (`engine.py:309`): the next answer
  fails and the engine stays in PROCESSING.
- A slow evaluation and the next pipeline use one `AsyncSession` (`engine.py:682`, against
  the comment at `engine.py:687`).
- The silence watchdog and the button can start two answer tasks for one turn; the
  second finds no audio and reopens the window while the first is recognised.
- A pipeline that fails in mid-stream leaves its worker, which takes the engine
  back to SPEAKING; no `tts_stop` follows.
- A pause during PROCESSING ends when the answer goes on to the next question.
- A question whose pipeline is interrupted after its commit is stored and never
  shown; the candidate's next answer goes to it.
- The start task and the watchdog outlive the socket.
- A reconnect to a session that has ended opens a window and LISTENING (`engine.py:305`).

The browser's voice client:

- A confirmation spent on an underrun leaves the engine waiting for its 45 s guard
  (`engine.py:617`); the guard may also open the window while a long question still plays.
- The late `onended` of a stopped source, or of an older stream that still sounds
  after the guard, can confirm a new stream of which nothing has been played yet.
- The microphone stays captured when the interview ends while `getUserMedia` is
  waiting (`voice.ts:160`), and after the last attempt to reconnect (`voice.ts:247`), which
  tears nothing down.
- `cancel()` has no caller in the pages.

Generation and speech:

- A stream that breaks is continued by the next model of the chain (`router.py:221`), after
  the text already delivered; every chain has one model today, so it does not happen.
- An `AIError` reaches no handler that maps it, so it is a 500 (`errors.py:5`).
- `parse_question_output` passes type and difficulty on as written, so an unknown label is
  a `ValueError`; keys after `HINTS:` are lost.
- The extractor joins lines without the newline, which glues words together, and cuts
  a header that is indented in the wrong place; the segmenter splits at a "." inside a
  word.  `SpokenIsStored` therefore compares visible characters and asks for headers at
  the margin.  The parser also breaks lines at the rarer separators of `splitlines()`
  (`generation.py:63`), the extractor at `\n` only (`segmenter.py:149`): a key behind one of those would be
  spoken.  The inputs of `Algorithms` have `\n` only.

Workspace and retrieval:

- When the LlamaIndex pipeline fails, the fallback flushes its chunks and the route answers
  with their count (`crud.py:339`), but nobody commits, against "persist a parsed document"
  (`crud.py:288`).
- A document that cannot be parsed is flushed as FAILED and rolled back
  (`document.py:97`); its file stays.
- The delete route builds its `DocumentService` without a storage directory, so no
  file is ever unlinked; to unlink one would break the other documents with that digest.
- Deduplication is a check before an insert without a unique index, so two uploads
  at once store two documents.
- `extract_document` takes any document of the user, not of the profile.
- A latest resume that is not indexed hides an older one that is; the evidence
  of a context is the 40 oldest rows.
- `create_profile` and `delete_profile` can write back an `active_profile_id` read
  earlier; `set_active_profile` for a user that does not exist adds one without it.
- `embeddings[0]` of an empty answer is an uncaught `IndexError` (`retrieval.py:122`);
  a negative rerank score ranks below no score at all.
- A chunk may be longer than `chunk_size` by the overlap (`chunking.py:54`), and
  `char_start` starts at 0 again after a hard split; paragraphs carried over are emitted
  again around one that is too long.

Scores:

- `compute_gaps` takes the job description's own text as something known, so what it
  names is never a gap; the focus compares names exactly, the gaps in lower case.
- `focus_competency` seeds its generator again for every call.
- Evaluations of readiness have no `competency_id`, so scores never count towards one.
- `PreparationService.regenerate` adds its items again on every call, and
  `reopen_open` reopens whatever was dismissed.
- "Old buckets are pruned" (`middleware.py:107`) never happens.

## Not modelled

Of the browser only the voice client (`VoicePlayback`) and the reconnecting event
stream (the slots of `EventBus`) are modelled; the pages render.  Communication analysis is statistics over
one answer.  Serialisation, rendering, logging, metrics, tracing, migrations, demo data,
stories and the single-row CRUD routes have no behaviour to check.  Speech recognition,
synthesis, file parsers and the SQL of vector and text search are calls that answer or
fail.  Left out of `InterviewSession`: the evidence rows an evaluation adds, the report and
transcript reads; of `VoiceEngine` and `VoicePlayback`: what their sections list; of `ProfileWorkspace`:
updates of single fields and the competency registry.  `PROJECT.json` lists every
component with its reason, and under `hazards` those no property covers, with why.

## Plan

What would come next, in order.

1. `TextInterview`: the interview page, its event stream with reconnects, the
   `EventBus` and a question request; the page shows the question the server
   asked last, events that overtake their commit included.
2. `ProfileWorkspace` composed with `begin`: the snapshot of an interview is of
   documents its profile had when it was built, with prior feedback and resume signals.
