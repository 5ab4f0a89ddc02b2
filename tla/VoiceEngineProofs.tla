--------------------------- MODULE VoiceEngineProofs ---------------------------
(***************************************************************************)
(* The safety properties of VoiceEngine for any number of generations and   *)
(* any set of control messages.                                             *)
(*                                                                         *)
(* Nearly every step lets the tasks go on without changing what kind of     *)
(* task each is, whose stream it belongs to or which question it is about:  *)
(* Grows says so once, for cancelled tasks, tasks that lost their attribute *)
(* and new tasks that have not begun alike.  What the invariant says of     *)
(* the tasks is kept by any such step.                                      *)
(***************************************************************************)
EXTENDS VoiceEngine, FiniteSetTheorems, TLAPS

\* A task that has come to the pipeline proper has a generation of its own.
Streaming(t) == t.kind = "ask" /\ t.at # "new"

\* u is what has become of t in a step of no consequence.
Same(t, u) ==
  /\ u \in TaskRecords /\ u.at \in Points[u.kind]
  /\ u.kind = t.kind /\ u.gen = t.gen /\ u.q = t.q
  /\ u.kind = "ask" => (u.at = "new" <=> t.at = "new")
  /\ u.kind = "answer" /\ u.at = "submit" => t.at = "submit"

\* A task that has not begun, and says nothing of streams or questions.
Blank(u) ==
  /\ u \in TaskRecords /\ u.at \in Points[u.kind]
  /\ u.kind \notin {"speech", "evaluate"} /\ u.gen = 0 /\ u.q = 0
  /\ u.kind = "ask" => u.at = "new"
  /\ u.kind = "answer" => u.at # "submit"

\* Each of us was one of ts, no two of them the same one, or is blank.
Grows(ts, us) ==
  /\ \E f : /\ \A t \in ts : Same(t, f[t])
            /\ \A u \in us : Blank(u) \/ \E t \in ts : u = f[t]
  /\ IsFiniteSet(ts) => IsFiniteSet(us)

Handlers == {"interrupt", "pause", "pause_speech", "end_turn", "stop", "cancel", "close"}

\* What is said of the tasks ts alone.
Typed(ts, asked) ==
  /\ IsFiniteSet(ts)
  /\ \A t \in ts : /\ t \in TaskRecords /\ t.at \in Points[t.kind]
                   /\ t.kind = "answer" /\ t.at = "submit" => t.q \in 1 .. asked

\* ... of the streams: workers and pipelines are of past generations; a worker
\* belongs to the stream the client hears, which no older pipeline outlives.
Streams(ts, gen, pend, heardOut, conn) ==
  /\ \A t \in ts : t.gen \in 0 .. gen
  /\ \A t \in ts : t.kind = "speech" =>
       /\ pend # 0 => t.gen # pend
       /\ conn => heardOut.gen = t.gen /\ heardOut.type # "tts_stop"
  /\ \A t \in ts : Streaming(t) /\ t.gen = gen /\ conn =>
       heardOut.gen = t.gen /\ heardOut.type # "tts_stop"
  /\ \A t, u \in ts : Streaming(t) /\ Streaming(u) /\ t.gen = u.gen => t = u
  /\ \A t, u \in ts : Streaming(t) /\ u.kind = "speech" => t.gen <= u.gen

\* ... of the evaluations: their questions are marked, and are not evaluated.
Evaluations(ts, marked, done) ==
  /\ \A t \in ts : t.kind = "evaluate" => t.q \in marked \ done
  /\ \A t, u \in ts : t.kind = "evaluate" /\ u.kind = "evaluate" /\ t.q = u.q => t = u

Scalars ==
  /\ state \in States /\ running \in BOOLEAN /\ connected \in BOOLEAN /\ heard \in BOOLEAN
  /\ generation \in Nat /\ pending \in 0 .. generation
  /\ out \in [type : {"none", "tts_start", "frame", "tts_stop"}, gen : Nat]

Questions ==
  /\ questions \in Nat /\ lastQuestion \in 0 .. questions /\ toEvaluate \in 0 .. questions
  /\ started \cup answered \subseteq 1 .. questions
  /\ evaluated \subseteq started

LoopOK ==
  /\ loop = [control |-> loop.control, todo |-> loop.todo, ran |-> loop.ran]
  /\ loop.control \in Handlers \cup {"receive", "closed"}
  /\ loop.todo # << >> => loop.control \in Handlers

Body ==
  /\ Scalars
  /\ Questions
  /\ Typed(tasks, questions)
  /\ Streams(tasks, generation, pending, out, connected)
  /\ Evaluations(tasks, started, evaluated)

IInv == Body /\ LoopOK

-----------------------------------------------------------------------------
(* Tasks and what becomes of them.                                         *)

WellFormed(ts) == \A t \in ts : t \in TaskRecords /\ t.at \in Points[t.kind]

\* A task may be at any of the points of its kind.
LEMMA PointTyped ==
  ASSUME NEW k \in Kinds, NEW at \in Points[k]
  PROVE  at \in UNION {Points[j] : j \in Kinds}
OBVIOUS

\* The points of each kind.
LEMMA PointsOf ==
  /\ Kinds = {"start", "ask", "speech", "answer", "evaluate", "watchdog"}
  /\ Points["start"] = {"begin", "resume", "warmup"}
  /\ Points["ask"] = {"new", "llm", "store", "transcript", "speak"}
  /\ Points["speech"] = {"waiting", "speaking", "ending"}
  /\ Points["answer"] = {"new", "asr", "submit", "transcript"}
  /\ Points["evaluate"] = {"llm", "store"}
  /\ Points["watchdog"] = {"sleep", "ending"}
BY DEF Kinds, Points

\* A new task has the type of tasks.
LEMMA TaskTyped ==
  ASSUME NEW k \in Kinds, NEW at \in Points[k], NEW g \in Nat, NEW q \in Nat
  PROVE  LET u == Task(k, at, g, q) IN
         /\ u \in TaskRecords /\ u.kind = k /\ u.at = at /\ u.gen = g /\ u.q = q
<1>1. at \in UNION {Points[j] : j \in Kinds}
  BY PointTyped
<1>. HIDE DEF Kinds
<1>. QED BY <1>1 DEF Task, TaskRecords

\* Some tasks end, are cancelled or stay as they are.
LEMMA GrowsSubset ==
  ASSUME NEW ts, WellFormed(ts), NEW us, us \subseteq ts
  PROVE  Grows(ts, us)
<1> DEFINE f == [t \in ts |-> t]
<1>1. \A t \in ts : f[t] = t /\ Same(t, f[t])
  BY DEF WellFormed, Same
<1>2. \A u \in us : u = f[u] /\ u \in ts
  OBVIOUS
<1>3. IsFiniteSet(ts) => IsFiniteSet(us)
  BY FS_Subset
<1>. HIDE DEF f
<1>4. \E g : /\ \A t \in ts : Same(t, g[t])
             /\ \A u \in us : Blank(u) \/ \E t \in ts : u = g[t]
  BY <1>1, <1>2
<1>. QED BY <1>3, <1>4 DEF Grows

\* A task that is not begun is not begun afterwards.
LEMMA BlankSame ==
  ASSUME NEW t, NEW u, Blank(t), Same(t, u)
  PROVE  Blank(u)
BY DEF Blank, Same

LEMMA SameTrans ==
  ASSUME NEW t, NEW u, NEW v, Same(t, u), Same(u, v)
  PROVE  Same(t, v)
BY DEF Same

LEMMA GrowsTrans ==
  ASSUME NEW ts, NEW us, NEW vs, Grows(ts, us), Grows(us, vs)
  PROVE  Grows(ts, vs)
<1>1. PICK f : /\ \A t \in ts : Same(t, f[t])
               /\ \A u \in us : Blank(u) \/ \E t \in ts : u = f[t]
  BY DEF Grows
<1>2. PICK g : /\ \A u \in us : Same(u, g[u])
               /\ \A v \in vs : Blank(v) \/ \E u \in us : v = g[u]
  BY DEF Grows
<1> DEFINE h == [t \in ts |-> IF f[t] \in us THEN g[f[t]] ELSE f[t]]
<1>3. \A t \in ts : Same(t, h[t])
  BY <1>1, <1>2, SameTrans
<1>4. ASSUME NEW v \in vs, ~Blank(v)
      PROVE  \E t \in ts : v = h[t]
  <2>1. PICK u \in us : v = g[u]
    BY <1>2, <1>4
  <2>2. Same(u, v)
    BY <1>2, <2>1
  <2>3. ~Blank(u)
    BY <1>4, <2>2, BlankSame
  <2>4. PICK t \in ts : u = f[t]
    BY <1>1, <2>3
  <2>. QED BY <2>1, <2>4
<1>5. IsFiniteSet(ts) => IsFiniteSet(vs)
  BY DEF Grows
<1>. HIDE DEF h
<1>6. \E k : /\ \A t \in ts : Same(t, k[t])
             /\ \A v \in vs : Blank(v) \/ \E t \in ts : v = k[t]
  BY <1>3, <1>4
<1>. QED BY <1>5, <1>6 DEF Grows

LEMMA GrowsBlank ==
  ASSUME NEW ts, NEW us, Grows(ts, us), NEW b, Blank(b)
  PROVE  Grows(ts, us \cup {b})
<1>1. IsFiniteSet(us) => IsFiniteSet(us \cup {b})
  BY FS_AddElement
<1>. QED BY <1>1 DEF Grows

\* Every task becomes what F makes of it.
LEMMA GrowsImage ==
  ASSUME NEW ts, NEW f, \A t \in ts : Same(t, f[t])
  PROVE  Grows(ts, {f[t] : t \in ts})
<1>1. ASSUME IsFiniteSet(ts) PROVE IsFiniteSet({f[t] : t \in ts})
  <2> DEFINE g == [t \in ts |-> f[t]]
             T == {f[t] : t \in ts}
  <2>1. g \in Surjection(ts, T)
    BY DEF Surjection
  <2>. HIDE DEF g, T
  <2>2. IsFiniteSet(T)
    BY <1>1, <2>1, FS_Surjection
  <2>. QED BY <2>2 DEF T
<1>. QED BY <1>1 DEF Grows

LEMMA GrowsRelease ==
  ASSUME NEW ts, WellFormed(ts), NEW kind
  PROVE  Grows(ts, Release(ts, kind))
<1> DEFINE f == [t \in ts |-> [t EXCEPT !.held = @ /\ t.kind # kind]]
<1>1. ASSUME NEW t \in ts PROVE Same(t, f[t])
  <2>1. t \in TaskRecords /\ t.at \in Points[t.kind]
    BY DEF WellFormed
  <2>2. (t.held /\ t.kind # kind) \in BOOLEAN
    OBVIOUS
  <2> DEFINE h == t.held /\ t.kind # kind
             u == [t EXCEPT !.held = h]
  <2>3. f[t] = u
    OBVIOUS
  <2>. HIDE DEF h
  <2>4. h \in BOOLEAN
    BY <2>2 DEF h
  <2>5. u \in TaskRecords /\ u.kind = t.kind /\ u.gen = t.gen /\ u.q = t.q /\ u.at = t.at
    BY <2>1, <2>4 DEF TaskRecords
  <2>. QED BY <2>1, <2>3, <2>5 DEF Same
<1>2. Release(ts, kind) = {f[t] : t \in ts}
  BY DEF Release
<1>. HIDE DEF f
<1>. QED BY <1>1, <1>2, GrowsImage

LEMMA GrowsMove ==
  ASSUME NEW ts, WellFormed(ts), NEW t \in ts, NEW u, Same(t, u)
  PROVE  Grows(ts, (ts \ {t}) \cup {u})
<1> DEFINE f == [s \in ts |-> IF s = t THEN u ELSE s]
<1>1. \A s \in ts : Same(s, f[s])
  BY DEF WellFormed, Same
<1>2. {f[s] : s \in ts} = (ts \ {t}) \cup {u}
  OBVIOUS
<1>. HIDE DEF f
<1>. QED BY <1>1, <1>2, GrowsImage

\* A task goes to another of its points.
LEMMA SameAt ==
  ASSUME NEW t \in TaskRecords, NEW at \in Points[t.kind],
         t.kind = "ask" => (at = "new" <=> t.at = "new"),
         t.kind = "answer" => at # "submit"
  PROVE  Same(t, [t EXCEPT !.at = at])
<1>1. t.kind \in Kinds
  BY DEF TaskRecords
<1>2. at \in UNION {Points[j] : j \in Kinds}
  BY <1>1, PointTyped
<1>3. [t EXCEPT !.at = at] \in TaskRecords
  BY <1>2 DEF TaskRecords
<1>4. LET u == [t EXCEPT !.at = at] IN
        u.kind = t.kind /\ u.gen = t.gen /\ u.q = t.q /\ u.at = at
  BY DEF TaskRecords
<1>. QED BY <1>3, <1>4 DEF Same

LEMMA GrowsFed ==
  ASSUME NEW ts, WellFormed(ts), NEW t, NEW from, NEW to \in Points["speech"]
  PROVE  Grows(ts, Fed(t, ts, from, to))
<1> DEFINE f == [s \in ts |-> IF s.kind = "speech" /\ s.gen = t.gen /\ s.at \in from
                              THEN [s EXCEPT !.at = to] ELSE s]
<1>1. ASSUME NEW s \in ts PROVE Same(s, f[s])
  <2>1. s \in TaskRecords /\ s.at \in Points[s.kind]
    BY DEF WellFormed
  <2>2. CASE s.kind = "speech" /\ s.gen = t.gen /\ s.at \in from
    BY <2>1, <2>2, SameAt
  <2>3. CASE ~(s.kind = "speech" /\ s.gen = t.gen /\ s.at \in from)
    BY <2>1, <2>3 DEF Same
  <2>. QED BY <2>2, <2>3
<1>2. Fed(t, ts, from, to) = {f[s] : s \in ts}
  BY DEF Fed
<1>. HIDE DEF f
<1>. QED BY <1>1, <1>2, GrowsImage

LEMMA GrowsWellFormed ==
  ASSUME NEW ts, NEW us, Grows(ts, us)
  PROVE  WellFormed(us)
BY DEF Grows, WellFormed, Same, Blank

\* self._x_task = create_task(...) of a task that has not begun.
LEMMA GrowsCreate ==
  ASSUME NEW ts, NEW us, Grows(ts, us), NEW b, Blank(b)
  PROVE  Grows(ts, Create(us, b))
<1>1. Grows(us, Release(us, b.kind))
  BY GrowsWellFormed, GrowsRelease
<1>2. Grows(ts, Release(us, b.kind))
  BY <1>1, GrowsTrans
<1>. QED BY <1>2, GrowsBlank DEF Create

LEMMA BlankTasks ==
  /\ Blank(Task("watchdog", "sleep", 0, 0))
  /\ Blank(Task("answer", "new", 0, 0))
  /\ Blank(Task("ask", "new", 0, 0))
  /\ Blank(Task("start", "begin", 0, 0))
  /\ Blank(Task("start", "resume", 0, 0))
<1>1. ASSUME NEW k \in {"watchdog", "answer", "ask", "start"}, NEW at \in Points[k],
             k = "ask" => at = "new", k = "answer" => at # "submit"
      PROVE  Blank(Task(k, at, 0, 0))
  <2>1. k \in Kinds
    BY PointsOf
  <2>. HIDE DEF Kinds
  <2>. QED BY <1>1, <2>1, TaskTyped DEF Blank
<1>. QED BY <1>1, PointsOf

LEMMA GrowsWatched ==
  ASSUME NEW ts, NEW us, Grows(ts, us)
  PROVE  Grows(ts, Watched(us))
BY GrowsCreate, BlankTasks DEF Watched

-----------------------------------------------------------------------------
(* What is said of the tasks is kept when they grow.                       *)

LEMMA TypedGrows ==
  ASSUME NEW ts, NEW us, Grows(ts, us), NEW asked, Typed(ts, asked)
  PROVE  Typed(us, asked)
<1>1. PICK f : /\ \A t \in ts : Same(t, f[t])
               /\ \A u \in us : Blank(u) \/ \E t \in ts : u = f[t]
  BY DEF Grows
<1>2. ASSUME NEW u \in us
      PROVE  /\ u \in TaskRecords /\ u.at \in Points[u.kind]
             /\ u.kind = "answer" /\ u.at = "submit" => u.q \in 1 .. asked
  <2>1. CASE Blank(u)
    BY <2>1 DEF Blank
  <2>2. CASE \E t \in ts : u = f[t]
    <3>1. PICK t \in ts : u = f[t]
      BY <2>2
    <3>2. Same(t, u)
      BY <1>1, <3>1
    <3>. QED BY <3>2 DEF Same, Typed
  <2>. QED BY <1>1, <2>1, <2>2
<1>3. IsFiniteSet(us)
  BY DEF Grows, Typed
<1>. QED BY <1>2, <1>3 DEF Typed

LEMMA StreamsGrows ==
  ASSUME NEW ts, NEW us, Grows(ts, us), NEW gen \in Nat, NEW pend, NEW o, NEW conn,
         Streams(ts, gen, pend, o, conn)
  PROVE  Streams(us, gen, pend, o, conn)
<1>1. PICK f : /\ \A t \in ts : Same(t, f[t])
               /\ \A u \in us : Blank(u) \/ \E t \in ts : u = f[t]
  BY DEF Grows
<1>2. ASSUME NEW u \in us, ~Blank(u)
      PROVE  \E t \in ts : /\ u = f[t] /\ u.kind = t.kind /\ u.gen = t.gen
                           /\ Streaming(u) <=> Streaming(t)
  <2>1. PICK t \in ts : u = f[t]
    BY <1>1, <1>2
  <2>2. Same(t, u)
    BY <1>1, <2>1
  <2>. QED BY <2>1, <2>2 DEF Same, Streaming
<1>3. \A u \in us : Blank(u) => u.gen = 0 /\ u.kind # "speech" /\ ~Streaming(u)
  BY DEF Blank, Streaming
<1>4. \A t \in us : t.gen \in 0 .. gen
  BY <1>2, <1>3 DEF Streams
<1>5. \A t \in us : t.kind = "speech" =>
        /\ pend # 0 => t.gen # pend
        /\ conn => o.gen = t.gen /\ o.type # "tts_stop"
  BY <1>2, <1>3 DEF Streams
<1>6. \A t \in us : Streaming(t) /\ t.gen = gen /\ conn => o.gen = t.gen /\ o.type # "tts_stop"
  BY <1>2, <1>3 DEF Streams
<1>7. \A t, u \in us : Streaming(t) /\ Streaming(u) /\ t.gen = u.gen => t = u
  BY <1>2, <1>3 DEF Streams
<1>8. \A t, u \in us : Streaming(t) /\ u.kind = "speech" => t.gen <= u.gen
  BY <1>2, <1>3 DEF Streams
<1>. QED BY <1>4, <1>5, <1>6, <1>7, <1>8 DEF Streams

LEMMA EvaluationsGrows ==
  ASSUME NEW ts, NEW us, Grows(ts, us), NEW marked, NEW done, Evaluations(ts, marked, done)
  PROVE  Evaluations(us, marked, done)
<1>1. PICK f : /\ \A t \in ts : Same(t, f[t])
               /\ \A u \in us : Blank(u) \/ \E t \in ts : u = f[t]
  BY DEF Grows
<1>2. ASSUME NEW u \in us, u.kind = "evaluate"
      PROVE  \E t \in ts : u = f[t] /\ t.kind = "evaluate" /\ u.q = t.q
  <2>1. ~Blank(u)
    BY <1>2 DEF Blank
  <2>2. PICK t \in ts : u = f[t]
    BY <1>1, <2>1
  <2>3. Same(t, u)
    BY <1>1, <2>2
  <2>. QED BY <1>2, <2>2, <2>3 DEF Same
<1>3. \A u \in us : u.kind = "evaluate" => u.q \in marked \ done
  BY <1>2 DEF Evaluations
<1>4. \A u, v \in us : u.kind = "evaluate" /\ v.kind = "evaluate" /\ u.q = v.q => u = v
  BY <1>2 DEF Evaluations
<1>. QED BY <1>3, <1>4 DEF Evaluations

-----------------------------------------------------------------------------
(* Steps that keep the invariant of everything but the loop.               *)

\* The scalars change as they may while nothing new is said to the client.
Calm ==
  /\ state' \in States /\ running' \in BOOLEAN /\ heard' \in BOOLEAN
  /\ pending' \in {0, pending} /\ generation' \in {generation, generation + 1}
  /\ connected' \in {connected, FALSE} /\ out' = out

LEMMA CalmScalars ==
  ASSUME Scalars, Calm
  PROVE  Scalars'
<1>1. generation \in Nat /\ pending \in 0 .. generation
  BY DEF Scalars
<1>2. generation' \in Nat /\ pending' \in 0 .. generation'
  BY <1>1 DEF Calm
<1>3. connected' \in BOOLEAN
  BY DEF Scalars, Calm
<1>. QED BY <1>2, <1>3 DEF Scalars, Calm

LEMMA CalmStreams ==
  ASSUME Scalars, Calm, NEW ts, Streams(ts, generation, pending, out, connected)
  PROVE  Streams(ts, generation', pending', out', connected')
<1>1. \A t \in ts : t.gen \in 0 .. generation'
  BY DEF Streams, Scalars, Calm
<1>2. \A t \in ts : t.kind = "speech" =>
        /\ pending' # 0 => t.gen # pending'
        /\ connected' => out'.gen = t.gen /\ out'.type # "tts_stop"
  BY DEF Streams, Calm
<1>3. \A t \in ts : Streaming(t) /\ t.gen = generation' /\ connected' =>
        out'.gen = t.gen /\ out'.type # "tts_stop"
  <2>1. generation \in Nat
    BY DEF Scalars
  <2>2. CASE generation' = generation
    BY <2>2 DEF Streams, Calm
  <2>3. CASE generation' = generation + 1
    BY <2>1, <2>3 DEF Streams
  <2>. QED BY <2>2, <2>3 DEF Calm
<1>. QED BY <1>1, <1>2, <1>3 DEF Streams

LEMMA TypedMore ==
  ASSUME NEW ts, NEW n \in Nat, NEW m \in Nat, n <= m, Typed(ts, n)
  PROVE  Typed(ts, m)
BY DEF Typed

\* The rows grow, and what is said of them is known.
LEMMA CalmBody ==
  ASSUME Body, Calm, Grows(tasks, tasks'), Questions', questions' >= questions,
         Evaluations(tasks', started', evaluated')
  PROVE  Body'
<1>1. questions \in Nat /\ questions' \in Nat
  BY DEF Body, Questions
<1>2. Typed(tasks', questions)
  BY TypedGrows DEF Body
<1>3. Typed(tasks', questions')
  BY <1>1, <1>2, TypedMore
<1>4. generation \in Nat
  BY DEF Body, Scalars
<1>5. Streams(tasks', generation, pending, out, connected)
  BY <1>4, StreamsGrows DEF Body
<1>6. Streams(tasks', generation', pending', out', connected')
  BY <1>5, CalmStreams DEF Body
<1>7. Scalars'
  BY CalmScalars DEF Body
<1>. QED BY <1>3, <1>6, <1>7 DEF Body

\* Nothing about questions changes.
LEMMA QuietBody ==
  ASSUME Body, Calm, Grows(tasks, tasks'),
         UNCHANGED <<rows, lastQuestion, toEvaluate, started>>
  PROVE  Body'
<1>1. Evaluations(tasks', started, evaluated)
  BY EvaluationsGrows DEF Body
<1>2. Questions' /\ questions' >= questions
  BY DEF Body, Questions, rows
<1>. QED BY <1>1, <1>2, CalmBody DEF rows

\* _maybe_start_evaluation: the new evaluation is the only one of its question.
LEMMA EvaluatingBody ==
  ASSUME Body, Calm, NEW ts, Grows(tasks, ts), Evaluating(ts),
         UNCHANGED <<rows, lastQuestion>>
  PROVE  Body'
<1>1. CASE ~MayEvaluate
  BY <1>1, QuietBody DEF Evaluating
<1>2. CASE MayEvaluate
  <2> DEFINE e  == Task("evaluate", "llm", 0, toEvaluate)
             us == Release(ts, "evaluate")
  <2>1. /\ toEvaluate \in 1 .. questions /\ toEvaluate \notin started
        /\ questions \in Nat /\ generation \in Nat
    BY <1>2 DEF MayEvaluate, Body, Questions, Scalars
  <2>2. /\ e \in TaskRecords /\ e.kind = "evaluate" /\ e.at = "llm" /\ e.gen = 0
        /\ e.q = toEvaluate /\ e.at \in Points[e.kind]
    <3>1. "evaluate" \in Kinds /\ "llm" \in Points["evaluate"] /\ toEvaluate \in Nat
      BY <2>1, PointsOf
    <3>. QED BY <3>1, TaskTyped
  <2>3. tasks' = us \cup {e} /\ started' = started \cup {toEvaluate} /\ toEvaluate' = 0
    BY <1>2, <2>2 DEF Evaluating, Create
  <2>. HIDE DEF e, us
  <2>4. Grows(tasks, us)
    BY GrowsWellFormed, GrowsRelease, GrowsTrans DEF us
  <2>5. Typed(us, questions) /\ Streams(us, generation, pending, out, connected)
        /\ Evaluations(us, started, evaluated)
    BY <2>1, <2>4, TypedGrows, StreamsGrows, EvaluationsGrows DEF Body
  <2>6. Typed(us \cup {e}, questions)
    BY <2>2, <2>5, FS_AddElement DEF Typed
  <2>7. Streams(us \cup {e}, generation, pending, out, connected)
    <3>1. e.gen \in 0 .. generation /\ e.kind # "speech" /\ ~Streaming(e)
      BY <2>1, <2>2 DEF Streaming
    <3>. QED BY <2>5, <3>1 DEF Streams
  <2>8. Evaluations(us \cup {e}, started \cup {toEvaluate}, evaluated)
    <3>1. toEvaluate \notin evaluated
      BY <2>1 DEF Body, Questions
    <3>2. \A t \in us \cup {e} : t.kind = "evaluate" =>
            t.q \in (started \cup {toEvaluate}) \ evaluated
      BY <2>2, <2>5, <3>1 DEF Evaluations
    <3>3. \A t, u \in us \cup {e} : t.kind = "evaluate" /\ u.kind = "evaluate" /\ t.q = u.q
                                    => t = u
      BY <2>1, <2>2, <2>5 DEF Evaluations
    <3>. QED BY <3>2, <3>3 DEF Evaluations
  <2>9. Scalars' /\ Streams(tasks', generation', pending', out', connected')
    BY <2>3, <2>7, CalmScalars, CalmStreams DEF Body
  <2>10. Questions'
    BY <2>1, <2>3 DEF Body, Questions, rows
  <2>. QED BY <2>3, <2>6, <2>8, <2>9, <2>10 DEF Body, rows
<1>. QED BY <1>1, <1>2

\* _start_listening.
LEMMA ListeningBody ==
  ASSUME Body, NEW ts, Grows(tasks, ts), StartListening(ts),
         UNCHANGED <<running, connected, generation, out, rows>>
  PROVE  Body'
<1>1. Grows(tasks, Watched(ts))
  BY GrowsWatched
<1>2. Calm
  BY DEF StartListening, Calm, Body, Scalars, States
<1>. QED BY <1>1, <1>2, EvaluatingBody DEF StartListening

LEMMA TasksWellFormed ==
  ASSUME Body
  PROVE  WellFormed(tasks)
BY DEF Body, Typed, WellFormed

\* The ways the tasks change in most steps.
LEMMA TaskSteps ==
  ASSUME Body, NEW t \in tasks
  PROVE  /\ Grows(tasks, tasks)
         /\ Grows(tasks, Ended(t))
         /\ Grows(tasks, Watched(Ended(t)))
         /\ \A b : Blank(b) => Grows(tasks, Create(Ended(t), b))
         /\ \A at \in Points[t.kind] :
              (t.kind = "ask" => (at = "new" <=> t.at = "new"))
              /\ (t.kind = "answer" => at # "submit") => Grows(tasks, Move(t, at))
<1>1. WellFormed(tasks) /\ t \in TaskRecords
  BY TasksWellFormed DEF WellFormed
<1>2. Grows(tasks, tasks) /\ Grows(tasks, Ended(t))
  BY <1>1, GrowsSubset DEF Ended
<1>3. Grows(tasks, Watched(Ended(t)))
  BY <1>2, GrowsWatched
<1>4. ASSUME NEW b, Blank(b) PROVE Grows(tasks, Create(Ended(t), b))
  BY <1>2, <1>4, GrowsCreate
<1>5. ASSUME NEW at \in Points[t.kind], t.kind = "ask" => (at = "new" <=> t.at = "new"),
             t.kind = "answer" => at # "submit"
      PROVE  Grows(tasks, Move(t, at))
  <2>1. Same(t, [t EXCEPT !.at = at])
    BY <1>1, <1>5, SameAt
  <2>. QED BY <1>1, <2>1, GrowsMove DEF Move
<1>. QED BY <1>2, <1>3, <1>4, <1>5

-----------------------------------------------------------------------------
(* The tasks' steps.                                                       *)

LEMMA StaysCalm ==
  ASSUME Body, state' \in States, UNCHANGED <<running, connected, stream, heard>>
  PROVE  Calm
BY DEF Body, Scalars, Calm, stream

LEMMA StartStep ==
  ASSUME Body, Start
  PROVE  Body' /\ out' = out
<1>1. PICK t \in tasks : StartBegin(t) \/ StartAsks(t) \/ StartResumes(t) \/ StartFails(t)
  BY DEF Start
<1>2. CASE StartBegin(t)
  <2>1. "warmup" \in Points[t.kind] /\ t.kind = "start"
    BY <1>2, PointsOf DEF StartBegin
  <2>2. Grows(tasks, tasks')
    BY <1>2, <2>1, TaskSteps DEF StartBegin
  <2>3. Calm
    BY <1>2, StaysCalm DEF StartBegin, States, turn
  <2>. QED BY <1>2, <2>2, <2>3, QuietBody DEF StartBegin, stream, turn
<1>3. CASE StartAsks(t)
  <2>1. Grows(tasks, tasks')
    BY <1>3, TaskSteps, BlankTasks DEF StartAsks
  <2>2. Calm
    BY <1>3, StaysCalm DEF StartAsks, turn, Body, Scalars
  <2>. QED BY <1>3, <2>1, <2>2, QuietBody DEF StartAsks, stream, turn
<1>4. CASE StartResumes(t)
  BY <1>4, TaskSteps, ListeningBody DEF StartResumes
<1>5. CASE StartFails(t)
  <2>1. Grows(tasks, tasks')
    BY <1>5, TaskSteps DEF StartFails
  <2>2. Calm
    BY <1>5, StaysCalm DEF StartFails, turn, Body, Scalars
  <2>. QED BY <1>5, <2>1, <2>2, QuietBody DEF StartFails, stream, turn
<1>. QED BY <1>1, <1>2, <1>3, <1>4, <1>5

\* A pipeline begins its stream: the older workers are left out, and the client
\* hears of the new generation first.
LEMMA AskStartStep ==
  ASSUME Body, NEW t \in tasks, AskStart(t)
  PROVE  Body' /\ (out' # out => out'.type = "tts_start")
<1> DEFINE g  == generation + 1
           p  == [t EXCEPT !.at = "llm", !.gen = g]
           w  == Task("speech", "waiting", g, 0)
           os == Outdate(tasks) \ {t}
           rs == Release(os, "speech")
           q  == [p EXCEPT !.held = p.held /\ p.kind # "speech"]
<1>1. /\ generation \in Nat /\ g \in Nat /\ pending \in 0 .. generation
      /\ t \in TaskRecords /\ t.kind = "ask" /\ t.at = "new"
      /\ out \in [type : {"none", "tts_start", "frame", "tts_stop"}, gen : Nat]
      /\ connected \in BOOLEAN
  BY DEF AskStart, Body, Scalars, Typed
<1>2. p \in TaskRecords /\ p.kind = "ask" /\ p.at = "llm" /\ p.gen = g /\ p.held \in BOOLEAN
  <2>1. "llm" \in UNION {Points[j] : j \in Kinds}
    BY PointsOf
  <2>. QED BY <1>1, <2>1 DEF TaskRecords
<1>3. q \in TaskRecords /\ q.kind = "ask" /\ q.at = "llm" /\ q.gen = g
  <2> DEFINE h == p.held /\ p.kind # "speech"
  <2>1. h \in BOOLEAN
    BY <1>2
  <2>. HIDE DEF h, p
  <2>2. [p EXCEPT !.held = h] \in TaskRecords /\ [p EXCEPT !.held = h].kind = p.kind
        /\ [p EXCEPT !.held = h].at = p.at /\ [p EXCEPT !.held = h].gen = p.gen
    BY <1>2, <2>1 DEF TaskRecords
  <2>. QED BY <1>2, <2>2 DEF h
<1>4. w \in TaskRecords /\ w.kind = "speech" /\ w.at = "waiting" /\ w.gen = g
      /\ w.at \in Points[w.kind]
  <2>1. "speech" \in Kinds /\ "waiting" \in Points["speech"] /\ 0 \in Nat
    BY PointsOf
  <2>. QED BY <1>1, <2>1, TaskTyped
<1>5. tasks' = Create(os \cup {p}, w) /\ generation' = g
  BY DEF AskStart
<1>6. Create(os \cup {p}, w) = (rs \cup {q}) \cup {w}
  <2>1. Release(os \cup {p}, "speech") = rs \cup {q}
    BY DEF Release
  <2>. HIDE DEF os, p, q, rs, w
  <2>. QED BY <1>4, <2>1 DEF Create
<1>7. os \subseteq tasks /\ (\A s \in os : s.kind # "speech")
  BY DEF Outdate
<1>. HIDE DEF w, q, p, os
<1>8. Grows(tasks, os)
  BY <1>7, TasksWellFormed, GrowsSubset
<1>9. Grows(tasks, rs)
  BY <1>8, GrowsWellFormed, GrowsRelease, GrowsTrans
<1>10. \A s \in rs : s.kind # "speech"
  <2>1. PICK f : /\ \A s \in os : Same(s, f[s])
                 /\ \A u \in rs : Blank(u) \/ \E s \in os : u = f[s]
    BY <1>8, GrowsWellFormed, GrowsRelease DEF Grows
  <2>. HIDE DEF rs
  <2>. QED BY <1>7, <2>1 DEF Same, Blank
<1>. HIDE DEF rs
<1>11. /\ Typed(rs, questions) /\ Streams(rs, generation, pending, out, connected)
       /\ Evaluations(rs, started, evaluated)
  BY <1>1, <1>9, TypedGrows, StreamsGrows, EvaluationsGrows DEF Body
<1>12. tasks' = (rs \cup {q}) \cup {w}
  BY <1>5, <1>6
<1>13. Typed(tasks', questions)
  <2>1. IsFiniteSet(tasks')
    BY <1>11, <1>12, FS_AddElement DEF Typed
  <2>2. q.at \in Points[q.kind]
    BY <1>3, PointsOf
  <2>. QED BY <1>3, <1>4, <1>11, <1>12, <2>1, <2>2 DEF Typed
<1>14. connected => out' = [type |-> "tts_start", gen |-> g]
  BY <1>5 DEF AskStart, Sent
<1>15. Streams(tasks', g, pending, out', connected)
  <2>1. connected => out'.gen = g /\ out'.type # "tts_stop"
    BY <1>14
  <2>2. \A s \in rs : s.gen \in 0 .. generation
    BY <1>11 DEF Streams
  <2>3. \A s \in tasks' : s.gen \in 0 .. g
    BY <1>1, <1>3, <1>4, <1>12, <2>2
  <2>4. \A s \in tasks' : s.kind = "speech" => s = w
    BY <1>3, <1>10, <1>12
  <2>5. \A s \in tasks' : s.gen = g => s = q \/ s = w
    BY <1>1, <1>12, <2>2
  <2>6. ~Streaming(w)
    BY <1>4 DEF Streaming
  <2>7. \A s \in tasks' : s.kind = "speech" =>
          /\ pending # 0 => s.gen # pending
          /\ connected => out'.gen = s.gen /\ out'.type # "tts_stop"
    BY <1>1, <1>4, <2>1, <2>4
  <2>8. \A s \in tasks' : Streaming(s) /\ s.gen = g /\ connected =>
          out'.gen = s.gen /\ out'.type # "tts_stop"
    BY <2>1
  <2>9. \A s, u \in tasks' : Streaming(s) /\ Streaming(u) /\ s.gen = u.gen => s = u
    <3>1. \A s, u \in rs : Streaming(s) /\ Streaming(u) /\ s.gen = u.gen => s = u
      BY <1>11 DEF Streams
    <3>. QED BY <1>3, <1>12, <2>5, <2>6, <3>1
  <2>10. \A s, u \in tasks' : Streaming(s) /\ u.kind = "speech" => s.gen <= u.gen
    BY <1>1, <1>4, <2>3, <2>4
  <2>. QED BY <2>3, <2>7, <2>8, <2>9, <2>10 DEF Streams
<1>16. Evaluations(tasks', started, evaluated)
  BY <1>3, <1>4, <1>11, <1>12 DEF Evaluations
<1>17. Scalars'
  <2>1. out' \in [type : {"none", "tts_start", "frame", "tts_stop"}, gen : Nat]
    BY <1>1, <1>5 DEF AskStart, Sent
  <2>2. pending' \in 0 .. generation'
    BY <1>1, <1>5 DEF AskStart
  <2>. QED BY <1>1, <1>5, <2>1, <2>2 DEF AskStart, Body, Scalars, States, turn
<1>18. Questions'
  BY DEF AskStart, Body, Questions, turn, rows
<1>19. out' # out => out'.type = "tts_start"
  BY <1>5 DEF AskStart, Sent
<1>20. UNCHANGED <<pending, connected, questions, started, evaluated>>
  BY DEF AskStart, turn, rows
<1>. QED BY <1>5, <1>13, <1>15, <1>16, <1>17, <1>18, <1>19, <1>20 DEF Body

\* A pipeline whose generation is still the newest is the only one with a
\* stream, and its worker has ended: tts_stop ends the stream the client hears.
LEMMA AskSpokenStep ==
  ASSUME Body, NEW t \in tasks, AskSpoken(t)
  PROVE  Body' /\ (out' # out => out.gen = out'.gen /\ out.type # "tts_stop"
                                /\ out'.type = "tts_stop")
<1>1. /\ generation \in Nat /\ t \in TaskRecords /\ t.gen \in 0 .. generation
      /\ Streaming(t) /\ tasks' = tasks \ {t}
  BY DEF AskSpoken, Body, Scalars, Typed, Streams, Streaming, Ended
<1>2. Grows(tasks, tasks')
  BY <1>1, TasksWellFormed, GrowsSubset
<1>3. CASE ~(t.gen = generation /\ state \in {"thinking", "speaking"})
  <2>1. Calm /\ out' = out
    BY <1>3 DEF AskSpoken, Calm, Body, Scalars, turn
  <2>. QED BY <1>2, <2>1, QuietBody DEF AskSpoken, turn
<1>4. CASE t.gen = generation /\ state \in {"thinking", "speaking"}
  <2>1. \A s \in tasks : s.kind # "speech"
    <3>1. ASSUME NEW s \in tasks, s.kind = "speech" PROVE FALSE
      <4>1. t.gen <= s.gen /\ s.gen \in 0 .. generation
        BY <1>1, <3>1 DEF Body, Streams
      <4>2. s.gen = t.gen
        BY <1>1, <1>4, <4>1
      <4>. QED BY <3>1, <4>2 DEF AskSpoken, Speaking
    <3>. QED BY <3>1
  <2>2. out' = Sent("tts_stop", t.gen) /\ pending' = t.gen
    BY <1>4 DEF AskSpoken
  <2>3. connected => out.gen = t.gen /\ out.type # "tts_stop"
    BY <1>1, <1>4 DEF Body, Streams
  <2>4. Typed(tasks', questions) /\ Evaluations(tasks', started, evaluated)
    BY <1>2, TypedGrows, EvaluationsGrows DEF Body
  <2>5. Streams(tasks', generation, pending', out', connected)
    <3>1. \A s \in tasks' : ~(Streaming(s) /\ s.gen = generation)
      BY <1>1, <1>4 DEF Body, Streams
    <3>. QED BY <1>1, <2>1, <3>1 DEF Body, Streams
  <2>6. Scalars'
    <3>1. out' \in [type : {"none", "tts_start", "frame", "tts_stop"}, gen : Nat]
      BY <1>1, <2>2 DEF Sent, Body, Scalars
    <3>. QED BY <1>1, <2>2, <3>1 DEF AskSpoken, Body, Scalars, turn
  <2>7. Questions'
    BY DEF AskSpoken, Body, Questions, turn, rows
  <2>8. UNCHANGED <<generation, connected, questions, started, evaluated>>
    BY DEF AskSpoken, turn, rows
  <2>9. Body'
    BY <2>4, <2>5, <2>6, <2>7, <2>8 DEF Body
  <2>. QED BY <2>2, <2>3, <2>9 DEF Sent
<1>. QED BY <1>3, <1>4

LEMMA AskStep ==
  ASSUME Body, NEW t \in tasks,
         \/ AskProceeds(t) \/ AskToken(t) \/ AskStored(t) \/ AskShown(t) \/ AskFails(t)
  PROVE  Body' /\ out' = out
<1>1. WellFormed(tasks)
  BY TasksWellFormed
<1>2. t.kind = "ask" /\ t.at # "new"
  BY DEF AskProceeds, AskToken, AskStored, AskShown, AskFails
<1>3. \A at \in {"store", "transcript", "speak"} : Grows(tasks, Move(t, at))
  <2>1. ASSUME NEW at \in {"store", "transcript", "speak"} PROVE Grows(tasks, Move(t, at))
    <3>1. at \in Points[t.kind] /\ at # "new"
      BY <1>2, PointsOf
    <3>. QED BY <1>2, <3>1, TaskSteps
  <2>. QED BY <2>1
<1>4. ASSUME NEW ts, NEW from, NEW to \in {"speaking", "ending"}, Grows(tasks, ts)
      PROVE  Grows(tasks, Fed(t, ts, from, to))
  BY <1>4, PointsOf, GrowsWellFormed, GrowsFed, GrowsTrans
<1>5. CASE AskProceeds(t)
  <2>1. Calm
    BY <1>5, StaysCalm DEF AskProceeds, turn, Body, Scalars
  <2>. QED BY <1>3, <1>5, <2>1, QuietBody DEF AskProceeds, stream, turn
<1>6. CASE AskToken(t)
  <2>1. Calm
    BY <1>6, StaysCalm DEF AskToken, turn, Body, Scalars
  <2>2. Grows(tasks, tasks')
    BY <1>4, <1>6, TaskSteps DEF AskToken
  <2>. QED BY <1>6, <2>1, <2>2, QuietBody DEF AskToken, stream, turn
<1>7. CASE AskStored(t)
  <2>1. Calm
    BY <1>7, StaysCalm DEF AskStored, Body, Scalars
  <2>2. Grows(tasks, tasks')
    BY <1>3, <1>4, <1>7 DEF AskStored
  <2>3. Questions' /\ questions' >= questions
    BY <1>7 DEF AskStored, Body, Questions
  <2>4. Evaluations(tasks', started', evaluated')
    <3>1. Evaluations(tasks', started, evaluated)
      BY <2>2, EvaluationsGrows DEF Body
    <3>. QED BY <1>7, <3>1 DEF AskStored
  <2>. QED BY <1>7, <2>1, <2>2, <2>3, <2>4, CalmBody DEF AskStored, stream
<1>8. CASE AskShown(t)
  <2>1. Calm
    BY <1>8, StaysCalm DEF AskShown, Body, Scalars
  <2>. QED BY <1>3, <1>4, <1>8, <2>1, EvaluatingBody DEF AskShown, stream
<1>9. CASE AskFails(t)
  <2>1. Grows(tasks, tasks')
    BY <1>9, TaskSteps DEF AskFails, Listen
  <2>2. Calm
    BY <1>9, StaysCalm DEF AskFails, Listen, States, turn, Body, Scalars
  <2>. QED BY <1>9, <2>1, <2>2, QuietBody DEF AskFails, stream, turn
<1>. QED BY <1>5, <1>6, <1>7, <1>8, <1>9

LEMMA SpeechStep ==
  ASSUME Body, NEW t \in tasks, SpeechFrame(t) \/ SpeechSegment(t) \/ SpeechFails(t)
  PROVE  Body' /\ (out' # out => /\ out.gen = out'.gen /\ out.type # "tts_stop"
                                 /\ out'.type = "frame" /\ running)
<1>1. WellFormed(tasks) /\ t \in TaskRecords /\ t.kind = "speech" /\ t.at \in Points[t.kind]
  BY TasksWellFormed DEF WellFormed, SpeechFrame, SpeechSegment, SpeechFails
<1>2. CASE SpeechFrame(t)
  <2> DEFINE u == [t EXCEPT !.spoke = TRUE]
  <2>1. u \in TaskRecords /\ u.kind = t.kind /\ u.at = t.at /\ u.gen = t.gen /\ u.q = t.q
    BY <1>1 DEF TaskRecords
  <2>2. tasks' = (tasks \ {t}) \cup {u}
    BY <1>2 DEF SpeechFrame
  <2>. HIDE DEF u
  <2>3. Grows(tasks, tasks')
    BY <1>1, <2>1, <2>2, GrowsMove DEF Same
  <2>4. /\ connected /\ generation \in Nat /\ out' = [type |-> "frame", gen |-> t.gen]
        /\ out.gen = t.gen /\ out.type # "tts_stop" /\ t.gen \in 0 .. generation
    BY <1>1, <1>2 DEF SpeechFrame, Sent, Body, Streams, Scalars
  <2>5. /\ Typed(tasks', questions) /\ Evaluations(tasks', started, evaluated)
        /\ Streams(tasks', generation, pending, out, connected)
    BY <2>3, <2>4, TypedGrows, EvaluationsGrows, StreamsGrows DEF Body
  <2>6. out'.gen = out.gen /\ out'.type # "tts_stop"
    BY <2>4
  <2>7. Streams(tasks', generation, pending, out', connected)
    BY <2>5, <2>6 DEF Streams
  <2>8. Scalars'
    <3>1. out' \in [type : {"none", "tts_start", "frame", "tts_stop"}, gen : Nat]
      BY <2>4
    <3>. QED BY <1>2, <3>1 DEF SpeechFrame, Body, Scalars, States, turn
  <2>9. Questions'
    BY <1>2 DEF SpeechFrame, Body, Questions, turn, rows
  <2>10. UNCHANGED <<generation, pending, connected, questions, started, evaluated>>
    BY <1>2 DEF SpeechFrame, turn, rows
  <2>11. Body'
    BY <2>5, <2>7, <2>8, <2>9, <2>10 DEF Body
  <2>. QED BY <1>2, <2>4, <2>11 DEF SpeechFrame
<1>3. CASE SpeechSegment(t)
  <2>1. Grows(tasks, Move(t, "waiting"))
    BY <1>1, PointsOf, TaskSteps
  <2>2. Grows(tasks, tasks')
    BY <1>3, <2>1, TaskSteps DEF SpeechSegment
  <2>3. Calm /\ out' = out
    BY <1>3, StaysCalm DEF SpeechSegment, turn, stream, Body, Scalars
  <2>. QED BY <1>3, <2>2, <2>3, QuietBody DEF SpeechSegment, turn
<1>4. CASE SpeechFails(t)
  <2>1. Grows(tasks, tasks')
    BY <1>1, <1>4, GrowsSubset DEF SpeechFails, Ended
  <2>2. Calm /\ out' = out
    BY <1>4, StaysCalm DEF SpeechFails, turn, stream, Body, Scalars
  <2>. QED BY <1>4, <2>1, <2>2, QuietBody DEF SpeechFails, turn
<1>. QED BY <1>2, <1>3, <1>4

\* An answer is stored for the question that was asked last.
LEMMA AnswerSubmitStep ==
  ASSUME Body, NEW t \in tasks, AnswerSubmit(t)
  PROVE  Body' /\ out' = out
<1> DEFINE u  == [t EXCEPT !.at = "submit", !.q = lastQuestion]
           os == tasks \ {t}
<1>1. /\ t \in TaskRecords /\ t.kind = "answer" /\ lastQuestion \in 1 .. questions
      /\ questions \in Nat /\ generation \in Nat /\ t.gen \in 0 .. generation
  BY DEF AnswerSubmit, Body, Questions, Scalars, Typed, Streams
<1>2. /\ u \in TaskRecords /\ u.kind = "answer" /\ u.at = "submit" /\ u.gen = t.gen
      /\ u.q = lastQuestion
  <2>1. "submit" \in UNION {Points[j] : j \in Kinds} /\ lastQuestion \in Nat
    BY <1>1, PointsOf
  <2>. QED BY <1>1, <2>1 DEF TaskRecords
<1>3. tasks' = os \cup {u}
  BY DEF AnswerSubmit
<1>4. Grows(tasks, os)
  BY TasksWellFormed, GrowsSubset
<1>. HIDE DEF u, os
<1>5. /\ Typed(os, questions) /\ Streams(os, generation, pending, out, connected)
      /\ Evaluations(os, started, evaluated)
  BY <1>1, <1>4, TypedGrows, StreamsGrows, EvaluationsGrows DEF Body
<1>6. Typed(tasks', questions)
  <2>1. IsFiniteSet(tasks')
    BY <1>3, <1>5, FS_AddElement DEF Typed
  <2>2. u.at \in Points[u.kind]
    BY <1>2, PointsOf
  <2>. QED BY <1>1, <1>2, <1>3, <1>5, <2>1, <2>2 DEF Typed
<1>7. Streams(tasks', generation, pending, out, connected)
  <2>1. ~Streaming(u) /\ u.kind # "speech"
    BY <1>2 DEF Streaming
  <2>. QED BY <1>1, <1>2, <1>3, <1>5, <2>1 DEF Streams
<1>8. Evaluations(tasks', started, evaluated)
  BY <1>2, <1>3, <1>5 DEF Evaluations
<1>9. UNCHANGED <<state, running, connected, stream, turn, rows>>
  BY DEF AnswerSubmit
<1>10. Scalars' /\ Questions'
  BY <1>9 DEF Body, Scalars, Questions, stream, turn, rows
<1>. QED BY <1>6, <1>7, <1>8, <1>9, <1>10 DEF Body, stream, turn, rows

LEMMA AnswerStep ==
  ASSUME Body, NEW t \in tasks,
         AnswerStart(t) \/ AnswerEmpty(t) \/ AnswerStored(t) \/ AnswerEnds(t) \/ AnswerFails(t)
  PROVE  Body' /\ out' = out
<1>1. t.kind = "answer"
  BY DEF AnswerStart, AnswerEmpty, AnswerStored, AnswerEnds, AnswerFails
<1>2. \A at \in {"asr", "transcript"} : Grows(tasks, Move(t, at))
  BY <1>1, PointsOf, TaskSteps
<1>3. CASE AnswerStart(t)
  <2>1. Grows(tasks, tasks')
    BY <1>2, <1>3, TaskSteps DEF AnswerStart, Listen
  <2>2. Calm /\ out' = out
    BY <1>3 DEF AnswerStart, Listen, Calm, States, stream, Body, Scalars
  <2>. QED BY <1>3, <2>1, <2>2, QuietBody DEF AnswerStart
<1>4. CASE AnswerEmpty(t)
  <2>1. Grows(tasks, tasks')
    BY <1>4, TaskSteps DEF AnswerEmpty, Listen
  <2>2. Calm /\ out' = out
    BY <1>4 DEF AnswerEmpty, Listen, Calm, States, stream, turn, Body, Scalars
  <2>. QED BY <1>4, <2>1, <2>2, QuietBody DEF AnswerEmpty, turn
<1>5. CASE AnswerStored(t)
  <2>1. Grows(tasks, tasks')
    BY <1>2, <1>5 DEF AnswerStored
  <2>2. Calm /\ out' = out
    BY <1>5, StaysCalm DEF AnswerStored, stream, turn, Body, Scalars
  <2>3. t.q \in 1 .. questions
    BY <1>5 DEF AnswerStored, Body, Typed
  <2>4. Questions' /\ questions' >= questions
    BY <1>5, <2>3 DEF AnswerStored, turn, Body, Questions
  <2>5. Evaluations(tasks', started', evaluated')
    <3>1. Evaluations(tasks', started, evaluated)
      BY <2>1, EvaluationsGrows DEF Body
    <3>. QED BY <1>5, <3>1 DEF AnswerStored, turn
  <2>. QED BY <2>1, <2>2, <2>4, <2>5, CalmBody
<1>6. CASE AnswerEnds(t)
  <2>1. Grows(tasks, tasks')
    BY <1>6, TaskSteps, BlankTasks DEF AnswerEnds
  <2>2. Calm /\ out' = out
    BY <1>6, StaysCalm DEF AnswerEnds, stream, Body, Scalars
  <2>3. Questions' /\ questions' >= questions
    BY <1>6 DEF AnswerEnds, rows, Body, Questions
  <2>4. Evaluations(tasks', started', evaluated')
    <3>1. Evaluations(tasks', started, evaluated)
      BY <2>1, EvaluationsGrows DEF Body
    <3>. QED BY <1>6, <3>1 DEF AnswerEnds, rows
  <2>. QED BY <2>1, <2>2, <2>3, <2>4, CalmBody
<1>7. CASE AnswerFails(t)
  <2>1. Grows(tasks, tasks')
    BY <1>7, TaskSteps DEF AnswerFails
  <2>2. Calm /\ out' = out
    BY <1>7, StaysCalm DEF AnswerFails, stream, turn, Body, Scalars
  <2>. QED BY <1>7, <2>1, <2>2, QuietBody DEF AnswerFails, turn
<1>. QED BY <1>3, <1>4, <1>5, <1>6, <1>7

\* An evaluation is stored once: it is the only one of its question.
LEMMA EvaluateStep ==
  ASSUME Body, NEW t \in tasks, EvaluateProceeds(t) \/ EvaluateStored(t) \/ EvaluateFails(t)
  PROVE  Body' /\ out' = out
<1>1. t.kind = "evaluate"
  BY DEF EvaluateProceeds, EvaluateStored, EvaluateFails
<1>2. CASE EvaluateProceeds(t)
  <2>1. Grows(tasks, tasks')
    <3>1. "store" \in Points[t.kind]
      BY <1>1, PointsOf
    <3>. QED BY <1>1, <1>2, <3>1, TaskSteps DEF EvaluateProceeds
  <2>2. Calm /\ out' = out
    BY <1>2, StaysCalm DEF EvaluateProceeds, stream, turn, Body, Scalars
  <2>. QED BY <1>2, <2>1, <2>2, QuietBody DEF EvaluateProceeds, turn
<1>3. CASE EvaluateStored(t)
  <2>1. Grows(tasks, tasks') /\ tasks' = tasks \ {t}
    BY <1>3, TaskSteps DEF EvaluateStored, Ended
  <2>2. Calm /\ out' = out
    BY <1>3, StaysCalm DEF EvaluateStored, stream, turn, Body, Scalars
  <2>3. t.q \in started
    BY <1>1 DEF Body, Evaluations
  <2>4. Questions' /\ questions' >= questions
    BY <1>3, <2>3 DEF EvaluateStored, turn, Body, Questions
  <2>5. Evaluations(tasks', started', evaluated')
    BY <1>1, <1>3, <2>1 DEF EvaluateStored, turn, Body, Evaluations
  <2>. QED BY <2>1, <2>2, <2>4, <2>5, CalmBody
<1>4. CASE EvaluateFails(t)
  <2>1. Grows(tasks, tasks')
    BY <1>4, TaskSteps DEF EvaluateFails
  <2>2. Calm /\ out' = out
    BY <1>4, StaysCalm DEF EvaluateFails, stream, turn, Body, Scalars
  <2>. QED BY <1>4, <2>1, <2>2, QuietBody DEF EvaluateFails, turn
<1>. QED BY <1>2, <1>3, <1>4

LEMMA TimerStep ==
  ASSUME Body, Timers \/ EndsTurn
  PROVE  Body' /\ out' = out
<1>1. CASE TimerFires
  <2>1. Grows(tasks, tasks)
    BY TasksWellFormed, GrowsSubset
  <2>. QED BY <1>1, <2>1, ListeningBody DEF TimerFires
<1>2. ASSUME NEW t \in tasks, WatchdogEnds(t) PROVE Body' /\ out' = out
  <2>1. Grows(tasks, tasks')
    BY <1>2, TaskSteps DEF WatchdogEnds
  <2>2. Calm /\ out' = out
    BY <1>2, StaysCalm DEF WatchdogEnds, stream, turn, Body, Scalars
  <2>. QED BY <1>2, <2>1, <2>2, QuietBody DEF WatchdogEnds, turn
<1>3. ASSUME NEW t \in tasks, WatchdogFires(t) PROVE Body' /\ out' = out
  <2>1. t.kind = "watchdog" /\ "ending" \in Points[t.kind]
    BY <1>3, PointsOf DEF WatchdogFires
  <2>2. Grows(tasks, Move(t, "ending"))
    BY <2>1, TaskSteps
  <2>3. Grows(Move(t, "ending"), Move(t, "ending") \ (Held(tasks, "watchdog") \ {t}))
    BY <2>2, GrowsWellFormed, GrowsSubset
  <2>4. Grows(tasks, tasks')
    BY <1>3, <2>2, <2>3, TaskSteps, GrowsTrans DEF WatchdogFires
  <2>5. Calm /\ out' = out
    BY <1>3, StaysCalm DEF WatchdogFires, stream, turn, Body, Scalars
  <2>. QED BY <1>3, <2>4, <2>5, QuietBody DEF WatchdogFires, turn
<1>4. ASSUME NEW t \in tasks, WatchdogEndsTurn(t) PROVE Body' /\ out' = out
  <2>1. Grows(tasks, tasks')
    BY <1>4, TaskSteps, BlankTasks DEF WatchdogEndsTurn
  <2>2. Calm /\ out' = out
    BY <1>4, StaysCalm DEF WatchdogEndsTurn, stream, turn, Body, Scalars
  <2>. QED BY <1>4, <2>1, <2>2, QuietBody DEF WatchdogEndsTurn, turn
<1>. QED BY <1>1, <1>2, <1>3, <1>4 DEF Timers, EndsTurn

-----------------------------------------------------------------------------
(* The loop and its handlers.                                              *)

LEMMA IdleOK ==
  /\ loop' = Idle => LoopOK'
  /\ loop' = Closed => LoopOK'
BY DEF Idle, Closed, LoopOK, Handlers

\* What a handler does at its end.
LEMMA FinishStep ==
  ASSUME Body, NEW control \in Handlers, NEW ts, Grows(tasks, ts), Finish(control, ts)
  PROVE  /\ Grows(tasks, tasks') /\ LoopOK'
         /\ state' \in States /\ running' \in BOOLEAN /\ heard' \in BOOLEAN
         /\ pending' \in {0, pending}
<1>1. state \in States /\ running \in BOOLEAN /\ heard \in BOOLEAN
  BY DEF Body, Scalars
<1>2. CASE control = "interrupt"
  <2>1. pending' = 0 /\ heard' = FALSE /\ Listen(ts) /\ loop' = Idle /\ running' = running
    BY <1>2 DEF Finish
  <2>. QED BY <1>1, <2>1, GrowsWatched, IdleOK DEF Listen, States
<1>3. CASE control \in {"pause", "pause_speech"}
  <2>1. /\ pending' \in {0, pending} /\ heard' = heard /\ state' = "paused" /\ tasks' = ts
        /\ loop' = Idle /\ running' = running
    BY <1>3 DEF Finish
  <2>. QED BY <1>1, <2>1, IdleOK DEF States
<1>4. CASE control = "end_turn"
  <2>1. /\ pending' = pending /\ heard' = heard /\ state' = state
        /\ tasks' = Create(ts, Task("answer", "new", 0, 0))
        /\ loop' = Idle /\ running' = running
    BY <1>4 DEF Finish
  <2>. QED BY <1>1, <2>1, IdleOK, GrowsCreate, BlankTasks
<1>5. CASE control \in {"stop", "cancel"}
  <2>1. /\ pending' = 0 /\ heard' = heard /\ state' \in {"completed", "cancelled"}
        /\ tasks' = ts /\ loop' = Idle /\ running' = FALSE
    BY <1>5 DEF Finish
  <2>. QED BY <1>1, <2>1, IdleOK DEF States
<1>6. CASE control = "close"
  <2>1. /\ pending' = pending /\ heard' = heard /\ state' = state /\ tasks' = ts
        /\ loop' = Closed /\ running' = running
    BY <1>6 DEF Finish
  <2>. QED BY <1>1, <2>1, IdleOK
<1>. QED BY <1>2, <1>3, <1>4, <1>5, <1>6 DEF Handlers

\* The commits that landed although their tasks were cancelled: those tasks are
\* gone, so what they wrote is not written again.
LEMMA LandedRows ==
  ASSUME Body, NEW ts, Grows(tasks, ts), NEW victims, victims \subseteq ts,
         NEW us, us = ts \ (victims \ Survivors(ts)), Landed(victims),
         UNCHANGED <<lastQuestion, toEvaluate, started>>
  PROVE  Questions' /\ questions' >= questions /\ Evaluations(us, started', evaluated')
<1>1. Typed(ts, questions) /\ Evaluations(ts, started, evaluated)
  BY TypedGrows, EvaluationsGrows DEF Body
<1>2. PICK landed \in SUBSET {t \in victims : t.at \in {"store", "submit"}} :
        /\ questions' = questions + Cardinality({t \in landed : t.kind = "ask"})
        /\ answered' = answered \cup {t.q : t \in {u \in landed : u.kind = "answer"}}
        /\ evaluated' = evaluated \cup {t.q : t \in {u \in landed : u.kind = "evaluate"}}
  BY DEF Landed
<1>3. landed \subseteq ts /\ landed \subseteq victims
  BY <1>2
<1>4. questions' \in Nat /\ questions' >= questions
  <2> DEFINE new == {t \in landed : t.kind = "ask"}
  <2>1. new \in SUBSET ts /\ IsFiniteSet(ts)
    BY <1>1, <1>3 DEF Typed
  <2>. HIDE DEF new
  <2>2. Cardinality(new) \in Nat
    BY <2>1, FS_Subset, FS_CardinalityType
  <2>3. questions' = questions + Cardinality(new) /\ questions \in Nat
    BY <1>2 DEF new, Body, Questions
  <2>. QED BY <2>2, <2>3
<1>5. \A t \in landed : t.kind = "answer" => t.q \in 1 .. questions
  <2>1. \A t \in landed : t.kind = "answer" => t.at = "submit"
    BY <1>1, <1>2, <1>3, PointsOf DEF Typed
  <2>. QED BY <1>1, <1>3, <2>1 DEF Typed
<1>6. \A t \in landed : t.kind = "evaluate" => t.q \in started
  BY <1>1, <1>3 DEF Evaluations
<1>7. answered' \subseteq 1 .. questions /\ evaluated' \subseteq started
  BY <1>2, <1>5, <1>6 DEF Body, Questions
<1>8. Questions'
  <2>1. 1 .. questions \subseteq 1 .. questions' /\ 0 .. questions \subseteq 0 .. questions'
    BY <1>4 DEF Body, Questions
  <2>. QED BY <1>4, <1>7, <2>1 DEF Body, Questions
<1>9. Evaluations(us, started', evaluated')
  <2>1. us \subseteq ts
    OBVIOUS
  <2>2. ASSUME NEW t \in us, t.kind = "evaluate" PROVE t.q \in started \ evaluated'
    <3>1. t.q \in started \ evaluated
      BY <1>1, <2>1, <2>2 DEF Evaluations
    <3>2. ASSUME NEW u \in landed, u.kind = "evaluate", u.q = t.q PROVE FALSE
      <4>1. u = t
        BY <1>1, <1>3, <2>1, <2>2, <3>2 DEF Evaluations
      <4>2. u \notin Survivors(ts)
        BY <3>2 DEF Survivors
      <4>. QED BY <1>3, <4>1, <4>2
    <3>. QED BY <1>2, <3>1, <3>2
  <2>. QED BY <1>1, <2>1, <2>2 DEF Evaluations
<1>. QED BY <1>4, <1>8, <1>9

LEMMA ProceedStep ==
  ASSUME Body, NEW control \in Handlers, NEW todo, NEW ts, Grows(tasks, ts),
         Proceed(control, todo, ts),
         generation' \in {generation, generation + 1}, connected' \in {connected, FALSE},
         UNCHANGED <<lastQuestion, toEvaluate, started, out>>
  PROVE  Body' /\ LoopOK'
<1> DEFINE live    == {i \in DOMAIN todo : Held(ts, todo[i]) # {}}
           first   == CHOOSE i \in live : \A j \in live : i <= j
           victims == Victims(ts, todo[first])
<1>1. CASE live = {}
  <2>1. Finish(control, ts) /\ UNCHANGED rows
    BY <1>1 DEF Proceed
  <2>2. /\ Grows(tasks, tasks') /\ LoopOK'
        /\ state' \in States /\ running' \in BOOLEAN /\ heard' \in BOOLEAN
        /\ pending' \in {0, pending}
    BY <2>1, FinishStep
  <2>3. Calm
    BY <2>2 DEF Calm
  <2>. QED BY <2>1, <2>2, <2>3, QuietBody
<1>2. CASE live # {}
  <2>1. /\ tasks' = ts \ (victims \ Survivors(ts))
        /\ loop' = [control |-> control, ran |-> FALSE, todo |-> SubSeq(todo, first, Len(todo))]
        /\ Landed(victims)
        /\ UNCHANGED <<state, pending, heard, running>>
    BY <1>2 DEF Proceed
  <2>2. victims \subseteq ts
    BY DEF Victims, Held
  <2>. HIDE DEF victims, first, live
  <2>3. Grows(tasks, tasks')
    BY <2>1, GrowsWellFormed, GrowsSubset, GrowsTrans
  <2>4. Questions' /\ questions' >= questions /\ Evaluations(tasks', started', evaluated')
    BY <2>1, <2>2, LandedRows
  <2>5. Calm
    BY <2>1 DEF Calm, Body, Scalars
  <2>6. LoopOK'
    BY <2>1 DEF LoopOK
  <2>. QED BY <2>3, <2>4, <2>5, <2>6, CalmBody
<1>. QED BY <1>1, <1>2

LEMMA CancellingStep ==
  ASSUME Body, NEW control \in Handlers, Cancelling(control)
  PROVE  Body' /\ LoopOK' /\ out' = out
<1>1. Grows(tasks, tasks)
  BY TasksWellFormed, GrowsSubset
<1>2. connected' \in {connected, FALSE} /\ generation' \in {generation, generation + 1}
  BY DEF Cancelling, Body, Scalars
<1>. QED BY <1>1, <1>2, ProceedStep DEF Cancelling

LEMMA LoopStep ==
  ASSUME IInv, Loop
  PROVE  Body' /\ LoopOK' /\ out' = out
<1>1. Body /\ LoopOK /\ WellFormed(tasks)
  BY TasksWellFormed DEF IInv
<1>2. Grows(tasks, tasks)
  BY <1>1, GrowsSubset
<1>3. ASSUME loop' = loop PROVE LoopOK'
  BY <1>1, <1>3 DEF LoopOK
<1>4. CASE StartTurn \/ \E gen \in 1 .. MaxGeneration : PlaybackComplete(gen)
  BY <1>1, <1>2, <1>3, <1>4, ListeningBody DEF StartTurn, PlaybackComplete
<1>5. CASE EndTurn \/ Interrupt \/ Pause \/ Close
  BY <1>1, <1>5, CancellingStep DEF EndTurn, Interrupt, Pause, Close, Handlers
<1>6. CASE Resume
  <2>1. Grows(tasks, tasks')
    BY <1>2, <1>6, GrowsWatched DEF Resume, Listen
  <2>2. Calm /\ out' = out
    BY <1>1, <1>6 DEF Resume, Listen, Calm, States, stream, Body, Scalars
  <2>. QED BY <1>1, <1>3, <1>6, <2>1, <2>2, QuietBody DEF Resume
<1>7. CASE Audio
  <2>1. Calm /\ out' = out
    BY <1>1, <1>7 DEF Audio, Calm, stream, Body, Scalars
  <2>. QED BY <1>1, <1>2, <1>3, <1>7, <2>1, QuietBody DEF Audio
<1>8. ASSUME NEW control \in {"stop", "cancel"}, StopOrCancel(control)
      PROVE  Body' /\ LoopOK' /\ out' = out
  <2>1. loop' = [Idle EXCEPT !.control = control]
    BY <1>8 DEF StopOrCancel
  <2>2. LoopOK'
    BY <2>1 DEF Idle, LoopOK, Handlers
  <2>3. Calm /\ out' = out
    BY <1>1, <1>8 DEF StopOrCancel, Calm, stream, turn, Body, Scalars
  <2>. QED BY <1>1, <1>2, <1>8, <2>2, <2>3, QuietBody DEF StopOrCancel, turn
<1>. QED BY <1>4, <1>5, <1>6, <1>7, <1>8 DEF Loop

LEMMA HandlerStep ==
  ASSUME IInv, Handler
  PROVE  Body' /\ LoopOK' /\ out' = out
<1>1. Body /\ LoopOK
  BY DEF IInv
<1>2. CASE ServiceReturns
  BY <1>1, <1>2, CancellingStep DEF ServiceReturns, Handlers
<1>3. CASE Continue
  <2>1. loop.control \in Handlers
    BY <1>1, <1>3 DEF LoopOK, Continue
  <2>2. Grows(tasks, Release(tasks, Head(loop.todo)))
    BY <1>1, TasksWellFormed, GrowsRelease
  <2>. QED BY <1>1, <1>3, <2>1, <2>2, ProceedStep DEF Continue
<1>. QED BY <1>2, <1>3 DEF Handler

LEMMA MeanwhileOK ==
  ASSUME LoopOK, Meanwhile \/ loop' = loop
  PROVE  LoopOK'
<1>1. CASE loop' = loop
  BY <1>1 DEF LoopOK
<1>2. CASE loop' = [loop EXCEPT !.ran = TRUE]
  <2>1. loop' = [control |-> loop.control, todo |-> loop.todo, ran |-> TRUE]
    BY <1>2 DEF LoopOK
  <2>2. loop'.control = loop.control /\ loop'.todo = loop.todo /\ loop'.ran = TRUE
    BY <2>1
  <2>. QED BY <2>1, <2>2 DEF LoopOK
<1>. QED BY <1>1, <1>2 DEF Meanwhile

\* What a step of the engine may send.
Serial == out' # out =>
  /\ out'.type \in {"frame", "tts_stop"} => out.gen = out'.gen /\ out.type # "tts_stop"
  /\ out'.type = "frame" => running

LEMMA StepInv ==
  ASSUME IInv, Next
  PROVE  IInv' /\ Serial
<1>1. Body /\ LoopOK
  BY DEF IInv
<1>2. ASSUME Body', LoopOK', out' = out PROVE IInv' /\ Serial
  BY <1>2 DEF IInv, Serial
<1>3. CASE Loop \/ Handler
  BY <1>2, <1>3, LoopStep, HandlerStep
<1>4. CASE EndsTurn /\ UNCHANGED loop
  BY <1>1, <1>2, <1>4, TimerStep, MeanwhileOK
<1>5. CASE (Start \/ Ask \/ Speech \/ Answer \/ Evaluate \/ Timers) /\ Meanwhile
  <2>1. LoopOK'
    BY <1>1, <1>5, MeanwhileOK
  <2>2. CASE Start \/ Timers
    BY <1>1, <1>2, <2>1, <2>2, StartStep, TimerStep
  <2>3. CASE Ask
    <3>1. PICK t \in tasks : \/ AskStart(t) \/ AskProceeds(t) \/ AskToken(t) \/ AskStored(t)
                            \/ AskShown(t) \/ AskSpoken(t) \/ AskFails(t)
      BY <2>3 DEF Ask
    <3>2. CASE AskStart(t)
      BY <1>1, <2>1, <3>2, AskStartStep DEF IInv, Serial
    <3>3. CASE AskSpoken(t)
      BY <1>1, <2>1, <3>3, AskSpokenStep DEF IInv, Serial
    <3>4. CASE ~AskStart(t) /\ ~AskSpoken(t)
      BY <1>1, <1>2, <2>1, <3>1, <3>4, AskStep
    <3>. QED BY <3>2, <3>3, <3>4
  <2>4. CASE Speech
    <3>1. PICK t \in tasks : SpeechFrame(t) \/ SpeechSegment(t) \/ SpeechFails(t)
      BY <2>4 DEF Speech
    <3>. QED BY <1>1, <2>1, <3>1, SpeechStep DEF IInv, Serial
  <2>5. CASE Answer
    <3>1. PICK t \in tasks : \/ AnswerStart(t) \/ AnswerEmpty(t) \/ AnswerSubmit(t)
                            \/ AnswerStored(t) \/ AnswerEnds(t) \/ AnswerFails(t)
      BY <2>5 DEF Answer
    <3>. QED BY <1>1, <1>2, <2>1, <3>1, AnswerStep, AnswerSubmitStep
  <2>6. CASE Evaluate
    BY <1>1, <1>2, <2>1, <2>6, EvaluateStep DEF Evaluate
  <2>. QED BY <1>5, <2>2, <2>3, <2>4, <2>5, <2>6
<1>. QED BY <1>3, <1>4, <1>5 DEF Next

LEMMA InitInv == Init => IInv
<1> SUFFICES ASSUME Init PROVE IInv
  OBVIOUS
<1>1. PICK b : Blank(b) /\ tasks = {b}
  BY BlankTasks DEF Init
<1>2. questions \in Nat
  BY DEF Init
<1>3. Typed(tasks, questions)
  BY <1>1, FS_Singleton DEF Typed, Blank
<1>4. Streams(tasks, generation, pending, out, connected)
  BY <1>1 DEF Streams, Blank, Streaming, Init
<1>5. Evaluations(tasks, started, evaluated)
  BY <1>1 DEF Evaluations, Blank
<1>6. Scalars
  <2>1. out = [type |-> "none", gen |-> 0]
    BY DEF Init
  <2>2. out \in [type : {"none", "tts_start", "frame", "tts_stop"}, gen : Nat]
    BY <2>1
  <2>3. generation \in Nat /\ pending \in 0 .. generation
    BY DEF Init
  <2>4. state \in States /\ running \in BOOLEAN /\ connected \in BOOLEAN /\ heard \in BOOLEAN
    BY DEF Init, States
  <2>. QED BY <2>2, <2>3, <2>4 DEF Scalars
<1>8. Questions
  <2>1. questions \in {0, 1} /\ lastQuestion = 0 /\ toEvaluate = 0
        /\ started = {} /\ answered = {} /\ evaluated = {}
    BY DEF Init
  <2>. QED BY <2>1 DEF Questions
<1>7. LoopOK
  BY DEF Init, Idle, LoopOK
<1>. QED BY <1>3, <1>4, <1>5, <1>6, <1>7, <1>8 DEF IInv, Body

LEMMA NextInv == IInv /\ [Next]_vars => IInv'
<1>1. CASE UNCHANGED vars
  BY <1>1 DEF vars, IInv, Body, Scalars, Questions, LoopOK
<1>. QED BY <1>1, StepInv

-----------------------------------------------------------------------------
(* The theorems.                                                           *)

\* The inductive invariant holds whatever is cancelled, fails, fires or is lost,
\* for any number of questions.
THEOREM Invariance == Spec => []IInv
<1>. QED BY InitInv, NextInv, PTL DEF Spec

\* Every variable keeps its type, and the rows the engine marks exist.
THEOREM TypeCorrect == Spec => []TypeOK
<1>1. ASSUME IInv PROVE TypeOK
  <2>1. Scalars /\ Questions /\ LoopOK /\ Typed(tasks, questions)
    BY <1>1 DEF IInv, Body
  <2>2. \A t \in tasks : t \in TaskRecords /\ t.at \in Points[t.kind]
    BY <2>1 DEF Typed
  <2>3. {generation, pending, lastQuestion, toEvaluate, questions} \subseteq Nat
    BY <2>1 DEF Scalars, Questions
  <2>4. started \cup answered \cup evaluated \subseteq 1 .. questions
    BY <2>1 DEF Questions
  <2>. QED BY <2>1, <2>2, <2>3, <2>4 DEF TypeOK, Scalars, LoopOK, Handlers
<1>. QED BY <1>1, Invariance, PTL

\* The client is asked to confirm a playback only when all its audio was sent:
\* a late or cancelled speech worker never speaks into the candidate's turn
\* (engine.py, _speak_next_question and _speech_worker).
THEOREM PlaybackTheorem == Spec => []PlaybackIsComplete
<1>1. IInv => PlaybackIsComplete
  BY DEF IInv, Body, Streams, PlaybackIsComplete
<1>. QED BY <1>1, Invariance, PTL

\* No answer is evaluated twice, although an interruption cancels evaluations
\* whose commit may have landed (engine.py, _maybe_start_evaluation).
THEOREM EvaluatedTheorem == Spec => []EvaluatedOnce
<1>1. IInv => EvaluatedOnce
  BY DEF IInv, Body, Evaluations, EvaluatedOnce
<1>. QED BY <1>1, Invariance, PTL

\* The client hears one stream at a time, from its tts_start to its tts_stop, and
\* no frame after stop or cancel.
THEOREM SerialTheorem == Spec => StreamsAreSerial
<1>1. IInv /\ [Next]_vars =>
        [out' # out =>
           /\ out'.type \in {"frame", "tts_stop"} => out.gen = out'.gen /\ out.type # "tts_stop"
           /\ out'.type = "frame" => running]_out
  <2>1. CASE UNCHANGED vars
    BY <2>1 DEF vars
  <2>2. CASE Next
    BY <2>2, StepInv DEF Serial
  <2>. QED BY <2>1, <2>2
<1>. QED BY <1>1, Invariance, PTL DEF Spec, StreamsAreSerial
=============================================================================
