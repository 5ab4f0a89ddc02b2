------------------------- MODULE VoicePlaybackProofs -------------------------
(***************************************************************************)
(* The invariants of VoicePlayback for any number of questions, frames,     *)
(* buttons, lost connections and messages in flight.                        *)
(***************************************************************************)
EXTENDS VoicePlayback, SequenceTheorems, TLAPS

USE PlaybackAssumption

Engines == [alive : BOOLEAN, state : EngineState, gen : Generation \cup {0},
            pending : Generation \cup {0}, asker : {"start", "turn", "answer", "none"},
            worker : BOOLEAN, pipeline : BOOLEAN, sent : 0 .. MaxFrames]

\* What is sent but a new stream, its frames and the state before the first.
Aside == ({"state"} \X ((EngineState \cup {"interrupted"}) \ {"idle", "speaking"}))
           \cup ({"tts_stop"} \X Generation)

Audio(g, n) == <<"audio", <<g, n>>>>
Speaking == <<"state", "speaking">>

\* Whatever sends belongs to a generation.
StreamsHaveGenerations == engine.worker \/ engine.pipeline => engine.gen # 0

\* A socket is open only while the interview is on, and nothing is in flight
\* nor plays without it.
SocketsFollowPhases ==
  /\ client.socket \in {"connecting", "open"} => client.phase = "live"
  /\ client.socket = "closing" => client.phase = "over"
  /\ client.timer => client.phase = "live" /\ client.socket = "none"
  /\ engine.alive => client.socket = "open"
  /\ client.socket # "open" =>
       toClient = <<>> /\ client.cur = 0 /\ client.sounding = <<>>

\* A client that plays has been told to, and was not told to stop since.
PlaysInTurn ==
  /\ Playing(client) => client.state \in {"speaking", "listening", "processing", "thinking"}
  /\ \A j \in DOMAIN toClient : toClient[j] # <<"state", "idle">>

\* Streams are announced in order: what is announced comes after what the
\* client accepts, gave up or confirmed.
StreamsInOrder ==
  /\ client.cur <= engine.gen
  /\ \A d \in dropped : d <= engine.gen /\ (client.cur # 0 => d < client.cur)
  /\ \A k \in DOMAIN confirmed :
       /\ confirmed[k] <= engine.gen
       /\ client.pending # 0 => confirmed[k] < client.pending
  /\ \A j \in DOMAIN toClient : \A g \in Generation : toClient[j] = <<"tts_start", g>> =>
       /\ client.cur < g /\ g <= engine.gen
       /\ \A d \in dropped : d < g
       /\ \A k \in DOMAIN confirmed : confirmed[k] < g
       /\ \A i \in 1 .. (j - 1) : \A h \in Generation :
            toClient[i] = <<"tts_start", h>> => h < g

\* The client that handles the messages up to j has been told of generation g.
Announced(g, j) ==
  \/ client.cur = g
  \/ g \in dropped
  \/ \E i \in 1 .. (j - 1) : toClient[i] = <<"tts_start", g>>

\* Each frame in flight is of the newest stream announced before it.
FramesFollowStarts ==
  /\ engine.worker /\ engine.alive => Announced(engine.gen, Len(toClient) + 1)
  /\ \A j \in DOMAIN toClient : \A g \in Generation, n \in 1 .. MaxFrames :
       toClient[j] = Audio(g, n) =>
         /\ client.cur <= g /\ g <= engine.gen
         /\ Announced(g, j)
         /\ \A i \in 1 .. (j - 1) : \A h \in Generation :
              toClient[i] = <<"tts_start", h>> => h <= g

Taken(g, m) == <<g, m>> \in heard \/ \E k \in DOMAIN client.sounding : client.sounding[k] = <<g, m>>

\* Frame m of stream g is in flight before j, or was taken, or was dropped for a
\* reason that still stands when message j is handled.
Settled(g, m, j) ==
  \/ \E i \in 1 .. (j - 1) :
       /\ toClient[i] = Audio(g, m)
       /\ \A k \in i .. (j - 1) : toClient[k] # Speaking
  \/ /\ \A k \in 1 .. (j - 1) : toClient[k] # Speaking /\ toClient[k] # <<"tts_start", g>>
     /\ Taken(g, m) \/ client.state # "speaking" \/ client.cur # g

\* Before a frame the earlier ones of its stream are settled.
FramesAreSettled ==
  /\ engine.worker /\ engine.alive =>
       \A m \in 1 .. engine.sent : Settled(engine.gen, m, Len(toClient) + 1)
  /\ \A j \in DOMAIN toClient : \A g \in Generation, n \in 1 .. MaxFrames :
       toClient[j] = Audio(g, n) => \A m \in 1 .. (n - 1) : Settled(g, m, j)

\* What was heard, and what plays after it, has no gap.
HeardInOrder ==
  /\ \A g \in Generation, n \in 1 .. MaxFrames : <<g, n>> \in heard =>
       \A m \in 1 .. (n - 1) : <<g, m>> \in heard
  /\ \A j \in DOMAIN client.sounding : \A g \in Generation, n \in 1 .. MaxFrames :
       client.sounding[j] = <<g, n>> =>
         /\ g \notin dropped
         /\ \A m \in 1 .. (n - 1) :
              \/ <<g, m>> \in heard
              \/ \E i \in 1 .. (j - 1) : client.sounding[i] = <<g, m>>

IInv == /\ TypeOK /\ StreamsHaveGenerations /\ SocketsFollowPhases /\ PlaysInTurn
        /\ StreamsInOrder /\ ConfirmedOnce
        /\ FramesFollowStarts /\ FramesAreSettled /\ HeardInOrder

-----------------------------------------------------------------------------
(* What a step of the engine sends.                                         *)

LEMMA Concatenation ==
  ASSUME NEW S, NEW s \in Seq(S), NEW t \in Seq(S)
  PROVE  /\ s \o t \in Seq(S)
         /\ Len(s \o t) = Len(s) + Len(t)
         /\ \A k \in 1 .. Len(s) : (s \o t)[k] = s[k]
         /\ \A k \in 1 .. Len(t) : (s \o t)[Len(s) + k] = t[k]
BY ConcatProperties

LEMMA InflightSize ==
  ASSUME TypeOK
  PROVE  toClient \in Seq(Message) /\ Len(toClient) \in Nat
<1>1. toClient \in Seq(Message)
  BY Zenon DEF TypeOK
<1>. QED BY <1>1

\* Messages follow those in flight, and the client has not handled any.
Told ==
  /\ Len(toClient) <= Len(toClient')
  /\ \A k \in 1 .. Len(toClient) : toClient'[k] = toClient[k]
  /\ UNCHANGED <<client, heard, confirmed, dropped>>
  /\ engine'.alive = engine.alive

New == (Len(toClient) + 1) .. Len(toClient')
BeforeLast == (Len(toClient) + 1) .. (Len(toClient') - 1)

QuietStep ==
  /\ Told
  /\ \A k \in New : toClient'[k] \in Aside
  /\ engine'.gen \in {engine.gen, engine.gen + 1}
  /\ engine'.worker =>
       engine.worker /\ engine'.gen = engine.gen /\ engine'.sent = engine.sent

AskStep ==
  /\ Told
  /\ Len(toClient) < Len(toClient')
  /\ toClient'[Len(toClient')] = <<"tts_start", engine.gen + 1>>
  /\ \A k \in BeforeLast : toClient'[k] \in Aside
  /\ engine'.gen = engine.gen + 1 /\ engine'.sent = 0

AudioStep ==
  /\ Told
  /\ engine.worker /\ engine.alive
  /\ Len(toClient) < Len(toClient')
  /\ toClient'[Len(toClient')] = Audio(engine.gen, engine.sent + 1)
  /\ \A k \in BeforeLast : engine.sent = 0 /\ toClient'[k] = Speaking
  /\ engine'.gen = engine.gen /\ engine'.sent = engine.sent + 1

LEMMA Emitted ==
  ASSUME TypeOK, NEW e \in Engines, NEW ms \in Seq(Message), Emit(e, ms)
  PROVE  /\ toClient' \in Seq(Message) /\ engine' = e
         /\ Len(toClient') = Len(toClient) + Len(ms)
         /\ \A k \in 1 .. Len(toClient) : toClient'[k] = toClient[k]
         /\ \A k \in 1 .. Len(ms) : toClient'[Len(toClient) + k] = ms[k]
         /\ \A k \in New : k - Len(toClient) \in 1 .. Len(ms)
                            /\ toClient'[k] = ms[k - Len(toClient)]
         /\ UNCHANGED <<client, heard, confirmed, dropped>>
<1>1. toClient \in Seq(Message)
  BY DEF TypeOK
<1>2. /\ toClient' = toClient \o ms /\ engine' = e
      /\ UNCHANGED <<client, heard, confirmed, dropped>>
  BY DEF Emit
<1>3. /\ toClient' \in Seq(Message)
      /\ Len(toClient') = Len(toClient) + Len(ms)
      /\ \A k \in 1 .. Len(toClient) : toClient'[k] = toClient[k]
      /\ \A k \in 1 .. Len(ms) : toClient'[Len(toClient) + k] = ms[k]
  BY <1>1, <1>2, Concatenation
<1>4. ASSUME NEW k \in New
      PROVE  k - Len(toClient) \in 1 .. Len(ms) /\ toClient'[k] = ms[k - Len(toClient)]
  <2>1. Len(toClient) \in Nat /\ Len(ms) \in Nat
    BY <1>1
  <2>2. k - Len(toClient) \in 1 .. Len(ms) /\ Len(toClient) + (k - Len(toClient)) = k
    BY <1>3, <2>1 DEF New
  <2>. QED BY <1>3, <2>2
<1>. QED BY <1>2, <1>3, <1>4

\* A step that sends nothing of a stream.
LEMMA QuietEmission ==
  ASSUME TypeOK, NEW e \in Engines, NEW ms \in Seq(Aside), Emit(e, ms),
         e.alive = engine.alive, e.gen \in {engine.gen, engine.gen + 1},
         e.worker => engine.worker /\ e.gen = engine.gen /\ e.sent = engine.sent
  PROVE  QuietStep /\ toClient' \in Seq(Message) /\ engine' = e
<1>1. Aside \subseteq Message
  BY DEF Aside, Message
<1>2. ms \in Seq(Message)
  BY <1>1, SeqMonotonic
<1>3. /\ toClient' \in Seq(Message) /\ engine' = e
      /\ Len(toClient') = Len(toClient) + Len(ms)
      /\ \A k \in 1 .. Len(toClient) : toClient'[k] = toClient[k]
      /\ \A k \in New : k - Len(toClient) \in 1 .. Len(ms)
                         /\ toClient'[k] = ms[k - Len(toClient)]
      /\ UNCHANGED <<client, heard, confirmed, dropped>>
  BY <1>2, Emitted
<1>4. \A k \in New : toClient'[k] \in Aside
  BY <1>3
<1>5. Len(toClient) <= Len(toClient')
  BY <1>3 DEF TypeOK
<1>. QED BY <1>3, <1>4, <1>5 DEF QuietStep, Told

LEMMA ReportAside ==
  ASSUME NEW from \in EngineState, NEW to \in EngineState \ {"idle", "speaking"}
  PROVE  Report(from, to) \in Seq(Aside)
<1>1. <<"state", to>> \in Aside
  BY DEF Aside
<1>. QED BY <1>1 DEF Report

\* A step that reports a state.
LEMMA QuietBecome ==
  ASSUME TypeOK, NEW e \in Engines, NEW state \in EngineState \ {"idle", "speaking"},
         Become(e, state),
         e.alive = engine.alive, e.gen \in {engine.gen, engine.gen + 1},
         e.worker => engine.worker /\ e.gen = engine.gen /\ e.sent = engine.sent
  PROVE  QuietStep /\ toClient' \in Seq(Message) /\ engine' = [e EXCEPT !.state = state]
<1> DEFINE f == [e EXCEPT !.state = state]
<1>1. /\ f \in Engines /\ f.alive = e.alive /\ f.gen = e.gen
      /\ f.worker = e.worker /\ f.sent = e.sent
  BY DEF Engines
<1>2. Report(e.state, state) \in Seq(Aside)
  BY ReportAside DEF Engines
<1>3. Emit(f, Report(e.state, state))
  BY DEF Become
<1> HIDE DEF f
<1>4. QuietStep /\ toClient' \in Seq(Message) /\ engine' = f
  BY <1>1, <1>2, <1>3, QuietEmission
<1>. QED BY <1>4 DEF f

\* A step that sends nothing.
LEMMA QuietSilence ==
  ASSUME TypeOK, NEW e \in Engines, Emit(e, <<>>),
         e.alive = engine.alive, e.gen \in {engine.gen, engine.gen + 1},
         e.worker => engine.worker /\ e.gen = engine.gen /\ e.sent = engine.sent
  PROVE  QuietStep /\ toClient' \in Seq(Message) /\ engine' = e
<1>1. <<>> \in Seq(Aside)
  OBVIOUS
<1>. QED BY <1>1, QuietEmission

\* A new question.
LEMMA Asking ==
  ASSUME TypeOK, NEW e \in Engines, e.alive = engine.alive, e.gen = engine.gen, Ask(e)
  PROVE  /\ AskStep /\ toClient' \in Seq(Message)
         /\ engine' \in Engines /\ engine'.gen # 0
<1> DEFINE f == [e EXCEPT !.state = "thinking", !.gen = @ + 1, !.asker = "none",
                          !.worker = TRUE, !.pipeline = TRUE, !.sent = 0]
           r == Report(e.state, "thinking")
           ms == Append(r, <<"tts_start", e.gen + 1>>)
<1>1. /\ f \in Engines /\ f.alive = e.alive /\ f.gen = e.gen + 1 /\ f.sent = 0
      /\ e.gen \in Nat /\ e.gen + 1 \in Generation
  <2>1. e.gen \in Nat /\ e.gen + 1 \in Generation
    BY DEF Engines, Generation
  <2>2. f \in Engines
    <3>1. /\ 0 \in 0 .. MaxFrames /\ "thinking" \in EngineState
          /\ e.gen + 1 \in Generation \cup {0}
      BY <2>1 DEF EngineState
    <3>. QED BY <3>1, Zenon DEF Engines
  <2>3. f.alive = e.alive /\ f.gen = e.gen + 1 /\ f.sent = 0
    BY DEF Engines
  <2>. QED BY <2>1, <2>2, <2>3
<1>2. r \in Seq(Aside)
  BY ReportAside DEF Engines, EngineState
<1>3. Aside \subseteq Message /\ <<"tts_start", e.gen + 1>> \in Message
  BY <1>1 DEF Aside, Message
<1>4. Emit(f, ms)
  BY DEF Ask
<1>5. /\ ms \in Seq(Message) /\ Len(ms) = Len(r) + 1 /\ Len(r) \in Nat
      /\ ms[Len(ms)] = <<"tts_start", e.gen + 1>>
      /\ \A k \in 1 .. Len(r) : ms[k] \in Aside
  <2>1. r \in Seq(Message)
    BY <1>2, <1>3, SeqMonotonic
  <2> HIDE DEF r
  <2>. QED BY <2>1, <1>2, <1>3, AppendProperties
<1> HIDE DEF f, ms, r
<1>6. /\ toClient' \in Seq(Message) /\ engine' = f
      /\ Len(toClient') = Len(toClient) + Len(ms)
      /\ \A k \in 1 .. Len(toClient) : toClient'[k] = toClient[k]
      /\ \A k \in New : k - Len(toClient) \in 1 .. Len(ms)
                         /\ toClient'[k] = ms[k - Len(toClient)]
      /\ UNCHANGED <<client, heard, confirmed, dropped>>
  BY <1>1, <1>4, <1>5, Emitted
<1>7. /\ Len(toClient) \in Nat /\ Len(toClient) < Len(toClient')
      /\ Len(toClient') \in New /\ Len(toClient') - Len(toClient) = Len(ms)
  <2>1. Len(toClient) \in Nat
    BY InflightSize
  <2>. QED BY <1>5, <1>6, <2>1 DEF New
<1>8. toClient'[Len(toClient')] = <<"tts_start", engine.gen + 1>>
  BY <1>5, <1>6, <1>7
<1>9. \A k \in BeforeLast : toClient'[k] \in Aside
  <2> SUFFICES ASSUME NEW k \in BeforeLast PROVE toClient'[k] \in Aside
    OBVIOUS
  <2>1. k \in New /\ k - Len(toClient) \in 1 .. Len(r)
    BY <1>5, <1>6, <1>7 DEF New, BeforeLast
  <2>. QED BY <2>1, <1>5, <1>6
<1>10. f.gen = engine.gen + 1 /\ f.gen # 0
  BY <1>1 DEF Generation
<1>. QED BY <1>1, <1>6, <1>7, <1>8, <1>9, <1>10 DEF AskStep, Told

LEMMA Reports ==
  ASSUME NEW from, NEW to
  PROVE  /\ Report(from, to) = <<>> \/ Report(from, to) = << <<"state", to>> >>
         /\ from = to => Report(from, to) = <<>>
BY DEF Report

\* The next frame, with the state before the first.
LEMMA Sending ==
  ASSUME TypeOK, StreamsHaveGenerations, SendAudio
  PROVE  /\ AudioStep /\ toClient' \in Seq(Message)
         /\ engine' \in Engines /\ engine'.gen # 0
<1> DEFINE n == engine.sent + 1
           s == IF n = 1 THEN "speaking" ELSE engine.state
           f == [engine EXCEPT !.sent = n, !.state = s]
           r == Report(engine.state, s)
           ms == Append(r, Audio(engine.gen, n))
<1>1. /\ engine \in Engines /\ engine.alive /\ engine.worker /\ engine.gen # 0
      /\ engine.sent \in Nat /\ n \in 1 .. MaxFrames /\ engine.gen \in Generation
  <2>1. /\ engine \in Engines /\ engine.alive /\ engine.worker
        /\ engine.sent < MaxFrames
    BY DEF SendAudio, TypeOK, Engines
  <2>2. engine.sent \in Nat /\ n \in 1 .. MaxFrames
    BY <2>1 DEF Engines
  <2>3. engine.gen # 0 /\ engine.gen \in Generation
    BY <2>1 DEF Engines, StreamsHaveGenerations
  <2>. QED BY <2>1, <2>2, <2>3
<1>2. s \in EngineState
  BY <1>1 DEF Engines, EngineState
<1>3. /\ f \in Engines /\ f.alive = engine.alive /\ f.gen = engine.gen
      /\ f.sent = n /\ f.state = s
  <2>1. n \in 0 .. MaxFrames
    BY <1>1
  <2>. HIDE DEF n, s
  <2>2. f \in Engines
    BY <1>1, <1>2, <2>1, Zenon DEF Engines
  <2>3. f.alive = engine.alive /\ f.gen = engine.gen /\ f.sent = n /\ f.state = s
    BY <1>1 DEF Engines
  <2>. QED BY <2>2, <2>3
<1>4. /\ r \in Seq(Message)
      /\ \A k \in 1 .. Len(r) : engine.sent = 0 /\ r[k] = Speaking
  <2>1. CASE engine.sent = 0
    <3>1. s = "speaking"
      BY <2>1
    <3>2. Speaking \in Message
      BY DEF Speaking, Message, EngineState
    <3>3. r = <<>> \/ r = <<Speaking>>
      <4>1. r = <<>> \/ r = << <<"state", s>> >>
        BY Reports
      <4>. HIDE DEF r, s
      <4>. QED BY <3>1, <4>1 DEF Speaking
    <3>. HIDE DEF r
    <3>4. <<Speaking>> \in Seq(Message) /\ Len(<<Speaking>>) = 1 /\ <<Speaking>>[1] = Speaking
      BY <3>2
    <3>5. <<>> \in Seq(Message) /\ Len(<<>>) = 0
      OBVIOUS
    <3>6. CASE r = <<>>
      BY <3>5, <3>6
    <3>7. CASE r = <<Speaking>>
      BY <2>1, <3>4, <3>7
    <3>. QED BY <3>3, <3>6, <3>7
  <2>2. CASE engine.sent # 0
    <3>1. s = engine.state
      BY <1>1, <2>2
    <3>2. r = <<>>
      <4>1. engine.state = s => r = <<>>
        BY Reports
      <4>. HIDE DEF r, s
      <4>. QED BY <3>1, <4>1
    <3>. HIDE DEF r
    <3>. QED BY <3>2
  <2>. QED BY <2>1, <2>2
<1>5. Emit(f, ms)
  BY <1>3 DEF SendAudio, Audio
<1>6. Audio(engine.gen, n) \in Message
  BY <1>1 DEF Audio, Message, Frame
<1> HIDE DEF n, s, f, r
<1>7. /\ ms \in Seq(Message) /\ Len(ms) = Len(r) + 1 /\ Len(r) \in Nat
      /\ ms[Len(ms)] = Audio(engine.gen, n)
      /\ \A k \in 1 .. Len(r) : ms[k] = r[k]
  BY <1>4, <1>6, AppendProperties
<1> HIDE DEF ms
<1>8. /\ toClient' \in Seq(Message) /\ engine' = f
      /\ Len(toClient') = Len(toClient) + Len(ms)
      /\ \A k \in 1 .. Len(toClient) : toClient'[k] = toClient[k]
      /\ \A k \in New : k - Len(toClient) \in 1 .. Len(ms)
                         /\ toClient'[k] = ms[k - Len(toClient)]
      /\ UNCHANGED <<client, heard, confirmed, dropped>>
  BY <1>3, <1>5, <1>7, Emitted
<1>9. /\ Len(toClient) \in Nat /\ Len(toClient) < Len(toClient')
      /\ Len(toClient') \in New /\ Len(toClient') - Len(toClient) = Len(ms)
  <2>1. Len(toClient) \in Nat
    BY InflightSize
  <2>. QED BY <1>7, <1>8, <2>1 DEF New
<1>10. toClient'[Len(toClient')] = Audio(engine.gen, n)
  BY <1>7, <1>8, <1>9
<1>11. \A k \in BeforeLast : engine.sent = 0 /\ toClient'[k] = Speaking
  <2> SUFFICES ASSUME NEW k \in BeforeLast
               PROVE  engine.sent = 0 /\ toClient'[k] = Speaking
    OBVIOUS
  <2>1. k \in New /\ k - Len(toClient) \in 1 .. Len(r)
    BY <1>7, <1>8, <1>9 DEF New, BeforeLast
  <2>. QED BY <2>1, <1>4, <1>7, <1>8
<1>12. engine'.alive = engine.alive /\ engine'.gen = engine.gen /\ engine'.sent = engine.sent + 1
  BY <1>3, <1>8 DEF n
<1>13. Told
  BY <1>8, <1>9, <1>12 DEF Told
<1>14. toClient'[Len(toClient')] = Audio(engine.gen, engine.sent + 1)
  BY <1>10 DEF n
<1>15. AudioStep
  BY <1>1, <1>9, <1>11, <1>12, <1>13, <1>14 DEF AudioStep
<1>. QED BY <1>1, <1>3, <1>8, <1>12, <1>15

Uses == [controls : 0 .. MaxControls + 1, breaks : 0 .. MaxBreaks]

\* Type correctness of a step that leaves the client alone.
LEMMA EngineTypes ==
  ASSUME TypeOK, UNCHANGED <<client, heard, confirmed, dropped>>,
         toClient' \in Seq(Message), engine' \in Engines, begun' \in BOOLEAN,
         toServer' \in Seq(Request), used' \in Uses
  PROVE  TypeOK'
<1>1. UNCHANGED client /\ UNCHANGED heard /\ UNCHANGED confirmed /\ UNCHANGED dropped
  OBVIOUS
<1>. QED BY <1>1, Zenon DEF TypeOK, Engines, Uses

Sends == /\ toClient' \in Seq(Message) /\ engine' \in Engines
         /\ engine'.worker \/ engine'.pipeline => engine'.gen # 0
         /\ QuietStep \/ AskStep \/ AudioStep

LEMMA SendsNothing ==
  ASSUME TypeOK, StreamsHaveGenerations, Emit(engine, <<>>)
  PROVE  Sends
<1>1. engine \in Engines
  BY DEF TypeOK, Engines
<1>2. QuietStep /\ toClient' \in Seq(Message) /\ engine' = engine
  BY <1>1, QuietSilence DEF Engines
<1>. QED BY <1>1, <1>2 DEF Sends, StreamsHaveGenerations

\* A change of the asker, as every handler that reports nothing makes it.
LEMMA SendsNoMore ==
  ASSUME TypeOK, StreamsHaveGenerations, NEW a \in {"start", "turn", "answer", "none"},
         Emit([engine EXCEPT !.asker = a], <<>>)
  PROVE  Sends
<1> DEFINE e == [engine EXCEPT !.asker = a]
<1>1. /\ e \in Engines /\ e.alive = engine.alive /\ e.gen = engine.gen
      /\ e.worker = engine.worker /\ e.pipeline = engine.pipeline /\ e.sent = engine.sent
  BY DEF TypeOK, Engines
<1> HIDE DEF e
<1>2. QuietStep /\ toClient' \in Seq(Message) /\ engine' = e
  BY <1>1, QuietSilence DEF e
<1>. QED BY <1>1, <1>2 DEF Sends, StreamsHaveGenerations

\* A state that is reported, with a stream that is left alone or ended.
LEMMA SendsState ==
  ASSUME TypeOK, StreamsHaveGenerations, NEW e \in Engines,
         NEW state \in EngineState \ {"idle", "speaking"}, Become(e, state),
         e.alive = engine.alive, e.gen \in {engine.gen, engine.gen + 1},
         e.worker => engine.worker /\ e.gen = engine.gen /\ e.sent = engine.sent,
         e.pipeline => engine.pipeline /\ e.gen = engine.gen
  PROVE  Sends
<1> DEFINE f == [e EXCEPT !.state = state]
<1>1. QuietStep /\ toClient' \in Seq(Message) /\ engine' = f
  BY QuietBecome
<1>2. f \in Engines /\ f.worker = e.worker /\ f.pipeline = e.pipeline /\ f.gen = e.gen
  BY DEF Engines
<1>3. e.worker \/ e.pipeline => e.gen # 0
  BY DEF StreamsHaveGenerations
<1> HIDE DEF f
<1>. QED BY <1>1, <1>2, <1>3 DEF Sends

\* The candidate's window opens.
LEMMA SendsListening ==
  ASSUME TypeOK, StreamsHaveGenerations, NEW a \in {"start", "turn", "answer", "none"},
         Listen([engine EXCEPT !.asker = a])
  PROVE  Sends
<1> DEFINE e == [[engine EXCEPT !.asker = a] EXCEPT !.pending = 0]
<1>1. /\ e \in Engines /\ e.alive = engine.alive /\ e.gen = engine.gen
      /\ e.worker = engine.worker /\ e.pipeline = engine.pipeline /\ e.sent = engine.sent
  BY DEF TypeOK, Engines
<1>2. "listening" \in EngineState \ {"idle", "speaking"} /\ Become(e, "listening")
  BY DEF EngineState, Listen
<1> HIDE DEF e
<1>. QED BY <1>1, <1>2, SendsState

\* The stream is cancelled.
LEMMA Cancelled ==
  ASSUME TypeOK
  PROVE  /\ CancelTTS(engine) \in Engines
         /\ CancelTTS(engine).alive = engine.alive
         /\ CancelTTS(engine).gen = engine.gen + 1
         /\ CancelTTS(engine).state = engine.state
         /\ ~CancelTTS(engine).worker /\ ~CancelTTS(engine).pipeline
<1>1. engine \in Engines
  BY DEF TypeOK, Engines
<1>2. engine.gen + 1 \in Generation \cup {0} /\ 0 \in Generation \cup {0}
  BY <1>1 DEF Engines, Generation
<1>3. CancelTTS(engine) \in Engines
  BY <1>1, <1>2, Zenon DEF CancelTTS, Engines
<1>. QED BY <1>1, <1>3 DEF CancelTTS, Engines

\* A step that ends the stream.
LEMMA SendsLast ==
  ASSUME TypeOK, NEW e \in Engines, NEW ms \in Seq(Aside), Emit(e, ms),
         e.alive = engine.alive, e.gen \in {engine.gen, engine.gen + 1},
         ~e.worker, ~e.pipeline
  PROVE  Sends
<1>1. QuietStep /\ toClient' \in Seq(Message) /\ engine' = e
  BY QuietEmission
<1>. QED BY <1>1 DEF Sends

LEMMA SendsInterruption ==
  ASSUME TypeOK, StreamsHaveGenerations, OnInterrupt(engine)
  PROVE  Sends
<1> DEFINE c == CancelTTS(engine)
           a == IF c.asker = "start" THEN c.asker ELSE "none"
           e == [c EXCEPT !.state = "listening", !.asker = a]
           ms == << <<"state", "interrupted">>, <<"state", "listening">> >>
<1>1. /\ c \in Engines /\ c.alive = engine.alive /\ c.gen = engine.gen + 1
      /\ ~c.worker /\ ~c.pipeline
  BY Cancelled
<1>2. "listening" \in EngineState
  BY DEF EngineState
<1>3. Emit(e, ms)
  BY DEF OnInterrupt
<1> HIDE DEF c
<1>4. a \in {"start", "turn", "answer", "none"}
  BY <1>1 DEF Engines
<1> HIDE DEF a
<1>5. e \in Engines
  BY <1>1, <1>2, <1>4, Zenon DEF Engines
<1>6. /\ e.alive = engine.alive /\ e.gen = engine.gen + 1
      /\ ~e.worker /\ ~e.pipeline
  BY <1>1 DEF Engines
<1>7. <<"state", "interrupted">> \in Aside /\ <<"state", "listening">> \in Aside
  BY DEF Aside, EngineState
<1>8. ms \in Seq(Aside)
  BY <1>7
<1> HIDE DEF e, ms
<1>9. QuietStep /\ toClient' \in Seq(Message) /\ engine' = e
  BY <1>3, <1>5, <1>6, <1>8, QuietEmission
<1>. QED BY <1>5, <1>6, <1>9 DEF Sends

LEMMA SendsPause ==
  ASSUME TypeOK, StreamsHaveGenerations, OnPause(engine)
  PROVE  Sends
<1>1. engine \in Engines /\ engine.state \in EngineState
  BY DEF TypeOK, Engines
<1>2. "paused" \in EngineState \ {"idle", "speaking"}
  BY DEF EngineState
<1>3. CASE engine.state \in {"speaking", "thinking"}
  <2>1. Become(CancelTTS(engine), "paused")
    BY <1>3 DEF OnPause
  <2>. QED BY <1>2, <2>1, Cancelled, SendsState
<1>4. CASE engine.state \in {"listening", "processing"}
  <2>1. Become(engine, "paused")
    BY <1>4 DEF OnPause
  <2>2. engine.gen \in {engine.gen, engine.gen + 1}
    OBVIOUS
  <2>. QED BY <1>1, <1>2, <2>1, <2>2, SendsState
<1>5. CASE engine.state \in {"idle", "paused"}
  <2>1. Emit(engine, <<>>)
    BY <1>5 DEF OnPause
  <2>. QED BY <2>1, SendsNothing
<1>. QED BY <1>1, <1>3, <1>4, <1>5 DEF EngineState

LEMMA SendsTurn ==
  ASSUME TypeOK, StreamsHaveGenerations, RequestEndTurn(engine)
  PROVE  Sends
<1>1. CASE engine.state = "listening" /\ engine.asker \notin {"turn", "answer"}
  <2>1. Emit([engine EXCEPT !.asker = "turn"], <<>>)
    BY <1>1 DEF RequestEndTurn
  <2>. QED BY <2>1, SendsNoMore
<1>2. CASE ~(engine.state = "listening" /\ engine.asker \notin {"turn", "answer"})
  <2>1. Emit(engine, <<>>)
    BY <1>2 DEF RequestEndTurn
  <2>. QED BY <2>1, SendsNothing
<1>. QED BY <1>1, <1>2

LEMMA SendsQuestion ==
  ASSUME TypeOK, NEW e \in Engines, e.alive = engine.alive, e.gen = engine.gen, Ask(e)
  PROVE  Sends
BY Asking DEF Sends

LEMMA ListensNow ==
  ASSUME TypeOK, StreamsHaveGenerations, Listen(engine)
  PROVE  Sends
<1> DEFINE e == [engine EXCEPT !.pending = 0]
<1>1. /\ e \in Engines /\ e.alive = engine.alive /\ e.gen = engine.gen
      /\ e.worker = engine.worker /\ e.pipeline = engine.pipeline /\ e.sent = engine.sent
  BY DEF TypeOK, Engines
<1>2. "listening" \in EngineState \ {"idle", "speaking"} /\ Become(e, "listening")
  BY DEF EngineState, Listen
<1> HIDE DEF e
<1>. QED BY <1>1, <1>2, SendsState

LEMMA SendsReply ==
  ASSUME TypeOK, StreamsHaveGenerations, NEW m \in Request,
         CASE m[1] = "playback_complete" -> OnPlaybackComplete(engine, m[2])
           [] m[1] = "interrupt" -> OnInterrupt(engine)
           [] m[1] = "end_turn"  -> RequestEndTurn(engine)
           [] m[1] = "pause"     -> OnPause(engine)
           [] m[1] = "resume"    -> OnResume(engine)
  PROVE  Sends
<1>1. m[1] \in {"playback_complete", "interrupt", "end_turn", "pause", "resume"}
  BY DEF Request, Control
<1>2. CASE m[1] = "playback_complete"
  <2>1. OnPlaybackComplete(engine, m[2])
    BY <1>2
  <2>2. Listen(engine) \/ Emit(engine, <<>>)
    BY <2>1 DEF OnPlaybackComplete
  <2>. QED BY <2>2, ListensNow, SendsNothing
<1>3. CASE m[1] = "interrupt"
  <2>1. OnInterrupt(engine)
    BY <1>3
  <2>. QED BY <2>1, SendsInterruption
<1>4. CASE m[1] = "end_turn"
  <2>1. RequestEndTurn(engine)
    BY <1>4
  <2>. QED BY <2>1, SendsTurn
<1>5. CASE m[1] = "pause"
  <2>1. OnPause(engine)
    BY <1>5
  <2>. QED BY <2>1, SendsPause
<1>6. CASE m[1] = "resume"
  <2>1. OnResume(engine)
    BY <1>6
  <2>2. Become(engine, "listening") \/ Emit(engine, <<>>)
    BY <2>1 DEF OnResume
  <2>3. /\ "listening" \in EngineState \ {"idle", "speaking"} /\ engine \in Engines
        /\ engine.gen \in {engine.gen, engine.gen + 1}
    BY DEF EngineState, TypeOK, Engines
  <2>. QED BY <2>2, <2>3, SendsState, SendsNothing
<1>. QED BY <1>1, <1>2, <1>3, <1>4, <1>5, <1>6

\* Every step of the engine is one of the three kinds, and keeps the types.
LEMMA EngineSends ==
  ASSUME TypeOK, StreamsHaveGenerations, EngineStep
  PROVE  Sends /\ TypeOK' /\ StreamsHaveGenerations'
<1>1. begun \in BOOLEAN /\ toServer \in Seq(Request) /\ used \in Uses /\ engine \in Engines
  BY DEF TypeOK, Uses, Engines
<1>2. ASSUME Sends, begun' \in BOOLEAN, toServer' \in Seq(Request), used' \in Uses
      PROVE  Sends /\ TypeOK' /\ StreamsHaveGenerations'
  <2>1. UNCHANGED <<client, heard, confirmed, dropped>>
    BY <1>2 DEF Sends, QuietStep, AskStep, AudioStep, Told
  <2>2. TypeOK'
    BY <1>2, <2>1, EngineTypes DEF Sends
  <2>. QED BY <1>2, <2>2 DEF Sends, StreamsHaveGenerations
<1>3. ASSUME NEW a \in {"start", "turn", "answer", "none"}
      PROVE  LET e == [engine EXCEPT !.asker = a] IN
             e \in Engines /\ e.alive = engine.alive /\ e.gen = engine.gen
             /\ e.worker = engine.worker /\ e.pipeline = engine.pipeline /\ e.sent = engine.sent
  BY <1>1 DEF Engines
<1>4. "listening" \in EngineState \ {"idle", "speaking"}
      /\ "processing" \in EngineState \ {"idle", "speaking"}
  BY DEF EngineState
<1>5. CASE StartSession
  <2>1. CASE Ask(engine)
    BY <1>1, <1>2, <1>5, <2>1, SendsQuestion DEF StartSession
  <2>2. CASE Listen([engine EXCEPT !.asker = "none"])
    <3>1. Sends
      BY <2>2, SendsListening
    <3>. QED BY <1>1, <1>2, <1>5, <3>1 DEF StartSession
  <2>3. CASE Emit([engine EXCEPT !.asker = "none"], <<>>)
    <3>1. Sends
      BY <2>3, SendsNoMore
    <3>. QED BY <1>1, <1>2, <1>5, <3>1 DEF StartSession
  <2>. QED BY <1>5, <2>1, <2>2, <2>3 DEF StartSession
<1>6. CASE SilenceEndsTurn
  <2>1. Sends
    BY <1>6, SendsTurn DEF SilenceEndsTurn
  <2>. QED BY <1>1, <1>2, <1>6, <2>1 DEF SilenceEndsTurn
<1>7. CASE AnswerBegins
  <2>1. Become([engine EXCEPT !.asker = "answer"], "processing")
    BY <1>7 DEF AnswerBegins
  <2>2. Sends
    BY <1>3, <1>4, <2>1, SendsState DEF StreamsHaveGenerations
  <2>. QED BY <1>1, <1>2, <1>7, <2>2 DEF AnswerBegins
<1>8. CASE Answered
  <2> DEFINE e == [engine EXCEPT !.asker = "none"]
  <2>1. Ask(e) \/ Become(e, "listening") \/ Emit(e, <<>>)
    BY <1>8 DEF Answered
  <2>2. /\ e \in Engines /\ e.alive = engine.alive /\ e.gen = engine.gen
        /\ e.worker = engine.worker /\ e.pipeline = engine.pipeline /\ e.sent = engine.sent
    BY <1>3
  <2>3. Emit(e, <<>>) => Sends
    BY SendsNoMore
  <2>. HIDE DEF e
  <2>4. Sends
    BY <1>4, <2>1, <2>2, <2>3, SendsQuestion, SendsState
  <2>. QED BY <1>1, <1>2, <1>8, <2>4 DEF Answered
<1>9. CASE SendAudio
  <2>1. Sends
    BY <1>9, Sending DEF Sends
  <2>. QED BY <1>1, <1>2, <1>9, <2>1 DEF SendAudio
<1>10. CASE Spoken
  <2> DEFINE e == [engine EXCEPT !.pipeline = FALSE, !.worker = FALSE]
             f == [e EXCEPT !.pending = e.gen]
  <2>1. /\ e \in Engines /\ e.alive = engine.alive /\ e.gen = engine.gen
        /\ ~e.worker /\ ~e.pipeline
    BY <1>1 DEF Engines
  <2>2. /\ f \in Engines /\ f.alive = engine.alive /\ f.gen = engine.gen
        /\ ~f.worker /\ ~f.pipeline
    BY <1>1 DEF Engines
  <2>3. e.gen \in Generation
    BY <1>10, <2>1 DEF Spoken, StreamsHaveGenerations, Engines, Generation
  <2> DEFINE ms == << <<"tts_stop", e.gen>> >>
  <2>4. Emit(f, ms) \/ Emit(e, <<>>)
    BY <1>10 DEF Spoken
  <2>. HIDE DEF e, f
  <2>5. ms \in Seq(Aside) /\ e.gen \in {engine.gen, engine.gen + 1}
        /\ f.gen \in {engine.gen, engine.gen + 1}
    BY <2>1, <2>2, <2>3 DEF Aside
  <2>. HIDE DEF ms
  <2>6. Emit(f, ms) => Sends
    BY <2>2, <2>5, SendsLast
  <2>7. Emit(e, <<>>) => Sends
    <3>1. <<>> \in Seq(Aside)
      OBVIOUS
    <3>. QED BY <2>1, <2>5, <3>1, SendsLast
  <2>8. Sends
    BY <2>4, <2>6, <2>7
  <2>. QED BY <1>1, <1>2, <1>10, <2>8 DEF Spoken
<1>11. CASE PipelineFails
  <2> DEFINE e == [engine EXCEPT !.pipeline = FALSE]
  <2>1. /\ e \in Engines /\ e.alive = engine.alive /\ e.gen = engine.gen
        /\ e.worker = engine.worker /\ ~e.pipeline /\ e.sent = engine.sent
    BY <1>1 DEF Engines
  <2>2. Become(e, "listening")
    BY <1>11 DEF PipelineFails
  <2>. HIDE DEF e
  <2>3. Sends
    BY <1>4, <2>1, <2>2, SendsState
  <2>. QED BY <1>1, <1>2, <1>11, <2>3 DEF PipelineFails
<1>12. CASE PlaybackTimeout
  <2>1. Sends
    BY <1>12, ListensNow DEF PlaybackTimeout
  <2>. QED BY <1>1, <1>2, <1>12, <2>1 DEF PlaybackTimeout
<1>13. CASE OnControl
  <2>1. toServer # <<>> /\ toServer' = Tail(toServer)
        /\ UNCHANGED <<begun, used>>
    BY <1>13 DEF OnControl
  <2>2. Head(toServer) \in Request /\ toServer' \in Seq(Request)
    BY <1>1, <2>1
  <2>3. Sends
    BY <1>13, <2>2, SendsReply DEF OnControl
  <2>. QED BY <1>1, <1>2, <2>1, <2>2, <2>3
<1>14. CASE BargeIn
  <2>1. Sends
    BY <1>14, SendsInterruption DEF BargeIn
  <2>2. used' \in Uses
    BY <1>1, <1>14 DEF BargeIn, Uses
  <2>. QED BY <1>1, <1>2, <1>14, <2>1, <2>2 DEF BargeIn
<1>. QED BY <1>5, <1>6, <1>7, <1>8, <1>9, <1>10, <1>11, <1>12, <1>13, <1>14 DEF EngineStep

-----------------------------------------------------------------------------
(* What is new in flight after a step of the engine.                        *)

\* What of the types the arguments about streams use.
Streams ==
  /\ engine.gen \in Nat /\ engine.sent \in Nat
  /\ toClient \in Seq(Message) /\ Len(toClient) \in Nat
  /\ DOMAIN toClient = 1 .. Len(toClient)
  /\ client.cur \in Nat /\ client.pending \in {0, client.cur}
  /\ client.sounding \in Seq(Frame)
  /\ heard \subseteq Frame /\ dropped \subseteq Nat
  /\ confirmed \in Seq(Nat) /\ \A k \in DOMAIN confirmed : confirmed[k] \in Nat

LEMMA StreamsTyped ==
  /\ TypeOK => Streams
  /\ TypeOK' => Streams'
<1>1. ASSUME TypeOK PROVE Streams
  <2>1. engine.gen \in Nat /\ engine.sent \in Nat
    BY <1>1 DEF TypeOK, Generation
  <2>2. client.cur \in Nat /\ client.pending \in {0, client.cur} /\ client.sounding \in Seq(Frame)
    BY <1>1 DEF TypeOK, Generation
  <2>3. toClient \in Seq(Message) /\ heard \subseteq Frame
    BY <1>1 DEF TypeOK
  <2>4. Generation \subseteq Nat /\ dropped \subseteq Generation /\ confirmed \in Seq(Generation)
    BY <1>1 DEF TypeOK, Generation
  <2>5. confirmed \in Seq(Nat)
    BY <2>4, SeqMonotonic
  <2>. QED BY <2>1, <2>2, <2>3, <2>4, <2>5 DEF Streams
<1>2. ASSUME TypeOK' PROVE Streams'
  <2>1. engine'.gen \in Nat /\ engine'.sent \in Nat
    BY <1>2 DEF TypeOK, Generation
  <2>2. client'.cur \in Nat /\ client'.pending \in {0, client'.cur} /\ client'.sounding \in Seq(Frame)
    BY <1>2 DEF TypeOK, Generation
  <2>3. toClient' \in Seq(Message) /\ heard' \subseteq Frame
    BY <1>2 DEF TypeOK
  <2>4. Generation \subseteq Nat /\ dropped' \subseteq Generation /\ confirmed' \in Seq(Generation)
    BY <1>2 DEF TypeOK, Generation
  <2>5. confirmed' \in Seq(Nat)
    BY <2>4, SeqMonotonic
  <2>. QED BY <2>1, <2>2, <2>3, <2>4, <2>5 DEF Streams
<1>. QED BY <1>1, <1>2

LEMMA AsideIsQuiet ==
  ASSUME NEW x \in Aside
  PROVE  /\ x # Speaking /\ x # <<"state", "idle">>
         /\ \A g : x # <<"tts_start", g>>
         /\ \A g, n : x # Audio(g, n)
BY DEF Aside, Speaking, Audio

LEMMA Distinct ==
  ASSUME NEW g, NEW n
  PROVE  /\ Audio(g, n) # Speaking /\ Audio(g, n) # <<"state", "idle">>
         /\ Speaking # <<"state", "idle">> /\ <<"tts_start", g>> # Speaking
         /\ <<"tts_start", g>> # <<"state", "idle">>
         /\ \A h : <<"tts_start", h>> # Audio(g, n) /\ <<"tts_start", h>> # Speaking
         /\ \A h, m : /\ Audio(h, m) # <<"tts_start", g>>
                      /\ Audio(g, n) = Audio(h, m) => g = h /\ n = m
BY DEF Audio, Speaking

NewStarts == \A k \in New : \A g : toClient'[k] = <<"tts_start", g>> =>
  k = Len(toClient') /\ g = engine.gen + 1 /\ engine'.gen = g

NewFrames == \A k \in New : \A g, n : toClient'[k] = Audio(g, n) =>
  /\ k = Len(toClient') /\ engine.worker /\ engine.alive
  /\ g = engine.gen /\ engine'.gen = g /\ n = engine.sent + 1 /\ engine'.sent = n
  /\ \A i \in BeforeLast : engine.sent = 0

NewStates == \A k \in New : toClient'[k] # <<"state", "idle">>

Works ==
  \/ /\ engine.worker /\ engine'.gen = engine.gen /\ engine'.sent = engine.sent
     /\ \A k \in New : toClient'[k] \in Aside
  \/ /\ Len(toClient) < Len(toClient')
     /\ toClient'[Len(toClient')] = <<"tts_start", engine'.gen>> /\ engine'.sent = 0
  \/ /\ engine.worker /\ Len(toClient) < Len(toClient')
     /\ engine'.gen = engine.gen /\ engine'.sent = engine.sent + 1
     /\ toClient'[Len(toClient')] = Audio(engine.gen, engine.sent + 1)
     /\ \A i \in BeforeLast : engine.sent = 0

LEMMA NewMessages ==
  ASSUME TypeOK, TypeOK', Sends
  PROVE  /\ Told /\ NewStarts /\ NewFrames /\ NewStates
         /\ engine.gen <= engine'.gen
         /\ engine'.worker /\ engine'.alive => Works
<1>1. /\ Len(toClient) \in Nat /\ Len(toClient') \in Nat
      /\ engine.gen \in Nat /\ engine'.gen \in Nat
  BY StreamsTyped DEF Streams
<1>2. \A k \in New : k = Len(toClient') \/ k \in BeforeLast
  BY <1>1 DEF New, BeforeLast
<1>3. CASE QuietStep
  <2>1. Told /\ \A k \in New : toClient'[k] \in Aside
    BY <1>3 DEF QuietStep
  <2>2. NewStarts /\ NewFrames /\ NewStates
    BY <2>1, AsideIsQuiet DEF NewStarts, NewFrames, NewStates
  <2>3. engine.gen <= engine'.gen
    BY <1>1, <1>3 DEF QuietStep
  <2>4. engine'.worker => Works
    BY <1>3 DEF QuietStep, Works
  <2>. QED BY <2>1, <2>2, <2>3, <2>4
<1>4. CASE AskStep
  <2>1. /\ Told /\ toClient'[Len(toClient')] = <<"tts_start", engine.gen + 1>>
        /\ \A k \in BeforeLast : toClient'[k] \in Aside
        /\ engine'.gen = engine.gen + 1
    BY <1>4 DEF AskStep
  <2>2. NewStarts
    <3> SUFFICES ASSUME NEW k \in New, NEW g, toClient'[k] = <<"tts_start", g>>
                 PROVE  k = Len(toClient') /\ g = engine.gen + 1
      BY <2>1 DEF NewStarts
    <3>1. k = Len(toClient')
      BY <1>2, <2>1, AsideIsQuiet
    <3>. QED BY <2>1, <3>1
  <2>3. NewFrames /\ NewStates
    BY <1>2, <2>1, AsideIsQuiet, Distinct DEF NewFrames, NewStates
  <2>4. Works
    BY <1>4 DEF AskStep, Works
  <2>. QED BY <1>1, <2>1, <2>2, <2>3, <2>4
<1>5. CASE AudioStep
  <2>1. /\ Told /\ toClient'[Len(toClient')] = Audio(engine.gen, engine.sent + 1)
        /\ \A k \in BeforeLast : engine.sent = 0 /\ toClient'[k] = Speaking
        /\ engine'.gen = engine.gen /\ engine'.sent = engine.sent + 1
        /\ engine.worker /\ engine.alive
    BY <1>5 DEF AudioStep
  <2> DEFINE a == Audio(engine.gen, engine.sent + 1)
  <2>6. \A k \in New : toClient'[k] = Speaking \/ toClient'[k] = a
    BY <1>2, <2>1
  <2>7. /\ \A g : <<"tts_start", g>> # a /\ <<"tts_start", g>> # Speaking
        /\ <<"state", "idle">> # a /\ <<"state", "idle">> # Speaking
    BY DEF Audio, Speaking
  <2>. HIDE DEF a
  <2>2. NewStarts
    BY <2>6, <2>7, Zenon DEF NewStarts
  <2>5. NewStates
    BY <2>6, <2>7, Zenon DEF NewStates
  <2>. USE DEF a
  <2>3. NewFrames
    <3> SUFFICES ASSUME NEW k \in New, NEW g, NEW n, toClient'[k] = Audio(g, n)
                 PROVE  k = Len(toClient') /\ g = engine.gen /\ n = engine.sent + 1
      BY <2>1 DEF NewFrames
    <3>1. k = Len(toClient')
      BY <1>2, <2>1, Distinct
    <3>. QED BY <2>1, <3>1, Distinct
  <2>4. Works
    BY <1>5 DEF AudioStep, Works
  <2>. QED BY <1>1, <2>1, <2>2, <2>3, <2>4, <2>5
<1>. QED BY <1>3, <1>4, <1>5 DEF Sends

\* A message in flight was in flight already, or is new.
LEMMA Inflight ==
  ASSUME TypeOK, TypeOK', Told
  PROVE  /\ Len(toClient) \in Nat /\ Len(toClient') \in Nat
         /\ DOMAIN toClient = 1 .. Len(toClient)
         /\ DOMAIN toClient' = 1 .. Len(toClient')
         /\ \A j \in DOMAIN toClient' : j \in DOMAIN toClient \/ j \in New
         /\ \A j \in DOMAIN toClient : j \in DOMAIN toClient' /\ toClient'[j] = toClient[j]
         /\ \A j \in New : /\ j \in DOMAIN toClient' /\ j > Len(toClient)
                           /\ \A i \in DOMAIN toClient : i < j
<1>1. /\ Len(toClient) \in Nat /\ Len(toClient') \in Nat
      /\ DOMAIN toClient = 1 .. Len(toClient)
      /\ DOMAIN toClient' = 1 .. Len(toClient')
  BY StreamsTyped DEF Streams
<1>. QED BY <1>1 DEF Told, New

LEMMA EngineKeepsOrder ==
  ASSUME TypeOK, TypeOK', Sends, StreamsInOrder
  PROVE  StreamsInOrder'
<1>1. Told /\ NewStarts /\ engine.gen <= engine'.gen
  BY NewMessages
<1>2. UNCHANGED <<client, heard, confirmed, dropped>>
  BY <1>1 DEF Told
<1>3. /\ engine.gen \in Nat /\ engine'.gen \in Nat /\ client.cur \in Nat
      /\ dropped \subseteq Nat /\ \A k \in DOMAIN confirmed : confirmed[k] \in Nat
  BY StreamsTyped DEF Streams
<1>4. client'.cur <= engine'.gen
  BY <1>1, <1>2, <1>3 DEF StreamsInOrder
<1>5. \A d \in dropped' : d <= engine'.gen /\ (client'.cur # 0 => d < client'.cur)
  <2> SUFFICES ASSUME NEW d \in dropped
               PROVE  d <= engine'.gen /\ (client.cur # 0 => d < client.cur)
    BY <1>2
  <2>1. d <= engine.gen /\ (client.cur # 0 => d < client.cur)
    BY DEF StreamsInOrder
  <2>. QED BY <1>1, <1>3, <2>1
<1>6. \A k \in DOMAIN confirmed' :
        /\ confirmed'[k] <= engine'.gen
        /\ client'.pending # 0 => confirmed'[k] < client'.pending
  BY <1>1, <1>2, <1>3 DEF StreamsInOrder
<1>7. ASSUME NEW j \in DOMAIN toClient', NEW g \in Generation,
             toClient'[j] = <<"tts_start", g>>
      PROVE  /\ client'.cur < g /\ g <= engine'.gen
             /\ \A d \in dropped' : d < g
             /\ \A k \in DOMAIN confirmed' : confirmed'[k] < g
             /\ \A i \in 1 .. (j - 1) : \A h \in Generation :
                  toClient'[i] = <<"tts_start", h>> => h < g
  <2>1. g \in Nat
    BY DEF Generation
  <2>2. CASE j \in DOMAIN toClient
    <3>1. toClient[j] = <<"tts_start", g>>
      BY <1>1, <1>7, <2>2, Inflight
    <3>2. /\ client.cur < g /\ g <= engine.gen
          /\ \A d \in dropped : d < g
          /\ \A k \in DOMAIN confirmed : confirmed[k] < g
          /\ \A i \in 1 .. (j - 1) : \A h \in Generation :
               toClient[i] = <<"tts_start", h>> => h < g
      BY <2>2, <3>1 DEF StreamsInOrder
    <3>3. \A i \in 1 .. (j - 1) : toClient'[i] = toClient[i]
      BY <1>1, <2>2, Inflight
    <3>. HIDE DEF Generation
    <3>4. g <= engine'.gen
      BY <1>1, <1>3, <2>1, <3>2
    <3>. QED BY <1>2, <3>2, <3>3, <3>4
  <2>3. CASE j \in New
    <3>1. j = Len(toClient') /\ g = engine.gen + 1 /\ engine'.gen = g
      BY <1>1, <1>7, <2>3 DEF NewStarts
    <3>2. ASSUME NEW i \in 1 .. (j - 1), NEW h \in Generation,
                 toClient'[i] = <<"tts_start", h>>
          PROVE  h < g
      <4>1. i \in DOMAIN toClient' /\ i # Len(toClient')
        BY <1>1, <3>1, Inflight
      <4>2. i \in DOMAIN toClient
        BY <1>1, <3>2, <4>1, Inflight DEF NewStarts
      <4>3. h <= engine.gen
        BY <1>1, <3>2, <4>2, Inflight DEF StreamsInOrder
      <4>. QED BY <1>3, <3>1, <4>3 DEF Generation
    <3>. QED BY <1>2, <1>3, <3>1, <3>2 DEF StreamsInOrder
  <2>. QED BY <1>1, <2>2, <2>3, Inflight
<1>. QED BY <1>4, <1>5, <1>6, <1>7 DEF StreamsInOrder

LEMMA EngineKeepsFrames ==
  ASSUME TypeOK, TypeOK', Sends, StreamsInOrder, FramesFollowStarts
  PROVE  FramesFollowStarts'
<1>1. /\ Told /\ NewStarts /\ NewFrames /\ engine.gen <= engine'.gen
      /\ engine'.worker /\ engine'.alive => Works
  BY NewMessages
<1>2. UNCHANGED <<client, heard, confirmed, dropped>> /\ engine'.alive = engine.alive
  BY <1>1 DEF Told
<1>3. engine.gen \in Nat /\ engine'.gen \in Nat /\ client.cur \in Nat
  BY StreamsTyped DEF Streams
<1>4. ASSUME NEW g, NEW j \in Nat, NEW k \in Nat, j <= Len(toClient) + 1, j <= k,
             Announced(g, j)
      PROVE  Announced(g, k)'
  <2>1. \A i \in 1 .. (j - 1) : i \in 1 .. (k - 1) /\ toClient'[i] = toClient[i]
    BY <1>1, <1>4, Inflight
  <2>. QED BY <1>2, <1>4, <2>1 DEF Announced
<1>5. ASSUME engine'.worker, engine'.alive
      PROVE  Announced(engine.gen, Len(toClient) + 1)'
  <2>0. Len(toClient) \in Nat /\ Len(toClient') \in Nat /\ Len(toClient) <= Len(toClient')
    BY <1>1, Inflight DEF Told
  <2>1. CASE engine.worker /\ engine'.gen = engine.gen
    <3>1. Announced(engine.gen, Len(toClient) + 1)
      BY <1>2, <1>5, <2>1 DEF FramesFollowStarts
    <3>. QED BY <2>0, <2>1, <3>1, <1>1, <1>2, Inflight DEF Announced
  <2>2. CASE Len(toClient) < Len(toClient')
             /\ toClient'[Len(toClient')] = <<"tts_start", engine'.gen>>
    <3>1. Len(toClient') \in 1 .. (Len(toClient') + 1 - 1)
      BY <2>0, <2>2
    <3>. QED BY <2>2, <3>1 DEF Announced
  <2>. QED BY <1>1, <1>5, <2>1, <2>2 DEF Works
<1>6. ASSUME NEW j \in DOMAIN toClient', NEW g \in Generation, NEW n \in 1 .. MaxFrames,
             toClient'[j] = Audio(g, n)
      PROVE  /\ client'.cur <= g /\ g <= engine'.gen
             /\ Announced(g, j)'
             /\ \A i \in 1 .. (j - 1) : \A h \in Generation :
                  toClient'[i] = <<"tts_start", h>> => h <= g
  <2>1. j \in Nat /\ g \in Nat
    BY <1>1, Inflight DEF Generation
  <2>2. CASE j \in DOMAIN toClient
    <3>1. toClient[j] = Audio(g, n)
      BY <1>1, <1>6, <2>2, Inflight
    <3>2. /\ client.cur <= g /\ g <= engine.gen /\ Announced(g, j)
          /\ \A i \in 1 .. (j - 1) : \A h \in Generation :
               toClient[i] = <<"tts_start", h>> => h <= g
      BY <2>2, <3>1 DEF FramesFollowStarts
    <3>3. \A i \in 1 .. (j - 1) : toClient'[i] = toClient[i]
      BY <1>1, <2>2, Inflight
    <3>4. Announced(g, j)'
      BY <1>2, <3>2, <3>3 DEF Announced
    <3>. QED BY <1>1, <1>2, <1>3, <2>1, <3>2, <3>3, <3>4
  <2>3. CASE j \in New
    <3>1. /\ j = Len(toClient') /\ engine.worker /\ engine.alive
          /\ g = engine.gen /\ engine'.gen = g
      BY <1>1, <1>6, <2>3 DEF NewFrames
    <3>2. client.cur <= g
      BY <3>1 DEF StreamsInOrder
    <3>3. Announced(g, j)'
      <4>1. Announced(g, Len(toClient) + 1)
        BY <3>1 DEF FramesFollowStarts
      <4>2. \A i \in 1 .. (Len(toClient) + 1 - 1) : i \in 1 .. (j - 1) /\ toClient'[i] = toClient[i]
        BY <1>1, <2>1, <2>3, Inflight
      <4>. QED BY <1>2, <4>1, <4>2 DEF Announced
    <3>4. ASSUME NEW i \in 1 .. (j - 1), NEW h \in Generation,
                 toClient'[i] = <<"tts_start", h>>
          PROVE  h <= g
      <4>1. i \in DOMAIN toClient' /\ i # Len(toClient')
        BY <1>1, <3>1, Inflight
      <4>2. i \in DOMAIN toClient
        BY <1>1, <3>4, <4>1, Inflight DEF NewStarts
      <4>. QED BY <1>1, <3>1, <3>4, <4>2, Inflight DEF StreamsInOrder
    <3>. QED BY <1>2, <1>3, <3>1, <3>2, <3>3, <3>4
  <2>. QED BY <1>1, <2>2, <2>3, Inflight
<1>. QED BY <1>5, <1>6 DEF FramesFollowStarts

LEMMA EngineKeepsSettled ==
  ASSUME TypeOK, TypeOK', Sends, FramesAreSettled
  PROVE  FramesAreSettled'
<1>1. /\ Told /\ NewFrames /\ (engine'.worker /\ engine'.alive => Works)
  BY NewMessages
<1>2. /\ UNCHANGED <<client, heard, confirmed, dropped>> /\ engine'.alive = engine.alive
      /\ Len(toClient) \in Nat /\ Len(toClient') \in Nat /\ Len(toClient) <= Len(toClient')
  BY <1>1, Inflight DEF Told
<1>3. engine.sent \in Nat /\ engine'.sent \in Nat
  BY StreamsTyped DEF Streams
\* What was settled stays so, also when what is new is neither a state to speak
\* nor the stream again.
<1>4. ASSUME NEW g, NEW m, NEW j \in Nat, j <= Len(toClient) + 1, Settled(g, m, j),
             NEW k \in Nat, j <= k,
             \A l \in j .. (k - 1) :
               toClient'[l] # Speaking /\ toClient'[l] # <<"tts_start", g>>
      PROVE  Settled(g, m, k)'
  <2>1. \A i \in 1 .. (j - 1) : i \in 1 .. (k - 1) /\ toClient'[i] = toClient[i]
    BY <1>1, <1>4, Inflight
  <2>2. Taken(g, m)' = Taken(g, m)
    BY <1>2 DEF Taken
  <2>3. CASE \E i \in 1 .. (j - 1) :
               /\ toClient[i] = Audio(g, m)
               /\ \A l \in i .. (j - 1) : toClient[l] # Speaking
    <3>1. PICK i \in 1 .. (j - 1) : /\ toClient[i] = Audio(g, m)
                                    /\ \A l \in i .. (j - 1) : toClient[l] # Speaking
      BY <2>3
    <3>2. i \in 1 .. (k - 1) /\ toClient'[i] = Audio(g, m)
      BY <2>1, <3>1
    <3>3. \A l \in i .. (k - 1) : toClient'[l] # Speaking
      <4> SUFFICES ASSUME NEW l \in i .. (k - 1) PROVE toClient'[l] # Speaking
        OBVIOUS
      <4>1. CASE l <= j - 1
        BY <1>4, <2>1, <3>1, <4>1
      <4>2. CASE j <= l
        BY <1>4, <4>2
      <4>. QED BY <1>4, <4>1, <4>2
    <3>. QED BY <3>2, <3>3 DEF Settled
  <2>4. CASE /\ \A l \in 1 .. (j - 1) : toClient[l] # Speaking /\ toClient[l] # <<"tts_start", g>>
             /\ Taken(g, m) \/ client.state # "speaking" \/ client.cur # g
    <3>1. \A l \in 1 .. (k - 1) : toClient'[l] # Speaking /\ toClient'[l] # <<"tts_start", g>>
      <4> SUFFICES ASSUME NEW l \in 1 .. (k - 1)
                   PROVE  toClient'[l] # Speaking /\ toClient'[l] # <<"tts_start", g>>
        OBVIOUS
      <4>1. CASE l <= j - 1
        BY <1>4, <2>1, <2>4, <4>1
      <4>2. CASE j <= l
        BY <1>4, <4>2
      <4>. QED BY <1>4, <4>1, <4>2
    <3>. QED BY <1>2, <2>2, <2>4, <3>1 DEF Settled
  <2>. QED BY <1>4, <2>3, <2>4 DEF Settled
\* The new frame, after the state before the first.
<1>5. ASSUME NEW g, engine.worker, engine.alive, g = engine.gen,
             NEW m \in 1 .. engine.sent, NEW k \in Nat, Len(toClient) + 1 <= k,
             \A l \in (Len(toClient) + 1) .. (k - 1) :
               toClient'[l] # Speaking /\ toClient'[l] # <<"tts_start", g>>
      PROVE  Settled(g, m, k)'
  <2>1. Settled(g, m, Len(toClient) + 1)
    BY <1>5 DEF FramesAreSettled
  <2> DEFINE j == Len(toClient) + 1
  <2>2. j \in Nat /\ j <= Len(toClient) + 1 /\ j <= k
    BY <1>2, <1>5
  <2>3. \A l \in j .. (k - 1) :
          toClient'[l] # Speaking /\ toClient'[l] # <<"tts_start", g>>
    BY <1>5
  <2>4. Settled(g, m, j)
    BY <2>1
  <2>. HIDE DEF j
  <2>. QED BY <1>4, <2>2, <2>3, <2>4
<1>6. ASSUME engine'.worker, engine'.alive, NEW m \in 1 .. engine'.sent,
             NEW g, g = engine'.gen, NEW k, k = Len(toClient') + 1
      PROVE  Settled(g, m, k)'
  <2>0. k \in Nat /\ Len(toClient) + 1 <= k /\ engine.alive /\ k - 1 = Len(toClient')
    BY <1>2, <1>6
  <2>1. CASE /\ engine.worker /\ engine'.gen = engine.gen /\ engine'.sent = engine.sent
             /\ \A l \in New : toClient'[l] \in Aside
    <3>1. \A l \in (Len(toClient) + 1) .. (k - 1) :
            toClient'[l] # Speaking /\ toClient'[l] # <<"tts_start", g>>
      <4> SUFFICES ASSUME NEW l \in (Len(toClient) + 1) .. (k - 1)
                   PROVE  toClient'[l] # Speaking /\ toClient'[l] # <<"tts_start", g>>
        OBVIOUS
      <4>1. l \in New
        BY <2>0 DEF New
      <4>. QED BY <2>1, <4>1, AsideIsQuiet
    <3>. QED BY <1>5, <1>6, <2>0, <2>1, <3>1
  <2>2. CASE engine'.sent = 0
    BY <1>6, <2>2
  <2>3. CASE /\ engine.worker /\ Len(toClient) < Len(toClient')
             /\ engine'.gen = engine.gen /\ engine'.sent = engine.sent + 1
             /\ toClient'[Len(toClient')] = Audio(engine.gen, engine.sent + 1)
             /\ \A i \in BeforeLast : engine.sent = 0
    <3>0. toClient'[k - 1] = Audio(g, engine.sent + 1)
      BY <1>6, <2>0, <2>3
    <3>1. CASE m = engine.sent + 1
      <4>1. k - 1 \in 1 .. (k - 1) /\ \A l \in (k - 1) .. (k - 1) : l = k - 1
        BY <1>2, <2>0, <2>3
      <4>2. toClient'[k - 1] # Speaking
        BY <3>0, Distinct
      <4>3. /\ toClient'[k - 1] = Audio(g, m)
            /\ \A l \in (k - 1) .. (k - 1) : toClient'[l] # Speaking
        BY <3>0, <3>1, <4>1, <4>2
      <4>4. \E i \in 1 .. (k - 1) :
              /\ toClient'[i] = Audio(g, m)
              /\ \A l \in i .. (k - 1) : toClient'[l] # Speaking
        BY <4>1, <4>3
      <4>. QED BY <4>4 DEF Settled
    <3>2. CASE m \in 1 .. engine.sent
      <4>1. \A l \in (Len(toClient) + 1) .. (k - 1) : l = k - 1
        BY <1>2, <1>3, <2>0, <2>3, <3>2 DEF BeforeLast
      <4>2. Audio(g, engine.sent + 1) # Speaking /\ Audio(g, engine.sent + 1) # <<"tts_start", g>>
        BY Distinct
      <4>3. \A l \in (Len(toClient) + 1) .. (k - 1) :
              toClient'[l] # Speaking /\ toClient'[l] # <<"tts_start", g>>
        BY <3>0, <4>1, <4>2
      <4>. QED BY <1>5, <1>6, <2>0, <2>3, <3>2, <4>3
    <3>. QED BY <1>3, <1>6, <2>3, <3>1, <3>2
  <2>. QED BY <1>1, <1>6, <2>1, <2>2, <2>3 DEF Works
<1>7. ASSUME NEW j \in DOMAIN toClient', NEW g \in Generation, NEW n \in 1 .. MaxFrames,
             toClient'[j] = Audio(g, n), NEW m \in 1 .. (n - 1)
      PROVE  Settled(g, m, j)'
  <2>1. CASE j \in DOMAIN toClient
    <3>1. toClient[j] = Audio(g, n) /\ j \in Nat /\ j <= Len(toClient) + 1
      BY <1>1, <1>7, <2>1, Inflight
    <3>2. Settled(g, m, j)
      BY <2>1, <3>1 DEF FramesAreSettled
    <3>3. \A l \in j .. (j - 1) : FALSE
      BY <3>1
    <3>. QED BY <1>4, <3>1, <3>2, <3>3
  <2>2. CASE j \in New
    <3>1. /\ j = Len(toClient') /\ engine.worker /\ engine.alive
          /\ g = engine.gen /\ n = engine.sent + 1
          /\ \A i \in BeforeLast : engine.sent = 0
      BY <1>1, <1>7, <2>2 DEF NewFrames
    <3>2. m \in 1 .. engine.sent
      BY <1>3, <3>1
    <3>3. \A l \in (Len(toClient) + 1) .. (j - 1) : FALSE
      BY <1>2, <1>3, <3>1, <3>2 DEF BeforeLast
    <3>4. j \in Nat /\ Len(toClient) + 1 <= j
      BY <1>2, <2>2 DEF New
    <3>. QED BY <1>5, <3>1, <3>2, <3>3, <3>4
  <2>. QED BY <1>1, <2>1, <2>2, Inflight
<1>8. engine'.worker /\ engine'.alive =>
        \A m \in 1 .. engine'.sent : Settled(engine.gen, m, Len(toClient) + 1)'
  BY <1>6
<1>. QED BY <1>7, <1>8 DEF FramesAreSettled

-----------------------------------------------------------------------------
(* What a step of the client, a lost connection and an end of the session   *)
(* do to the streams: they take the first o messages in flight, or none, and *)
(* may lose the last ones with the engine.                                  *)

Handles(o, m) == o = 1 /\ 1 <= Len(toClient) /\ toClient[1] = m

Confirms(o) ==
  \/ /\ confirmed' = confirmed
     /\ client'.pending # 0 => \/ client'.pending = client.pending
                               \/ Handles(o, <<"tts_start", client'.pending>>)
  \/ /\ client.pending # 0 /\ client.pending = client.cur
     /\ client'.pending = 0 /\ client'.cur = client.cur
     /\ confirmed' = Append(confirmed, client.pending)

Advance(o) ==
  /\ o \in {0, 1} /\ Len(toClient') + o <= Len(toClient)
  /\ \A j \in DOMAIN toClient' : toClient'[j] = toClient[j + o]
  /\ engine'.gen = engine.gen /\ engine'.worker = engine.worker /\ engine'.sent = engine.sent
  /\ engine'.alive => engine.alive /\ Len(toClient') + o = Len(toClient)
  /\ \/ client'.cur = client.cur /\ dropped' = dropped
     \/ client'.cur = 0 /\ dropped' = dropped \cup ({client.cur} \ {0})
     \/ Handles(o, <<"tts_start", client'.cur>>) /\ dropped' = dropped
  /\ \A g : Handles(o, <<"tts_start", g>>) => client'.cur = g
  /\ client'.state = "speaking" => client.state = "speaking" \/ Handles(o, Speaking)
  /\ \A g, n : Handles(o, Audio(g, n)) =>
       Taken(g, n)' \/ client'.state # "speaking" \/ client'.cur = 0
  /\ \A g, n : Taken(g, n) => Taken(g, n)' \/ client'.cur = 0
  /\ Confirms(o)

LEMMA Slices ==
  ASSUME TypeOK, TypeOK', NEW o, Advance(o)
  PROVE  /\ o \in {0, 1} /\ Len(toClient) \in Nat /\ Len(toClient') \in Nat
         /\ DOMAIN toClient = 1 .. Len(toClient)
         /\ DOMAIN toClient' = 1 .. Len(toClient')
         /\ \A j \in DOMAIN toClient' : /\ j + o \in DOMAIN toClient /\ j \in Nat
                                        /\ toClient'[j] = toClient[j + o]
                                        /\ \A i \in 1 .. (j - 1) : i \in DOMAIN toClient'
<1>1. /\ Len(toClient) \in Nat /\ Len(toClient') \in Nat
      /\ DOMAIN toClient = 1 .. Len(toClient)
      /\ DOMAIN toClient' = 1 .. Len(toClient')
  BY StreamsTyped DEF Streams
<1>2. o \in {0, 1} /\ Len(toClient') + o <= Len(toClient)
      /\ \A j \in DOMAIN toClient' : toClient'[j] = toClient[j + o]
  BY DEF Advance
<1>. QED BY <1>1, <1>2

LEMMA InflightTyped ==
  ASSUME TypeOK, NEW j \in DOMAIN toClient
  PROVE  /\ \A g : toClient[j] = <<"tts_start", g>> => g \in Generation
         /\ \A g, n : toClient[j] = Audio(g, n) => g \in Generation /\ n \in 1 .. MaxFrames
<1>1. toClient[j] \in Message
  BY DEF TypeOK
<1>. QED BY <1>1 DEF Message, Audio, Frame

LEMMA Ordered ==
  ASSUME StreamsInOrder, NEW k \in DOMAIN toClient, NEW g \in Generation,
         toClient[k] = <<"tts_start", g>>
  PROVE  /\ client.cur < g /\ g <= engine.gen
         /\ \A d \in dropped : d < g
         /\ \A l \in DOMAIN confirmed : confirmed[l] < g
         /\ \A i \in 1 .. (k - 1) : \A h \in Generation :
              toClient[i] = <<"tts_start", h>> => h < g
BY DEF StreamsInOrder

LEMMA AdvanceKeepsOrder ==
  ASSUME TypeOK, TypeOK', NEW o, Advance(o), StreamsInOrder, ConfirmedOnce
  PROVE  StreamsInOrder' /\ ConfirmedOnce'
<1> HIDE DEF Generation
<1>0. Generation \subseteq Nat /\ 0 \notin Generation
  BY DEF Generation
<1>1. /\ engine.gen \in Nat /\ client.cur \in Nat /\ client.pending \in {0, client.cur}
      /\ client'.cur \in Nat /\ client'.pending \in {0, client'.cur}
      /\ dropped \subseteq Nat /\ dropped' \subseteq Nat
      /\ confirmed \in Seq(Nat) /\ \A k \in DOMAIN confirmed : confirmed[k] \in Nat
      /\ engine'.gen = engine.gen
  BY StreamsTyped DEF Streams, Advance
<1>2. ASSUME NEW g, Handles(o, <<"tts_start", g>>)
      PROVE  /\ g \in Generation /\ client.cur < g /\ g <= engine.gen
             /\ \A d \in dropped : d < g
             /\ \A k \in DOMAIN confirmed : confirmed[k] < g
             /\ \A j \in DOMAIN toClient' : \A h \in Generation :
                  toClient'[j] = <<"tts_start", h>> => g < h
  <2>1. 1 \in DOMAIN toClient /\ toClient[1] = <<"tts_start", g>> /\ o = 1
    BY <1>2, Slices DEF Handles
  <2>2. g \in Generation
    BY <2>1, InflightTyped
  <2>3. ASSUME NEW j \in DOMAIN toClient', NEW h \in Generation,
               toClient'[j] = <<"tts_start", h>>
        PROVE  g < h
    <3>1. j + 1 \in DOMAIN toClient /\ toClient[j + 1] = <<"tts_start", h>>
          /\ 1 \in 1 .. (j + 1 - 1)
      BY <2>1, <2>3, Slices
    <3> DEFINE k == j + 1
    <3>2. k \in DOMAIN toClient /\ toClient[k] = <<"tts_start", h>> /\ 1 \in 1 .. (k - 1)
      <4>1. j \in Nat /\ j >= 1 /\ k \in Nat /\ k - 1 = j
        BY Slices
      <4>. QED BY <3>1, <4>1
    <3>. HIDE DEF k
    <3>. QED BY <2>1, <2>2, <3>2, Ordered
  <2>. QED BY <2>1, <2>2, <2>3 DEF StreamsInOrder
<1>3. /\ client'.cur <= engine'.gen
      /\ \A d \in dropped' : d <= engine'.gen /\ (client'.cur # 0 => d < client'.cur)
  <2>0. client.cur <= engine.gen
        /\ \A d \in dropped : d <= engine.gen /\ (client.cur # 0 => d < client.cur)
    BY DEF StreamsInOrder
  <2>1. CASE client'.cur = client.cur /\ dropped' = dropped
    BY <1>1, <2>0, <2>1
  <2>2. CASE client'.cur = 0 /\ dropped' = dropped \cup ({client.cur} \ {0})
    BY <1>1, <2>0, <2>2
  <2>3. CASE Handles(o, <<"tts_start", client'.cur>>) /\ dropped' = dropped
    BY <1>1, <1>2, <2>0, <2>3
  <2>. QED BY <2>1, <2>2, <2>3 DEF Advance
<1>4. ASSUME NEW j \in DOMAIN toClient', NEW g \in Generation,
             toClient'[j] = <<"tts_start", g>>
      PROVE  /\ client'.cur < g /\ g <= engine'.gen
             /\ \A d \in dropped' : d < g
             /\ \A i \in 1 .. (j - 1) : \A h \in Generation :
                  toClient'[i] = <<"tts_start", h>> => h < g
             /\ \A k \in DOMAIN confirmed : confirmed[k] < g
  <2>1. j + o \in DOMAIN toClient /\ toClient[j + o] = <<"tts_start", g>>
    BY <1>4, Slices
  <2>2. /\ client.cur < g /\ g <= engine.gen
        /\ \A d \in dropped : d < g
        /\ \A k \in DOMAIN confirmed : confirmed[k] < g
        /\ \A i \in 1 .. (j + o - 1) : \A h \in Generation :
             toClient[i] = <<"tts_start", h>> => h < g
    <3> DEFINE k == j + o
    <3>1. k \in DOMAIN toClient /\ toClient[k] = <<"tts_start", g>>
      BY <2>1
    <3>. HIDE DEF k
    <3>2. /\ client.cur < g /\ g <= engine.gen
          /\ \A d \in dropped : d < g
          /\ \A l \in DOMAIN confirmed : confirmed[l] < g
          /\ \A i \in 1 .. (k - 1) : \A h \in Generation :
               toClient[i] = <<"tts_start", h>> => h < g
      BY <3>1, Ordered
    <3>3. k - 1 = j + o - 1
      BY Slices DEF k
    <3>. QED BY <3>2, <3>3
  <2>3. client'.cur < g /\ \A d \in dropped' : d < g
    <3>1. CASE client'.cur = client.cur /\ dropped' = dropped
      BY <2>2, <3>1
    <3>2. CASE client'.cur = 0 /\ dropped' = dropped \cup ({client.cur} \ {0})
      BY <1>0, <1>1, <2>2, <3>2
    <3>3. CASE Handles(o, <<"tts_start", client'.cur>>) /\ dropped' = dropped
      BY <1>2, <1>4, <2>2, <3>3
    <3>. QED BY <3>1, <3>2, <3>3 DEF Advance
  <2>4. ASSUME NEW i \in 1 .. (j - 1), NEW h \in Generation,
               toClient'[i] = <<"tts_start", h>>
        PROVE  h < g
    <3>1. i + o \in 1 .. (j + o - 1) /\ toClient[i + o] = <<"tts_start", h>>
      <4>1. j \in Nat /\ o \in {0, 1} /\ i \in DOMAIN toClient'
        BY Slices
      <4>2. toClient[i + o] = <<"tts_start", h>>
        BY <2>4, <4>1, Slices
      <4>. QED BY <4>1, <4>2
    <3>. QED BY <2>2, <3>1
  <2>. QED BY <1>1, <2>2, <2>3, <2>4
<1>5. CASE /\ confirmed' = confirmed
           /\ client'.pending # 0 => \/ client'.pending = client.pending
                                     \/ Handles(o, <<"tts_start", client'.pending>>)
  <2>1. \A k \in DOMAIN confirmed : confirmed[k] <= engine.gen
        /\ (client.pending # 0 => confirmed[k] < client.pending)
    BY DEF StreamsInOrder
  <2>2. \A k \in DOMAIN confirmed' : confirmed'[k] <= engine'.gen
        /\ (client'.pending # 0 => confirmed'[k] < client'.pending)
    BY <1>1, <1>2, <1>5, <2>1
  <2>3. StreamsInOrder'
    BY <1>3, <1>4, <1>5, <2>2 DEF StreamsInOrder
  <2>. QED BY <1>5, <2>3 DEF ConfirmedOnce
<1>6. CASE /\ client.pending # 0 /\ client.pending = client.cur
           /\ client'.pending = 0 /\ client'.cur = client.cur
           /\ confirmed' = Append(confirmed, client.pending)
  <2>1. /\ Len(confirmed) \in Nat /\ DOMAIN confirmed = 1 .. Len(confirmed)
        /\ DOMAIN confirmed' = 1 .. (Len(confirmed) + 1)
        /\ \A k \in 1 .. Len(confirmed) : confirmed'[k] = confirmed[k]
        /\ confirmed'[Len(confirmed) + 1] = client.cur
    BY <1>1, <1>6
  <2>2. \A k \in DOMAIN confirmed : confirmed[k] <= engine.gen /\ confirmed[k] < client.cur
    BY <1>6 DEF StreamsInOrder
  <2>3. \A k \in DOMAIN confirmed' : k \in DOMAIN confirmed \/ k = Len(confirmed) + 1
    BY <2>1
  <2>4. \A k \in DOMAIN confirmed' : confirmed'[k] <= engine'.gen
    <3>1. client.cur <= engine.gen
      BY DEF StreamsInOrder
    <3>. QED BY <1>1, <2>1, <2>2, <2>3, <3>1
  <2>5. ASSUME NEW j \in DOMAIN toClient', NEW g \in Generation,
               toClient'[j] = <<"tts_start", g>>, NEW k \in DOMAIN confirmed'
        PROVE  confirmed'[k] < g
    BY <1>4, <1>6, <2>1, <2>3, <2>5
  <2>6. StreamsInOrder'
    BY <1>3, <1>4, <1>6, <2>4, <2>5 DEF StreamsInOrder
  <2>7. ASSUME NEW i \in DOMAIN confirmed', NEW j \in DOMAIN confirmed', i < j
        PROVE  confirmed'[i] < confirmed'[j]
    <3>1. i \in 1 .. Len(confirmed)
      BY <2>1, <2>7
    <3>2. CASE j \in 1 .. Len(confirmed)
      BY <2>1, <2>7, <3>1, <3>2 DEF ConfirmedOnce
    <3>3. CASE j = Len(confirmed) + 1
      BY <2>1, <2>2, <3>1, <3>3
    <3>. QED BY <2>1, <3>2, <3>3
  <2>. QED BY <2>6, <2>7 DEF ConfirmedOnce
<1>. QED BY <1>5, <1>6 DEF Advance, Confirms

\* A stream that was announced to the client stays so, while nothing later is.
LEMMA StaysAnnounced ==
  ASSUME TypeOK, TypeOK', NEW o, Advance(o), NEW g \in Generation,
         NEW j \in Nat, NEW k \in Nat, k = j + o, j <= Len(toClient') + 1, 1 <= j,
         Announced(g, k),
         \A h : Handles(o, <<"tts_start", h>>) => client.cur < h /\ h <= g
  PROVE  Announced(g, j)'
<1>1. /\ client.cur \in Nat /\ Len(toClient') \in Nat /\ g \in Nat /\ g # 0
      /\ o \in {0, 1} /\ DOMAIN toClient' = 1 .. Len(toClient')
      /\ \A i \in DOMAIN toClient' : toClient'[i] = toClient[i + o]
      /\ Len(toClient') + o <= Len(toClient) /\ Len(toClient) \in Nat
  BY StreamsTyped DEF Streams, Advance, Generation
<1>2. CASE client.cur = g
  <2>1. CASE client'.cur = client.cur
    BY <1>2, <2>1 DEF Announced
  <2>2. CASE client'.cur = 0 /\ dropped' = dropped \cup ({client.cur} \ {0})
    BY <1>1, <1>2, <2>2 DEF Announced
  <2>3. CASE Handles(o, <<"tts_start", client'.cur>>)
    <3>1. client.cur < client'.cur /\ client'.cur <= g /\ client'.cur \in Nat
      BY <2>3, StreamsTyped DEF Streams
    <3>. QED BY <1>1, <1>2, <3>1
  <2>. QED BY <2>1, <2>2, <2>3 DEF Advance
<1>3. CASE g \in dropped
  BY <1>3 DEF Announced, Advance
<1>4. CASE \E i \in 1 .. (k - 1) : toClient[i] = <<"tts_start", g>>
  <2>1. PICK i \in 1 .. (k - 1) : toClient[i] = <<"tts_start", g>>
    BY <1>4
  <2>2. CASE i - o \in 1 .. (j - 1)
    <3>1. i - o \in DOMAIN toClient' /\ (i - o) + o = i
      BY <1>1, <2>1, <2>2
    <3>2. toClient'[i - o] = toClient[(i - o) + o]
      BY <1>1, <3>1
    <3>. QED BY <2>1, <2>2, <3>1, <3>2 DEF Announced
  <2>3. CASE i - o \notin 1 .. (j - 1)
    <3>1. i = 1 /\ o = 1
      BY <1>1, <2>1, <2>3
    <3>2. Handles(o, <<"tts_start", g>>)
      BY <1>1, <2>1, <3>1 DEF Handles
    <3>. QED BY <3>2 DEF Announced, Advance
  <2>. QED BY <2>2, <2>3
<1>. QED BY <1>2, <1>3, <1>4 DEF Announced

LEMMA AdvanceKeepsFrames ==
  ASSUME TypeOK, TypeOK', NEW o, Advance(o), StreamsHaveGenerations, StreamsInOrder,
         FramesFollowStarts
  PROVE  FramesFollowStarts'
<1>1. /\ engine.gen \in Nat /\ client.cur \in Nat /\ client'.cur \in Nat
      /\ engine'.gen = engine.gen /\ engine'.worker = engine.worker
      /\ engine'.alive => engine.alive /\ Len(toClient') + o = Len(toClient)
  BY StreamsTyped DEF Streams, Advance
<1>2. ASSUME NEW h, Handles(o, <<"tts_start", h>>)
      PROVE  /\ o = 1 /\ h \in Generation /\ toClient[1] = <<"tts_start", h>>
             /\ 1 \in DOMAIN toClient /\ client.cur < h /\ h <= engine.gen
  <2>1. 1 \in DOMAIN toClient /\ toClient[1] = <<"tts_start", h>> /\ o = 1
    BY <1>2, Slices DEF Handles
  <2>2. h \in Generation
    BY <2>1, InflightTyped
  <2>. QED BY <2>1, <2>2, Ordered
<1>3. ASSUME engine'.worker, engine'.alive, NEW g, g = engine'.gen,
             NEW j, j = Len(toClient') + 1
      PROVE  Announced(g, j)'
  <2>1. /\ j \in Nat /\ 1 <= j /\ j <= Len(toClient') + 1
        /\ j + o \in Nat /\ j + o = Len(toClient) + 1
    BY <1>1, <1>3, Slices
  <2>2. Announced(g, j + o)
    BY <1>1, <1>3, <2>1 DEF FramesFollowStarts
  <2>3. \A h : Handles(o, <<"tts_start", h>>) => client.cur < h /\ h <= g
    BY <1>1, <1>2, <1>3
  <2>4. g \in Generation
    BY <1>1, <1>3 DEF StreamsHaveGenerations, Generation
  <2>5. PICK k \in Nat : k = j + o
    BY <2>1
  <2>. QED BY <2>1, <2>2, <2>3, <2>4, <2>5, StaysAnnounced
<1>4. engine'.worker /\ engine'.alive => Announced(engine.gen, Len(toClient) + 1)'
  BY <1>3
<1>5. ASSUME NEW j \in DOMAIN toClient', NEW g \in Generation, NEW n \in 1 .. MaxFrames,
             toClient'[j] = Audio(g, n)
      PROVE  /\ client'.cur <= g /\ g <= engine'.gen
             /\ Announced(g, j)'
             /\ \A i \in 1 .. (j - 1) : \A h \in Generation :
                  toClient'[i] = <<"tts_start", h>> => h <= g
  <2> DEFINE k == j + o
  <2>1. /\ k \in DOMAIN toClient /\ toClient[k] = Audio(g, n) /\ j \in Nat /\ 1 <= j
        /\ o \in {0, 1} /\ k \in Nat /\ j <= Len(toClient') + 1 /\ g \in Nat
        /\ k = j + o
    BY <1>5, Slices DEF Generation
  <2>. HIDE DEF k
  <2>2. /\ client.cur <= g /\ g <= engine.gen /\ Announced(g, k)
        /\ \A i \in 1 .. (k - 1) : \A h \in Generation :
             toClient[i] = <<"tts_start", h>> => h <= g
    BY <2>1 DEF FramesFollowStarts
  <2>3. \A h : Handles(o, <<"tts_start", h>>) => client.cur < h /\ h <= g
    <3> SUFFICES ASSUME NEW h, Handles(o, <<"tts_start", h>>)
                 PROVE  client.cur < h /\ h <= g
      OBVIOUS
    <3>1. 1 \in 1 .. (k - 1)
      BY <1>2, <2>1
    <3>. QED BY <1>2, <2>2, <3>1
  <2>4. Announced(g, j)'
    BY <2>1, <2>2, <2>3, StaysAnnounced
  <2>5. client'.cur <= g
    BY <1>1, <2>1, <2>2, <2>3 DEF Advance
  <2>6. ASSUME NEW i \in 1 .. (j - 1), NEW h \in Generation, toClient'[i] = <<"tts_start", h>>
        PROVE  h <= g
    <3>1. i + o \in 1 .. (k - 1)
      BY <2>1
    <3>2. toClient[i + o] = <<"tts_start", h>>
      BY <2>6, Slices
    <3>. QED BY <2>2, <3>1, <3>2
  <2>. QED BY <1>1, <2>2, <2>4, <2>5, <2>6
<1>. QED BY <1>4, <1>5 DEF FramesFollowStarts

LEMMA AdvanceKeepsSettled ==
  ASSUME TypeOK, TypeOK', NEW o, Advance(o), StreamsHaveGenerations, StreamsInOrder,
         FramesFollowStarts, FramesAreSettled
  PROVE  FramesAreSettled'
<1>1. /\ engine.gen \in Nat /\ client.cur \in Nat /\ client'.cur \in Nat
      /\ engine'.gen = engine.gen /\ engine'.worker = engine.worker
      /\ engine'.sent = engine.sent
      /\ engine'.alive => engine.alive /\ Len(toClient') + o = Len(toClient)
      /\ dropped \subseteq Nat
  BY StreamsTyped DEF Streams, Advance
<1>2. ASSUME NEW g \in Generation, NEW m, NEW j \in Nat, NEW k \in Nat, k = j + o,
             1 <= j, j <= Len(toClient') + 1, Settled(g, m, k)
      PROVE  Settled(g, m, j)'
  <2>1. /\ o \in {0, 1} /\ Len(toClient) \in Nat /\ Len(toClient') \in Nat
        /\ Len(toClient') + o <= Len(toClient)
        /\ \A l \in 1 .. (j - 1) : l + o \in 1 .. (k - 1) /\ toClient'[l] = toClient[l + o]
    BY <1>2, Slices DEF Advance
  <2>2. CASE \E i \in 1 .. (k - 1) :
               /\ toClient[i] = Audio(g, m)
               /\ \A l \in i .. (k - 1) : toClient[l] # Speaking
    <3>1. PICK i \in 1 .. (k - 1) : /\ toClient[i] = Audio(g, m)
                                    /\ \A l \in i .. (k - 1) : toClient[l] # Speaking
      BY <2>2
    <3>2. \A l \in 1 .. (j - 1) : i - o <= l => toClient'[l] # Speaking
      <4> SUFFICES ASSUME NEW l \in 1 .. (j - 1), i - o <= l PROVE toClient'[l] # Speaking
        OBVIOUS
      <4>1. l + o \in i .. (k - 1)
        <5>1. o \in {0, 1} /\ i \in Int /\ k = j + o
          BY <1>2, <2>1
        <5>. QED BY <5>1
      <4>2. toClient[l + o] # Speaking
        BY <3>1, <4>1
      <4>. QED BY <2>1, <4>2
    <3>3. CASE i - o \in 1 .. (j - 1)
      <4>1. i - o + o = i
        BY <2>1
      <4>2. toClient'[i - o] = Audio(g, m)
        BY <2>1, <3>1, <3>3, <4>1
      <4>3. \A l \in (i - o) .. (j - 1) : toClient'[l] # Speaking
        BY <2>1, <3>2, <3>3
      <4>. QED BY <3>3, <4>2, <4>3 DEF Settled
    <3>4. CASE i - o \notin 1 .. (j - 1)
      <4>1. i = 1 /\ o = 1 /\ 1 <= Len(toClient)
        BY <1>2, <2>1, <3>1, <3>4
      <4>2. toClient[1] = Audio(g, m) /\ 1 \in DOMAIN toClient /\ Handles(o, Audio(g, m))
        BY <2>1, <3>1, <4>1, Slices DEF Handles
      <4>3. g \in Generation /\ m \in 1 .. MaxFrames
        BY <4>2, InflightTyped
      <4>4. client.cur = g \/ g \in dropped
        <5>1. Announced(g, 1)
          BY <4>2, <4>3 DEF FramesFollowStarts
        <5>. QED BY <5>1 DEF Announced
      <4>5. ASSUME NEW l \in 1 .. (j - 1), toClient'[l] = <<"tts_start", g>>
            PROVE  FALSE
        <5>1. l + o \in DOMAIN toClient /\ toClient[l + o] = <<"tts_start", g>>
          <6>1. l \in DOMAIN toClient' /\ toClient'[l] = toClient[l + o]
            <7>1. DOMAIN toClient' = 1 .. Len(toClient')
              BY Slices
            <7>2. Len(toClient') \in Nat /\ toClient'[l] = toClient[l + o]
              BY <2>1
            <7>3. l \in 1 .. Len(toClient')
              BY <1>2, <7>2
            <7>. QED BY <7>1, <7>2, <7>3
          <6>. QED BY <4>5, <6>1, Slices
        <5>2. client.cur < g /\ \A d \in dropped : d < g
          BY <4>3, <5>1, Ordered
        <5>. QED BY <1>1, <4>3, <4>4, <5>2 DEF Generation
      <4>6. \A l \in 1 .. (j - 1) : toClient'[l] # Speaking /\ toClient'[l] # <<"tts_start", g>>
        BY <3>2, <4>1, <4>5
      <4>7. Taken(g, m)' \/ client'.state # "speaking" \/ client'.cur # g
        BY <4>2, <4>3 DEF Advance, Generation
      <4>. QED BY <4>6, <4>7 DEF Settled
    <3>. QED BY <3>3, <3>4
  <2>3. CASE /\ \A l \in 1 .. (k - 1) : toClient[l] # Speaking /\ toClient[l] # <<"tts_start", g>>
             /\ Taken(g, m) \/ client.state # "speaking" \/ client.cur # g
    <3>1. \A l \in 1 .. (j - 1) : toClient'[l] # Speaking /\ toClient'[l] # <<"tts_start", g>>
      BY <2>1, <2>3
    <3>2. ~Handles(o, Speaking) /\ ~Handles(o, <<"tts_start", g>>)
      BY <1>2, <2>1, <2>3 DEF Handles
    <3>3. CASE client.state # "speaking"
      <4>1. client'.state # "speaking"
        BY <3>2, <3>3 DEF Advance
      <4>. QED BY <3>1, <4>1 DEF Settled
    <3>4. CASE client.cur # g
      <4>1. client'.cur # g
        BY <3>2, <3>4 DEF Advance, Generation
      <4>. QED BY <3>1, <4>1 DEF Settled
    <3>5. CASE Taken(g, m)
      <4>1. Taken(g, m)' \/ client'.cur # g
        BY <3>5 DEF Advance, Generation
      <4>. QED BY <3>1, <4>1 DEF Settled
    <3>. QED BY <2>3, <3>3, <3>4, <3>5
  <2>. QED BY <1>2, <2>2, <2>3 DEF Settled
<1>3. ASSUME engine'.worker, engine'.alive, NEW g, g = engine'.gen,
             NEW j, j = Len(toClient') + 1, NEW m \in 1 .. engine'.sent
      PROVE  Settled(g, m, j)'
  <2>1. /\ j \in Nat /\ 1 <= j /\ j <= Len(toClient') + 1
        /\ j + o \in Nat /\ j + o = Len(toClient) + 1
    BY <1>1, <1>3, Slices
  <2>2. Settled(g, m, j + o)
    BY <1>1, <1>3, <2>1 DEF FramesAreSettled
  <2>3. g \in Generation
    BY <1>1, <1>3 DEF StreamsHaveGenerations, Generation
  <2>4. PICK k \in Nat : k = j + o
    BY <2>1
  <2>. QED BY <1>2, <2>1, <2>2, <2>3, <2>4
<1>4. engine'.worker /\ engine'.alive =>
        \A m \in 1 .. engine'.sent : Settled(engine.gen, m, Len(toClient) + 1)'
  BY <1>3
<1>5. ASSUME NEW j \in DOMAIN toClient', NEW g \in Generation, NEW n \in 1 .. MaxFrames,
             toClient'[j] = Audio(g, n), NEW m \in 1 .. (n - 1)
      PROVE  Settled(g, m, j)'
  <2>1. PICK k : k = j + o
    OBVIOUS
  <2>2. /\ k \in DOMAIN toClient /\ toClient[k] = Audio(g, n) /\ j \in Nat /\ 1 <= j
        /\ k \in Nat /\ j <= Len(toClient') + 1
    BY <1>5, <2>1, Slices
  <2>3. Settled(g, m, k)
    BY <2>2 DEF FramesAreSettled
  <2>. QED BY <1>2, <2>1, <2>2, <2>3
<1>. QED BY <1>4, <1>5 DEF FramesAreSettled

\* How a step changes what is heard and what plays.
Plays ==
  \/ heard' = heard /\ client'.sounding = <<>>
  \/ heard' = heard /\ client'.sounding = client.sounding /\ dropped' = dropped
  \/ /\ client.sounding # <<>> /\ dropped' = dropped
     /\ heard' = heard \cup {Head(client.sounding)} /\ client'.sounding = Tail(client.sounding)
  \/ \E f \in Frame : /\ toClient # <<>> /\ toClient[1] = <<"audio", f>>
                      /\ client.state = "speaking" /\ client.cur # 0
                      /\ client'.sounding = Append(client.sounding, f)
                      /\ heard' = heard /\ dropped' = dropped

LEMMA PlaysKeepsHeard ==
  ASSUME TypeOK, StreamsInOrder, FramesFollowStarts, FramesAreSettled, HeardInOrder, Plays
  PROVE  HeardInOrder'
<1> DEFINE s == client.sounding
<1>1. /\ s \in Seq(Frame) /\ Len(s) \in Nat /\ DOMAIN s = 1 .. Len(s)
      /\ heard \subseteq Frame /\ client.cur \in Nat /\ dropped \subseteq Nat
      /\ DOMAIN toClient = 1 .. Len(toClient) /\ Len(toClient) \in Nat
      /\ toClient \in Seq(Message)
  BY StreamsTyped DEF Streams
<1>2. \A g \in Generation, n \in 1 .. MaxFrames : <<g, n>> \in heard =>
        \A m \in 1 .. (n - 1) : <<g, m>> \in heard
  BY DEF HeardInOrder
<1>3. \A j \in DOMAIN s : \A g \in Generation, n \in 1 .. MaxFrames : s[j] = <<g, n>> =>
         /\ g \notin dropped
         /\ \A m \in 1 .. (n - 1) :
              <<g, m>> \in heard \/ \E i \in 1 .. (j - 1) : s[i] = <<g, m>>
  BY DEF HeardInOrder
<1>4. CASE heard' = heard /\ client'.sounding = <<>>
  BY <1>2, <1>4 DEF HeardInOrder
<1>5. CASE heard' = heard /\ client'.sounding = s /\ dropped' = dropped
  <2>1. client'.sounding = client.sounding
    BY <1>5
  <2>2. \A j \in DOMAIN client'.sounding : \A g \in Generation, n \in 1 .. MaxFrames :
          client'.sounding[j] = <<g, n>> =>
            /\ g \notin dropped'
            /\ \A m \in 1 .. (n - 1) :
                 <<g, m>> \in heard' \/ \E i \in 1 .. (j - 1) : client'.sounding[i] = <<g, m>>
    <3>. HIDE DEF s
    <3>. QED BY <1>3, <1>5
  <2>3. \A g \in Generation, n \in 1 .. MaxFrames : <<g, n>> \in heard' =>
          \A m \in 1 .. (n - 1) : <<g, m>> \in heard'
    BY <1>2, <1>5
  <2>. QED BY <2>2, <2>3 DEF HeardInOrder
<1>6. CASE /\ s # <<>> /\ dropped' = dropped
           /\ heard' = heard \cup {Head(s)} /\ client'.sounding = Tail(s)
  <2> DEFINE t == client'.sounding
  <2>1. /\ DOMAIN t = 1 .. (Len(s) - 1) /\ 1 \in DOMAIN s /\ Head(s) = s[1]
        /\ \A j \in DOMAIN t : t[j] = s[j + 1] /\ j + 1 \in DOMAIN s
    <3>. HIDE DEF s
    <3>. QED BY <1>1, <1>6
  <2>. HIDE DEF s, t
  <2>2. ASSUME NEW g \in Generation, NEW n \in 1 .. MaxFrames, <<g, n>> \in heard',
               NEW m \in 1 .. (n - 1)
        PROVE  <<g, m>> \in heard'
    <3>1. CASE <<g, n>> \in heard
      BY <1>2, <1>6, <2>2, <3>1
    <3>2. CASE s[1] = <<g, n>>
      <4>1. <<g, m>> \in heard \/ \E i \in 1 .. (1 - 1) : s[i] = <<g, m>>
        BY <1>3, <2>1, <2>2, <3>2
      <4>. QED BY <1>6, <4>1
    <3>. QED BY <1>6, <2>1, <2>2, <3>1, <3>2
  <2>3. ASSUME NEW j \in DOMAIN t, NEW g \in Generation, NEW n \in 1 .. MaxFrames,
               t[j] = <<g, n>>, NEW m \in 1 .. (n - 1)
        PROVE  <<g, m>> \in heard' \/ \E i \in 1 .. (j - 1) : t[i] = <<g, m>>
    <3>1. PICK k \in DOMAIN s : k = j + 1
      BY <2>1
    <3>2. <<g, m>> \in heard \/ \E i \in 1 .. (k - 1) : s[i] = <<g, m>>
      <4>1. s[k] = <<g, n>>
        BY <2>1, <2>3, <3>1
      <4>. QED BY <1>3, <2>3, <3>1, <4>1
    <3>3. ASSUME NEW i \in 1 .. (k - 1), s[i] = <<g, m>>
          PROVE  <<g, m>> \in heard' \/ \E l \in 1 .. (j - 1) : t[l] = <<g, m>>
      <4>1. CASE i = 1
        BY <1>6, <2>1, <3>3, <4>1
      <4>2. CASE i # 1
        <5>1. i - 1 \in 1 .. (j - 1) /\ i - 1 \in DOMAIN t /\ (i - 1) + 1 = i
          BY <1>1, <2>1, <2>3, <3>1, <3>3, <4>2
        <5>2. t[i - 1] = <<g, m>>
          BY <2>1, <3>3, <5>1
        <5>. QED BY <5>1, <5>2
      <4>. QED BY <4>1, <4>2
    <3>. QED BY <1>6, <3>2, <3>3
  <2>4. \A j \in DOMAIN t : \A g \in Generation, n \in 1 .. MaxFrames :
          t[j] = <<g, n>> => g \notin dropped'
    BY <1>3, <1>6, <2>1
  <2>5. \A g \in Generation, n \in 1 .. MaxFrames : <<g, n>> \in heard' =>
          \A m \in 1 .. (n - 1) : <<g, m>> \in heard'
    BY <2>2
  <2>6. \A j \in DOMAIN t : \A g \in Generation, n \in 1 .. MaxFrames : t[j] = <<g, n>> =>
          /\ g \notin dropped'
          /\ \A m \in 1 .. (n - 1) :
               <<g, m>> \in heard' \/ \E i \in 1 .. (j - 1) : t[i] = <<g, m>>
    BY <2>3, <2>4
  <2>. QED BY ONLY <2>5, <2>6, Zenon DEF HeardInOrder, t
<1>7. CASE \E f \in Frame : /\ toClient # <<>> /\ toClient[1] = <<"audio", f>>
                            /\ client.state = "speaking" /\ client.cur # 0
                            /\ client'.sounding = Append(s, f)
                            /\ heard' = heard /\ dropped' = dropped
  <2>1. PICK f \in Frame : /\ toClient # <<>> /\ toClient[1] = <<"audio", f>>
                           /\ client.state = "speaking" /\ client.cur # 0
                           /\ client'.sounding = Append(s, f)
                           /\ heard' = heard /\ dropped' = dropped
    BY <1>7
  <2> DEFINE t == client'.sounding
  <2>2. /\ DOMAIN t = 1 .. (Len(s) + 1) /\ t[Len(s) + 1] = f
        /\ \A j \in 1 .. Len(s) : t[j] = s[j]
    <3>. HIDE DEF s
    <3>. QED BY <1>1, <2>1
  <2>. HIDE DEF s, t
  <2>3. ASSUME NEW g \in Generation, NEW n \in 1 .. MaxFrames, f = <<g, n>>
        PROVE  /\ g \notin dropped
               /\ \A m \in 1 .. (n - 1) :
                    <<g, m>> \in heard \/ \E k \in 1 .. Len(s) : s[k] = <<g, m>>
    <3>1. 1 \in DOMAIN toClient /\ toClient[1] = Audio(g, n)
      BY <1>1, <2>1, <2>3 DEF Audio
    <3>2. client.cur <= g /\ Announced(g, 1)
      BY <3>1 DEF FramesFollowStarts
    <3>3. \A d \in dropped : d < client.cur
      BY <2>1 DEF StreamsInOrder
    <3>4. g \notin dropped /\ client.cur = g
      <4>1. g \notin dropped
        BY <1>1, <3>2, <3>3 DEF Generation
      <4>. QED BY <3>2, <4>1 DEF Announced
    <3>5. \A m \in 1 .. (n - 1) : Taken(g, m)
      BY <2>1, <3>1, <3>4 DEF FramesAreSettled, Settled
    <3>. QED BY <1>1, <3>4, <3>5 DEF Taken, s
  <2>4. ASSUME NEW j \in DOMAIN t, NEW g \in Generation, NEW n \in 1 .. MaxFrames,
               t[j] = <<g, n>>
        PROVE  /\ g \notin dropped'
               /\ \A m \in 1 .. (n - 1) :
                    <<g, m>> \in heard' \/ \E i \in 1 .. (j - 1) : t[i] = <<g, m>>
    <3>1. CASE j \in 1 .. Len(s)
      <4>1. s[j] = <<g, n>> /\ \A i \in 1 .. (j - 1) : t[i] = s[i]
        <5>1. Len(s) \in Nat
          BY <1>1
        <5>. QED BY <5>1, <2>2, <2>4, <3>1
      <4>2. j \in DOMAIN s
        BY <1>1, <3>1
      <4>3. /\ g \notin dropped
            /\ \A m \in 1 .. (n - 1) :
                 <<g, m>> \in heard \/ \E i \in 1 .. (j - 1) : s[i] = <<g, m>>
        BY <1>3, <4>1, <4>2
      <4>. QED BY <2>1, <4>1, <4>3
    <3>2. CASE j = Len(s) + 1
      <4>1. f = <<g, n>> /\ \A i \in 1 .. Len(s) : i \in 1 .. (j - 1) /\ t[i] = s[i]
        <5>1. Len(s) \in Nat
          BY <1>1
        <5>2. f = <<g, n>>
          BY <2>2, <2>4, <3>2
        <5>3. \A i \in 1 .. Len(s) : i \in 1 .. (j - 1)
          BY <5>1, <3>2
        <5>. QED BY <2>2, <5>2, <5>3
      <4>2. /\ g \notin dropped
            /\ \A m \in 1 .. (n - 1) :
                 <<g, m>> \in heard \/ \E k \in 1 .. Len(s) : s[k] = <<g, m>>
        BY <2>3, <4>1
      <4>. QED BY <2>1, <4>1, <4>2
    <3>3. j \in 1 .. Len(s) \/ j = Len(s) + 1
      <4>1. Len(s) \in Nat /\ j \in 1 .. (Len(s) + 1)
        BY <1>1, <2>2
      <4>. QED BY <4>1
    <3>. QED BY <3>1, <3>2, <3>3
  <2>5. \A g \in Generation, n \in 1 .. MaxFrames : <<g, n>> \in heard' =>
          \A m \in 1 .. (n - 1) : <<g, m>> \in heard'
    BY <1>2, <2>1
  <2>. QED BY <2>4, <2>5 DEF HeardInOrder, t
<1>. QED BY <1>4, <1>5, <1>6, <1>7 DEF Plays

-----------------------------------------------------------------------------
(* Each step of the client, with what it does to the streams.               *)

Clients == [phase : {"idle", "starting", "live", "over"},
            socket : {"none", "connecting", "open", "closing"},
            state : EngineState \cup {"interrupted", "reconnecting"},
            cur : Generation \cup {0}, pending : Generation \cup {0},
            sounding : Seq(Frame), stopped : Nat, attempts : 0 .. MaxAttempts,
            timer : BOOLEAN]

LEMMA ClientTyped ==
  ASSUME TypeOK
  PROVE  /\ begun \in BOOLEAN /\ engine \in Engines /\ toClient \in Seq(Message)
         /\ toServer \in Seq(Request) /\ client \in Clients
         /\ client.pending \in {0, client.cur} /\ heard \subseteq Frame
         /\ dropped \subseteq Generation /\ confirmed \in Seq(Generation) /\ used \in Uses
         /\ toClient # <<>> => Head(toClient) \in Message /\ Tail(toClient) \in Seq(Message)
<1>1. toClient \in Seq(Message)
  BY DEF TypeOK
<1>2. toClient # <<>> => Head(toClient) \in Message /\ Tail(toClient) \in Seq(Message)
  BY <1>1
<1>. QED BY <1>2, Zenon DEF TypeOK, Engines, Clients, Uses

LEMMA ClientTypes ==
  ASSUME begun' \in BOOLEAN, engine' \in Engines, toClient' \in Seq(Message),
         toServer' \in Seq(Request), client' \in Clients,
         client'.pending \in {0, client'.cur}, heard' \subseteq Frame,
         dropped' \subseteq Generation, confirmed' \in Seq(Generation), used' \in Uses
  PROVE  TypeOK'
BY Zenon DEF TypeOK, Engines, Clients, Uses

SameEngine == /\ engine'.gen = engine.gen /\ engine'.worker = engine.worker
              /\ engine'.pipeline = engine.pipeline /\ engine'.sent = engine.sent
              /\ engine'.alive => engine.alive

\* What all steps but a new connection have in common.
Moves == /\ TypeOK' /\ SocketsFollowPhases' /\ PlaysInTurn' /\ SameEngine /\ Plays
         /\ \E o : Advance(o)

StaysOrLost == toClient' = toClient \/ (toClient' = <<>> /\ ~engine'.alive)

LEMMA Standing ==
  ASSUME TypeOK, TypeOK', SameEngine, Confirms(0),
         StaysOrLost,
         \/ client'.cur = client.cur /\ dropped' = dropped
         \/ client'.cur = 0 /\ dropped' = dropped \cup ({client.cur} \ {0}),
         client'.state = client.state \/ client'.state # "speaking",
         \A g, n : Taken(g, n) => Taken(g, n)' \/ client'.cur = 0
  PROVE  Advance(0)
<1>1. Len(toClient) \in Nat /\ DOMAIN toClient = 1 .. Len(toClient)
  BY StreamsTyped DEF Streams
<1>2. \A m : ~Handles(0, m)
  BY DEF Handles
<1>3. CASE toClient' = toClient
  BY <1>1, <1>2, <1>3 DEF Advance, SameEngine
<1>4. CASE toClient' = <<>> /\ ~engine'.alive
  <2>1. Len(toClient') = 0 /\ DOMAIN toClient' = {}
    BY <1>4
  <2>. QED BY <1>1, <1>2, <1>4, <2>1 DEF Advance, SameEngine
<1>. QED BY <1>3, <1>4 DEF StaysOrLost

\* The first message is taken.
LEMMA Taking ==
  ASSUME TypeOK, toClient # <<>>, toClient' = Tail(toClient)
  PROVE  /\ Len(toClient) \in Nat /\ 1 <= Len(toClient)
         /\ Len(toClient') + 1 = Len(toClient)
         /\ DOMAIN toClient = 1 .. Len(toClient)
         /\ \A j \in DOMAIN toClient' : /\ j \in Nat /\ toClient'[j] = toClient[j + 1]
                                        /\ j + 1 \in DOMAIN toClient
         /\ Head(toClient) = toClient[1] /\ 1 \in DOMAIN toClient
         /\ \A m : Handles(1, m) <=> toClient[1] = m
<1>1. toClient \in Seq(Message)
  BY DEF TypeOK
<1>2. /\ Len(toClient) \in Nat /\ 1 <= Len(toClient)
      /\ Len(toClient') + 1 = Len(toClient)
      /\ DOMAIN toClient = 1 .. Len(toClient)
      /\ \A j \in DOMAIN toClient' : /\ j \in Nat /\ toClient'[j] = toClient[j + 1]
                                     /\ j + 1 \in DOMAIN toClient
      /\ Head(toClient) = toClient[1] /\ 1 \in DOMAIN toClient
  BY <1>1
<1>. QED BY <1>2 DEF Handles

LEMMA Handling ==
  ASSUME TypeOK, toClient # <<>>, toClient' = Tail(toClient), UNCHANGED engine, Confirms(1),
         \/ client'.cur = client.cur /\ dropped' = dropped
         \/ client'.cur = 0 /\ dropped' = dropped \cup ({client.cur} \ {0})
         \/ Handles(1, <<"tts_start", client'.cur>>) /\ dropped' = dropped,
         \A g : Handles(1, <<"tts_start", g>>) => client'.cur = g,
         client'.state = "speaking" => client.state = "speaking" \/ Handles(1, Speaking),
         \A g, n : Handles(1, Audio(g, n)) =>
           Taken(g, n)' \/ client'.state # "speaking" \/ client'.cur = 0,
         \A g, n : Taken(g, n) => Taken(g, n)' \/ client'.cur = 0
  PROVE  Advance(1)
BY Taking DEF Advance

LEMMA TakenStays ==
  ASSUME heard' = heard, client'.sounding = client.sounding
  PROVE  \A g, n : Taken(g, n) => Taken(g, n)'
BY DEF Taken

LEMMA SilencedTyped ==
  ASSUME NEW c \in Clients
  PROVE  /\ Silenced(c) \in Clients
         /\ Silenced(c).cur = 0 /\ Silenced(c).pending = 0 /\ Silenced(c).sounding = <<>>
         /\ Silenced(c).phase = c.phase /\ Silenced(c).socket = c.socket
         /\ Silenced(c).state = c.state /\ Silenced(c).timer = c.timer
         /\ Silenced(c).attempts = c.attempts
<1>1. <<>> \in Seq(Frame) /\ 0 \in Generation \cup {0}
  OBVIOUS
<1>2. c.stopped + Len(c.sounding) \in Nat
  BY DEF Clients
<1>3. Silenced(c) \in Clients
  BY <1>1, <1>2, Zenon DEF Silenced, Clients
<1>. QED BY <1>3 DEF Silenced, Clients

\* The client after a confirmation, or without one.
Like(c) == /\ client'.phase = c.phase /\ client'.socket = c.socket /\ client'.state = c.state
           /\ client'.cur = c.cur /\ client'.sounding = c.sounding /\ client'.timer = c.timer

LEMMA Notified ==
  ASSUME TypeOK, NEW c \in Clients, c.pending = client.pending, c.cur = client.cur,
         Client(c) \/ NotifyPlaybackComplete(c)
  PROVE  /\ client' \in Clients /\ client'.pending \in {0, client'.cur} /\ Like(c)
         /\ toServer' \in Seq(Request) /\ confirmed' \in Seq(Generation)
         /\ UNCHANGED <<begun, engine, used>>
         /\ Confirms(0) /\ Confirms(1)
<1>1. /\ client.pending \in {0, client.cur} /\ toServer \in Seq(Request)
      /\ confirmed \in Seq(Generation) /\ client \in Clients
  BY ClientTyped
<1>2. CASE Client(c)
  BY <1>1, <1>2 DEF Client, Like, Confirms
<1>3. CASE /\ c.pending # 0 /\ c.pending = c.cur
           /\ client' = [c EXCEPT !.pending = 0]
           /\ toServer' = Append(toServer, <<"playback_complete", c.pending>>)
           /\ confirmed' = Append(confirmed, c.pending)
           /\ UNCHANGED <<begun, engine, used>>
  <2>1. c.pending \in Generation
    BY <1>3 DEF Clients
  <2>2. <<"playback_complete", c.pending>> \in Request
    BY <2>1 DEF Request
  <2>3. toServer' \in Seq(Request) /\ confirmed' \in Seq(Generation)
    BY <1>1, <1>3, <2>1, <2>2, AppendProperties
  <2>4. 0 \in Generation \cup {0}
    OBVIOUS
  <2>5. client' \in Clients
    BY <1>3, <2>4, Zenon DEF Clients
  <2>6. Like(c) /\ client'.pending = 0
    BY <1>3 DEF Clients, Like
  <2>7. Confirms(0) /\ Confirms(1)
    BY <1>3, <2>6 DEF Confirms, Like
  <2>. QED BY <1>3, <2>3, <2>5, <2>6, <2>7
<1>. QED BY <1>2, <1>3 DEF NotifyPlaybackComplete

\* The phase, the socket or the timer changes; the streams do not.
LEMMA StandsStill ==
  ASSUME TypeOK, TypeOK', SameEngine, UNCHANGED <<toClient, heard, confirmed, dropped>>,
         client'.cur = client.cur, client'.pending = client.pending,
         client'.state = client.state, client'.sounding = client.sounding,
         PlaysInTurn, SocketsFollowPhases'
  PROVE  Moves
<1>1. Confirms(0)
  BY DEF Confirms
<1>2. Advance(0)
  <2>1. \A g, n : Taken(g, n) => Taken(g, n)'
    BY TakenStays
  <2>2. StaysOrLost
    BY DEF StaysOrLost
  <2>3. /\ client'.cur = client.cur /\ dropped' = dropped
        /\ client'.state = client.state \/ client'.state # "speaking"
    OBVIOUS
  <2>. QED BY <1>1, <2>1, <2>2, <2>3, Standing
<1>3. Plays /\ PlaysInTurn'
  BY DEF Plays, PlaysInTurn, Playing
<1>. QED BY <1>2, <1>3 DEF Moves

\* The streams end, and the messages in flight stay or are lost with the engine.
LEMMA FallsSilent ==
  ASSUME TypeOK, TypeOK', SameEngine, UNCHANGED <<heard, confirmed>>,
         StaysOrLost,
         client'.cur = 0, client'.pending = 0, client'.sounding = <<>>, GiveUp(client),
         client'.state = client.state \/ client'.state # "speaking",
         PlaysInTurn, SocketsFollowPhases'
  PROVE  Moves
<1>1. Confirms(0)
  BY DEF Confirms
<1>2. Advance(0)
  BY <1>1, Standing DEF GiveUp
<1>3. Plays
  BY DEF Plays
<1>4. PlaysInTurn'
  BY DEF PlaysInTurn, Playing, StaysOrLost
<1>. QED BY <1>2, <1>3, <1>4 DEF Moves

LEMMA StartMoves ==
  ASSUME TypeOK, SocketsFollowPhases, PlaysInTurn, Start
  PROVE  Moves
<1>1. /\ client \in Clients /\ client.phase = "idle"
      /\ client' = [client EXCEPT !.phase = "starting"]
      /\ UNCHANGED <<begun, engine, toServer, toClient, heard, confirmed, dropped, used>>
  BY ClientTyped DEF Start, Client
<1>2. /\ client'.socket = client.socket /\ client'.cur = client.cur
      /\ client'.pending = client.pending /\ client'.state = client.state
      /\ client'.sounding = client.sounding /\ client'.timer = client.timer
      /\ client'.phase = "starting" /\ client' \in Clients
  BY <1>1 DEF Clients
<1>3. TypeOK'
  BY <1>1, <1>2, ClientTyped, ClientTypes
<1>4. SocketsFollowPhases'
  BY <1>1, <1>2 DEF SocketsFollowPhases
<1>. QED BY <1>1, <1>2, <1>3, <1>4, StandsStill DEF SameEngine

LEMMA MicrophoneMoves ==
  ASSUME TypeOK, SocketsFollowPhases, PlaysInTurn, MicrophoneReady
  PROVE  Moves
<1>1. /\ client \in Clients /\ client.phase = "starting"
      /\ UNCHANGED <<begun, engine, toServer, toClient, heard, confirmed, dropped, used>>
      /\ \/ client' = [client EXCEPT !.phase = "live", !.socket = "connecting"]
         \/ client' = [client EXCEPT !.phase = "over"]
  BY ClientTyped DEF MicrophoneReady, Client
<1>2. /\ client'.cur = client.cur
      /\ client'.pending = client.pending /\ client'.state = client.state
      /\ client'.sounding = client.sounding /\ client'.timer = client.timer
      /\ \/ client'.phase = "live" /\ client'.socket = "connecting"
         \/ client'.phase = "over" /\ client'.socket = client.socket
      /\ client' \in Clients
  BY <1>1 DEF Clients
<1>3. TypeOK'
  BY <1>1, <1>2, ClientTyped, ClientTypes
<1>4. SocketsFollowPhases'
  BY <1>1, <1>2 DEF SocketsFollowPhases
<1>. QED BY <1>1, <1>2, <1>3, <1>4, StandsStill DEF SameEngine

LEMMA TimerMoves ==
  ASSUME TypeOK, SocketsFollowPhases, PlaysInTurn, ReconnectTimer
  PROVE  Moves
<1>1. /\ client \in Clients /\ client.timer
      /\ client' = [client EXCEPT !.timer = FALSE, !.socket = "connecting"]
      /\ UNCHANGED <<begun, engine, toServer, toClient, heard, confirmed, dropped, used>>
  BY ClientTyped DEF ReconnectTimer, Client
<1>2. /\ client'.cur = client.cur
      /\ client'.pending = client.pending /\ client'.state = client.state
      /\ client'.sounding = client.sounding /\ ~client'.timer
      /\ client'.phase = client.phase /\ client'.socket = "connecting"
      /\ client' \in Clients
  BY <1>1 DEF Clients
<1>3. TypeOK'
  BY <1>1, <1>2, ClientTyped, ClientTypes
<1>4. SocketsFollowPhases'
  BY <1>1, <1>2 DEF SocketsFollowPhases
<1>. QED BY <1>1, <1>2, <1>3, <1>4, StandsStill DEF SameEngine

\* What a client gives up is a generation.
LEMMA GivenUp ==
  ASSUME TypeOK, GiveUp(client)
  PROVE  dropped' \subseteq Generation
BY ClientTyped DEF GiveUp, Clients

LEMMA ClosedMoves ==
  ASSUME TypeOK, SocketsFollowPhases, PlaysInTurn, Closed
  PROVE  Moves
<1> DEFINE d == [Silenced(client) EXCEPT !.socket = "none"]
<1>1. /\ client' = OnClose(client) /\ GiveUp(client) /\ client \in Clients
      /\ UNCHANGED <<begun, engine, toServer, toClient, heard, confirmed, used>>
  BY ClientTyped DEF Closed, Client
<1>2. /\ d \in Clients /\ d.cur = 0 /\ d.pending = 0 /\ d.sounding = <<>>
      /\ d.phase = client.phase /\ d.socket = "none" /\ d.timer = client.timer
      /\ d.attempts = client.attempts
  BY <1>1, SilencedTyped DEF Clients
<1>3. \/ /\ client.phase # "over" /\ client.attempts < MaxAttempts
         /\ client' = [d EXCEPT !.state = "reconnecting", !.attempts = @ + 1, !.timer = TRUE]
      \/ client' = [d EXCEPT !.state = "idle"]
  BY <1>1 DEF OnClose
<1> HIDE DEF d
<1>4. /\ client'.cur = 0 /\ client'.pending = 0 /\ client'.sounding = <<>>
      /\ client'.phase = client.phase /\ client'.socket = "none"
      /\ client'.timer = client.timer \/ client.phase # "over"
      /\ client'.state # "speaking"
  BY <1>2, <1>3 DEF Clients
<1>5. client' \in Clients
  <2>1. "idle" \in EngineState \cup {"interrupted", "reconnecting"}
        /\ "reconnecting" \in EngineState \cup {"interrupted", "reconnecting"}
    BY DEF EngineState
  <2>2. client.attempts < MaxAttempts => d.attempts + 1 \in 0 .. MaxAttempts
    BY <1>2 DEF Clients
  <2>3. CASE /\ client.attempts < MaxAttempts
             /\ client' = [d EXCEPT !.state = "reconnecting", !.attempts = @ + 1, !.timer = TRUE]
    BY <1>2, <2>1, <2>2, <2>3, Zenon DEF Clients
  <2>4. CASE client' = [d EXCEPT !.state = "idle"]
    BY <1>2, <2>1, <2>4, Zenon DEF Clients
  <2>. QED BY <1>3, <2>3, <2>4
<1>6. client.socket \in {"open", "connecting", "closing"}
      /\ (client.socket = "open" => ~engine.alive /\ toClient = <<>>)
  BY DEF Closed
<1>7. TypeOK'
  BY <1>1, <1>4, <1>5, GivenUp, ClientTyped, ClientTypes
<1>8. SocketsFollowPhases'
  BY <1>1, <1>4, <1>6 DEF SocketsFollowPhases
<1>9. SameEngine /\ StaysOrLost /\ UNCHANGED <<heard, confirmed>>
  BY <1>1 DEF SameEngine, StaysOrLost
<1>10. client'.state = client.state \/ client'.state # "speaking"
  BY <1>4
<1>. QED BY <1>1, <1>4, <1>7, <1>8, <1>9, <1>10, FallsSilent

LEMMA EndMoves ==
  ASSUME TypeOK, SocketsFollowPhases, PlaysInTurn, End
  PROVE  Moves
<1> DEFINE s == Silenced(client)
           k == IF s.socket = "none" THEN "none" ELSE "closing"
<1>1. /\ client \in Clients /\ engine \in Engines /\ GiveUp(client)
      /\ client' = [s EXCEPT !.phase = "over", !.timer = FALSE, !.socket = k]
      /\ engine' = [engine EXCEPT !.alive = FALSE]
      /\ toClient' = <<>> /\ toServer' = <<>>
      /\ UNCHANGED <<begun, heard, confirmed, used>>
  BY ClientTyped DEF End
<1>2. /\ s \in Clients /\ s.cur = 0 /\ s.pending = 0 /\ s.sounding = <<>>
      /\ s.state = client.state
  BY <1>1, SilencedTyped
<1>3. k \in {"none", "closing"}
  OBVIOUS
<1> HIDE DEF s, k
<1>4. /\ client' \in Clients /\ client'.cur = 0 /\ client'.pending = 0
      /\ client'.sounding = <<>> /\ client'.state = client.state
      /\ client'.phase = "over" /\ ~client'.timer /\ client'.socket = k
  BY <1>1, <1>2, <1>3 DEF Clients
<1>5. engine' \in Engines /\ ~engine'.alive /\ SameEngine
  BY <1>1 DEF Engines, SameEngine
<1>6. <<>> \in Seq(Message) /\ <<>> \in Seq(Request)
  OBVIOUS
<1>7. TypeOK'
  BY <1>1, <1>4, <1>5, <1>6, GivenUp, ClientTyped, ClientTypes
<1>8. SocketsFollowPhases'
  BY <1>1, <1>3, <1>4, <1>5 DEF SocketsFollowPhases
<1>9. StaysOrLost
  BY <1>1, <1>5 DEF StaysOrLost
<1>. QED BY <1>1, <1>4, <1>5, <1>7, <1>8, <1>9, FallsSilent

LEMMA PressMoves ==
  ASSUME TypeOK, SocketsFollowPhases, PlaysInTurn, NEW control \in Control, Press(control)
  PROVE  Moves
<1>1. /\ client \in Clients /\ engine \in Engines /\ used \in Uses
      /\ toServer \in Seq(Request)
      /\ UNCHANGED <<begun, engine, toClient, heard, confirmed>>
  BY ClientTyped DEF Press
<1>2. toServer' \in Seq(Request)
  <2>1. <<control>> \in Request
    BY DEF Request
  <2>. QED BY <1>1, <2>1, AppendProperties DEF Press
<1>3. used' \in Uses
  <2>1. /\ used' = [used EXCEPT !.controls = @ + 1]
        /\ used.controls < MaxControls + (IF control = "resume" THEN 1 ELSE 0)
    BY DEF Press
  <2>2. used.controls + 1 \in 0 .. (MaxControls + 1)
    BY <1>1, <2>1 DEF Uses
  <2>. QED BY <1>1, <2>1, <2>2, Zenon DEF Uses
<1>4. SameEngine
  BY <1>1 DEF SameEngine
<1>5. CASE control # "interrupt"
  <2>1. UNCHANGED <<client, dropped>>
    BY <1>5 DEF Press
  <2>2. TypeOK'
    BY <1>1, <1>2, <1>3, <2>1, ClientTyped, ClientTypes
  <2>3. SocketsFollowPhases'
    BY <1>1, <2>1 DEF SocketsFollowPhases
  <2>. QED BY <1>1, <1>4, <2>1, <2>2, <2>3, StandsStill
<1>6. CASE control = "interrupt"
  <2>1. client' = Silenced(client) /\ GiveUp(client)
    BY <1>6 DEF Press
  <2>2. /\ client' \in Clients
        /\ client'.cur = 0 /\ client'.pending = 0 /\ client'.sounding = <<>>
        /\ client'.phase = client.phase /\ client'.socket = client.socket
        /\ client'.state = client.state /\ client'.timer = client.timer
    BY <1>1, <2>1, SilencedTyped
  <2>3. TypeOK'
    BY <1>1, <1>2, <1>3, <2>1, <2>2, GivenUp, ClientTyped, ClientTypes
  <2>4. SocketsFollowPhases'
    BY <1>1, <2>2 DEF SocketsFollowPhases
  <2>5. StaysOrLost /\ UNCHANGED <<heard, confirmed>>
    BY <1>1 DEF StaysOrLost
  <2>6. client'.state = client.state \/ client'.state # "speaking"
    BY <2>2
  <2>. QED BY <1>4, <2>1, <2>2, <2>3, <2>4, <2>5, <2>6, FallsSilent
<1>. QED BY <1>5, <1>6

LEMMA BreakMoves ==
  ASSUME TypeOK, SocketsFollowPhases, PlaysInTurn, Break
  PROVE  Moves
<1>1. /\ client \in Clients /\ engine \in Engines /\ used \in Uses
      /\ toClient \in Seq(Message) /\ client.socket = "open"
      /\ engine' = [engine EXCEPT !.alive = FALSE] /\ toServer' = <<>>
      /\ UNCHANGED <<begun, client, heard, confirmed, dropped>>
  BY ClientTyped DEF Break
<1>2. PICK n \in 0 .. Len(toClient) : toClient' = SubSeq(toClient, 1, n)
  BY DEF Break
<1>3. /\ toClient' \in Seq(Message) /\ Len(toClient') = n /\ DOMAIN toClient' = 1 .. n
      /\ n \in Nat /\ n <= Len(toClient)
      /\ \A j \in 1 .. n : toClient'[j] = toClient[j] /\ j + 0 = j /\ j \in DOMAIN toClient
  BY <1>1, <1>2
<1>4. engine' \in Engines /\ ~engine'.alive /\ SameEngine
  BY <1>1 DEF Engines, SameEngine
<1>5. used' \in Uses
  <2>1. used' = [used EXCEPT !.breaks = @ + 1] /\ used.breaks < MaxBreaks
    BY DEF Break
  <2>2. used.breaks + 1 \in 0 .. MaxBreaks
    BY <1>1, <2>1 DEF Uses
  <2>. QED BY <1>1, <2>1, <2>2, Zenon DEF Uses
<1>6. TypeOK'
  <2>1. <<>> \in Seq(Request)
    OBVIOUS
  <2>. QED BY <1>1, <1>3, <1>4, <1>5, <2>1, ClientTyped, ClientTypes
<1>7. SocketsFollowPhases'
  BY <1>1, <1>4 DEF SocketsFollowPhases
<1>8. PlaysInTurn' /\ Plays
  BY <1>1, <1>3 DEF PlaysInTurn, Playing, Plays
<1>9. Advance(0)
  <2>1. \A m : ~Handles(0, m)
    BY DEF Handles
  <2>2. \A g, m : Taken(g, m) => Taken(g, m)'
    BY <1>1, TakenStays
  <2>3. Confirms(0)
    BY <1>1 DEF Confirms
  <2>. QED BY <1>1, <1>3, <1>4, <2>1, <2>2, <2>3 DEF Advance, SameEngine
<1>. QED BY <1>4, <1>6, <1>7, <1>8, <1>9 DEF Moves

LEMMA StoppedMoves ==
  ASSUME TypeOK, SocketsFollowPhases, PlaysInTurn, StoppedSourceEnded
  PROVE  Moves
<1> DEFINE c == [client EXCEPT !.stopped = @ - 1]
<1>1. /\ client \in Clients /\ client.stopped > 0
      /\ Client(c) \/ NotifyPlaybackComplete(c)
      /\ UNCHANGED <<toClient, heard, dropped>>
  BY ClientTyped DEF StoppedSourceEnded
<1>2. client.stopped - 1 \in Nat
  BY <1>1 DEF Clients
<1>3. /\ c \in Clients /\ c.cur = client.cur /\ c.pending = client.pending
      /\ c.state = client.state /\ c.sounding = client.sounding
      /\ c.phase = client.phase /\ c.socket = client.socket /\ c.timer = client.timer
  BY <1>1, <1>2 DEF Clients
<1> HIDE DEF c
<1>4. /\ client' \in Clients /\ client'.pending \in {0, client'.cur} /\ Like(c)
      /\ toServer' \in Seq(Request) /\ confirmed' \in Seq(Generation)
      /\ UNCHANGED <<begun, engine, used>> /\ Confirms(0)
  BY <1>1, <1>3, Notified
<1>5. TypeOK'
  BY <1>1, <1>4, ClientTyped, ClientTypes
<1>6. SocketsFollowPhases'
  BY <1>1, <1>3, <1>4 DEF SocketsFollowPhases, Like
<1>7. /\ client'.cur = client.cur /\ client'.state = client.state
      /\ client'.sounding = client.sounding
  BY <1>3, <1>4 DEF Like
<1>8. SameEngine /\ StaysOrLost /\ Plays /\ PlaysInTurn'
  BY <1>1, <1>4, <1>7 DEF SameEngine, StaysOrLost, Plays, PlaysInTurn, Playing
<1>9. Advance(0)
  <2>1. \A g, n : Taken(g, n) => Taken(g, n)'
    BY <1>1, <1>7, TakenStays
  <2>. QED BY <1>1, <1>4, <1>5, <1>7, <1>8, <2>1, Standing
<1>. QED BY <1>5, <1>6, <1>8, <1>9 DEF Moves

LEMMA SourceMoves ==
  ASSUME TypeOK, SocketsFollowPhases, PlaysInTurn, SourceEnded
  PROVE  Moves
<1> DEFINE c == [client EXCEPT !.sounding = Tail(@)]
<1>1. /\ client \in Clients /\ client.sounding # <<>>
      /\ client.sounding \in Seq(Frame)
      /\ Client(c) \/ NotifyPlaybackComplete(c)
      /\ heard' = heard \cup {Head(client.sounding)}
      /\ UNCHANGED <<toClient, dropped>>
  BY ClientTyped DEF SourceEnded, Playing, Clients
<1>2. Tail(client.sounding) \in Seq(Frame) /\ Head(client.sounding) \in Frame
  BY <1>1
<1>3. /\ c \in Clients /\ c.cur = client.cur /\ c.pending = client.pending
      /\ c.state = client.state /\ c.sounding = Tail(client.sounding)
      /\ c.phase = client.phase /\ c.socket = client.socket /\ c.timer = client.timer
  BY <1>1, <1>2 DEF Clients
<1> HIDE DEF c
<1>4. /\ client' \in Clients /\ client'.pending \in {0, client'.cur} /\ Like(c)
      /\ toServer' \in Seq(Request) /\ confirmed' \in Seq(Generation)
      /\ UNCHANGED <<begun, engine, used>> /\ Confirms(0)
  BY <1>1, <1>3, Notified
<1>5. TypeOK'
  <2>1. heard' \subseteq Frame
    BY <1>1, <1>2, ClientTyped
  <2>. QED BY <1>1, <1>4, <2>1, ClientTyped, ClientTypes
<1>6. SocketsFollowPhases'
  BY <1>1, <1>3, <1>4 DEF SocketsFollowPhases, Like
<1>7. /\ client'.cur = client.cur /\ client'.state = client.state
      /\ client'.sounding = Tail(client.sounding)
  BY <1>3, <1>4 DEF Like
<1>8. SameEngine /\ StaysOrLost
  BY <1>1, <1>4 DEF SameEngine, StaysOrLost
<1>9. Plays
  BY <1>1, <1>7 DEF Plays
<1>10. PlaysInTurn'
  BY <1>1, <1>7 DEF PlaysInTurn, Playing
<1>11. Advance(0)
  <2>1. ASSUME NEW g, NEW n, Taken(g, n) PROVE Taken(g, n)'
    <3>1. CASE <<g, n>> \in heard
      BY <1>1, <3>1 DEF Taken
    <3>2. ASSUME NEW k \in DOMAIN client.sounding, client.sounding[k] = <<g, n>>
          PROVE  Taken(g, n)'
      <4> DEFINE s == client.sounding
                 t == client'.sounding
      <4>1. /\ s \in Seq(Frame) /\ s # <<>> /\ t = Tail(s) /\ k \in DOMAIN s
            /\ s[k] = <<g, n>> /\ heard' = heard \cup {Head(s)}
        BY <1>1, <1>7, <3>2
      <4>. HIDE DEF s, t
      <4>2. CASE k = 1
        <5>1. Head(s) = <<g, n>>
          BY <4>1, <4>2
        <5>. QED BY <4>1, <5>1 DEF Taken
      <4>3. CASE k # 1
        <5>1. k - 1 \in DOMAIN t /\ t[k - 1] = s[k]
          BY <4>1, <4>3
        <5>. QED BY <4>1, <5>1 DEF Taken, t
      <4>. QED BY <4>2, <4>3
    <3>. QED BY <2>1, <3>1, <3>2 DEF Taken
  <2>. QED BY <1>1, <1>4, <1>5, <1>7, <1>8, <2>1, Standing
<1>. QED BY <1>5, <1>6, <1>8, <1>9, <1>10, <1>11 DEF Moves

\* What the client is told.
LEMMA Messages ==
  ASSUME NEW m \in Message
  PROVE  \/ /\ m[1] = "state" /\ m = <<"state", m[2]>>
            /\ m[2] \in EngineState \cup {"interrupted"}
         \/ /\ m[1] = "audio" /\ m = <<"audio", m[2]>> /\ m[2] \in Frame
         \/ /\ m[1] = "tts_start" /\ m = <<"tts_start", m[2]>> /\ m[2] \in Generation
         \/ /\ m[1] = "tts_stop" /\ m = <<"tts_stop", m[2]>> /\ m[2] \in Generation
BY DEF Message

LEMMA HandleMoves ==
  ASSUME TypeOK, SocketsFollowPhases, PlaysInTurn, HandleMessage
  PROVE  Moves
<1> DEFINE m == Head(toClient)
<1>1. /\ client.socket = "open" /\ toClient # <<>> /\ toClient' = Tail(toClient)
      /\ heard' = heard
  BY DEF HandleMessage
<1>2. /\ client \in Clients /\ toClient' \in Seq(Message) /\ m \in Message
      /\ client.pending \in {0, client.cur}
  BY <1>1, ClientTyped
<1>3. /\ m = toClient[1] /\ 1 \in DOMAIN toClient
      /\ \A x : Handles(1, x) <=> toClient[1] = x
      /\ \A j \in DOMAIN toClient' : toClient'[j] = toClient[j + 1] /\ j + 1 \in DOMAIN toClient
  BY <1>1, Taking
<1>4. \A j \in DOMAIN toClient' : toClient'[j] # <<"state", "idle">>
  BY <1>3 DEF PlaysInTurn
\* It remains to show what is particular to a message.
<1>5. ASSUME client' \in Clients, client'.pending \in {0, client'.cur},
             dropped' \subseteq Generation, confirmed' \in Seq(Generation),
             toServer' \in Seq(Request), UNCHANGED <<begun, engine, used>>,
             client'.phase = client.phase, client'.socket = client.socket,
             client'.timer = client.timer
      PROVE  TypeOK' /\ SocketsFollowPhases' /\ SameEngine
  <2>1. TypeOK'
    BY <1>1, <1>2, <1>5, ClientTyped, ClientTypes
  <2>2. SocketsFollowPhases'
    BY <1>1, <1>5 DEF SocketsFollowPhases
  <2>. QED BY <1>5, <2>1, <2>2 DEF SameEngine
<1> HIDE DEF m
<1>6. CASE m[1] = "state" /\ m = <<"state", m[2]>> /\ m[2] \in EngineState \cup {"interrupted"}
  <2>1. OnState(client, m[2])
    BY <1>6 DEF HandleMessage, m
  <2>2. /\ \A g : ~Handles(1, <<"tts_start", g>>)
        /\ \A g, n : ~Handles(1, Audio(g, n))
    <3>1. /\ \A g : m # <<"tts_start", g>>
          /\ \A g, n : m # Audio(g, n)
      BY <1>6 DEF Audio
    <3>. QED BY <1>3, <3>1
  <2>3. CASE m[2] \in {"interrupted", "paused"}
    <3> DEFINE s == Silenced(client)
    <3>1. client' = [s EXCEPT !.state = m[2]] /\ GiveUp(client)
          /\ UNCHANGED <<begun, engine, toServer, confirmed, used>>
      BY <2>1, <2>3 DEF OnState, Client
    <3>2. /\ s \in Clients /\ s.cur = 0 /\ s.pending = 0 /\ s.sounding = <<>>
          /\ s.phase = client.phase /\ s.socket = client.socket /\ s.timer = client.timer
      BY <1>2, SilencedTyped
    <3>3. m[2] \in EngineState \cup {"interrupted", "reconnecting"}
      BY <1>6
    <3>. HIDE DEF s
    <3>4. /\ client' \in Clients /\ client'.cur = 0 /\ client'.pending = 0
          /\ client'.sounding = <<>> /\ client'.phase = client.phase
          /\ client'.socket = client.socket /\ client'.timer = client.timer
          /\ client'.state # "speaking"
      BY <2>3, <3>1, <3>2, <3>3 DEF Clients
    <3>5. TypeOK' /\ SocketsFollowPhases' /\ SameEngine
      BY <1>5, <3>1, <3>4, GivenUp, ClientTyped
    <3>6. Plays /\ PlaysInTurn'
      BY <1>1, <1>4, <3>4 DEF Plays, PlaysInTurn, Playing
    <3>7. Confirms(1)
      BY <3>1, <3>4 DEF Confirms
    <3>8. Advance(1)
      <4>1. client'.cur = 0 /\ dropped' = dropped \cup ({client.cur} \ {0})
        BY <3>1, <3>4 DEF GiveUp
      <4>. QED BY <1>1, <2>2, <3>1, <3>4, <3>7, <4>1, Handling
    <3>. QED BY <3>5, <3>6, <3>8 DEF Moves
  <2>4. CASE m[2] \notin {"interrupted", "paused"}
    <3>1. client' = [client EXCEPT !.state = m[2]]
          /\ UNCHANGED <<begun, engine, toServer, confirmed, used, dropped>>
      BY <2>1, <2>4 DEF OnState, Client
    <3>2. m[2] \in EngineState \cup {"interrupted", "reconnecting"}
      BY <1>6
    <3>3. /\ client' \in Clients /\ client'.cur = client.cur
          /\ client'.pending = client.pending
          /\ client'.sounding = client.sounding /\ client'.phase = client.phase
          /\ client'.socket = client.socket /\ client'.timer = client.timer
          /\ client'.state = m[2]
      BY <1>2, <3>1, <3>2 DEF Clients
    <3>4. TypeOK' /\ SocketsFollowPhases' /\ SameEngine
      BY <1>2, <1>5, <3>1, <3>3, ClientTyped
    <3>5. m[2] \in {"speaking", "listening", "processing", "thinking"}
      <4>1. m # <<"state", "idle">>
        BY <1>3 DEF PlaysInTurn
      <4>. QED BY <1>6, <2>4, <4>1 DEF EngineState
    <3>6. Plays /\ PlaysInTurn'
      BY <1>1, <1>4, <3>1, <3>3, <3>5 DEF Plays, PlaysInTurn
    <3>7. Confirms(1)
      BY <3>1, <3>3 DEF Confirms
    <3>8. Advance(1)
      <4>1. \A g, n : Taken(g, n) => Taken(g, n)'
        BY <1>1, <3>3, TakenStays
      <4>2. client'.state = "speaking" => Handles(1, Speaking)
        BY <1>3, <1>6, <3>3 DEF Speaking
      <4>3. client'.cur = client.cur /\ dropped' = dropped
        BY <3>1, <3>3
      <4>. QED BY <1>1, <2>2, <3>1, <3>7, <4>1, <4>2, <4>3, Handling
    <3>. QED BY <3>4, <3>6, <3>8 DEF Moves
  <2>. QED BY <2>3, <2>4
<1>7. CASE m[1] = "audio" /\ m = <<"audio", m[2]>> /\ m[2] \in Frame
  <2> DEFINE f == m[2]
             takes == client.state = "speaking" /\ client.cur # 0
  <2>1. EnqueuePlayback(client, f)
    BY <1>7 DEF HandleMessage, m
  <2>2. /\ client' = IF takes THEN [client EXCEPT !.sounding = Append(@, f)] ELSE client
        /\ UNCHANGED <<begun, engine, toServer, confirmed, used, dropped>>
    BY <2>1 DEF EnqueuePlayback, Client
  <2>3. /\ toClient[1] = <<"audio", f>> /\ f \in Frame
        /\ \A g : ~Handles(1, <<"tts_start", g>>)
    <3>1. \A g : m # <<"tts_start", g>>
      BY <1>7
    <3>. QED BY <1>3, <1>7, <3>1
  <2>. HIDE DEF f
  <2>4. Append(client.sounding, f) \in Seq(Frame) /\ client.sounding \in Seq(Frame)
    <3>1. client.sounding \in Seq(Frame)
      BY <1>2 DEF Clients
    <3>. QED BY <2>3, <3>1, AppendProperties
  <2>5. /\ client' \in Clients /\ client'.cur = client.cur
        /\ client'.pending = client.pending /\ client'.phase = client.phase
        /\ client'.socket = client.socket /\ client'.timer = client.timer
        /\ client'.state = client.state
        /\ client'.sounding = IF takes THEN Append(client.sounding, f) ELSE client.sounding
    BY <1>2, <2>2, <2>4 DEF Clients
  <2>6. TypeOK' /\ SocketsFollowPhases' /\ SameEngine
    BY <1>2, <1>5, <2>2, <2>5, ClientTyped
  <2>7. Plays
    BY <1>1, <2>2, <2>3, <2>5 DEF Plays
  <2>8. PlaysInTurn'
    BY <1>4, <2>5 DEF PlaysInTurn, Playing
  <2>9. Confirms(1)
    BY <2>2, <2>5 DEF Confirms
  <2>10. /\ DOMAIN client.sounding = 1 .. Len(client.sounding) /\ Len(client.sounding) \in Nat
         /\ takes => /\ DOMAIN client'.sounding = 1 .. (Len(client.sounding) + 1)
                     /\ client'.sounding[Len(client.sounding) + 1] = f
                     /\ \A k \in 1 .. Len(client.sounding) :
                          client'.sounding[k] = client.sounding[k]
    BY <2>3, <2>4, <2>5, AppendProperties
  <2>11. \A g, n : Taken(g, n) => Taken(g, n)'
    <3>1. CASE takes
      BY <1>1, <2>10, <3>1 DEF Taken
    <3>2. CASE ~takes
      BY <1>1, <2>5, <3>2, TakenStays
    <3>. QED BY <3>1, <3>2
  <2>12. ASSUME NEW g, NEW n, Handles(1, Audio(g, n))
         PROVE  Taken(g, n)' \/ client'.state # "speaking" \/ client'.cur = 0
    <3>1. f = <<g, n>>
      BY <1>3, <2>3, <2>12 DEF Audio
    <3>2. CASE takes
      BY <2>10, <3>1, <3>2 DEF Taken
    <3>3. CASE ~takes
      BY <2>5, <3>3
    <3>. QED BY <3>2, <3>3
  <2>13. Advance(1)
    <3>1. /\ client'.cur = client.cur /\ dropped' = dropped
          /\ client'.state = "speaking" => client.state = "speaking"
      BY <2>2, <2>5
    <3>. QED BY <1>1, <2>2, <2>3, <2>9, <2>11, <2>12, <3>1, Handling
  <2>. QED BY <2>6, <2>7, <2>8, <2>13 DEF Moves
<1>8. CASE m[1] = "tts_start" /\ m = <<"tts_start", m[2]>> /\ m[2] \in Generation
  <2> DEFINE g == m[2]
  <2>1. /\ client' = [client EXCEPT !.cur = g, !.pending = g]
        /\ UNCHANGED <<begun, engine, toServer, confirmed, used, dropped>>
    BY <1>8 DEF HandleMessage, Client, m
  <2>2. g \in Generation
    BY <1>8
  <2>3. /\ client' \in Clients /\ client'.cur = g /\ client'.pending = g
        /\ client'.phase = client.phase /\ client'.socket = client.socket
        /\ client'.timer = client.timer /\ client'.state = client.state
        /\ client'.sounding = client.sounding
    BY <1>2, <2>1, <2>2 DEF Clients
  <2>4. TypeOK' /\ SocketsFollowPhases' /\ SameEngine
    BY <1>5, <2>1, <2>3, ClientTyped
  <2>5. Plays /\ PlaysInTurn'
    BY <1>1, <1>4, <2>1, <2>3 DEF Plays, PlaysInTurn, Playing
  <2>6. /\ Handles(1, <<"tts_start", client'.cur>>)
        /\ \A h : Handles(1, <<"tts_start", h>>) => client'.cur = h
        /\ \A h, n : ~Handles(1, Audio(h, n))
    <3>1. /\ m = <<"tts_start", client'.cur>>
          /\ \A h : m = <<"tts_start", h>> => client'.cur = h
          /\ \A h, n : m # Audio(h, n)
      BY <1>8, <2>3 DEF Audio
    <3>. QED BY <1>3, <3>1
  <2>7. Confirms(1)
    BY <2>1, <2>3, <2>6 DEF Confirms
  <2>8. \A h, n : Taken(h, n) => Taken(h, n)'
    BY <1>1, <2>3, TakenStays
  <2>9. Advance(1)
    <3>1. client'.state = "speaking" => client.state = "speaking"
      BY <2>3
    <3>. QED BY <1>1, <2>1, <2>6, <2>7, <2>8, <3>1, Handling
  <2>. QED BY <2>4, <2>5, <2>9 DEF Moves
<1>9. CASE m[1] = "tts_stop" /\ m = <<"tts_stop", m[2]>> /\ m[2] \in Generation
  <2>1. (Client(client) \/ NotifyPlaybackComplete(client)) /\ UNCHANGED dropped
    BY <1>9 DEF HandleMessage, m
  <2>2. /\ client' \in Clients /\ client'.pending \in {0, client'.cur} /\ Like(client)
        /\ toServer' \in Seq(Request) /\ confirmed' \in Seq(Generation)
        /\ UNCHANGED <<begun, engine, used>> /\ Confirms(1)
    BY <1>2, <2>1, Notified
  <2>3. /\ client'.cur = client.cur
        /\ client'.phase = client.phase /\ client'.socket = client.socket
        /\ client'.timer = client.timer /\ client'.state = client.state
        /\ client'.sounding = client.sounding
    BY <2>2 DEF Like
  <2>4. TypeOK' /\ SocketsFollowPhases' /\ SameEngine
    BY <1>5, <2>1, <2>2, <2>3, ClientTyped
  <2>5. Plays /\ PlaysInTurn'
    BY <1>1, <1>4, <2>1, <2>3 DEF Plays, PlaysInTurn, Playing
  <2>6. /\ \A h : ~Handles(1, <<"tts_start", h>>)
        /\ \A h, n : ~Handles(1, Audio(h, n))
    <3>1. /\ \A h : m # <<"tts_start", h>>
          /\ \A h, n : m # Audio(h, n)
      BY <1>9 DEF Audio
    <3>. QED BY <1>3, <3>1
  <2>7. \A h, n : Taken(h, n) => Taken(h, n)'
    BY <1>1, <2>3, TakenStays
  <2>8. Advance(1)
    <3>1. /\ client'.cur = client.cur /\ dropped' = dropped
          /\ client'.state = "speaking" => client.state = "speaking"
      BY <2>1, <2>3
    <3>. QED BY <1>1, <2>2, <2>6, <2>7, <3>1, Handling
  <2>. QED BY <2>4, <2>5, <2>8 DEF Moves
<1>. QED BY <1>2, <1>6, <1>7, <1>8, <1>9, Messages

\* A new connection: nothing is in flight and nothing has been announced.
LEMMA OpenedKeeps ==
  ASSUME IInv, Opened
  PROVE  IInv'
<1>1. /\ TypeOK /\ SocketsFollowPhases /\ client \in Clients
      /\ client.pending \in {0, client.cur} /\ begun \in BOOLEAN /\ used \in Uses
  BY ClientTyped DEF IInv
<1>2. /\ client.socket = "connecting" /\ client' = [client EXCEPT !.socket = "open", !.attempts = 0]
      /\ engine' = NewEngine /\ toClient' = <<>> /\ toServer' = <<>>
      /\ heard' = {} /\ confirmed' = <<>> /\ dropped' = {}
      /\ UNCHANGED <<begun, used>>
  BY DEF Opened
<1>3. /\ client.phase = "live" /\ ~client.timer /\ client.cur = 0 /\ client.sounding = <<>>
  BY <1>1, <1>2 DEF SocketsFollowPhases
<1>4. 0 \in 0 .. MaxAttempts
  OBVIOUS
<1>5. /\ client' \in Clients /\ client'.cur = 0 /\ client'.pending = 0
      /\ client'.sounding = <<>> /\ client'.phase = "live" /\ client'.socket = "open"
      /\ ~client'.timer /\ client'.state = client.state
  BY <1>1, <1>2, <1>3, <1>4 DEF Clients
<1>6. NewEngine \in Engines /\ NewEngine.gen = 0 /\ ~NewEngine.worker /\ ~NewEngine.pipeline
  BY DEF NewEngine, Engines, EngineState
<1>7. /\ <<>> \in Seq(Message) /\ <<>> \in Seq(Request) /\ <<>> \in Seq(Generation)
      /\ DOMAIN toClient' = {} /\ DOMAIN confirmed' = {} /\ DOMAIN client'.sounding = {}
  BY <1>2, <1>5
<1>8. TypeOK'
  BY <1>1, <1>2, <1>5, <1>6, <1>7, ClientTypes
<1>9. StreamsHaveGenerations' /\ SocketsFollowPhases' /\ PlaysInTurn'
  BY <1>2, <1>5, <1>6, <1>7 DEF StreamsHaveGenerations, SocketsFollowPhases, PlaysInTurn, Playing
<1>10. StreamsInOrder' /\ ConfirmedOnce'
  BY <1>2, <1>5, <1>6, <1>7 DEF StreamsInOrder, ConfirmedOnce
<1>11. FramesFollowStarts' /\ FramesAreSettled' /\ HeardInOrder'
  BY <1>2, <1>5, <1>6, <1>7 DEF FramesFollowStarts, FramesAreSettled, HeardInOrder
<1>. QED BY <1>8, <1>9, <1>10, <1>11 DEF IInv

LEMMA MovesKeep ==
  ASSUME IInv, Moves
  PROVE  IInv'
<1>1. /\ TypeOK /\ TypeOK' /\ StreamsHaveGenerations /\ StreamsInOrder /\ ConfirmedOnce
      /\ FramesFollowStarts /\ FramesAreSettled /\ HeardInOrder
      /\ SocketsFollowPhases' /\ PlaysInTurn' /\ SameEngine /\ Plays
  BY DEF IInv, Moves
<1>2. PICK o : Advance(o)
  BY DEF Moves
<1>3. StreamsHaveGenerations'
  BY <1>1 DEF StreamsHaveGenerations, SameEngine
<1>4. StreamsInOrder' /\ ConfirmedOnce'
  BY <1>1, <1>2, AdvanceKeepsOrder
<1>5. FramesFollowStarts'
  BY <1>1, <1>2, AdvanceKeepsFrames
<1>6. FramesAreSettled'
  BY <1>1, <1>2, AdvanceKeepsSettled
<1>7. HeardInOrder'
  BY <1>1, PlaysKeepsHeard
<1>. QED BY <1>1, <1>3, <1>4, <1>5, <1>6, <1>7 DEF IInv

LEMMA EngineKeeps ==
  ASSUME IInv, EngineStep
  PROVE  IInv'
<1>1. Sends /\ TypeOK /\ TypeOK' /\ StreamsHaveGenerations'
  BY EngineSends DEF IInv
<1>2. Told /\ NewStates /\ NewStarts
  BY <1>1, NewMessages
<1>3. UNCHANGED <<client, heard, confirmed, dropped>> /\ engine'.alive = engine.alive
  BY <1>2 DEF Told
<1>4. SocketsFollowPhases'
  <2>1. SocketsFollowPhases
    BY DEF IInv
  <2>2. client.socket # "open" => ~engine.alive
    BY <2>1 DEF SocketsFollowPhases
  <2>3. engine.alive
    BY DEF EngineStep, StartSession, SilenceEndsTurn, AnswerBegins, Answered, SendAudio,
           Spoken, PipelineFails, PlaybackTimeout, OnControl, BargeIn
  <2>. QED BY <1>3, <2>1, <2>2, <2>3 DEF SocketsFollowPhases
<1>5. PlaysInTurn'
  <2>1. PlaysInTurn
    BY DEF IInv
  <2>2. ASSUME NEW j \in DOMAIN toClient' PROVE toClient'[j] # <<"state", "idle">>
    <3>1. CASE j \in New
      BY <1>2, <3>1 DEF NewStates
    <3>2. CASE j \in DOMAIN toClient
      BY <1>1, <1>2, <2>1, <3>2, Inflight DEF PlaysInTurn
    <3>. QED BY <1>1, <1>2, <3>1, <3>2, Inflight
  <2>. QED BY <1>3, <2>1, <2>2 DEF PlaysInTurn, Playing
<1>6. StreamsInOrder'
  BY <1>1, EngineKeepsOrder DEF IInv
<1>7. ConfirmedOnce'
  BY <1>3 DEF IInv, ConfirmedOnce
<1>8. FramesFollowStarts'
  BY <1>1, EngineKeepsFrames DEF IInv
<1>9. FramesAreSettled'
  BY <1>1, EngineKeepsSettled DEF IInv
<1>10. HeardInOrder'
  <2>1. Plays
    BY <1>3 DEF Plays
  <2>. QED BY <2>1, PlaysKeepsHeard DEF IInv
<1>. QED BY <1>1, <1>4, <1>5, <1>6, <1>7, <1>8, <1>9, <1>10 DEF IInv

-----------------------------------------------------------------------------
LEMMA Starts == Init => IInv
<1> SUFFICES ASSUME Init PROVE IInv
  OBVIOUS
<1>1. /\ begun = FALSE /\ engine = [NewEngine EXCEPT !.alive = FALSE]
      /\ toClient = <<>> /\ toServer = <<>> /\ client = NewClient
      /\ heard = {} /\ confirmed = <<>> /\ dropped = {}
      /\ used = [controls |-> 0, breaks |-> 0]
  BY DEF Init
<1>2. /\ engine \in Engines /\ engine.gen = 0 /\ ~engine.worker /\ ~engine.pipeline
      /\ ~engine.alive
  <2>1. /\ NewEngine \in Engines /\ NewEngine.gen = 0
        /\ ~NewEngine.worker /\ ~NewEngine.pipeline
    BY DEF NewEngine, Engines, EngineState
  <2>. HIDE DEF NewEngine
  <2>. QED BY <1>1, <2>1 DEF Engines
<1>3. /\ client \in Clients /\ client.cur = 0 /\ client.pending = 0
      /\ client.sounding = <<>> /\ client.phase = "idle" /\ client.socket = "none"
      /\ ~client.timer
  BY <1>1 DEF NewClient, Clients, EngineState
<1>4. /\ <<>> \in Seq(Message) /\ <<>> \in Seq(Request) /\ <<>> \in Seq(Generation)
      /\ used \in Uses
      /\ DOMAIN toClient = {} /\ DOMAIN confirmed = {} /\ DOMAIN client.sounding = {}
  BY <1>1, <1>3 DEF Uses
<1>5. TypeOK
  BY <1>1, <1>2, <1>3, <1>4, Zenon DEF TypeOK, Engines, Clients, Uses
<1>6. StreamsHaveGenerations /\ SocketsFollowPhases /\ PlaysInTurn
  BY <1>1, <1>2, <1>3, <1>4 DEF StreamsHaveGenerations, SocketsFollowPhases, PlaysInTurn, Playing
<1>7. StreamsInOrder /\ ConfirmedOnce
  BY <1>1, <1>2, <1>3, <1>4 DEF StreamsInOrder, ConfirmedOnce
<1>8. FramesFollowStarts /\ FramesAreSettled /\ HeardInOrder
  BY <1>1, <1>2, <1>3, <1>4 DEF FramesFollowStarts, FramesAreSettled, HeardInOrder
<1>. QED BY <1>5, <1>6, <1>7, <1>8 DEF IInv

LEMMA Stutters == IInv /\ UNCHANGED vars => IInv'
<1> SUFFICES ASSUME IInv, UNCHANGED vars PROVE IInv'
  OBVIOUS
<1>1. UNCHANGED <<begun, engine, toClient, toServer, client, heard, confirmed, dropped, used>>
  BY DEF vars
<1>2. TypeOK' /\ SocketsFollowPhases' /\ SameEngine
  BY <1>1 DEF IInv, TypeOK, SocketsFollowPhases, SameEngine
<1>3. Moves
  BY <1>1, <1>2, StandsStill DEF IInv
<1>. QED BY <1>3, MovesKeep

LEMMA Steps == IInv /\ [Next]_vars => IInv'
<1> SUFFICES ASSUME IInv, [Next]_vars PROVE IInv'
  OBVIOUS
<1>0. TypeOK /\ SocketsFollowPhases /\ PlaysInTurn
  BY DEF IInv
<1>1. CASE EngineStep
  BY <1>1, EngineKeeps
<1>2. CASE Break
  BY <1>0, <1>2, BreakMoves, MovesKeep
<1>3. CASE Start
  BY <1>0, <1>3, StartMoves, MovesKeep
<1>4. CASE MicrophoneReady
  BY <1>0, <1>4, MicrophoneMoves, MovesKeep
<1>5. CASE Opened
  BY <1>5, OpenedKeeps
<1>6. CASE Closed
  BY <1>0, <1>6, ClosedMoves, MovesKeep
<1>7. CASE ReconnectTimer
  BY <1>0, <1>7, TimerMoves, MovesKeep
<1>8. CASE HandleMessage
  BY <1>0, <1>8, HandleMoves, MovesKeep
<1>9. CASE SourceEnded
  BY <1>0, <1>9, SourceMoves, MovesKeep
<1>10. CASE StoppedSourceEnded
  BY <1>0, <1>10, StoppedMoves, MovesKeep
<1>11. CASE \E control \in Control : Press(control)
  BY <1>0, <1>11, PressMoves, MovesKeep
<1>12. CASE End
  BY <1>0, <1>12, EndMoves, MovesKeep
<1>13. CASE UNCHANGED vars
  BY <1>13, Stutters
<1>. QED BY <1>1, <1>2, <1>3, <1>4, <1>5, <1>6, <1>7, <1>8, <1>9, <1>10, <1>11, <1>12, <1>13
         DEF Next, ClientStep

\* The strengthening of the client's properties holds in every state.
THEOREM Invariance == Spec => []IInv
<1>. QED BY Starts, Steps, PTL DEF Spec

\* Every variable of the protocol keeps its type.
THEOREM TypeCorrect == Spec => []TypeOK
<1>1. IInv => TypeOK
  BY DEF IInv
<1>. QED BY Invariance, <1>1, PTL

\* A stream is confirmed at most once and never after a later one, whatever
\* underruns, stopped sources and interruptions do (voice.ts:342).
THEOREM ConfirmedTheorem == Spec => []ConfirmedOnce
<1>1. IInv => ConfirmedOnce
  BY DEF IInv
<1>. QED BY Invariance, <1>1, PTL

\* Nothing plays, and no timer connects again, when the connection or the session
\* is gone (voice.ts:220, voice.ts:308).
THEOREM QuietTheorem == Spec => []EndedIsQuiet
<1>1. ASSUME IInv PROVE EndedIsQuiet
  <2>1. /\ client.socket \in {"none", "connecting", "open", "closing"}
        /\ SocketsFollowPhases /\ PlaysInTurn
    BY <1>1, ClientTyped DEF IInv, Clients
  <2>2. Playing(client) => client.socket = "open" /\ client.phase = "live"
    BY <2>1 DEF SocketsFollowPhases, Playing
  <2>. QED BY <2>1, <2>2 DEF SocketsFollowPhases, PlaysInTurn, EndedIsQuiet
<1>. QED BY Invariance, <1>1, PTL

\* What is heard of a question is its beginning without a gap, and nothing that
\* was given up plays, with any number of messages in flight (voice.ts:484,
\* engine.py:575).
THEOREM UncutTheorem == Spec => []HeardIsUncut
<1>1. ASSUME IInv PROVE HeardIsUncut
  <2> DEFINE s == client.sounding
             taken == heard \cup ToSet(s)
  <2>0. /\ \A g \in Generation, n \in 1 .. MaxFrames : <<g, n>> \in heard =>
             \A m \in 1 .. (n - 1) : <<g, m>> \in heard
        /\ \A j \in DOMAIN s : \A g \in Generation, n \in 1 .. MaxFrames : s[j] = <<g, n>> =>
             /\ g \notin dropped
             /\ \A m \in 1 .. (n - 1) :
                  <<g, m>> \in heard \/ \E i \in 1 .. (j - 1) : s[i] = <<g, m>>
    BY <1>1 DEF IInv, HeardInOrder
  <2>1. heard \subseteq Frame /\ s \in Seq(Frame)
    BY <1>1, StreamsTyped DEF IInv, Streams
  <2>2. ToSet(s) = {s[i] : i \in DOMAIN s}
    BY DEF ToSet
  <2>3. ASSUME NEW f \in taken, NEW n \in 1 .. (f[2] - 1)
        PROVE  <<f[1], n>> \in taken
    <3>1. f \in Frame
      BY <2>1, <2>2
    <3>2. PICK g \in Generation, k \in 1 .. MaxFrames : f = <<g, k>>
      BY <3>1 DEF Frame
    <3>3. f[1] = g /\ n \in 1 .. (k - 1)
      BY <3>2
    <3>4. CASE f \in heard
      BY <2>0, <3>2, <3>3, <3>4
    <3>5. ASSUME NEW j \in DOMAIN s, f = s[j]
          PROVE  <<g, n>> \in taken
      <4>1. <<g, n>> \in heard \/ \E i \in 1 .. (j - 1) : s[i] = <<g, n>>
        <5>1. s[j] = <<g, k>>
          BY <3>2, <3>5
        <5>. HIDE DEF s
        <5>. QED BY <2>0, <3>3, <5>1
      <4>2. \A i \in 1 .. (j - 1) : i \in DOMAIN s
        BY <2>1
      <4>. QED BY <2>2, <4>1, <4>2
    <3>. QED BY <2>2, <3>3, <3>4, <3>5
  <2>4. ASSUME NEW f \in ToSet(s) PROVE f[1] \notin dropped
    <3>1. PICK j \in DOMAIN s : f = s[j]
      BY <2>2
    <3>2. f \in Frame
      BY <2>1, <3>1
    <3>3. PICK g \in Generation, k \in 1 .. MaxFrames : f = <<g, k>>
      BY <3>2 DEF Frame
    <3>4. f[1] = g /\ s[j] = <<g, k>>
      BY <3>1, <3>3
    <3>. HIDE DEF s
    <3>. QED BY <2>0, <3>4
  <2>. QED BY <2>3, <2>4 DEF HeardIsUncut
<1>. QED BY Invariance, <1>1, PTL

=============================================================================
