---------------------------- MODULE VoicePlayback ----------------------------
(***************************************************************************)
(* The browser's voice client (lib/voice.ts): its socket with reconnects,  *)
(* its playback and the handshake that ends it, composed through messages   *)
(* in flight with the engine's side of the protocol (voice/engine.py).      *)
(*                                                                         *)
(* The engine is reduced to what the protocol shows of it: the state it     *)
(* reports, the stream of a generation and who will ask the next question.  *)
(* VoiceEngine has its tasks.  A step of the client is one event handler of *)
(* the browser: a message, a source that ended, a timer, a button.          *)
(***************************************************************************)
EXTENDS Integers, Sequences, SequencesExt

CONSTANTS
  MaxStreams,   \* bound: generations up to which questions are asked
  MaxFrames,    \* bound: audio frames of one stream
  MaxControls,  \* bound: buttons and interruptions by voice, and one resume
  MaxBreaks,    \* bound: connections that are lost
  MaxInFlight,  \* bound: messages a connection holds before a send must wait
  MaxAttempts   \* maxReconnectAttempts

ASSUME PlaybackAssumption ==
  /\ MaxStreams \in Nat /\ MaxFrames \in Nat /\ MaxControls \in Nat
  /\ MaxBreaks \in Nat /\ MaxInFlight \in Nat /\ MaxAttempts \in Nat

VARIABLES
  begun,     \* whether the session has begun (its status in the database)
  engine,    \* the engine of the present connection
  toClient,  \* messages in flight to the browser
  toServer,  \* messages in flight to the engine
  client,    \* the VoiceClient
  heard,     \* history: frames of this connection played to their end
  confirmed, \* history: generations of this connection confirmed, in order
  dropped,   \* history: generations the client gave up
  used       \* bounds: buttons pressed, connections lost

vars == <<begun, engine, toClient, toServer, client, heard, confirmed, dropped, used>>

Generation == Nat \ {0}
Frame == Generation \X (1 .. MaxFrames)
\* Left out are STARTING, which no rule of the client asks for, and COMPLETED and
\* CANCELLED: the client has closed its socket when the engine reports them.
EngineState == {"idle", "thinking", "speaking", "listening", "processing", "paused"}
Control == {"interrupt", "end_turn", "pause", "resume"}

Message == ({"state"} \X (EngineState \cup {"interrupted"})) \cup ({"tts_start", "tts_stop"} \X Generation)
             \cup ({"audio"} \X Frame)
Request == {<<c>> : c \in Control} \cup ({"playback_complete"} \X Generation)

NewEngine == [alive |-> TRUE, state |-> "idle", gen |-> 0, pending |-> 0,
              asker |-> "start", worker |-> FALSE, pipeline |-> FALSE, sent |-> 0]

\* 0 stands for the generation -1; sounding are the activeSources in the order
\* they play, stopped the sources whose onended event is still to come.
NewClient == [phase |-> "idle", socket |-> "none", state |-> "idle", cur |-> 0,
              pending |-> 0, sounding |-> <<>>, stopped |-> 0, attempts |-> 0,
              timer |-> FALSE]

Init ==
  /\ begun = FALSE
  /\ engine = [NewEngine EXCEPT !.alive = FALSE]
  /\ toClient = <<>> /\ toServer = <<>>
  /\ client = NewClient
  /\ heard = {} /\ confirmed = <<>> /\ dropped = {}
  /\ used = [controls |-> 0, breaks |-> 0]

-----------------------------------------------------------------------------
(* The engine.                                                              *)

\* _set_state: a state is reported when it changes.
Report(from, to) == IF from = to THEN <<>> ELSE << <<"state", to>> >>

\* A send waits while the connection is full.
Emit(e, messages) ==
  /\ Len(toClient) + Len(messages) <= MaxInFlight
  /\ engine' = e
  /\ toClient' = toClient \o messages
  /\ UNCHANGED <<client, heard, confirmed, dropped>>

Become(e, state) == Emit([e EXCEPT !.state = state], Report(e.state, state))

\* The candidate's window opens: _start_listening.
Listen(e) == Become([e EXCEPT !.pending = 0], "listening")

\* _speak_next_question up to its first await: a new stream is announced.
Ask(e) ==
  /\ e.gen < MaxStreams
  /\ Emit([e EXCEPT !.state = "thinking", !.gen = @ + 1, !.asker = "none",
                    !.worker = TRUE, !.pipeline = TRUE, !.sent = 0],
          Append(Report(e.state, "thinking"), <<"tts_start", e.gen + 1>>))

\* _start_session: the first connection asks, a later one resumes listening; an
\* error is reported and nothing asks.
StartSession ==
  /\ engine.alive /\ engine.asker = "start"
  /\ \/ ~begun /\ begun' = TRUE /\ Ask(engine)
     \/ begun /\ UNCHANGED begun /\ Listen([engine EXCEPT !.asker = "none"])
     \/ begun' \in {begun, TRUE} /\ Emit([engine EXCEPT !.asker = "none"], <<>>)
  /\ UNCHANGED <<toServer, used>>

\* _process_answer goes on to the next question, finds nothing said, or fails.
Answered ==
  /\ engine.alive /\ engine.asker = "answer"
  /\ LET e == [engine EXCEPT !.asker = "none"] IN
       Ask(e) \/ Become(e, "listening") \/ Emit(e, <<>>)
  /\ UNCHANGED <<begun, toServer, used>>

\* _process_answer begins: a pause since the turn ended is overruled.
AnswerBegins ==
  /\ engine.alive /\ engine.asker = "turn"
  /\ Become([engine EXCEPT !.asker = "answer"], "processing")
  /\ UNCHANGED <<begun, toServer, used>>

\* _request_end_turn by the button or the silence watchdog creates the answer task.
RequestEndTurn(e) ==
  Emit(IF e.state = "listening" /\ e.asker \notin {"turn", "answer"}
         THEN [e EXCEPT !.asker = "turn"] ELSE e, <<>>)

SilenceEndsTurn ==
  /\ engine.alive /\ engine.state = "listening" /\ engine.asker = "none"
  /\ RequestEndTurn(engine)
  /\ UNCHANGED <<begun, toServer, used>>

\* The first frame as it was sent before: a mutant reports the state after it.
SendAudio_StateLast ==
  /\ engine.alive /\ engine.worker /\ engine.sent < MaxFrames
  /\ LET n == engine.sent + 1
         e == [engine EXCEPT !.sent = n, !.state = IF n = 1 THEN "speaking" ELSE @]
     IN Emit(e, << <<"audio", <<engine.gen, n>>>> >> \o Report(engine.state, e.state))
  /\ UNCHANGED <<begun, toServer, used>>

\* The sender of _speech_worker: SPEAKING before the first frame.
SendAudio ==
  /\ engine.alive /\ engine.worker /\ engine.sent < MaxFrames
  /\ LET n == engine.sent + 1
         e == [engine EXCEPT !.sent = n, !.state = IF n = 1 THEN "speaking" ELSE @]
     IN Emit(e, Append(Report(engine.state, e.state), <<"audio", <<engine.gen, n>>>>))
  /\ UNCHANGED <<begun, toServer, used>>

\* The worker has sent everything: the stream ends, and in the states of a stream
\* its confirmation is awaited.
Spoken ==
  /\ engine.alive /\ engine.pipeline
  /\ LET e == [engine EXCEPT !.pipeline = FALSE, !.worker = FALSE] IN
       IF e.state \in {"thinking", "speaking"}
         THEN Emit([e EXCEPT !.pending = e.gen], << <<"tts_stop", e.gen>> >>)
         ELSE Emit(e, <<>>)
  /\ UNCHANGED <<begun, toServer, used>>

\* The pipeline fails and degrades to text; its worker goes on.
PipelineFails ==
  /\ engine.alive /\ engine.pipeline
  /\ Become([engine EXCEPT !.pipeline = FALSE], "listening")
  /\ UNCHANGED <<begun, toServer, used>>

PlaybackTimeout ==
  /\ engine.alive /\ engine.state = "speaking"
  /\ engine.pending # 0 /\ engine.pending = engine.gen
  /\ Listen(engine)
  /\ UNCHANGED <<begun, toServer, used>>

OnPlaybackComplete(e, g) ==
  IF e.state = "speaking" /\ e.pending = g THEN Listen(e) ELSE Emit(e, <<>>)

\* _cancel_tts, and no confirmation is awaited.
CancelTTS(e) == [e EXCEPT !.gen = @ + 1, !.worker = FALSE, !.pipeline = FALSE, !.pending = 0]

OnInterrupt(e) ==
  Emit([CancelTTS(e) EXCEPT !.state = "listening",
                            !.asker = IF @ = "start" THEN @ ELSE "none"],
       << <<"state", "interrupted">>, <<"state", "listening">> >>)

\* Opt-in: the candidate's voice interrupts, and the client is told.
BargeIn ==
  /\ engine.alive /\ engine.state \in {"speaking", "thinking"}
  /\ used.controls < MaxControls
  /\ used' = [used EXCEPT !.controls = @ + 1]
  /\ OnInterrupt(engine)
  /\ UNCHANGED <<begun, toServer>>

OnPause(e) ==
  CASE e.state \in {"speaking", "thinking"} -> Become(CancelTTS(e), "paused")
    [] e.state \in {"listening", "processing"} -> Become(e, "paused")
    [] OTHER -> Emit(e, <<>>)

OnResume(e) == IF e.state = "paused" THEN Become(e, "listening") ELSE Emit(e, <<>>)

\* The receive loop serves one control message.
OnControl ==
  /\ engine.alive /\ toServer # <<>>
  /\ toServer' = Tail(toServer)
  /\ UNCHANGED <<begun, used>>
  /\ LET m == Head(toServer) IN
       CASE m[1] = "playback_complete" -> OnPlaybackComplete(engine, m[2])
         [] m[1] = "interrupt" -> OnInterrupt(engine)
         [] m[1] = "end_turn"  -> RequestEndTurn(engine)
         [] m[1] = "pause"     -> OnPause(engine)
         [] m[1] = "resume"    -> OnResume(engine)

EngineStep ==
  \/ StartSession \/ SilenceEndsTurn \/ AnswerBegins \/ Answered
  \/ SendAudio \/ Spoken \/ PipelineFails \/ PlaybackTimeout
  \/ OnControl \/ BargeIn

\* The connection is lost, or the engine ends it: what was in flight may have
\* arrived up to any message.  The socket's close event comes after it.
Break ==
  /\ engine.alive /\ client.socket = "open"
  /\ used.breaks < MaxBreaks
  /\ used' = [used EXCEPT !.breaks = @ + 1]
  /\ engine' = [engine EXCEPT !.alive = FALSE]
  /\ \E n \in 0 .. Len(toClient) : toClient' = SubSeq(toClient, 1, n)
  /\ toServer' = <<>>
  /\ UNCHANGED <<begun, client, heard, confirmed, dropped>>
-----------------------------------------------------------------------------
(* The client.                                                              *)

\* The client becomes c without a message to the engine.
Client(c) ==
  /\ client' = c
  /\ UNCHANGED <<begun, engine, toServer, confirmed, used>>

Playing(c) == c.sounding # <<>>

\* Mutant: the generation given up still awaits its confirmation.
Silenced_KeepsPending(c) == [c EXCEPT !.sounding = <<>>, !.stopped = @ + Len(c.sounding),
                                      !.cur = 0]

\* flushPlayback, and the generation is no longer accepted.
Silenced(c) == [c EXCEPT !.sounding = <<>>, !.stopped = @ + Len(c.sounding),
                         !.cur = 0, !.pending = 0]

GiveUp(c) == dropped' = dropped \cup ({c.cur} \ {0})

\* Mutant: a confirmation does not clear pendingPlaybackGeneration.
NotifyPlaybackComplete_Again(c) ==
  IF c.socket = "open" /\ c.pending # 0 /\ c.pending = c.cur
    THEN /\ client' = c
         /\ toServer' = Append(toServer, <<"playback_complete", c.pending>>)
         /\ confirmed' = Append(confirmed, c.pending)
         /\ UNCHANGED <<begun, engine, used>>
    ELSE Client(c)

\* The stream that plays is confirmed, once, unless it was given up meanwhile.
NotifyPlaybackComplete(c) ==
  IF c.socket = "open" /\ c.pending # 0 /\ c.pending = c.cur
    THEN /\ client' = [c EXCEPT !.pending = 0]
         /\ toServer' = Append(toServer, <<"playback_complete", c.pending>>)
         /\ confirmed' = Append(confirmed, c.pending)
         /\ UNCHANGED <<begun, engine, used>>
    ELSE Client(c)

Start ==
  /\ client.phase = "idle"
  /\ Client([client EXCEPT !.phase = "starting"])
  /\ UNCHANGED <<toClient, heard, dropped>>

\* getUserMedia and the worklet are ready, or fail; a session that was ended
\* meanwhile has no audio context any more, and start() throws.
MicrophoneReady ==
  /\ client.phase = "starting"
  /\ \/ Client([client EXCEPT !.phase = "live", !.socket = "connecting"])
     \/ Client([client EXCEPT !.phase = "over"])
  /\ UNCHANGED <<toClient, heard, dropped>>

\* onopen; the server makes an engine for the connection.
Opened ==
  /\ client.socket = "connecting"
  /\ client' = [client EXCEPT !.socket = "open", !.attempts = 0]
  /\ engine' = NewEngine
  /\ toClient' = <<>> /\ toServer' = <<>>
  /\ heard' = {} /\ confirmed' = <<>> /\ dropped' = {}
  /\ UNCHANGED <<begun, used>>

\* Mutant: only a close the candidate asked for stops the playback.
OnClose_KeepsPlaying(c) ==
  CASE c.phase = "over" -> [Silenced(c) EXCEPT !.socket = "none", !.state = "idle"]
    [] c.phase # "over" /\ c.attempts < MaxAttempts ->
         [c EXCEPT !.socket = "none", !.state = "reconnecting",
                   !.attempts = @ + 1, !.timer = TRUE]
    [] OTHER -> [c EXCEPT !.socket = "none", !.state = "idle"]

\* onclose: nothing plays on, and a connection that was lost is tried again after
\* a delay, so many times.
OnClose(c) ==
  LET d == [Silenced(c) EXCEPT !.socket = "none"] IN
    IF c.phase # "over" /\ c.attempts < MaxAttempts
      THEN [d EXCEPT !.state = "reconnecting", !.attempts = @ + 1, !.timer = TRUE]
      ELSE [d EXCEPT !.state = "idle"]

\* The socket's close event: after the last message that arrived, when the server
\* cannot be reached, or when this client has closed it.
Closed ==
  /\ \/ client.socket = "open" /\ ~engine.alive /\ toClient = <<>>
     \/ client.socket \in {"connecting", "closing"}
  /\ Client(OnClose(client))
  /\ GiveUp(client)
  /\ UNCHANGED <<toClient, heard>>

ReconnectTimer ==
  /\ client.timer
  /\ Client([client EXCEPT !.timer = FALSE, !.socket = "connecting"])
  /\ UNCHANGED <<toClient, heard, dropped>>

\* dispatch of a state: an interruption or a pause kills the playback.
OnState(c, state) ==
  IF state \in {"interrupted", "paused"}
    THEN Client([Silenced(c) EXCEPT !.state = state]) /\ GiveUp(c)
    ELSE Client([c EXCEPT !.state = state]) /\ UNCHANGED dropped

\* enqueuePlayback: a frame is scheduled after those that play, or dropped.
EnqueuePlayback(c, frame) ==
  /\ Client(IF c.state = "speaking" /\ c.cur # 0
              THEN [c EXCEPT !.sounding = Append(@, frame)]
              ELSE c)
  /\ UNCHANGED dropped

\* handleMessage.
HandleMessage ==
  /\ client.socket = "open" /\ toClient # <<>>
  /\ toClient' = Tail(toClient)
  /\ UNCHANGED heard
  /\ LET m == Head(toClient) IN
       CASE m[1] = "state" -> OnState(client, m[2])
         [] m[1] = "audio" -> EnqueuePlayback(client, m[2])
         [] m[1] = "tts_start" ->
              Client([client EXCEPT !.cur = m[2], !.pending = m[2]]) /\ UNCHANGED dropped
         [] m[1] = "tts_stop" ->
              /\ IF Playing(client) THEN Client(client) ELSE NotifyPlaybackComplete(client)
              /\ UNCHANGED dropped

\* onended of the source that plays.  Nothing says whether more is to come: an
\* underrun looks like the end.
SourceEnded ==
  /\ Playing(client)
  /\ heard' = heard \cup {Head(client.sounding)}
  /\ LET c == [client EXCEPT !.sounding = Tail(@)] IN
       IF Playing(c) THEN Client(c) ELSE NotifyPlaybackComplete(c)
  /\ UNCHANGED <<toClient, dropped>>

\* onended of a source that flushPlayback stopped.
StoppedSourceEnded ==
  /\ client.stopped > 0
  /\ LET c == [client EXCEPT !.stopped = @ - 1] IN
       IF Playing(c) THEN Client(c) ELSE NotifyPlaybackComplete(c)
  /\ UNCHANGED <<toClient, heard, dropped>>

-----------------------------------------------------------------------------
(* The candidate's buttons, as the page offers them in each state.          *)

Offered == [interrupt |-> {"speaking"}, end_turn |-> {"listening"},
            pause |-> {"listening", "processing", "speaking"}, resume |-> {"paused"}]

\* Only an interruption changes the client before the engine answers.  A resume
\* has a place of its own in the bound, or no pause would ever end.
Press(control) ==
  /\ client.phase = "live" /\ client.state \in Offered[control]
  /\ used.controls < MaxControls + (IF control = "resume" THEN 1 ELSE 0)
  /\ used' = [used EXCEPT !.controls = @ + 1]
  /\ toServer' = IF client.socket = "open" THEN Append(toServer, <<control>>) ELSE toServer
  /\ IF control = "interrupt"
       THEN client' = Silenced(client) /\ GiveUp(client)
       ELSE UNCHANGED <<client, dropped>>
  /\ UNCHANGED <<begun, engine, toClient, heard, confirmed>>

\* stop(), or disconnect() when the session ended elsewhere: teardown closes the
\* socket, which takes no message any more.  What the engine does with the last
\* ones reaches nobody.
End ==
  /\ client.phase \in {"starting", "live"}
  /\ client' = [Silenced(client) EXCEPT !.phase = "over", !.timer = FALSE,
                   !.socket = IF @ = "none" THEN "none" ELSE "closing"]
  /\ engine' = [engine EXCEPT !.alive = FALSE]
  /\ toClient' = <<>> /\ toServer' = <<>>
  /\ GiveUp(client)
  /\ UNCHANGED <<begun, heard, confirmed, used>>

ClientStep ==
  \/ Start \/ MicrophoneReady
  \/ Opened \/ Closed \/ ReconnectTimer
  \/ HandleMessage \/ SourceEnded \/ StoppedSourceEnded

Next == \/ EngineStep
        \/ Break
        \/ ClientStep
        \/ \E control \in Control : Press(control)
        \/ End

Spec == Init /\ [][Next]_vars

-----------------------------------------------------------------------------
\* Every variable has its type; a generation awaiting its confirmation is the
\* one the client accepts.
TypeOK ==
  /\ begun \in BOOLEAN
  /\ engine \in [alive : BOOLEAN, state : EngineState, gen : Generation \cup {0},
                 pending : Generation \cup {0}, asker : {"start", "turn", "answer", "none"},
                 worker : BOOLEAN, pipeline : BOOLEAN, sent : 0 .. MaxFrames]
  /\ toClient \in Seq(Message) /\ toServer \in Seq(Request)
  /\ client \in [phase : {"idle", "starting", "live", "over"},
                 socket : {"none", "connecting", "open", "closing"},
                 state : EngineState \cup {"interrupted", "reconnecting"},
                 cur : Generation \cup {0}, pending : Generation \cup {0},
                 sounding : Seq(Frame), stopped : Nat, attempts : 0 .. MaxAttempts,
                 timer : BOOLEAN]
  /\ client.pending \in {0, client.cur}
  /\ heard \subseteq Frame /\ dropped \subseteq Generation
  /\ confirmed \in Seq(Generation)
  /\ used \in [controls : 0 .. MaxControls + 1, breaks : 0 .. MaxBreaks]

\* What is heard of a question is its beginning, without a gap, and none of it
\* sounds after it was given up, although the frames carry no generation and are
\* taken or dropped by the state and the generation that messages before them
\* announced (voice.ts:484, engine.py:575).
HeardIsUncut ==
  LET taken == heard \cup ToSet(client.sounding) IN
    /\ \A f \in taken : \A n \in 1 .. (f[2] - 1) : <<f[1], n>> \in taken
    /\ \A f \in ToSet(client.sounding) : f[1] \notin dropped

\* A stream is confirmed at most once, and never after a later one: underruns,
\* stopped sources and tts_stop all may confirm it (voice.ts:342).
ConfirmedOnce ==
  \A i, j \in DOMAIN confirmed : i < j => confirmed[i] < confirmed[j]

\* Interviewer audio never plays on when the connection or the session is gone,
\* and an interview the candidate has ended is not connected again by a timer or
\* a start that was under way (voice.ts:220, voice.ts:308).
EndedIsQuiet ==
  /\ Playing(client) =>
       /\ client.phase = "live" /\ client.socket = "open"
       /\ client.state \in {"speaking", "listening", "processing", "thinking"}
  /\ client.timer => client.phase = "live" /\ client.socket = "none"
  /\ client.phase = "over" => client.socket \in {"none", "closing"}

\* "called only when the playback queue has ACTUALLY drained (or nothing was
\* queued). Tells the server that real playback finished" (voice.ts:337): a
\* confirmation on its way is of a stream that was sent and heard whole.
ConfirmedIsPlayed ==
  \A i \in DOMAIN toServer : toServer[i] = <<"playback_complete", engine.gen>> =>
    /\ ~engine.worker
    /\ \A n \in 1 .. engine.sent : <<engine.gen, n>> \in heard

=============================================================================
