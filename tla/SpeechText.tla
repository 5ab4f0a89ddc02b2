----------------------------- MODULE SpeechText -----------------------------
(* From the text a model streams for one question to what is spoken and what *)
(* is stored: the extractor and the segmenter of voice/segmenter.py, the     *)
(* loop of engine.py that feeds them, and parse_question_output of           *)
(* generation.py, which reads the same text once it is complete.  A text is  *)
(* a sequence of characters; a metadata key ("QUESTION:", "CATEGORY:", ...)  *)
(* counts as one, "w" stands for any other visible character.                *)
EXTENDS Integers, Sequences, SequencesExt, FiniteSetsExt

CONSTANTS MinChars,   \* TextSegmenter.min_chars
          MaxChars    \* TextSegmenter.max_chars

ASSUME SegmenterAssumption ==
  /\ MinChars \in Nat \ {0}
  /\ MaxChars \in Nat
  /\ MinChars <= MaxChars

Boundaries == {"."}
Spaces     == {" ", "\n"}
Header     == "QUESTION:"
Hints      == "HINTS:"

\* The two tables of keys that must be kept in step by hand.
ParserKeys    == {"CATEGORY:", Hints}
\* Mutant: a key added to the parser only.
ExtractorKeys_Stale == {Hints}
ExtractorKeys == {"CATEGORY:", Hints}

-----------------------------------------------------------------------------
(* str.strip, str.lstrip, and the last place of a character of a set, 0 for  *)
(* none.                                                                     *)
LastIn(s, chars) == Max({0} \cup {i \in DOMAIN s : s[i] \in chars})
LStrip(s) ==
  SubSeq(s, Min({Len(s) + 1} \cup {i \in DOMAIN s : s[i] \notin Spaces}), Len(s))
Strip(s) == Reverse(LStrip(Reverse(LStrip(s))))
Starts(line, keys) == Strip(line) # <<>> /\ Head(Strip(line)) \in keys

Visible(s) ==
  FoldLeft(LAMBDA seen, ch : IF ch \in Spaces THEN seen ELSE Append(seen, ch), <<>>, s)

-----------------------------------------------------------------------------
(* TextSegmenter: what it holds back and the segments it has let go.         *)
Segmenter == [held |-> <<>>, said |-> <<>>]

Say(s, cut) ==
  LET segment == Strip(SubSeq(s.held, 1, cut))
  IN [held |-> SubSeq(s.held, cut + 1, Len(s.held)),
      said |-> IF segment = <<>> THEN s.said ELSE Append(s.said, segment)]

\* Cut at the last end of a sentence; failing that, when the text is as long
\* as it may be, at the last space, or all of it.
WordCut(held) ==
  LET space == LastIn(held, Spaces) - 1
  IN IF space > MinChars \div 2 THEN space ELSE Len(held)

HardCut(s) ==
  LET cut == Say(s, WordCut(s.held))
  IN [cut EXCEPT !.held = LStrip(@)]

Cut(s) ==
  IF LastIn(s.held, Boundaries) >= MinChars THEN Say(s, LastIn(s.held, Boundaries))
  ELSE IF Len(s.held) >= MaxChars THEN HardCut(s)
  ELSE s

\* Until nothing more can be cut: a cut takes one character at least.
Drain(s) == FoldLeft(LAMBDA left, ch : Cut(left), s, s.held)

Feed(s, text) == Drain([s EXCEPT !.held = @ \o text])
FlushSegmenter(s) == Say(s, Len(s.held))

-----------------------------------------------------------------------------
(* QuestionStreamExtractor: a line goes on to the segmenter once it is       *)
(* complete, until the first line of metadata.  The header is cut by its     *)
(* length from the line as it came: an indented one leaves some of it.       *)
Body(line) ==
  IF Head(line) = Header THEN Tail(line)
  ELSE <<"w">> \o Tail(LStrip(line))

Extractor == [line |-> <<>>, done |-> FALSE, segmenter |-> Segmenter]

ProcessLine(e) ==
  LET feed(text) == [e EXCEPT !.line = <<>>, !.segmenter = Feed(@, text)]
  IN IF Starts(e.line, ExtractorKeys)
       THEN [e EXCEPT !.line = <<>>, !.done = TRUE]
     ELSE IF Starts(e.line, {Header})
       THEN feed(IF Visible(Body(e.line)) = <<>> THEN <<>> ELSE Body(e.line))
     ELSE feed(e.line)

FeedToken(e, ch) ==
  IF e.done THEN e
  ELSE IF ch = "\n" THEN ProcessLine(e)
  ELSE [e EXCEPT !.line = Append(@, ch)]

FlushExtractor(e) == IF e.done \/ e.line = <<>> THEN e ELSE ProcessLine(e)

\* _speak_next_question: every token through both, then both are flushed.
Streamed(text) == FoldLeft(FeedToken, Extractor, text)
Spoken(text) ==
  FlattenSeq(FlushSegmenter(FlushExtractor(Streamed(text)).segmenter).said)

-----------------------------------------------------------------------------
(* parse_question_output: the question is what comes before the first key.   *)
\* The lines of a text, each stripped, none of them empty.
Split(text) ==
  FoldLeft(LAMBDA ls, ch : IF ch = "\n" THEN Append(ls, <<>>)
                           ELSE [ls EXCEPT ![Len(ls)] = Append(@, ch)],
           << <<>> >>, text)
Stripped(lines) ==
  FoldLeft(LAMBDA ls, line : IF Strip(line) = <<>> THEN ls ELSE Append(ls, Strip(line)),
           <<>>, lines)
Lines(text) == Stripped(Split(text))

NoValue == <<>>

ReadLine(p, line) ==
  LET key   == Head(line)
      value == Strip(Tail(line))
      inQuestion == p.mode = "question" /\ key \notin ParserKeys
      inKeys     == p.mode \in {"question", "kv"} /\ ~inQuestion
  IN IF inQuestion
       THEN [p EXCEPT !.text = @ \o (IF key = Header THEN value ELSE line)]
     ELSE IF inKeys /\ key = Hints
       THEN [p EXCEPT !.mode = "hints"]
     ELSE IF inKeys /\ key = "CATEGORY:" /\ value # NoValue
       THEN [p EXCEPT !.mode = "kv", !.category = value]
     ELSE IF inKeys
       THEN [p EXCEPT !.mode = "kv"]
     ELSE [p EXCEPT !.hints = IF key = "-" /\ value # NoValue THEN @ + 1 ELSE @]

Parse(text) ==
  FoldLeft(ReadLine,
           [mode |-> "question", text |-> <<>>, category |-> NoValue, hints |-> 0],
           Lines(text))

\* No question text: ValidationFailedError, and nothing is stored.
Rejected(text) == Parse(text).text = <<>>
=============================================================================
