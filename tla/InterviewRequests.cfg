\* Two requests at a time: one question, one idempotency key, the moves of a
\* session that a client may ask for.
CONSTANTS
  Req = {r1, r2}
  Snapshot = {s1, s2}
  Key = {k1}
  None = None
  Moves = {"paused", "questioning", "cancelled"}
  MaxQuestions = 1
  MaxHints = 0
  MaxFeedback = 2
SPECIFICATION FairSpec
INVARIANTS TypeOK TranscriptIsDense AnswersFollowQuestions ConfigRefersToRows
  KeysIdentifyAnswers NeverUngrounded FeedbackIsFounded
PROPERTY RequestsEnd
\* A session that has ended takes no request further.
CHECK_DEADLOCK FALSE
