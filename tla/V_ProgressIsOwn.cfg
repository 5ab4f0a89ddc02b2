\* Segments of 2 to 3 characters (60 to 200 in the code), chunks of 8 with 4
\* carried over (1200 and 200), legs of 3 (20) and 2 results (5).
CONSTANTS
  MinChars = 2
  MaxChars = 3
  MaxText = 6
  ChunkSize = 8
  ChunkOverlap = 4
  MaxParagraphs = 4
  RrfK = 60
  FetchPerSide = 3
  TopK = 2
  Hits = {h1, h2, h3}
  Words = {"go", "sql", "ops", "general"}
  Unnamed = Unnamed
  NoReasoning = NoReasoning
  Unavailable = Unavailable
  Unscored = Unscored
  NoTrend = NoTrend
  MaxEvents = 5
  MaxEvidence = 3
  Profiles = {p1, p2}
  MaxRows = 4
SPECIFICATION Spec
INVARIANT ProgressIsOwn
\* An input is built up to a bound.
CHECK_DEADLOCK FALSE
