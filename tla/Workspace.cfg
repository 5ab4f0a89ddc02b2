\* Two requests at a time on two profiles and two documents of one content.
CONSTANTS
  Req = {r1, r2}
  Content = {c1}
  MaxProfiles = 2
  MaxDocs = 2
  MaxClaims = 1
  MaxRequests = 6
SYMMETRY Slots
SPECIFICATION Spec
INVARIANTS TypeOK RowsHaveOwners PointersAreOwned StoredContentIsReadable ContextIsOwn
PROPERTY ReindexKeepsText
\* Ids are bounded, so in the end nothing may be left to do.
CHECK_DEADLOCK FALSE
