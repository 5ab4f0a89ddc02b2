------------------------ MODULE ProfileWorkspaceProofs ------------------------
(***************************************************************************)
(* The invariants of ProfileWorkspace for any number of requests, profiles, *)
(* documents and contents.                                                 *)
(*                                                                         *)
(* IInv adds to what the runs check what the requests in flight rely on:   *)
(* ids are drawn once, a flushed document keeps its owner and its file, and *)
(* what a request read of a document is still true while the document is    *)
(* there.                                                                  *)
(***************************************************************************)
EXTENDS ProfileWorkspace, WellFoundedInduction, TLAPS

USE WorkspaceAssumption

\* A flushed document is new to every table and every other request, and its
\* owner and its file are there.
FlushedIsFresh ==
  /\ \A x \in documents : x.id <= ids.doc
  /\ \A r \in Req : req[r].d <= ids.doc
  /\ \A r \in Req : req[r].op = "parse" =>
       /\ req[r].d # NULL /\ ~Live(req[r].d)
       /\ user /\ req[r].p \in profiles \cup {NULL}
       /\ StorageKey(req[r].k, req[r].c) \in files
       /\ \A s \in Req \ {r} : req[s].d # req[r].d

\* The document a request selected is of the kind and profile it was read with.
SelectedIsOwn ==
  /\ \A r \in Req : req[r].op = "prefer" =>
       \A x \in documents : x.id = req[r].d => x.profile = req[r].p /\ x.kind = req[r].k
  /\ \A r \in Req : req[r].op = "context_text" =>
       \A x \in documents : x.id = req[r].d => x.profile \in {req[r].p, NULL}

IInv ==
  /\ TypeOK
  /\ RowsHaveOwners
  /\ PointersAreOwned
  /\ StoredContentIsReadable
  /\ ContextIsOwn
  /\ FlushedIsFresh
  /\ SelectedIsOwn

Act(r) == ProfileStep(r) \/ DocumentStep(r) \/ GroundingStep(r) \/ Fail(r)

\* The steps that change nothing but the request and, for some, its counter.
Quiet == UNCHANGED rows

\* The steps that change a row, a file or a document id.
Writes(r) ==
  \/ CreateCommit(r) \/ ActivateCommit(r) \/ DeleteProfileCommit(r) \/ DeleteUser(r)
  \/ PreferCommit(r) \/ Store(r) \/ Parsed(r) \/ DeleteDocumentCommit(r)
  \/ IndexCommit(r) \/ ReindexFailed(r) \/ ExtractCommit(r) \/ AnalyzeCommit(r)

\* The steps that begin a request or go on with one, and write nothing.
Reads(r) ==
  \/ Create(r) \/ Activate(r) \/ DeleteProfile(r) \/ Prefer(r)
  \/ Upload(r) \/ DeleteDocument(r) \/ Index(r) \/ IndexDegraded(r) \/ ReindexReply(r)
  \/ Extract(r) \/ Analyze(r) \/ Context(r) \/ ContextDocs(r) \/ ContextLegacy(r)
  \/ ContextText(r) \/ Fail(r)

LEMMA ActSplit ==
  ASSUME NEW r \in Req, Act(r)
  PROVE  Reads(r) \/ Writes(r)
BY DEF Act, Reads, Writes, ProfileStep, DocumentStep, GroundingStep

\* A non-empty set of naturals has a least element, and a bounded one a greatest.
LEMMA LeastOf ==
  ASSUME NEW S, S \subseteq Nat, S # {}
  PROVE  \E n \in S : \A m \in S : n <= m
<1> DEFINE R == {p \in Nat \X Nat : p[1] < p[2]}
<1>1. IsWellFoundedOn(R, Nat)
  <2>1. IsWellFoundedOn(OpToRel(<, Nat), Nat)
    BY NatLessThanWellFounded
  <2>. QED BY <2>1 DEF OpToRel
<1>2. PICK n \in S : \A m \in S : ~(<<m, n>> \in R)
  <2>. HIDE DEF R
  <2>. QED BY <1>1, WFMin
<1>3. ASSUME NEW m \in S PROVE n <= m
  <2>1. m \in Nat /\ n \in Nat
    OBVIOUS
  <2>2. ~(m < n)
    <3>1. <<m, n>> \notin R
      BY <1>2
    <3>. QED BY <2>1, <3>1
  <2>. QED BY <2>1, <2>2
<1>. QED BY <1>3

LEMMA GreatestOf ==
  ASSUME NEW b \in Nat, NEW S, S \subseteq 0 .. b, S # {}
  PROVE  \E n \in S : \A m \in S : m <= n
<1> DEFINE T == {b - m : m \in S}
<1>1. T \subseteq Nat /\ T # {}
  <2>1. \A m \in S : b - m \in Nat
    OBVIOUS
  <2>2. PICK m \in S : TRUE
    OBVIOUS
  <2>3. b - m \in T
    OBVIOUS
  <2>. QED BY <2>1, <2>3
<1>2. PICK t \in T : \A u \in T : t <= u
  <2>. HIDE DEF T
  <2>. QED BY <1>1, LeastOf
<1>3. PICK n \in S : t = b - n
  OBVIOUS
<1>4. ASSUME NEW m \in S PROVE m <= n
  <2>1. b - m \in T
    OBVIOUS
  <2>2. t <= b - m
    BY <1>2, <2>1
  <2>. QED BY <1>3, <2>2
<1>. QED BY <1>4

LEMMA IdleTyped == Idle \in Request
<1>1. (CHOOSE c \in Content : TRUE) \in Content
  OBVIOUS
<1>. QED BY <1>1 DEF Idle, Request, Op, Kind, NULL

LEMMA InitInv == Init => IInv
<1> SUFFICES ASSUME Init PROVE IInv
  OBVIOUS
<1>1. TypeOK
  <2>1. /\ preferred \in [Profile -> [Kind -> Doc \cup {NULL}]]
        /\ active \in Profile \cup {NULL} /\ user \in BOOLEAN
    BY DEF Init
  <2>2. req \in [Req -> Request]
    BY IdleTyped DEF Init
  <2>3. ids \in [profile : 0 .. MaxProfiles, doc : 0 .. MaxDocs, request : 0 .. MaxRequests]
    BY DEF Init
  <2>. QED BY <2>1, <2>2, <2>3 DEF Init, TypeOK
<1>2. RowsHaveOwners /\ PointersAreOwned /\ StoredContentIsReadable
  BY DEF Init, RowsHaveOwners, PointersAreOwned, StoredContentIsReadable, NULL, Profile, Kind
<1>3. ContextIsOwn /\ FlushedIsFresh /\ SelectedIsOwn
  BY DEF Init, ContextIsOwn, NoReply, FlushedIsFresh, SelectedIsOwn, Idle, NULL
<1>. QED BY <1>1, <1>2, <1>3 DEF IInv

\* A request that only reads leaves every row as it was, and ids drawn stay drawn.
LEMMA ReadsWriteNothing ==
  ASSUME TypeOK, NEW r \in Req, Reads(r)
  PROVE  /\ UNCHANGED <<rows, files>>
         /\ ids' \in [profile : 0 .. MaxProfiles, doc : 0 .. MaxDocs, request : 0 .. MaxRequests]
         /\ ids'.doc = ids.doc
<1>1. ids \in [profile : 0 .. MaxProfiles, doc : 0 .. MaxDocs, request : 0 .. MaxRequests]
  BY DEF TypeOK
<1>2. UNCHANGED <<rows, files>>
  BY DEF Reads, Create, Activate, DeleteProfile, Prefer, Upload, DeleteDocument, Index,
         IndexDegraded, ReindexReply, Extract, Analyze, Context, ContextDocs, ContextLegacy,
         ContextText, Fail
<1>3. Accept(r) \/ UNCHANGED ids
  BY DEF Reads, Create, Activate, DeleteProfile, Prefer, Upload, DeleteDocument, Index,
         IndexDegraded, ReindexReply, Extract, Analyze, Context, ContextDocs, ContextLegacy,
         ContextText, Fail
<1>4. CASE Accept(r)
  <2>1. ids.request + 1 \in 0 .. MaxRequests
    BY <1>1, <1>4 DEF Accept
  <2>2. ids' = [ids EXCEPT !.request = @ + 1]
    BY <1>4 DEF Accept
  <2>. QED BY <1>1, <1>2, <2>1, <2>2
<1>5. CASE UNCHANGED ids
  BY <1>1, <1>2, <1>5
<1>. QED BY <1>3, <1>4, <1>5

\* A document answered with by name is one of the rows.
LEMMA RowOfDocument ==
  ASSUME TypeOK, NEW x \in documents
  PROVE  x.id \in Doc /\ x.profile \in Profile \cup {NULL} /\ x.kind \in Kind
         /\ x.content \in Content /\ Live(x.id)
BY DEF TypeOK, Document, Live

\* The documents a preference or the context chooses from are rows.
LEMMA ResolvedTyped ==
  ASSUME TypeOK, NEW p \in profiles \cup {NULL}
  PROVE  Resolved(p) \in Profile \cup {NULL}
<1>1. profiles \subseteq Nat /\ profiles \subseteq Profile
  BY DEF TypeOK, Profile
<1>2. CASE p # NULL \/ profiles = {}
  BY <1>1, <1>2 DEF Resolved
<1>3. CASE p = NULL /\ profiles # {}
  <2>1. \E q \in profiles : \A s \in profiles : q <= s
    BY <1>1, <1>3, LeastOf
  <2>2. Resolved(p) \in profiles
    BY <1>3, <2>1 DEF Resolved
  <2>. QED BY <1>1, <2>2
<1>. QED BY <1>2, <1>3

LEMMA SelectedIsRow ==
  ASSUME TypeOK, NEW xs \in SUBSET documents, xs # {}, NEW saw
  PROVE  \E x \in xs : x.id = Select(saw, xs)
<1>1. CASE \E x \in xs : x.id = saw
  BY <1>1 DEF Select
<1>2. CASE ~\E x \in xs : x.id = saw
  <2> DEFINE S == {x.id : x \in xs}
  <2>1. S \subseteq 0 .. MaxDocs /\ S # {}
    BY RowOfDocument DEF Doc
  <2>2. \E d \in S : \A e \in S : e <= d
    <3>. HIDE DEF S
    <3>. QED BY <2>1, GreatestOf
  <2>3. \E d \in S : \A x \in xs : x.id <= d
    BY <2>2
  <2>4. Select(saw, xs) \in S
    BY <1>2, <2>3 DEF Select
  <2>. QED BY <2>4
<1>. QED BY <1>1, <1>2

\* What a reading step leaves in its slot.
LEMMA ReadsKeepType ==
  ASSUME IInv, NEW r \in Req, Reads(r)
  PROVE  \E q \in Request : req' = [req EXCEPT ![r] = q]
<1>1. TypeOK /\ Idle \in Request
  BY IdleTyped DEF IInv
<1>2. /\ profiles \subseteq Profile /\ active \in Profile \cup {NULL} /\ active \in Nat
      /\ \A p \in Profile, k \in Kind : preferred[p][k] \in Doc \cup {NULL} /\ preferred[p][k] \in Nat
      /\ req \in [Req -> Request] /\ req[r] \in Request
  BY <1>1 DEF TypeOK, Profile, Doc, NULL
<1>3. CASE Create(r)
  <2>1. req' = [req EXCEPT ![r] = [Idle EXCEPT !.op = IF user THEN "create" ELSE "create_user", !.saw = active]]
    BY <1>3 DEF Create, Become
  <2>2. [Idle EXCEPT !.op = IF user THEN "create" ELSE "create_user", !.saw = active] \in Request
    BY <1>1, <1>2 DEF Request, Op
  <2>. QED BY <2>1, <2>2
<1>4. CASE Activate(r)
  BY <1>1, <1>2, <1>4 DEF Activate, Become, Request, Op
<1>5. CASE DeleteProfile(r)
  BY <1>1, <1>2, <1>5 DEF DeleteProfile, Become, Request, Op
<1>6. CASE Prefer(r)
  <2>1. PICK p \in profiles, k \in Kind : \E d \in Preferrable(p, k) :
          req' = [req EXCEPT ![r] = [Idle EXCEPT !.op = "prefer", !.p = p, !.d = d, !.k = k,
                                                 !.saw = preferred[p][k]]]
    BY <1>6 DEF Prefer, Become
  <2>2. Preferrable(p, k) \subseteq Doc \cup {NULL}
    BY <1>1, RowOfDocument DEF Preferrable
  <2>. QED BY <1>1, <1>2, <2>1, <2>2 DEF Request, Op
<1>7. CASE Upload(r)
  <2>1. PICK p0 \in profiles \cup {NULL}, k \in Kind, c \in Content :
          \/ req' = [req EXCEPT ![r] = [Idle EXCEPT !.op = "store", !.p = Resolved(p0),
                                                    !.k = k, !.c = c]]
          \/ req' = [req EXCEPT ![r] = Idle]
    BY <1>7 DEF Upload, Become, Respond
  <2>. QED BY <1>1, <2>1, ResolvedTyped DEF Request, Op
<1>8. CASE DeleteDocument(r)
  BY <1>1, <1>8, RowOfDocument DEF DeleteDocument, Await, Become, Request, Op
<1>9. CASE Index(r)
  BY <1>1, <1>9, RowOfDocument DEF Index, Await, Become, Request, Op
<1>10. CASE IndexDegraded(r)
  BY <1>1, <1>2, <1>10 DEF IndexDegraded, Await, Become, Request, Op
<1>11. CASE ReindexReply(r)
  BY <1>1, <1>11 DEF ReindexReply, Respond
<1>12. CASE Extract(r)
  BY <1>1, <1>2, <1>12, RowOfDocument DEF Extract, Await, Become, Request, Op
<1>13. CASE Analyze(r)
  BY <1>1, <1>2, <1>13, RowOfDocument DEF Analyze, Await, Become, Request, Op
<1>14. CASE Context(r)
  <2>1. PICK p \in profiles, k \in Kind :
          req' = [req EXCEPT ![r] = [Idle EXCEPT !.op = "context_docs", !.p = p, !.k = k,
                                                 !.saw = preferred[p][k]]]
    BY <1>14 DEF Context, Become
  <2>. QED BY <1>1, <1>2, <2>1 DEF Request, Op
<1>15. CASE ContextDocs(r) \/ ContextLegacy(r)
  <2>1. CASE Respond(r, [to |-> "context", p |-> req[r].p, d |-> NULL])
    BY <1>1, <2>1 DEF Respond
  <2>2. CASE Become(r, [req[r] EXCEPT !.op = "context_legacy"])
    BY <1>1, <1>2, <2>2 DEF Become, Request, Op
  <2>3. ASSUME NEW xs \in SUBSET documents, xs # {}, Choose(r, xs)
        PROVE  \E q \in Request : req' = [req EXCEPT ![r] = q]
    <3>1. req' = [req EXCEPT ![r] = [req[r] EXCEPT !.op = "context_text",
                                     !.d = Select(req[r].saw, xs), !.saw = 0]]
      BY <2>3 DEF Choose, Become
    <3>2. Select(req[r].saw, xs) \in Doc
      BY <1>1, <2>3, SelectedIsRow, RowOfDocument
    <3>. QED BY <1>1, <1>2, <3>1, <3>2 DEF Request, Op
  <2>4. Candidates(req[r].p, req[r].k) \in SUBSET documents
        /\ Candidates(NULL, req[r].k) \in SUBSET documents
    BY DEF Candidates
  <2>. QED BY <1>15, <2>1, <2>2, <2>3, <2>4 DEF ContextDocs, ContextLegacy
<1>16. CASE ContextText(r)
  BY <1>1, <1>16 DEF ContextText, Respond
<1>17. CASE Fail(r)
  BY <1>1, <1>17 DEF Fail, Done, Respond
<1>. QED BY <1>3, <1>4, <1>5, <1>6, <1>7, <1>8, <1>9, <1>10, <1>11, <1>12, <1>13, <1>14,
            <1>15, <1>16, <1>17 DEF Reads

\* A step writes its own slot only.
LEMMA Slot ==
  ASSUME TypeOK, NEW r \in Req, NEW q, req' = [req EXCEPT ![r] = q]
  PROVE  req'[r] = q /\ \A s \in Req \ {r} : req'[s] = req[s]
BY DEF TypeOK

\* The fields of a slot made from Idle.
LEMMA IdleFields ==
  ASSUME NEW op, NEW p, NEW d, NEW k, NEW c, NEW saw
  PROVE  /\ Idle.op = "idle" /\ Idle.d = NULL
         /\ LET q == [Idle EXCEPT !.op = op, !.saw = saw]
            IN q.op = op /\ q.d = NULL
         /\ LET q == [Idle EXCEPT !.op = op, !.p = p, !.saw = saw]
            IN q.op = op /\ q.d = NULL
         /\ LET q == [Idle EXCEPT !.op = op, !.p = p, !.k = k, !.saw = saw]
            IN q.op = op /\ q.d = NULL
         /\ LET q == [Idle EXCEPT !.op = op, !.p = p, !.k = k, !.c = c]
            IN q.op = op /\ q.d = NULL
         /\ LET q == [Idle EXCEPT !.op = op, !.p = p, !.d = d]
            IN q.op = op /\ q.p = p /\ q.d = d
         /\ LET q == [Idle EXCEPT !.op = op, !.p = p, !.d = d, !.k = k, !.saw = saw]
            IN q.op = op /\ q.p = p /\ q.d = d /\ q.k = k
BY DEF Idle

\* What a slot names is nothing, a row, or what the slot named before.
Names(q, was) == q.d = NULL \/ Live(q.d) \/ (q.d = was.d /\ was.op # "parse")

\* A document selected in q is of the profile and the kind it was read with.
Selects(q) ==
  /\ q.op = "prefer" =>
       \A x \in documents : x.id = q.d => x.profile = q.p /\ x.kind = q.k
  /\ q.op = "context_text" =>
       \A x \in documents : x.id = q.d => x.profile \in {q.p, NULL}

\* A reading step selects documents that are there, of the profile and the kind
\* it read them with, and it starts no transaction.
LEMMA ReadsSelectOwn ==
  ASSUME IInv, NEW r \in Req, Reads(r)
  PROVE  req'[r].op # "parse" /\ Names(req'[r], req[r]) /\ Selects(req'[r])
<1>1. TypeOK /\ req \in [Req -> Request] /\ \A x, y \in documents : x.id = y.id => x = y
  BY DEF IInv, TypeOK
<1>2. \A x \in documents : x.id # NULL
  BY <1>1, RowOfDocument DEF Doc, NULL
<1>3. ASSUME NEW q, req' = [req EXCEPT ![r] = q], q.d = NULL,
             q.op \notin {"parse", "prefer", "context_text"}
      PROVE  req'[r].op # "parse" /\ Names(req'[r], req[r]) /\ Selects(req'[r])
  BY <1>1, <1>3, Slot DEF Names, Selects
<1>4. CASE Create(r)
  <2> DEFINE q == [Idle EXCEPT !.op = IF user THEN "create" ELSE "create_user", !.saw = active]
  <2>1. req' = [req EXCEPT ![r] = q]
    BY <1>4 DEF Create, Become
  <2>2. q.op \in {"create", "create_user"} /\ q.d = NULL
    BY IdleFields
  <2>. QED BY <1>3, <2>1, <2>2
<1>5. CASE Activate(r)
  <2>1. PICK p \in profiles :
          req' = [req EXCEPT ![r] = [Idle EXCEPT !.op = "activate", !.p = p, !.saw = active]]
    BY <1>5 DEF Activate, Become
  <2> DEFINE q == [Idle EXCEPT !.op = "activate", !.p = p, !.saw = active]
  <2>2. q.op = "activate" /\ q.d = NULL
    BY IdleFields
  <2>. HIDE DEF q
  <2>. QED BY <1>3, <2>1, <2>2 DEF q
<1>6. CASE DeleteProfile(r)
  <2>1. PICK p \in profiles :
          req' = [req EXCEPT ![r] = [Idle EXCEPT !.op = "delete_profile", !.p = p, !.saw = active]]
    BY <1>6 DEF DeleteProfile, Become
  <2> DEFINE q == [Idle EXCEPT !.op = "delete_profile", !.p = p, !.saw = active]
  <2>2. q.op = "delete_profile" /\ q.d = NULL
    BY IdleFields
  <2>. HIDE DEF q
  <2>. QED BY <1>3, <2>1, <2>2 DEF q
<1>7. CASE Upload(r)
  <2>1. PICK p0 \in profiles \cup {NULL}, k \in Kind, c \in Content :
          \/ req' = [req EXCEPT ![r] = [Idle EXCEPT !.op = "store", !.p = Resolved(p0),
                                                    !.k = k, !.c = c]]
          \/ req' = [req EXCEPT ![r] = Idle]
    BY <1>7 DEF Upload, Become, Respond
  <2> DEFINE q == [Idle EXCEPT !.op = "store", !.p = Resolved(p0), !.k = k, !.c = c]
  <2>2. q.op = "store" /\ q.d = NULL
    BY IdleFields
  <2>3. Idle.op = "idle" /\ Idle.d = NULL
    BY IdleFields
  <2>4. req' = [req EXCEPT ![r] = q] \/ req' = [req EXCEPT ![r] = Idle]
    BY <2>1
  <2>. HIDE DEF q
  <2>. QED BY <1>3, <2>2, <2>3, <2>4
<1>8. CASE Context(r)
  <2>1. PICK p \in profiles, k \in Kind :
          req' = [req EXCEPT ![r] = [Idle EXCEPT !.op = "context_docs", !.p = p, !.k = k,
                                                 !.saw = preferred[p][k]]]
    BY <1>8 DEF Context, Become
  <2> DEFINE q == [Idle EXCEPT !.op = "context_docs", !.p = p, !.k = k,
                                                 !.saw = preferred[p][k]]
  <2>2. q.op = "context_docs" /\ q.d = NULL
    BY IdleFields
  <2>. HIDE DEF q
  <2>. QED BY <1>3, <2>1, <2>2 DEF q
<1>9. CASE ReindexReply(r) \/ ContextText(r) \/ Fail(r)
  <2>1. req' = [req EXCEPT ![r] = Idle]
    BY <1>9 DEF ReindexReply, ContextText, Fail, Done, Respond
  <2>. QED BY <1>3, <2>1, IdleFields
<1>10. CASE Prefer(r)
  <2>1. PICK p \in profiles, k \in Kind : \E d \in Preferrable(p, k) :
          req' = [req EXCEPT ![r] = [Idle EXCEPT !.op = "prefer", !.p = p, !.d = d, !.k = k,
                                                 !.saw = preferred[p][k]]]
    BY <1>10 DEF Prefer, Become
  <2>2. PICK d \in Preferrable(p, k) :
          req' = [req EXCEPT ![r] = [Idle EXCEPT !.op = "prefer", !.p = p, !.d = d, !.k = k,
                                                 !.saw = preferred[p][k]]]
    BY <2>1
  <2>3. req'[r].op = "prefer" /\ req'[r].p = p /\ req'[r].d = d /\ req'[r].k = k
    BY <1>1, <2>2, Slot, IdleFields
  <2>4. d = NULL \/ \E x \in documents : x.id = d /\ x.profile = p /\ x.kind = k
    BY DEF Preferrable
  <2>. QED BY <1>1, <1>2, <2>3, <2>4 DEF Names, Selects, Live
<1>11. ASSUME NEW op, NEW p, NEW d, Await(r, op, p, d),
              op \notin {"parse", "prefer", "context_text"},
              d = NULL \/ Live(d) \/ (d = req[r].d /\ req[r].op # "parse")
       PROVE  req'[r].op # "parse" /\ Names(req'[r], req[r]) /\ Selects(req'[r])
  <2>1. req'[r].op = op /\ req'[r].d = d
    BY <1>1, <1>11, Slot, IdleFields DEF Await, Become
  <2>. QED BY <1>11, <2>1 DEF Names, Selects
<1>12. CASE DeleteDocument(r) \/ Index(r) \/ Extract(r)
  <2>1. PICK x \in documents, op \in {"delete_document", "index", "extract"} :
          \E p : Await(r, op, p, x.id)
    BY <1>12 DEF DeleteDocument, Index, Extract
  <2>2. Live(x.id)
    BY DEF Live
  <2>. QED BY <1>11, <2>1, <2>2
<1>13. CASE Analyze(r)
  <2>1. PICK d \in {x.id : x \in documents} \cup {NULL} : \E p : Await(r, "analyze", p, d)
    BY <1>13 DEF Analyze
  <2>2. d = NULL \/ Live(d)
    BY DEF Live
  <2>. QED BY <1>11, <2>1, <2>2
<1>14. CASE IndexDegraded(r)
  BY <1>11, <1>14 DEF IndexDegraded
<1>15. CASE ContextDocs(r) \/ ContextLegacy(r)
  <2>1. CASE Respond(r, [to |-> "context", p |-> req[r].p, d |-> NULL])
    <3>1. req' = [req EXCEPT ![r] = Idle]
      BY <2>1 DEF Respond
    <3>. QED BY <1>3, <3>1, IdleFields
  <2>2. CASE req[r].op = "context_docs" /\ Become(r, [req[r] EXCEPT !.op = "context_legacy"])
    <3>1. req'[r].op = "context_legacy" /\ req'[r].d = req[r].d
      BY <1>1, <2>2 DEF Become, Request
    <3>. QED BY <2>2, <3>1 DEF Names, Selects
  <2>3. ASSUME NEW xs \in SUBSET documents, xs # {}, Choose(r, xs),
               \A x \in xs : x.profile \in {req[r].p, NULL}
        PROVE  req'[r].op # "parse" /\ Names(req'[r], req[r]) /\ Selects(req'[r])
    <3>. DEFINE q == [req[r] EXCEPT !.op = "context_text", !.d = Select(req[r].saw, xs),
                                    !.saw = 0]
    <3>1. req' = [req EXCEPT ![r] = q]
      BY <2>3 DEF Choose, Become
    <3>2. xs \in SUBSET documents /\ \A x \in xs : x.profile \in {req[r].p, NULL}
      BY <2>3
    <3>3. req[r] \in Request
      BY <1>1
    <3>4. q.op = "context_text" /\ q.d = Select(req[r].saw, xs) /\ q.p = req[r].p
      BY <3>3 DEF Request
    <3>. HIDE DEF q
    <3>5. PICK x \in xs : x.id = q.d
      BY <1>1, <2>3, <3>2, <3>4, SelectedIsRow
    <3>6. req'[r] = q
      BY <1>1, <3>1, Slot
    <3>7. Live(q.d)
      BY <3>2, <3>5 DEF Live
    <3>8. \A y \in documents : y.id = q.d => y.profile \in {q.p, NULL}
      BY <1>1, <3>2, <3>4, <3>5
    <3>. QED BY <3>4, <3>6, <3>7, <3>8 DEF Names, Selects
  <2>4. /\ \A x \in Candidates(req[r].p, req[r].k) \cup Candidates(NULL, req[r].k) :
             x.profile \in {req[r].p, NULL}
        /\ Candidates(req[r].p, req[r].k) \in SUBSET documents
        /\ Candidates(NULL, req[r].k) \in SUBSET documents
    BY DEF Candidates
  <2>. QED BY <1>15, <2>1, <2>2, <2>3, <2>4 DEF ContextDocs, ContextLegacy
<1>. QED BY <1>4, <1>5, <1>6, <1>7, <1>8, <1>9, <1>10, <1>12, <1>13, <1>14, <1>15 DEF Reads

\* A context answers with its profile's document, or with one of none.
LEMMA RepliesAreOwn ==
  ASSUME IInv, NEW r \in Req, Act(r)
  PROVE  ContextIsOwn'
<1>1. CASE ContextText(r)
  <2>1. /\ reply' = [to |-> "context", p |-> req[r].p,
                     d |-> IF req[r].d \in indexed THEN req[r].d ELSE NULL]
        /\ UNCHANGED <<documents, indexed>>
        /\ req[r].op = "context_text"
    BY <1>1 DEF ContextText, Respond, rows, owned
  <2>2. \A x \in documents : x.id # NULL
    BY RowOfDocument DEF IInv, Doc, NULL
  <2>3. \A x \in documents : x.id = req[r].d => x.profile \in {req[r].p, NULL}
    BY <2>1 DEF IInv, SelectedIsOwn
  <2>. QED BY <2>1, <2>2, <2>3 DEF ContextIsOwn
<1>2. CASE ContextDocs(r) \/ ContextLegacy(r)
  <2>1. UNCHANGED documents /\ (reply'.to = "context" => reply'.d = NULL)
    BY <1>2 DEF ContextDocs, ContextLegacy, Choose, Become, Respond, rows, owned, NoReply
  <2>2. \A x \in documents : x.id # NULL
    BY RowOfDocument DEF IInv, Doc, NULL
  <2>. QED BY <2>1, <2>2 DEF ContextIsOwn
<1>3. ASSUME \/ \E q : Become(r, q)
             \/ Done(r)
             \/ \E q : Respond(r, q) /\ q.to # "context"
      PROVE  ContextIsOwn'
  BY <1>3 DEF Become, Done, Respond, NoReply, ContextIsOwn
<1>4. CASE ProfileStep(r)
  BY <1>3, <1>4 DEF ProfileStep, Create, CreateCommit, Activate, ActivateCommit, DeleteProfile,
    DeleteProfileCommit, DeleteUser, Prefer, PreferCommit
<1>5. CASE DocumentStep(r)
  <2>1. CASE Upload(r)
    BY <2>1 DEF Upload, Become, Respond, NoReply, ContextIsOwn
  <2>2. CASE Store(r)
    BY <1>3, <2>2 DEF Store
  <2>3. CASE Parsed(r) \/ IndexCommit(r) \/ ReindexReply(r)
    BY <1>3, <2>3 DEF Parsed, IndexCommit, ReindexReply
  <2>4. CASE DeleteDocument(r) \/ Index(r) \/ IndexDegraded(r)
    BY <1>3, <2>4 DEF DeleteDocument, Index, IndexDegraded, Await
  <2>5. CASE DeleteDocumentCommit(r) \/ ReindexFailed(r)
    BY <1>3, <2>5 DEF DeleteDocumentCommit, ReindexFailed
  <2>. QED BY <1>5, <2>1, <2>2, <2>3, <2>4, <2>5 DEF DocumentStep
<1>6. CASE GroundingStep(r)
  BY <1>1, <1>2, <1>3, <1>6 DEF GroundingStep, Extract, ExtractCommit, Analyze, AnalyzeCommit,
    Context, Await
<1>7. CASE Fail(r)
  BY <1>3, <1>7 DEF Fail
<1>. QED BY <1>4, <1>5, <1>6, <1>7 DEF Act

\* Reading steps keep the invariant: no row changes, and the slot is sound.
LEMMA ReadsKeepInv ==
  ASSUME IInv, NEW r \in Req, Reads(r)
  PROVE  IInv'
<1>1. TypeOK /\ RowsHaveOwners /\ PointersAreOwned /\ StoredContentIsReadable
      /\ FlushedIsFresh /\ SelectedIsOwn
  BY DEF IInv
<1>2. PICK q \in Request : req' = [req EXCEPT ![r] = q]
  BY ReadsKeepType
<1>3. /\ UNCHANGED <<user, active, preferred, profiles, documents, indexed, evidence, roles, files>>
      /\ ids' \in [profile : 0 .. MaxProfiles, doc : 0 .. MaxDocs, request : 0 .. MaxRequests]
      /\ ids'.doc = ids.doc
  BY <1>1, ReadsWriteNothing DEF rows, owned
<1>4. /\ req'[r] = q /\ \A s \in Req \ {r} : req'[s] = req[s]
      /\ q.op # "parse" /\ Names(q, req[r]) /\ Selects(q)
  BY <1>1, <1>2, Slot, ReadsSelectOwn
<1>5. TypeOK'
  BY <1>1, <1>2, <1>3 DEF TypeOK
<1>6. RowsHaveOwners' /\ PointersAreOwned' /\ StoredContentIsReadable'
  BY <1>1, <1>3 DEF RowsHaveOwners, PointersAreOwned, StoredContentIsReadable, Live, Readable
<1>7. FlushedIsFresh'
  <2>1. \A d : Live(d)' <=> Live(d)
    BY <1>3 DEF Live
  <2>2. \A x \in documents : x.id <= ids.doc
    BY <1>1 DEF FlushedIsFresh
  <2>3. \A s \in Req : req'[s].d <= ids.doc
    <3>1. NULL <= ids.doc
      BY <1>1 DEF TypeOK, NULL
    <3>2. q.d <= ids.doc
      BY <1>1, <1>4, <2>2, <3>1 DEF Names, Live, FlushedIsFresh
    <3>. QED BY <1>1, <1>4, <3>2 DEF FlushedIsFresh
  <2>4. ASSUME NEW s \in Req, req'[s].op = "parse"
        PROVE  /\ req[s].op = "parse" /\ s # r /\ req'[s] = req[s]
               /\ \A u \in Req \ {s} : req'[u].d # req[s].d
    <3>1. s # r /\ req'[s] = req[s]
      BY <1>4, <2>4
    <3>2. /\ req[s].d # NULL /\ ~Live(req[s].d)
          /\ \A u \in Req \ {s} : req[u].d # req[s].d
      BY <1>1, <2>4, <3>1 DEF FlushedIsFresh
    <3>3. q.d # req[s].d
      BY <1>4, <3>1, <3>2 DEF Names
    <3>. QED BY <1>4, <2>4, <3>1, <3>2, <3>3
  <2>. QED BY <1>1, <1>3, <2>1, <2>2, <2>3, <2>4 DEF FlushedIsFresh
<1>8. SelectedIsOwn'
  BY <1>1, <1>3, <1>4 DEF SelectedIsOwn, Selects
<1>9. ContextIsOwn'
  BY RepliesAreOwn DEF Act, Reads, ProfileStep, DocumentStep, GroundingStep
<1>. QED BY <1>5, <1>6, <1>7, <1>8, <1>9 DEF IInv

\* A transaction that ends: documents only go, but for the one it had flushed.
LEMMA SlotsAfterCommit ==
  ASSUME IInv, NEW r \in Req, req' = [req EXCEPT ![r] = Idle],
         files' = files, ids'.doc = ids.doc,
         \/ documents' \subseteq documents
         \/ req[r].op = "parse" /\ documents' = documents \cup
              {[id |-> req[r].d, profile |-> req[r].p, kind |-> req[r].k, content |-> req[r].c]},
         \A s \in Req \ {r} : req[s].op = "parse" =>
              user' /\ req[s].p \in profiles' \cup {NULL}
  PROVE  StoredContentIsReadable' /\ FlushedIsFresh' /\ SelectedIsOwn'
<1> DEFINE new == [id |-> req[r].d, profile |-> req[r].p, kind |-> req[r].k, content |-> req[r].c]
<1>1. TypeOK /\ StoredContentIsReadable /\ FlushedIsFresh /\ SelectedIsOwn
  BY DEF IInv
<1>2. req'[r] = Idle /\ Idle.op = "idle" /\ Idle.d = NULL /\ \A s \in Req \ {r} : req'[s] = req[s]
  BY <1>1, Slot, IdleFields
<1>3. \A x \in documents' : x \in documents \/ (req[r].op = "parse" /\ x = new)
  OBVIOUS
<1>4. new.id = req[r].d /\ new.kind = req[r].k /\ new.content = req[r].c
  OBVIOUS
<1>. HIDE DEF new
<1>5. StoredContentIsReadable'
  BY <1>1, <1>3, <1>4 DEF StoredContentIsReadable, Readable, FlushedIsFresh
<1>6. ASSUME NEW s \in Req \ {r}, req[s].op = "parse"
      PROVE  ~\E x \in documents' : x.id = req[s].d
  <2>1. ~Live(req[s].d) /\ req[r].d # req[s].d
    BY <1>1, <1>6 DEF FlushedIsFresh
  <2>. QED BY <1>2, <1>3, <1>4, <2>1 DEF Live
<1>7. FlushedIsFresh'
  <2>1. \A x \in documents' : x.id <= ids.doc
    BY <1>1, <1>3, <1>4 DEF FlushedIsFresh
  <2>2. \A s \in Req : req'[s].d <= ids.doc
    <3>1. NULL <= ids.doc
      BY <1>1 DEF TypeOK, NULL
    <3>. QED BY <1>1, <1>2, <3>1 DEF FlushedIsFresh
  <2>3. ASSUME NEW s \in Req, req'[s].op = "parse"
        PROVE  /\ req'[s].d # NULL /\ ~\E x \in documents' : x.id = req'[s].d
               /\ user' /\ req'[s].p \in profiles' \cup {NULL}
               /\ StorageKey(req'[s].k, req'[s].c) \in files'
               /\ \A u \in Req \ {s} : req'[u].d # req'[s].d
    <3>1. s # r /\ req'[s] = req[s]
      BY <1>2, <2>3
    <3>2. /\ req[s].d # NULL /\ StorageKey(req[s].k, req[s].c) \in files
          /\ \A u \in Req \ {s} : req[u].d # req[s].d
      BY <1>1, <2>3, <3>1 DEF FlushedIsFresh
    <3>3. ~\E x \in documents' : x.id = req'[s].d
      BY <1>6, <2>3, <3>1
    <3>. QED BY <1>2, <2>3, <3>1, <3>2, <3>3
  <2>. QED BY <2>1, <2>2, <2>3 DEF FlushedIsFresh, Live
<1>8. SelectedIsOwn'
  <2>1. ASSUME NEW s \in Req, req'[s].op \in {"prefer", "context_text"},
               NEW x \in documents', x.id = req'[s].d
        PROVE  s # r /\ req'[s] = req[s] /\ x \in documents
    <3>1. s # r /\ req'[s] = req[s]
      BY <1>2, <2>1
    <3>2. req[r].op = "parse" => req[s].d # req[r].d
      BY <1>1, <3>1 DEF FlushedIsFresh
    <3>. QED BY <1>3, <1>4, <2>1, <3>1, <3>2
  <2>. QED BY <1>1, <2>1 DEF SelectedIsOwn
<1>. QED BY <1>5, <1>7, <1>8

\* The invariants about owners and pointers, in the form the steps establish.
Owned == RowsHaveOwners /\ PointersAreOwned

LEMMA CreateOwned ==
  ASSUME IInv, NEW r \in Req, CreateCommit(r)
  PROVE  TypeOK' /\ Owned'
<1>1. TypeOK /\ RowsHaveOwners /\ PointersAreOwned
  BY DEF IInv
<1>2. /\ user' = TRUE /\ ids' = [ids EXCEPT !.profile = ids.profile + 1]
      /\ ids.profile < MaxProfiles
      /\ profiles' = profiles \cup {ids.profile + 1}
      /\ active' = active \/ active' = ids.profile + 1
      /\ req' = [req EXCEPT ![r] = Idle]
      /\ UNCHANGED <<preferred, documents, indexed, evidence, roles, files>>
  BY DEF CreateCommit, Done, Respond
<1>3. ids.profile + 1 \in Profile
  BY <1>1, <1>2 DEF TypeOK, Profile
<1>4. ids' \in [profile : 0 .. MaxProfiles, doc : 0 .. MaxDocs, request : 0 .. MaxRequests]
  BY <1>1, <1>2 DEF TypeOK
<1>5. TypeOK'
  BY <1>1, <1>2, <1>3, <1>4, IdleTyped DEF TypeOK
<1>6. RowsHaveOwners' /\ PointersAreOwned'
  BY <1>1, <1>2 DEF RowsHaveOwners, PointersAreOwned, Live
<1>. QED BY <1>5, <1>6 DEF Owned

LEMMA ActivateOwned ==
  ASSUME IInv, NEW r \in Req, ActivateCommit(r)
  PROVE  TypeOK' /\ Owned'
<1>1. TypeOK /\ RowsHaveOwners /\ PointersAreOwned
  BY DEF IInv
<1>2. /\ active' = active \/ (active' = req[r].p /\ req[r].p \in profiles)
      /\ req' = [req EXCEPT ![r] = Idle]
      /\ UNCHANGED <<user, preferred, profiles, documents, indexed, evidence, roles, files, ids>>
  BY DEF ActivateCommit, Done, Respond, owned
<1>3. TypeOK'
  BY <1>1, <1>2, IdleTyped DEF TypeOK
<1>4. RowsHaveOwners' /\ PointersAreOwned'
  BY <1>1, <1>2 DEF RowsHaveOwners, PointersAreOwned, Live
<1>. QED BY <1>3, <1>4 DEF Owned

\* What the foreign keys leave when documents go.
LEMMA ForeignKeys ==
  ASSUME TypeOK, PointersAreOwned, NEW gone, ClearPreferences(gone),
         documents' = {x \in documents : x.id \notin gone}
  PROVE  /\ preferred' \in [Profile -> [Kind -> Doc \cup {NULL}]]
         /\ \A p \in Profile, k \in Kind : preferred'[p][k] # NULL =>
              /\ p \in profiles
              /\ \E x \in documents' : x.id = preferred'[p][k] /\ x.profile = p /\ x.kind = k
<1>1. preferred' = [p \in Profile |-> [k \in Kind |->
                      IF preferred[p][k] \in gone THEN NULL ELSE preferred[p][k]]]
  BY DEF ClearPreferences
<1>2. \A p \in Profile, k \in Kind : preferred[p][k] \in Doc \cup {NULL}
  BY DEF TypeOK
<1>3. preferred' \in [Profile -> [Kind -> Doc \cup {NULL}]]
  BY <1>1, <1>2
<1>4. ASSUME NEW p \in Profile, NEW k \in Kind, preferred'[p][k] # NULL
      PROVE  /\ p \in profiles
             /\ \E x \in documents' : x.id = preferred'[p][k] /\ x.profile = p /\ x.kind = k
  <2>1. preferred'[p][k] = preferred[p][k] /\ preferred[p][k] \notin gone
    BY <1>1, <1>4
  <2>2. p \in profiles
    BY <1>4, <2>1 DEF PointersAreOwned
  <2>3. PICK x \in documents : x.id = preferred[p][k] /\ x.profile = p /\ x.kind = k
    BY <1>4, <2>1 DEF PointersAreOwned
  <2>. QED BY <2>1, <2>2, <2>3
<1>. QED BY <1>3, <1>4

\* Roles keep their profile, and a source only while it is there.
LEMMA UnsourcedRoles ==
  ASSUME NEW gone, NEW rs \in SUBSET Claim
  PROVE  /\ Unsourced(gone, rs) \subseteq Claim
         /\ \A x \in Unsourced(gone, rs) :
              /\ x.doc \notin gone \/ x.doc = NULL
              /\ \E y \in rs : x.profile = y.profile /\ x.doc \in {y.doc, NULL}
<1>1. ASSUME NEW y \in rs
      PROVE  LET x == [y EXCEPT !.doc = IF y.doc \in gone THEN NULL ELSE y.doc] IN
             /\ x \in Claim
             /\ x.profile = y.profile
             /\ x.doc = IF y.doc \in gone THEN NULL ELSE y.doc
  BY DEF Claim
<1>. QED BY <1>1 DEF Unsourced

LEMMA DeleteProfileOwned ==
  ASSUME IInv, NEW r \in Req, DeleteProfileCommit(r)
  PROVE  TypeOK' /\ Owned'
<1> DEFINE p    == req[r].p
           gone == {x.id : x \in {y \in documents : y.profile = p}}
           kept == {x \in roles : x.profile # p}
<1>1. TypeOK /\ RowsHaveOwners /\ PointersAreOwned
  BY DEF IInv
<1>2. /\ profiles' = profiles \ {p}
      /\ active' = IF p \in {req[r].saw, active} THEN NULL ELSE active
      /\ documents' = {x \in documents : x.profile # p}
      /\ indexed' = indexed \ gone
      /\ evidence' = {x \in evidence : x.profile # p}
      /\ roles' = Unsourced(gone, kept)
      /\ req' = [req EXCEPT ![r] = Idle]
      /\ UNCHANGED <<user, files, ids>>
  BY DEF DeleteProfileCommit, Done, Respond, DropChunks
<1>3. ClearPreferences(gone)
  BY DEF DeleteProfileCommit
<1>4. documents' = {x \in documents : x.id \notin gone}
  BY <1>1, <1>2 DEF TypeOK
<1>5. kept \in SUBSET Claim
  BY <1>1 DEF TypeOK
<1>6. \A q \in profiles : q # NULL
  BY <1>1 DEF TypeOK, Profile, NULL
<1>. HIDE DEF gone
<1>7. /\ preferred' \in [Profile -> [Kind -> Doc \cup {NULL}]]
      /\ \A q \in Profile, k \in Kind : preferred'[q][k] # NULL =>
           /\ q \in profiles'
           /\ \E x \in documents' : x.id = preferred'[q][k] /\ x.profile = q /\ x.kind = k
  BY <1>1, <1>2, <1>3, <1>4, ForeignKeys
<1>8. /\ roles' \subseteq Claim
      /\ \A x \in roles' : /\ x.doc \notin gone \/ x.doc = NULL
                           /\ \E y \in kept : x.profile = y.profile /\ x.doc \in {y.doc, NULL}
  BY <1>2, <1>5, UnsourcedRoles
<1>9. TypeOK'
  BY <1>1, <1>2, <1>7, <1>8, IdleTyped DEF TypeOK
<1>10. \A d : Live(d) /\ d \notin gone => \E x \in documents' : x.id = d
  BY <1>4 DEF Live
<1>11. RowsHaveOwners'
  <2>1. ~user => profiles' = {} /\ documents' = {} /\ roles' = {} /\ evidence' = {}
    BY <1>1, <1>2, <1>8 DEF RowsHaveOwners
  <2>2. \A x \in documents' \cup evidence' : x.profile \in profiles' \cup {NULL}
    BY <1>1, <1>2 DEF RowsHaveOwners
  <2>3. \A x \in roles' : x.profile \in profiles' \cup {NULL}
    BY <1>1, <1>2, <1>8 DEF RowsHaveOwners
  <2>4. \A d \in indexed' : \E x \in documents' : x.id = d
    BY <1>1, <1>2, <1>10 DEF RowsHaveOwners
  <2>5. \A x \in roles' : x.doc # NULL => \E y \in documents' : y.id = x.doc
    BY <1>1, <1>8, <1>10 DEF RowsHaveOwners
  <2>. QED BY <1>2, <2>1, <2>2, <2>3, <2>4, <2>5 DEF RowsHaveOwners, Live
<1>12. PointersAreOwned'
  BY <1>1, <1>2, <1>7 DEF PointersAreOwned
<1>. QED BY <1>9, <1>11, <1>12 DEF Owned

LEMMA DeleteUserOwned ==
  ASSUME IInv, NEW r \in Req, DeleteUser(r)
  PROVE  TypeOK' /\ Owned'
<1>1. TypeOK
  BY DEF IInv
<1>2. /\ user' = FALSE /\ active' = NULL
      /\ preferred' = [p \in Profile |-> [k \in Kind |-> NULL]]
      /\ profiles' = {} /\ documents' = {} /\ indexed' = {} /\ evidence' = {} /\ roles' = {}
      /\ req' = [req EXCEPT ![r] = Idle] /\ files' = files
  BY DEF DeleteUser, Done, Respond
<1>3. ids' \in [profile : 0 .. MaxProfiles, doc : 0 .. MaxDocs, request : 0 .. MaxRequests]
  <2>1. ids' = [ids EXCEPT !.request = @ + 1] /\ ids.request + 1 \in 0 .. MaxRequests
    BY <1>1 DEF DeleteUser, Accept, TypeOK
  <2>. QED BY <1>1, <2>1 DEF TypeOK
<1>4. preferred' \in [Profile -> [Kind -> Doc \cup {NULL}]]
  BY <1>2
<1>5. TypeOK'
  BY <1>1, <1>2, <1>3, <1>4, IdleTyped DEF TypeOK
<1>6. RowsHaveOwners'
  BY <1>2 DEF RowsHaveOwners
<1>7. PointersAreOwned'
  BY <1>2 DEF PointersAreOwned
<1>. QED BY <1>5, <1>6, <1>7 DEF Owned

LEMMA PreferOwned ==
  ASSUME IInv, NEW r \in Req, PreferCommit(r)
  PROVE  TypeOK' /\ Owned'
<1> DEFINE p == req[r].p
           d == req[r].d
           k == req[r].k
<1>1. TypeOK /\ RowsHaveOwners /\ PointersAreOwned
  BY DEF IInv
<1>2. /\ req[r].op = "prefer"
      /\ d # req[r].saw => p \in profiles /\ (d = NULL \/ Live(d))
      /\ preferred' = IF d = req[r].saw THEN preferred
                      ELSE [preferred EXCEPT ![p][k] = d]
      /\ req' = [req EXCEPT ![r] = Idle]
      /\ UNCHANGED <<user, active, profiles, documents, indexed, evidence, roles, files, ids>>
  BY DEF PreferCommit, Done, Respond, owned
<1>3. p \in Profile \cup {NULL} /\ d \in Doc \cup {NULL} /\ k \in Kind
  BY <1>1 DEF TypeOK, Request
<1>4. \A x \in documents : x.id = d => x.profile = p /\ x.kind = k
  BY <1>2 DEF IInv, SelectedIsOwn
<1>. HIDE DEF p, d, k
<1>5. CASE preferred' = preferred
  <2>1. TypeOK'
    BY <1>1, <1>2, <1>5, IdleTyped DEF TypeOK
  <2>2. RowsHaveOwners' /\ PointersAreOwned'
    BY <1>1, <1>2, <1>5 DEF RowsHaveOwners, PointersAreOwned, Live
  <2>. QED BY <2>1, <2>2 DEF Owned
<1>6. CASE /\ p \in profiles /\ (d = NULL \/ Live(d))
           /\ preferred' = [preferred EXCEPT ![p][k] = d]
  <2>1. p \in Profile
    BY <1>1, <1>6 DEF TypeOK
  <2>2. preferred' \in [Profile -> [Kind -> Doc \cup {NULL}]]
    BY <1>1, <1>3, <1>6, <2>1 DEF TypeOK
  <2>3. TypeOK'
    BY <1>1, <1>2, <2>2, IdleTyped DEF TypeOK
  <2>4. \A q \in Profile, j \in Kind :
          preferred'[q][j] = IF q = p /\ j = k THEN d ELSE preferred[q][j]
    BY <1>1, <1>3, <1>6, <2>1 DEF TypeOK
  <2>5. d # NULL => \E x \in documents : x.id = d /\ x.profile = p /\ x.kind = k
    BY <1>4, <1>6 DEF Live
  <2>6. PointersAreOwned'
    BY <1>1, <1>2, <1>6, <2>4, <2>5 DEF PointersAreOwned
  <2>7. RowsHaveOwners'
    BY <1>1, <1>2 DEF RowsHaveOwners, Live
  <2>. QED BY <2>3, <2>6, <2>7 DEF Owned
<1>. QED BY <1>2, <1>5, <1>6

\* The flush draws an id nobody has, and locks the owner's row.
LEMMA StoreKeepsInv ==
  ASSUME IInv, NEW r \in Req, Store(r)
  PROVE  IInv'
<1> DEFINE x  == req[r]
           id == ids.doc + 1
<1>1. /\ TypeOK /\ RowsHaveOwners /\ PointersAreOwned /\ StoredContentIsReadable
      /\ FlushedIsFresh /\ SelectedIsOwn
  BY DEF IInv
<1>2. /\ x.op = "store" /\ ids.doc < MaxDocs
      /\ files' = files \cup {StorageKey(x.k, x.c)}
      /\ UNCHANGED <<user, active, preferred, profiles, documents, indexed, evidence, roles>>
  BY DEF Store, rows, owned
<1>3. x \in Request /\ x.k \in Kind /\ x.c \in Content /\ ids.doc \in Nat
  BY <1>1 DEF TypeOK, Request
<1>4. files' \subseteq Kind \X Content
  BY <1>1, <1>2, <1>3 DEF TypeOK, StorageKey
<1>5. RowsHaveOwners' /\ PointersAreOwned' /\ StoredContentIsReadable'
  BY <1>1, <1>2 DEF RowsHaveOwners, PointersAreOwned, StoredContentIsReadable, Live, Readable
<1>6. ContextIsOwn'
  BY RepliesAreOwn DEF Act, DocumentStep
<1>7. CASE user /\ x.p \in profiles \cup {NULL}
  <2> DEFINE q == [x EXCEPT !.op = "parse", !.d = id]
  <2>1. ids' = [ids EXCEPT !.doc = id] /\ req' = [req EXCEPT ![r] = q]
    BY <1>7 DEF Store, NextDoc, Become
  <2>2. id \in Doc /\ id # NULL
    BY <1>2, <1>3 DEF Doc, NULL
  <2>3. /\ q \in Request
        /\ q.op = "parse" /\ q.d = id /\ q.p = x.p /\ q.k = x.k /\ q.c = x.c
    BY <1>3, <2>2 DEF Request, Op
  <2>. HIDE DEF q
  <2>4. req'[r] = q /\ \A s \in Req \ {r} : req'[s] = req[s]
    BY <1>1, <2>1, Slot
  <2>5. /\ ids' \in [profile : 0 .. MaxProfiles, doc : 0 .. MaxDocs, request : 0 .. MaxRequests]
        /\ ids'.doc = id
    BY <1>1, <1>2, <2>1 DEF TypeOK
  <2>6. TypeOK'
    BY <1>1, <1>2, <1>4, <2>1, <2>3, <2>5 DEF TypeOK
  <2>7. /\ \A y \in documents : y.id <= ids.doc /\ y.id \in Nat
        /\ \A s \in Req : req[s].d <= ids.doc /\ req[s].d \in Nat
    BY <1>1, RowOfDocument DEF FlushedIsFresh, TypeOK, Request, Doc, NULL
  <2>8. FlushedIsFresh'
    <3>1. \A y \in documents : y.id <= id /\ y.id # id
      BY <1>3, <2>7
    <3>2. \A s \in Req : req'[s].d <= id
      BY <1>3, <2>3, <2>4, <2>7
    <3>3. ASSUME NEW s \in Req, req'[s].op = "parse"
          PROVE  /\ req'[s].d # NULL /\ ~\E y \in documents : y.id = req'[s].d
                 /\ user /\ req'[s].p \in profiles \cup {NULL}
                 /\ StorageKey(req'[s].k, req'[s].c) \in files'
                 /\ \A u \in Req \ {s} : req'[u].d # req'[s].d
      <4>1. CASE s = r
        <5>1. \A u \in Req \ {r} : req'[u].d # id
          BY <1>3, <2>4, <2>7
        <5>. QED BY <1>2, <1>7, <2>2, <2>3, <2>4, <3>1, <4>1, <5>1
      <4>2. CASE s # r
        <5>1. req'[s] = req[s]
          BY <2>4, <4>2
        <5>2. /\ req[s].d # NULL /\ ~\E y \in documents : y.id = req[s].d
              /\ user /\ req[s].p \in profiles \cup {NULL}
              /\ StorageKey(req[s].k, req[s].c) \in files
              /\ \A u \in Req \ {s} : req[u].d # req[s].d
          BY <1>1, <3>3, <5>1 DEF FlushedIsFresh, Live
        <5>3. q.d # req[s].d
          BY <1>3, <2>3, <2>7
        <5>. QED BY <1>2, <2>4, <4>2, <5>1, <5>2, <5>3
      <4>. QED BY <4>1, <4>2
    <3>. QED BY <1>2, <2>5, <3>1, <3>2, <3>3 DEF FlushedIsFresh, Live
  <2>9. SelectedIsOwn'
    BY <1>1, <1>2, <2>3, <2>4 DEF SelectedIsOwn
  <2>. QED BY <1>5, <1>6, <2>6, <2>8, <2>9 DEF IInv
<1>8. CASE ~(user /\ x.p \in profiles \cup {NULL})
  <2>1. ids' = ids /\ req' = [req EXCEPT ![r] = Idle]
    BY <1>8 DEF Store, Done, Respond
  <2>2. /\ req'[r] = Idle /\ \A s \in Req \ {r} : req'[s] = req[s]
        /\ Idle.op = "idle" /\ Idle.d = NULL
    BY <1>1, <2>1, Slot, IdleFields
  <2>3. TypeOK'
    BY <1>1, <1>2, <1>4, <2>1, IdleTyped DEF TypeOK
  <2>4. FlushedIsFresh'
    <3>1. NULL <= ids.doc
      BY <1>3 DEF NULL
    <3>. QED BY <1>1, <1>2, <2>1, <2>2, <3>1 DEF FlushedIsFresh, Live
  <2>5. SelectedIsOwn'
    BY <1>1, <1>2, <2>2 DEF SelectedIsOwn
  <2>. QED BY <1>5, <1>6, <2>3, <2>4, <2>5 DEF IInv
<1>. QED BY <1>7, <1>8

LEMMA ParsedOwned ==
  ASSUME IInv, NEW r \in Req, Parsed(r)
  PROVE  TypeOK' /\ Owned'
<1> DEFINE x   == req[r]
           new == [id |-> x.d, profile |-> x.p, kind |-> x.k, content |-> x.c]
<1>1. TypeOK /\ RowsHaveOwners /\ PointersAreOwned
  BY DEF IInv
<1>2. /\ x.op = "parse" /\ documents' = documents \cup {new}
      /\ req' = [req EXCEPT ![r] = Idle]
      /\ UNCHANGED <<user, profiles, active, preferred, indexed, evidence, roles, files, ids>>
  BY DEF Parsed, Respond
<1>3. /\ x.d # NULL /\ ~Live(x.d) /\ user /\ x.p \in profiles \cup {NULL}
  BY <1>2 DEF IInv, FlushedIsFresh
<1>4. x \in Request
  BY <1>1 DEF TypeOK
<1>5. new \in Document /\ new.id = x.d /\ new.profile = x.p
  BY <1>3, <1>4 DEF Document, Request
<1>. HIDE DEF new
<1>6. \A y, z \in documents' : y.id = z.id => y = z
  BY <1>1, <1>2, <1>3, <1>5 DEF TypeOK, Live
<1>7. TypeOK'
  BY <1>1, <1>2, <1>5, <1>6, IdleTyped DEF TypeOK
<1>8. RowsHaveOwners' /\ PointersAreOwned'
  BY <1>1, <1>2, <1>3, <1>5 DEF RowsHaveOwners, PointersAreOwned, Live
<1>. QED BY <1>7, <1>8 DEF Owned

LEMMA DeleteDocumentOwned ==
  ASSUME IInv, NEW r \in Req, DeleteDocumentCommit(r)
  PROVE  TypeOK' /\ Owned' /\ files' = files
<1> DEFINE d == req[r].d
<1>1. TypeOK /\ RowsHaveOwners /\ PointersAreOwned
  BY DEF IInv
<1>2. /\ documents' = {x \in documents : x.id # d}
      /\ indexed' = indexed \ {d}
      /\ roles' = Unsourced({d}, roles)
      /\ files' = files
      /\ req' = [req EXCEPT ![r] = Idle]
      /\ ClearPreferences({d})
      /\ UNCHANGED <<user, profiles, active, evidence, ids>>
  BY DEF DeleteDocumentCommit, Done, Respond, DropChunks, Unlink
<1>. HIDE DEF d
<1>3. documents' = {x \in documents : x.id \notin {d}}
  BY <1>2
<1>4. /\ preferred' \in [Profile -> [Kind -> Doc \cup {NULL}]]
      /\ \A q \in Profile, k \in Kind : preferred'[q][k] # NULL =>
           /\ q \in profiles
           /\ \E x \in documents' : x.id = preferred'[q][k] /\ x.profile = q /\ x.kind = k
  BY <1>1, <1>2, <1>3, ForeignKeys
<1>5. /\ roles' \subseteq Claim
      /\ \A x \in roles' : /\ x.doc # d \/ x.doc = NULL
                           /\ \E y \in roles : x.profile = y.profile /\ x.doc \in {y.doc, NULL}
  BY <1>1, <1>2, UnsourcedRoles DEF TypeOK
<1>6. TypeOK'
  BY <1>1, <1>2, <1>4, <1>5, IdleTyped DEF TypeOK
<1>7. \A e : Live(e) /\ e # d => \E x \in documents' : x.id = e
  BY <1>2 DEF Live
<1>8. RowsHaveOwners'
  <2>1. ~user => profiles = {} /\ documents' = {} /\ roles' = {} /\ evidence = {}
    BY <1>1, <1>2, <1>5 DEF RowsHaveOwners
  <2>2. \A x \in documents' \cup roles' \cup evidence : x.profile \in profiles \cup {NULL}
    BY <1>1, <1>2, <1>5 DEF RowsHaveOwners
  <2>3. \A e \in indexed' : \E x \in documents' : x.id = e
    BY <1>1, <1>2, <1>7 DEF RowsHaveOwners
  <2>4. \A x \in roles' : x.doc # NULL => \E y \in documents' : y.id = x.doc
    BY <1>1, <1>5, <1>7 DEF RowsHaveOwners
  <2>. QED BY <1>2, <2>1, <2>2, <2>3, <2>4 DEF RowsHaveOwners, Live
<1>9. PointersAreOwned'
  BY <1>1, <1>2, <1>4 DEF PointersAreOwned
<1>. QED BY <1>2, <1>6, <1>8, <1>9 DEF Owned

LEMMA IndexOwned ==
  ASSUME IInv, NEW r \in Req, IndexCommit(r) \/ ReindexFailed(r)
  PROVE  TypeOK' /\ Owned'
<1>1. TypeOK /\ RowsHaveOwners /\ PointersAreOwned
  BY DEF IInv
<1>2. /\ req' = [req EXCEPT ![r] = Idle]
      /\ UNCHANGED <<user, profiles, active, preferred, documents, evidence, roles, files, ids>>
  BY DEF IndexCommit, ReindexFailed, Done, Respond
<1>3. \A d \in indexed' : d \in indexed \/ Live(d)
  BY DEF IndexCommit, ReindexFailed, Replaced, Removed
<1>4. \A d : Live(d) => d \in Doc
  BY <1>1, RowOfDocument DEF Live
<1>5. TypeOK'
  BY <1>1, <1>2, <1>3, <1>4, IdleTyped DEF TypeOK
<1>6. RowsHaveOwners' /\ PointersAreOwned'
  BY <1>1, <1>2, <1>3 DEF RowsHaveOwners, PointersAreOwned, Live
<1>. QED BY <1>5, <1>6 DEF Owned

LEMMA ClaimsOwned ==
  ASSUME IInv, NEW r \in Req, ExtractCommit(r) \/ AnalyzeCommit(r)
  PROVE  TypeOK' /\ Owned'
<1> DEFINE new == [profile |-> req[r].p, doc |-> req[r].d]
<1>1. TypeOK /\ RowsHaveOwners /\ PointersAreOwned
  BY DEF IInv
<1>2. /\ req' = [req EXCEPT ![r] = Idle]
      /\ UNCHANGED <<user, profiles, active, preferred, documents, indexed, files, ids>>
      /\ user /\ req[r].p \in profiles \cup {NULL}
  BY DEF ExtractCommit, AnalyzeCommit, Done, Respond, Referenced
<1>3. \/ evidence' = evidence \cup {new} /\ roles' = roles
      \/ evidence' = evidence /\ roles' = roles \cup {new} /\ (req[r].d = NULL \/ Live(req[r].d))
  BY DEF ExtractCommit, AnalyzeCommit
<1>4. new \in Claim /\ new.profile = req[r].p /\ new.doc = req[r].d
  BY <1>1 DEF TypeOK, Request, Claim
<1>. HIDE DEF new
<1>5. TypeOK'
  BY <1>1, <1>2, <1>3, <1>4, IdleTyped DEF TypeOK
<1>6. RowsHaveOwners' /\ PointersAreOwned'
  BY <1>1, <1>2, <1>3, <1>4 DEF RowsHaveOwners, PointersAreOwned, Live
<1>. QED BY <1>5, <1>6 DEF Owned

\* Every transaction keeps the invariant.
LEMMA WritesKeepInv ==
  ASSUME IInv, NEW r \in Req, Writes(r)
  PROVE  IInv'
<1>1. ContextIsOwn'
  BY RepliesAreOwn DEF Writes, Act, ProfileStep, DocumentStep, GroundingStep
<1>2. ASSUME TypeOK', Owned', req' = [req EXCEPT ![r] = Idle],
             files' = files, ids'.doc = ids.doc,
             \/ documents' \subseteq documents
             \/ req[r].op = "parse" /\ documents' = documents \cup
                  {[id |-> req[r].d, profile |-> req[r].p, kind |-> req[r].k,
                    content |-> req[r].c]},
             \A s \in Req \ {r} : req[s].op = "parse" =>
               user' /\ req[s].p \in profiles' \cup {NULL}
      PROVE  IInv'
  BY <1>1, <1>2, SlotsAfterCommit DEF IInv, Owned
<1>3. \A s \in Req : req[s].op = "parse" => user /\ req[s].p \in profiles \cup {NULL}
  BY DEF IInv, FlushedIsFresh
<1>4. \A s \in Req \ {r} : req[s].op = "parse" => req[s].p \in Profile \cup {NULL}
  BY DEF IInv, TypeOK, Request
<1>5. CASE CreateCommit(r)
  <2>1. /\ req' = [req EXCEPT ![r] = Idle] /\ files' = files /\ documents' = documents
        /\ user' /\ profiles \subseteq profiles'
    BY <1>5 DEF CreateCommit, Done, Respond
  <2>2. ids'.doc = ids.doc
    BY <1>5 DEF IInv, TypeOK, CreateCommit
  <2>. QED BY <1>2, <1>3, <1>5, <2>1, <2>2, CreateOwned
<1>6. CASE ActivateCommit(r)
  <2>1. /\ req' = [req EXCEPT ![r] = Idle] /\ documents' = documents
        /\ UNCHANGED <<user, profiles, files, ids>>
    BY <1>6 DEF ActivateCommit, Done, Respond, owned
  <2>. QED BY <1>2, <1>3, <1>6, <2>1, ActivateOwned
<1>7. CASE DeleteProfileCommit(r)
  <2>1. /\ req' = [req EXCEPT ![r] = Idle] /\ documents' \subseteq documents
        /\ UNCHANGED <<user, files, ids>> /\ profiles' = profiles \ {req[r].p}
        /\ Unlocked(r, {req[r].p})
    BY <1>7 DEF DeleteProfileCommit, Done, Respond
  <2>2. \A s \in Req \ {r} : req[s].op = "parse" => req[s].p \in profiles' \cup {NULL}
    BY <1>3, <2>1 DEF Unlocked
  <2>. QED BY <1>2, <1>3, <1>7, <2>1, <2>2, DeleteProfileOwned
<1>8. CASE DeleteUser(r)
  <2>1. /\ req' = [req EXCEPT ![r] = Idle] /\ documents' \subseteq documents /\ files' = files
    BY <1>8 DEF DeleteUser, Done, Respond
  <2>2. \A s \in Req \ {r} : req[s].op # "parse"
    BY <1>4, <1>8 DEF DeleteUser, Unlocked
  <2>3. ids'.doc = ids.doc
    BY <1>8 DEF IInv, TypeOK, DeleteUser, Accept
  <2>. QED BY <1>2, <1>8, <2>1, <2>2, <2>3, DeleteUserOwned
<1>9. CASE PreferCommit(r)
  <2>1. /\ req' = [req EXCEPT ![r] = Idle] /\ documents' = documents
        /\ UNCHANGED <<user, profiles, files, ids>>
    BY <1>9 DEF PreferCommit, Done, Respond, owned
  <2>. QED BY <1>2, <1>3, <1>9, <2>1, PreferOwned
<1>10. CASE Parsed(r)
  <2>1. /\ req' = [req EXCEPT ![r] = Idle] /\ UNCHANGED <<user, profiles, files, ids>>
        /\ req[r].op = "parse" /\ documents' = documents \cup
             {[id |-> req[r].d, profile |-> req[r].p, kind |-> req[r].k, content |-> req[r].c]}
    BY <1>10 DEF Parsed, Respond
  <2>. QED BY <1>2, <1>3, <1>10, <2>1, ParsedOwned
<1>11. CASE DeleteDocumentCommit(r)
  <2>1. /\ req' = [req EXCEPT ![r] = Idle] /\ documents' \subseteq documents
        /\ UNCHANGED <<user, profiles, ids>>
    BY <1>11 DEF DeleteDocumentCommit, Done, Respond
  <2>. QED BY <1>2, <1>3, <1>11, <2>1, DeleteDocumentOwned
<1>12. CASE IndexCommit(r) \/ ReindexFailed(r)
  <2>1. /\ req' = [req EXCEPT ![r] = Idle] /\ documents' = documents
        /\ UNCHANGED <<user, profiles, files, ids>>
    BY <1>12 DEF IndexCommit, ReindexFailed, Done, Respond
  <2>. QED BY <1>2, <1>3, <1>12, <2>1, IndexOwned
<1>13. CASE ExtractCommit(r) \/ AnalyzeCommit(r)
  <2>1. /\ req' = [req EXCEPT ![r] = Idle] /\ documents' = documents
        /\ UNCHANGED <<user, profiles, files, ids>>
    BY <1>13 DEF ExtractCommit, AnalyzeCommit, Done, Respond
  <2>. QED BY <1>2, <1>3, <1>13, <2>1, ClaimsOwned
<1>. QED BY <1>5, <1>6, <1>7, <1>8, <1>9, <1>10, <1>11, <1>12, <1>13, StoreKeepsInv DEF Writes

LEMMA NextInv == IInv /\ [Next]_vars => IInv'
<1> SUFFICES ASSUME IInv, [Next]_vars PROVE IInv'
  OBVIOUS
<1>1. CASE UNCHANGED vars
  <2>1. UNCHANGED <<user, active, preferred, profiles, documents, indexed, evidence, roles,
                    files, ids, req, reply>>
    BY <1>1 DEF vars, rows, owned
  <2>2. TypeOK' /\ RowsHaveOwners' /\ PointersAreOwned'
    BY <2>1 DEF IInv, TypeOK, RowsHaveOwners, PointersAreOwned, Live
  <2>3. StoredContentIsReadable' /\ ContextIsOwn' /\ FlushedIsFresh' /\ SelectedIsOwn'
    BY <2>1 DEF IInv, StoredContentIsReadable, Readable, ContextIsOwn, FlushedIsFresh,
                SelectedIsOwn, Live
  <2>. QED BY <2>2, <2>3 DEF IInv
<1>2. ASSUME NEW r \in Req, Act(r) PROVE IInv'
  BY <1>2, ActSplit, ReadsKeepInv, WritesKeepInv
<1>. QED BY <1>1, <1>2 DEF Next, Act

\* Whatever requests race with deletions, the rows, the pointers and what the
\* requests in flight rely on stay consistent.
THEOREM Invariance == Spec => []IInv
BY InitInv, NextInv, PTL DEF Spec

\* Every column and local keeps its type, and a document id names one row.
THEOREM TypeCorrect == Spec => []TypeOK
<1>1. IInv => TypeOK
  BY DEF IInv
<1>. QED BY Invariance, <1>1, PTL

\* Nothing outlives its profile, its user or its document.
THEOREM OwnerTheorem == Spec => []RowsHaveOwners
<1>1. IInv => RowsHaveOwners
  BY DEF IInv
<1>. QED BY Invariance, <1>1, PTL

\* The active profile and the preferred documents are the owner's.
THEOREM PointerTheorem == Spec => []PointersAreOwned
<1>1. IInv => PointersAreOwned
  BY DEF IInv
<1>. QED BY Invariance, <1>1, PTL

\* The file of every document is there to be read again.
THEOREM FileTheorem == Spec => []StoredContentIsReadable
<1>1. IInv => StoredContentIsReadable
  BY DEF IInv
<1>. QED BY Invariance, <1>1, PTL

\* No interview of one profile is grounded on another profile's document.
THEOREM ContextTheorem == Spec => []ContextIsOwn
<1>1. IInv => ContextIsOwn
  BY DEF IInv
<1>. QED BY Invariance, <1>1, PTL

\* A step takes a document's chunks away only with the document.
LEMMA StepKeepsText ==
  ASSUME IInv, [Next]_vars, NEW d \in indexed, Live(d)'
  PROVE  d \in indexed'
<1>1. PICK y \in documents' : y.id = d
  BY DEF Live
<1>2. TypeOK
  BY DEF IInv
<1>3. CASE UNCHANGED vars
  BY <1>3 DEF vars, rows, owned
<1>4. ASSUME NEW r \in Req, Reads(r) PROVE d \in indexed'
  BY <1>2, <1>4, ReadsWriteNothing DEF rows, owned
<1>5. ASSUME NEW r \in Req, Writes(r) PROVE d \in indexed'
  <2>1. CASE DeleteProfileCommit(r)
    <3>1. /\ indexed' = indexed \ {x.id : x \in {z \in documents : z.profile = req[r].p}}
          /\ documents' = {x \in documents : x.profile # req[r].p}
      BY <2>1 DEF DeleteProfileCommit, DropChunks
    <3>. QED BY <1>1, <1>2, <3>1 DEF TypeOK
  <2>2. CASE DeleteUser(r)
    BY <1>1, <2>2 DEF DeleteUser
  <2>3. CASE DeleteDocumentCommit(r)
    BY <1>1, <2>3 DEF DeleteDocumentCommit, DropChunks
  <2>4. CASE IndexCommit(r) \/ ReindexFailed(r)
    BY <2>4 DEF IndexCommit, ReindexFailed, Replaced, Removed
  <2>5. CASE CreateCommit(r) \/ ActivateCommit(r) \/ PreferCommit(r) \/ Store(r)
    BY <2>5 DEF CreateCommit, ActivateCommit, PreferCommit, Store, rows, owned
  <2>6. CASE Parsed(r) \/ ExtractCommit(r) \/ AnalyzeCommit(r)
    BY <2>6 DEF Parsed, ExtractCommit, AnalyzeCommit
  <2>. QED BY <1>5, <2>1, <2>2, <2>3, <2>4, <2>5, <2>6 DEF Writes
<1>. QED BY <1>3, <1>4, <1>5, ActSplit DEF Next, Act

\* An indexed document stays retrievable until it is deleted, although indexing
\* it again may fail half way.
THEOREM TextTheorem == Spec => ReindexKeepsText
<1>1. IInv /\ [Next]_vars => [\A d \in indexed : Live(d)' => d \in indexed']_vars
  BY StepKeepsText
<1>. QED BY Invariance, <1>1, PTL DEF Spec, ReindexKeepsText
=============================================================================
