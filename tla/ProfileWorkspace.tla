-------------------------- MODULE ProfileWorkspace --------------------------
(***************************************************************************)
(* One user's career profiles and what they own: documents with their      *)
(* chunks and stored files, target roles and evidence (services/user.py,   *)
(* document.py, extraction.py, role.py, interview_context.py and the       *)
(* routes of api/v1/profiles.py and crud.py).                              *)
(*                                                                         *)
(* As in InterviewSession a request reads what is committed, awaits, and   *)
(* writes in one transaction; the ORM keeps the row it read first, and     *)
(* emits no UPDATE for a column that already had the new value.  Foreign   *)
(* keys are checked against what is committed when the request writes, and *)
(* a flushed row locks the row it references until its transaction ends.   *)
(* Files are not part of any transaction.                                  *)
(***************************************************************************)
EXTENDS Naturals, FiniteSets

CONSTANTS
  Req,          \* concurrently served requests (request slots)
  Content,      \* file contents, each with a digest of its own
  MaxProfiles,  \* bound: profile ids drawn from the sequence
  MaxDocs,      \* bound: document ids drawn from the sequence
  MaxClaims,    \* bound: evidence and role rows together
  MaxRequests   \* bound: requests served in all

ASSUME WorkspaceAssumption ==
  /\ Content # {}
  /\ MaxProfiles \in Nat /\ MaxDocs \in Nat
  /\ MaxClaims \in Nat /\ MaxRequests \in Nat

VARIABLES
  user,       \* whether the user row exists
  profiles,   \* candidate_profile rows
  active,     \* user.active_profile_id, 0 for NULL
  preferred,  \* preferred_resume_document_id, preferred_jd_document_id
  documents,  \* document rows
  indexed,    \* documents whose document_chunk rows are committed
  evidence,   \* evidence rows: profile and source document
  roles,      \* role rows: profile and source document
  files,      \* storage keys present under upload_storage_dir
  ids,        \* last ids drawn for profiles and documents, requests served
  req,        \* what each request in flight holds
  reply       \* the response the last step sent

owned == <<profiles, documents, indexed, evidence, roles>>
rows == <<user, active, preferred, owned>>
vars == <<rows, files, ids, req, reply>>

Profile == 1 .. MaxProfiles
Doc == 1 .. MaxDocs
NULL == 0
Kind == {"resume", "jd"}

\* Every committed document is PARSED: the other states are only flushed.
Document == [id : Doc, profile : Profile \cup {NULL}, kind : Kind, content : Content]
Claim == [profile : Profile \cup {NULL}, doc : Doc \cup {NULL}]

Op == {"idle", "create_user", "create", "activate", "delete_profile", "prefer",
       "store", "parse", "delete_document", "index", "reindex", "extract",
       "analyze", "context_docs", "context_legacy", "context_text"}
Request == [op : Op, p : Profile \cup {NULL}, d : Doc \cup {NULL}, k : Kind,
            c : Content, saw : Nat]

Idle == [op |-> "idle", p |-> NULL, d |-> NULL, k |-> "resume",
         c |-> CHOOSE c \in Content : TRUE, saw |-> 0]
NoReply == [to |-> "none", p |-> NULL, d |-> NULL]

Claims == Cardinality(evidence) + Cardinality(roles)
Live(d) == \E x \in documents : x.id = d
Row(d) == CHOOSE x \in documents : x.id = d

\* storage_key: the digest under the kind's directory.
StorageKey(kind, content) == <<kind, content>>

\* read_stored_bytes answers: the file of this content is still there.
Readable(x) == StorageKey(x.kind, x.content) \in files

\* A request stands at op with the locals it needs next.
Become(r, x) == req' = [req EXCEPT ![r] = x] /\ reply' = NoReply
Respond(r, x) == req' = [req EXCEPT ![r] = Idle] /\ reply' = x
Accept(r) ==
  /\ req[r].op = "idle" /\ ids.request < MaxRequests
  /\ ids' = [ids EXCEPT !.request = @ + 1]
Done(r) == Respond(r, NoReply)
Await(r, op, p, d) == Become(r, [Idle EXCEPT !.op = op, !.p = p, !.d = d])

-----------------------------------------------------------------------------
Init ==
  /\ user = FALSE
  /\ profiles = {} /\ active = NULL
  /\ preferred = [p \in Profile |-> [k \in Kind |-> NULL]]
  /\ documents = {} /\ indexed = {} /\ evidence = {} /\ roles = {}
  /\ files = {}
  /\ ids = [profile |-> 0, doc |-> 0, request |-> 0]
  /\ req = [r \in Req |-> Idle]
  /\ reply = NoReply

\* The transaction is rolled back and the client gets an error: a violated
\* constraint, a refused body, a failed model call, or the process that ends.
Fail(r) ==
  /\ req[r].op # "idle"
  /\ Done(r)
  /\ UNCHANGED <<rows, files, ids>>

-----------------------------------------------------------------------------
(* Profiles (services/user.py).                                            *)

\* create_profile reads the user before anything else and keeps that object.
Create(r) ==
  /\ Accept(r) /\ ids.profile < MaxProfiles
  /\ Become(r, [Idle EXCEPT !.op = IF user THEN "create" ELSE "create_user",
                            !.saw = active])
  /\ UNCHANGED <<rows, files>>

\* The user is added when it was missing, which fails if it exists by now; the
\* profile becomes active when the user object that was read had none.
CreateCommit(r) ==
  LET id == ids.profile + 1 IN
  /\ \/ req[r].op = "create" /\ user
     \/ req[r].op = "create_user" /\ ~user
  /\ ids.profile < MaxProfiles
  /\ user' = TRUE
  /\ ids' = [ids EXCEPT !.profile = id]
  /\ profiles' = profiles \cup {id}
  /\ active' = IF req[r].saw = NULL THEN id ELSE active
  /\ Done(r)
  /\ UNCHANGED <<preferred, documents, indexed, evidence, roles, files>>

Activate(r) ==
  /\ Accept(r)
  /\ \E p \in profiles :
       Become(r, [Idle EXCEPT !.op = "activate", !.p = p, !.saw = active])
  /\ UNCHANGED <<rows, files>>

ActivateCommit(r) ==
  LET p == req[r].p IN
  /\ req[r].op = "activate"
  /\ req[r].saw = p \/ (user /\ p \in profiles)
  /\ active' = IF req[r].saw = p THEN active ELSE p
  /\ Done(r)
  /\ UNCHANGED <<user, preferred, owned, files, ids>>

DeleteProfile(r) ==
  /\ Accept(r)
  /\ \E p \in profiles :
       Become(r, [Idle EXCEPT !.op = "delete_profile", !.p = p, !.saw = active])
  /\ UNCHANGED <<rows, files>>

\* The foreign keys of a deleted set of documents: CASCADE for chunks, SET NULL
\* for preferences and roles.  Evidence names its document in a string.
DropChunks(gone) == indexed' = indexed \ gone
ClearPreferences(gone) ==
  preferred' = [p \in Profile |-> [k \in Kind |->
                  IF preferred[p][k] \in gone THEN NULL ELSE preferred[p][k]]]
Unsourced(gone, rs) == {[x EXCEPT !.doc = IF x.doc \in gone THEN NULL ELSE x.doc] : x \in rs}

\* Nothing flushed by another request references these profiles or documents.
Unlocked(r, ps) ==
  \A s \in Req \ {r} : req[s].op = "parse" => req[s].p \notin ps

\* active_profile_id is cleared by the service when it was the one read, and by
\* its foreign key when it is the one deleted.
DeleteProfileCommit(r) ==
  LET p == req[r].p
      gone == {x.id : x \in {y \in documents : y.profile = p}}
  IN
  /\ req[r].op = "delete_profile"
  /\ Unlocked(r, {p})
  /\ req[r].saw = p => user
  /\ profiles' = profiles \ {p}
  /\ active' = IF p \in {req[r].saw, active} THEN NULL ELSE active
  /\ documents' = {x \in documents : x.profile # p}
  /\ DropChunks(gone)
  /\ ClearPreferences(gone)
  /\ evidence' = {x \in evidence : x.profile # p}
  /\ roles' = Unsourced(gone, {x \in roles : x.profile # p})
  /\ Done(r)
  /\ UNCHANGED <<user, files, ids>>

\* delete_user: every foreign key to the user cascades.
DeleteUser(r) ==
  /\ Accept(r) /\ user
  /\ Unlocked(r, Profile \cup {NULL})
  /\ user' = FALSE /\ active' = NULL
  /\ preferred' = [p \in Profile |-> [k \in Kind |-> NULL]]
  /\ profiles' = {} /\ documents' = {} /\ indexed' = {} /\ evidence' = {} /\ roles' = {}
  /\ Done(r)
  /\ UNCHANGED files

\* Mutant: the kind and the profile of the document are not compared.
Preferrable_Any(p, k) == {x.id : x \in documents} \cup {NULL}

\* What set_preferred_document accepts.
Preferrable(p, k) ==
  {x.id : x \in {y \in documents : y.profile = p /\ y.kind = k}} \cup {NULL}

Prefer(r) ==
  /\ Accept(r)
  /\ \E p \in profiles, k \in Kind : \E d \in Preferrable(p, k) :
       Become(r, [Idle EXCEPT !.op = "prefer", !.p = p, !.d = d, !.k = k,
                              !.saw = preferred[p][k]])
  /\ UNCHANGED <<rows, files>>

PreferCommit(r) ==
  LET p == req[r].p  d == req[r].d  k == req[r].k IN
  /\ req[r].op = "prefer"
  /\ d # req[r].saw => p \in profiles /\ (d = NULL \/ Live(d))
  /\ preferred' = IF d = req[r].saw THEN preferred
                  ELSE [preferred EXCEPT ![p][k] = d]
  /\ Done(r)
  /\ UNCHANGED <<user, active, owned, files, ids>>

-----------------------------------------------------------------------------
(* Documents (services/document.py, knowledge/ingestion.py).               *)

\* get_by_hash: the same content in the same profile, whatever its kind; without
\* a profile, anywhere.
Duplicates(p, c) == {x \in documents : x.content = c /\ p \in {NULL, x.profile}}

\* Without a profile_id the document goes to the user's first profile, if any.
Resolved(p) ==
  IF p # NULL \/ profiles = {} THEN p
  ELSE CHOOSE q \in profiles : \A s \in profiles : q <= s

\* A duplicate is answered with the existing document, and nothing is created.
Upload(r) ==
  /\ Accept(r) /\ ids.doc < MaxDocs
  /\ \E p0 \in profiles \cup {NULL}, k \in Kind, c \in Content :
       LET p == Resolved(p0) IN
       IF Duplicates(p, c) = {}
       THEN Become(r, [Idle EXCEPT !.op = "store", !.p = p, !.k = k, !.c = c])
       ELSE \E x \in Duplicates(p, c) :
              Respond(r, [to |-> "deduplicated", p |-> p, d |-> x.id])
  /\ UNCHANGED <<rows, files>>

\* Mutant: ids are one more than the largest committed one.
NextDoc_Max == Cardinality({x.id : x \in documents}) + 1

\* The serial primary key: never drawn twice.
NextDoc == ids.doc + 1

\* The file is written, then the row is flushed: its profile and user are there.
Store(r) ==
  LET x == req[r]  id == NextDoc IN
  /\ x.op = "store" /\ ids.doc < MaxDocs
  /\ files' = files \cup {StorageKey(x.k, x.c)}
  /\ IF user /\ x.p \in profiles \cup {NULL}
     THEN /\ ids' = [ids EXCEPT !.doc = id]
          /\ Become(r, [x EXCEPT !.op = "parse", !.d = id])
     ELSE UNCHANGED ids /\ Done(r)
  /\ UNCHANGED rows

\* The parsed document is committed.  One that cannot be parsed is set to FAILED
\* and flushed, but the error leaves the route before its commit: see Fail.
Parsed(r) ==
  LET x == req[r] IN
  /\ x.op = "parse"
  /\ documents' = documents \cup
       {[id |-> x.d, profile |-> x.p, kind |-> x.k, content |-> x.c]}
  /\ Respond(r, [to |-> "created", p |-> x.p, d |-> x.d])
  /\ UNCHANGED <<user, profiles, active, preferred, indexed, evidence, roles, files, ids>>

DeleteDocument(r) ==
  /\ Accept(r)
  /\ \E x \in documents : Await(r, "delete_document", x.profile, x.id)
  /\ UNCHANGED <<rows, files>>

\* Mutant: the route builds its service with the storage directory.
Unlink_Key(d) == {StorageKey(x.kind, x.content) : x \in {y \in documents : y.id = d}}

\* The route's service has no storage_dir, so delete_document unlinks no file.
Unlink(d) == {}

DeleteDocumentCommit(r) ==
  LET d == req[r].d IN
  /\ req[r].op = "delete_document"
  /\ documents' = {x \in documents : x.id # d}
  /\ DropChunks({d})
  /\ ClearPreferences({d})
  /\ roles' = Unsourced({d}, roles)
  /\ files' = files \ Unlink(d)
  /\ Done(r)
  /\ UNCHANGED <<user, profiles, active, evidence, ids>>

\* The route reads the document's stored bytes and parses them again.
Index(r) ==
  /\ Accept(r)
  /\ \E x \in documents :
       Readable(x) /\ Await(r, "index", x.profile, x.id)
  /\ UNCHANGED <<rows, files>>

\* PramyaVectorStore.async_add: the old chunks go and the new ones come in one
\* transaction.
Replaced(d) == indexed \cup {d}

\* The LlamaIndex pipeline replaced the chunks, and the route commits them.
IndexCommit(r) ==
  LET d == req[r].d IN
  /\ req[r].op = "index" /\ Live(d)
  /\ indexed' = Replaced(d)
  /\ Respond(r, [to |-> "indexed", p |-> req[r].p, d |-> d])
  /\ UNCHANGED <<user, profiles, active, preferred, documents, evidence, roles, files, ids>>

\* The pipeline failed: the route goes on with IngestionService.
IndexDegraded(r) ==
  /\ req[r].op = "index"
  /\ Await(r, "reindex", req[r].p, req[r].d)
  /\ UNCHANGED <<rows, files, ids>>

\* Mutant: IngestionService commits its deletion before it embeds.
Removed_Early(d) == {d}

\* What IngestionService has committed while it awaits the embeddings.
Removed(d) == {}

\* It deletes the old chunks, embeds, and may fail on the way.
ReindexFailed(r) ==
  /\ req[r].op = "reindex"
  /\ indexed' = indexed \ Removed(req[r].d)
  /\ Done(r)
  /\ UNCHANGED <<user, profiles, active, preferred, documents, evidence, roles, files, ids>>

\* It flushes the new chunks and returns them; the route never commits.
ReindexReply(r) ==
  /\ req[r].op = "reindex" /\ Live(req[r].d)
  /\ Respond(r, [to |-> "indexed", p |-> req[r].p, d |-> req[r].d])
  /\ UNCHANGED <<rows, files, ids>>

-----------------------------------------------------------------------------
(* Evidence, roles and the interview's context.                            *)

\* extract_document reads the user's resume whatever its profile, and the claims
\* go to the profile the request names, else to the document's.
Extract(r) ==
  /\ Accept(r)
  /\ \E x \in documents, p \in profiles \cup {NULL} :
       /\ x.kind = "resume" /\ Readable(x)
       /\ Await(r, "extract", IF p = NULL THEN x.profile ELSE p, x.id)
  /\ UNCHANGED <<rows, files>>

\* Mutant: the check made before the model call is relied on.
Referenced_Checked(p) == TRUE

\* A row's profile and user exist when it is written.
Referenced(p) == user /\ p \in profiles \cup {NULL}

ExtractCommit(r) ==
  /\ req[r].op = "extract" /\ Referenced(req[r].p)
  /\ LET x == [profile |-> req[r].p, doc |-> req[r].d] IN
       x \in evidence \/ Claims < MaxClaims
  /\ evidence' = evidence \cup {[profile |-> req[r].p, doc |-> req[r].d]}
  /\ Done(r)
  /\ UNCHANGED <<user, profiles, active, preferred, documents, indexed, roles, files, ids>>

\* analyze checks the profile; the source document is taken as it is.
Analyze(r) ==
  /\ Accept(r) /\ Claims < MaxClaims
  /\ \E p \in profiles \cup {NULL}, d \in {x.id : x \in documents} \cup {NULL} :
       Await(r, "analyze", p, d)
  /\ UNCHANGED <<rows, files>>

AnalyzeCommit(r) ==
  LET p == req[r].p  d == req[r].d IN
  /\ req[r].op = "analyze" /\ Claims < MaxClaims
  /\ Referenced(p) /\ (d = NULL \/ Live(d))
  /\ roles' = roles \cup {[profile |-> p, doc |-> d]}
  /\ Done(r)
  /\ UNCHANGED <<user, profiles, active, preferred, documents, indexed, evidence, files, ids>>

\* build() for one kind of document: the profile and its preference first.
Context(r) ==
  /\ Accept(r)
  /\ \E p \in profiles, k \in Kind :
       Become(r, [Idle EXCEPT !.op = "context_docs", !.p = p, !.k = k,
                              !.saw = preferred[p][k]])
  /\ UNCHANGED <<rows, files>>

\* Mutant: the profile's filter is lost in the query.
Candidates_UserWide(p, k) == {x \in documents : x.kind = k}

\* list_for_user: the documents of a kind of a profile, or of none (legacy).
Candidates(p, k) == {x \in documents : x.kind = k /\ x.profile = p}

\* _preferred_or_latest, over the documents just read.
Select(saw, xs) ==
  IF \E x \in xs : x.id = saw THEN saw
  ELSE CHOOSE d \in {x.id : x \in xs} : \A x \in xs : x.id <= d

Choose(r, xs) ==
  Become(r, [req[r] EXCEPT !.op = "context_text", !.d = Select(req[r].saw, xs), !.saw = 0])

\* The profile's own documents, and in a second query those of no profile.
ContextDocs(r) ==
  LET xs == Candidates(req[r].p, req[r].k) IN
  /\ req[r].op = "context_docs"
  /\ IF xs = {} THEN Become(r, [req[r] EXCEPT !.op = "context_legacy"]) ELSE Choose(r, xs)
  /\ UNCHANGED <<rows, files, ids>>

ContextLegacy(r) ==
  LET xs == Candidates(NULL, req[r].k) IN
  /\ req[r].op = "context_legacy"
  /\ IF xs = {} THEN Respond(r, [to |-> "context", p |-> req[r].p, d |-> NULL])
     ELSE Choose(r, xs)
  /\ UNCHANGED <<rows, files, ids>>

\* The text is the document's chunks; without any, the section is missing.
ContextText(r) ==
  LET x == req[r] IN
  /\ x.op = "context_text"
  /\ Respond(r, [to |-> "context", p |-> x.p, d |-> IF x.d \in indexed THEN x.d ELSE NULL])
  /\ UNCHANGED <<rows, files, ids>>

-----------------------------------------------------------------------------
ProfileStep(r) ==
  \/ Create(r) \/ CreateCommit(r) \/ Activate(r) \/ ActivateCommit(r)
  \/ DeleteProfile(r) \/ DeleteProfileCommit(r) \/ DeleteUser(r)
  \/ Prefer(r) \/ PreferCommit(r)

DocumentStep(r) ==
  \/ Upload(r) \/ Store(r) \/ Parsed(r)
  \/ DeleteDocument(r) \/ DeleteDocumentCommit(r)
  \/ Index(r) \/ IndexCommit(r) \/ IndexDegraded(r)
  \/ ReindexFailed(r) \/ ReindexReply(r)

GroundingStep(r) ==
  \/ Extract(r) \/ ExtractCommit(r) \/ Analyze(r) \/ AnalyzeCommit(r)
  \/ Context(r) \/ ContextDocs(r) \/ ContextLegacy(r) \/ ContextText(r)

Next == \E r \in Req : \/ ProfileStep(r)
                       \/ DocumentStep(r)
                       \/ GroundingStep(r)
                       \/ Fail(r)

Spec == Init /\ [][Next]_vars

-----------------------------------------------------------------------------
\* Every variable has its type, and ids name one row each.
TypeOK ==
  /\ user \in BOOLEAN
  /\ profiles \subseteq Profile
  /\ active \in Profile \cup {NULL}
  /\ preferred \in [Profile -> [Kind -> Doc \cup {NULL}]]
  /\ documents \subseteq Document
  /\ indexed \subseteq Doc
  /\ evidence \subseteq Claim /\ roles \subseteq Claim
  /\ files \subseteq Kind \X Content
  /\ ids \in [profile : 0 .. MaxProfiles, doc : 0 .. MaxDocs, request : 0 .. MaxRequests]
  /\ req \in [Req -> Request]
  /\ \A x, y \in documents : x.id = y.id => x = y

\* Nothing outlives its profile or its user: no document, role or claim of a
\* deleted profile, no chunk or role source of a deleted document, although the
\* requests that write them checked the owner before they awaited a parser or a
\* model (user.py:8, document.py:113, role.py:72).
RowsHaveOwners ==
  /\ ~user => profiles = {} /\ documents = {} /\ roles = {} /\ evidence = {}
  /\ \A x \in documents \cup roles \cup evidence : x.profile \in profiles \cup {NULL}
  /\ \A d \in indexed : Live(d)
  /\ \A x \in roles : x.doc # NULL => Live(x.doc)

\* The active profile is one of the user's, and a profile's preferred resume and
\* jd are documents of that kind of that profile, whichever deletions race with
\* the requests that set them (user.py:66, models/user.py:57).
PointersAreOwned ==
  /\ active \in profiles \cup {NULL}
  /\ \A p \in Profile, k \in Kind : preferred[p][k] # NULL =>
       /\ p \in profiles
       /\ \E x \in documents : x.id = preferred[p][k] /\ x.profile = p /\ x.kind = k

\* Every document can be read again for indexing and extraction: its file is
\* shared by all rows of the same content, of other profiles and of uploads
\* that failed, and deleting one of them does not take it away (document.py:246).
StoredContentIsReadable ==
  \A x \in documents : Readable(x)

\* A context never grounds an interview of one profile on another's document: of
\* what it selected, what is still there is of that profile or of none, and is
\* indexed (interview_context.py:146).
ContextIsOwn ==
  reply.to = "context" =>
    \A x \in documents : x.id = reply.d =>
      x.profile \in {reply.p, NULL} /\ x.id \in indexed

\* Once indexed, a document stays retrievable until it is deleted: an indexing
\* that fails half way leaves the chunks it was to replace (ingestion.py:72).
ReindexKeepsText == [][\A d \in indexed : Live(d)' => d \in indexed']_vars
=============================================================================
