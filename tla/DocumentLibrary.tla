--------------------------- MODULE DocumentLibrary ---------------------------
(***************************************************************************)
(* One document of an organisation's knowledge base: its row and chunk     *)
(* rows in Postgres, its file in the object store, its vectors in the      *)
(* index and the search results cached in Redis.  Uploads, reindexing,     *)
(* deletion and the recovery sweep of a starting process each run as a     *)
(* goroutine; nothing but the row's status keeps them apart, and no        *)
(* transaction spans two of the stores.                                    *)
(***************************************************************************)
EXTENDS Naturals, FiniteSets

CONSTANTS
  Jobs,        \* goroutines, each with the request or the sweep that starts it
  Readers,     \* requests that read: searches, lists, lookups
  NChunks,     \* chunks the file splits into; one is one batch of embeddings
  MaxReindexes, MaxDeletes, MaxFailures, MaxDeaths   \* bounds

ASSUME JobsAssumption == Jobs \cap Readers = {} /\ IsFiniteSet(Jobs)
ASSUME NChunksAssumption == NChunks \in Nat \ {0}
ASSUME BoundAssumption ==
  {MaxReindexes, MaxDeletes, MaxFailures, MaxDeaths} \subseteq Nat

VARIABLES
  doc,      \* the documents row
  chunks,   \* the document_chunks rows, by chunk_index
  file,     \* the object in the store
  vectors,  \* the vectors in the index, by chunk_index
  job,      \* where each goroutine is
  cache,    \* the cached results of one query, for each of the two scopes
  reader,   \* where each reading request is
  loose,    \* ghost: vectors the rows may not account for, and why not
  used      \* how much of each bound is used up

vars == <<doc, chunks, file, vectors, job, cache, reader, loose, used>>

Chunks == 1 .. NChunks

Statuses == {"pending", "processing", "indexed", "failed", "deleting"}
Visibilities == {"all_members", "owner_only"}

\* stale: updated_at is older than stuckThreshold.
Docs == [there: BOOLEAN, status: Statuses, stale: BOOLEAN, visibility: Visibilities]

Working == {"read", "upsert", "rows", "index", "fail"}

PCs == Working \cup
  {"idle", "insert", "claim", "invalidate", "list", "vectors", "file", "purge",
   "invalidateFirst", "reset", "clear"}

\* next: the batch a processing job is at.  ids: the vectors a purge or a
\* reindex has read the names of.
JobStates == [pc: PCs, next: Chunks, ids: SUBSET Chunks]
Idle == [pc |-> "idle", next |-> 1, ids |-> {}]

\* bad: a file no text can be had from.
Files == {"none", "good", "bad"}

\* A query's result: the document's text is in it or not.
Results == {"none", "empty", "text"}

\* admin: canSeeOwnerOnly.
ReaderStates == [pc: {"idle", "resolve", "query", "store", "done"}, admin: BOOLEAN, result: Results]
Asking == [pc |-> "idle", admin |-> FALSE, result |-> "none"]

Bounds == [reindexes: 0 .. MaxReindexes, deletes: 0 .. MaxDeletes,
           failures: 0 .. MaxFailures, deaths: 0 .. MaxDeaths]

NoDoc == [there |-> FALSE, status |-> "pending", stale |-> FALSE, visibility |-> "all_members"]

Init ==
  /\ doc = NoDoc /\ chunks = {} /\ file = "none" /\ vectors = {}
  /\ job = [j \in Jobs |-> Idle]
  /\ cache = [admin \in BOOLEAN |-> "none"]
  /\ reader = [r \in Readers |-> Asking]
  /\ loose = {}
  /\ used = [reindexes |-> 0, deletes |-> 0, failures |-> 0, deaths |-> 0]

-----------------------------------------------------------------------------
(* The statements of documents.sql.  Every UPDATE is a no-op on a row that *)
(* is gone, and makes updated_at fresh on one that is not (a trigger).     *)

WithStatus(s) == IF doc.there THEN [doc EXCEPT !.status = s, !.stale = FALSE] ELSE doc

\* Mutant of ClaimDocumentForProcessing: a document that says 'processing' is
\* taken over whether or not its worker still touches it.
ClaimAnyProcessing == doc.there /\ doc.status \in {"pending", "processing"}

\* ClaimDocumentForProcessing affects a row.
ClaimDocumentForProcessing ==
  doc.there /\ (doc.status = "pending" \/ (doc.status = "processing" /\ doc.stale))

InsertDocument(visibility) ==
  [there |-> TRUE, status |-> "pending", stale |-> FALSE, visibility |-> visibility]

MarkDocumentIndexed == WithStatus("indexed")
MarkDocumentFailed == WithStatus("failed")
UpdateDocumentProcessing == WithStatus("pending")
SoftDeleteDocument == WithStatus("deleting")
TouchDocument == WithStatus(doc.status)
GetDocument == doc.there
ListDocumentChunkPineconeIDs == chunks
InsertDocumentChunk(n) == chunks \cup {n}
DeleteDocumentChunks == {}
HardDeleteDocument == [doc EXCEPT !.there = FALSE, !.status = "deleting"]

\* ListStuckDocuments has the row.
ListStuckDocuments ==
  doc.there /\ doc.stale /\ doc.status \in {"pending", "processing", "deleting"}

\* The WHERE clause on visibility that every query for a user has.
VisibleTo(admin) == doc.visibility = "all_members" \/ admin

GetDocumentForUser(admin) == doc.there /\ VisibleTo(admin)
ListDocuments(admin) == doc.there /\ doc.status # "deleting" /\ VisibleTo(admin)
ListSearchableDocumentIDs(admin) == doc.there /\ doc.status = "indexed" /\ VisibleTo(admin)

-----------------------------------------------------------------------------
Goes(j, s) == job' = [job EXCEPT ![j] = s]
At(j, pc) == job[j].pc = pc
Moves(j, pc) == Goes(j, [job[j] EXCEPT !.pc = pc])

\* A call to a store or a transaction may fail.
Fails == used.failures < MaxFailures /\ used' = [used EXCEPT !.failures = @ + 1]

Stores == <<chunks, file, vectors, cache>>

-----------------------------------------------------------------------------
(* Upload and Process.                                                     *)

\* Upload: the checks have passed and the file is stored, before its record.
Upload(j) ==
  /\ At(j, "idle") /\ doc = NoDoc /\ file = "none"
  /\ file' \in {"good", "bad"}
  /\ Moves(j, "insert")
  /\ UNCHANGED <<doc, chunks, vectors, cache, reader, loose, used>>

\* ... the record, and the goroutine that processes it.  Without the record
\* nothing takes the file away again.
SaveRecord(j) ==
  /\ At(j, "insert")
  /\ \/ \E v \in Visibilities : doc' = InsertDocument(v)
        /\ Moves(j, "claim") /\ UNCHANGED used
     \/ Fails /\ Goes(j, Idle) /\ UNCHANGED doc
  /\ UNCHANGED <<chunks, file, vectors, cache, reader, loose>>

\* Process, up to the claim: someone else's document is left alone.
Claim(j) ==
  /\ At(j, "claim")
  /\ \/ /\ ClaimDocumentForProcessing
        /\ doc' = WithStatus("processing")
        /\ Goes(j, [Idle EXCEPT !.pc = "read"])
        /\ UNCHANGED used
     \/ ~ClaimDocumentForProcessing /\ Goes(j, Idle) /\ UNCHANGED <<doc, used>>
     \/ Fails /\ Goes(j, Idle) /\ UNCHANGED doc
  /\ UNCHANGED <<Stores, reader, loose>>

\* Download; ExtractText and SplitText find something in it.
Download == file # "none"
ExtractText == file = "good"

\* A file that is gone, or that cannot be read, fails the document
\* (runContained: a panic of a parser, too).
ReadFile(j) ==
  /\ At(j, "read")
  /\ \/ Download /\ ExtractText /\ Moves(j, "upsert") /\ UNCHANGED used
     \/ ~(Download /\ ExtractText) /\ Moves(j, "fail") /\ UNCHANGED used
     \/ Fails /\ Moves(j, "fail")
  /\ UNCHANGED <<doc, Stores, reader, loose>>

\* Embed and Upsert of a batch.  A failure may come before the vectors are in
\* the index, or instead of the answer that they are.
UpsertBatch(j) ==
  /\ At(j, "upsert")
  /\ LET n == job[j].next IN
     \/ /\ vectors' = vectors \cup {n} /\ loose' = loose \cup {n}
        /\ Moves(j, "rows") /\ UNCHANGED used
     \/ /\ Fails /\ Moves(j, "fail")
        /\ \/ UNCHANGED <<vectors, loose>>
           \/ vectors' = vectors \cup {n} /\ loose' = loose \cup {n}
  /\ UNCHANGED <<doc, chunks, file, cache, reader>>

\* A purge has read which vectors there are, and will not look again.
Purging == \E j \in Jobs : job[j].pc \in {"vectors", "file", "purge"}

MoreBatches(n) == n < NChunks

\* InsertDocumentChunk, which a row that is gone refuses, and the heartbeat.
\* From here on the rows account for the batch, unless a purge has read them.
InsertChunks(j) ==
  /\ At(j, "rows")
  /\ LET n == job[j].next IN
     \/ /\ doc.there
        /\ chunks' = InsertDocumentChunk(n)
        /\ loose' = IF Purging THEN loose ELSE loose \ {n}
        /\ doc' = TouchDocument
        /\ Goes(j, IF MoreBatches(n) THEN [job[j] EXCEPT !.pc = "upsert", !.next = n + 1]
                                  ELSE [job[j] EXCEPT !.pc = "index"])
        /\ UNCHANGED used
     \/ ~doc.there /\ Moves(j, "fail") /\ UNCHANGED <<doc, chunks, loose, used>>
     \/ Fails /\ Moves(j, "fail") /\ UNCHANGED <<doc, chunks, loose>>
  /\ UNCHANGED <<file, vectors, cache, reader>>

Finish(j) ==
  /\ At(j, "index")
  /\ \/ doc' = MarkDocumentIndexed /\ Goes(j, Idle) /\ UNCHANGED used
     \/ Fails /\ Moves(j, "fail") /\ UNCHANGED doc
  /\ UNCHANGED <<Stores, reader, loose>>

\* Process, after a failure: the detail is stored, if that does not fail too.
GiveUp(j) ==
  /\ At(j, "fail")
  /\ \/ doc' = MarkDocumentFailed /\ UNCHANGED used
     \/ Fails /\ UNCHANGED doc
  /\ Goes(j, Idle)
  /\ UNCHANGED <<Stores, reader, loose>>

ProcessStep(j) ==
  \/ SaveRecord(j) \/ Claim(j) \/ ReadFile(j) \/ UpsertBatch(j)
  \/ InsertChunks(j) \/ Finish(j) \/ GiveUp(j)

-----------------------------------------------------------------------------
(* Delete and Purge; Reindex.                                              *)

\* Delete: loadManageable finds the row whatever its status.
Delete(j) ==
  /\ At(j, "idle") /\ doc.there /\ used.deletes < MaxDeletes
  /\ doc' = SoftDeleteDocument
  /\ used' = [used EXCEPT !.deletes = @ + 1]
  /\ Moves(j, "invalidate")
  /\ UNCHANGED <<Stores, reader, loose>>

ReindexRequest(j) ==
  /\ At(j, "idle") /\ doc.there /\ used.reindexes < MaxReindexes
  /\ used' = [used EXCEPT !.reindexes = @ + 1]
  /\ Moves(j, "invalidateFirst")
  /\ UNCHANGED <<doc, Stores, reader, loose>>

\* invalidateSearchCache, then the goroutine.
InvalidateSearchCache(j) ==
  /\ job[j].pc \in {"invalidate", "invalidateFirst"}
  /\ cache' = [admin \in BOOLEAN |-> "none"]
  /\ Moves(j, IF At(j, "invalidate") THEN "list" ELSE "reset")
  /\ UNCHANGED <<doc, chunks, file, vectors, reader, loose, used>>

\* Purge: what is to be deleted is read once.
ListVectors(j) ==
  /\ At(j, "list")
  /\ \/ GetDocument /\ Goes(j, [job[j] EXCEPT !.pc = "vectors", !.ids = ListDocumentChunkPineconeIDs]) /\ UNCHANGED used
     \/ ~GetDocument /\ Goes(j, Idle) /\ UNCHANGED used
     \/ Fails /\ Goes(j, Idle)
  /\ UNCHANGED <<doc, Stores, reader, loose>>

\* ... external copies first, each tried twice; a failure leaves the row.
DeleteVectors(j) ==
  /\ At(j, "vectors")
  /\ \/ vectors' = vectors \ job[j].ids /\ Moves(j, "file") /\ UNCHANGED used
     \/ Fails /\ Goes(j, Idle) /\ UNCHANGED vectors
  /\ UNCHANGED <<doc, chunks, file, cache, reader, loose>>

DeleteFile(j) ==
  /\ At(j, "file")
  /\ \/ file' = "none" /\ Moves(j, "purge") /\ UNCHANGED used
     \/ Fails /\ Goes(j, Idle) /\ UNCHANGED file
  /\ UNCHANGED <<doc, chunks, vectors, cache, reader, loose>>

\* ... then the rows.
DeleteRows(j) ==
  /\ At(j, "purge")
  /\ \/ chunks' = DeleteDocumentChunks /\ doc' = HardDeleteDocument /\ UNCHANGED used
     \/ Fails /\ UNCHANGED <<doc, chunks>>
  /\ Goes(j, Idle)
  /\ UNCHANGED <<file, vectors, cache, reader, loose>>

\* Mutant of PurgeStep: the file of a purge that could not delete the vectors
\* is deleted, and the rows with it.
PurgeGoesOn(j) ==
  \/ ListVectors(j) \/ DeleteFile(j) \/ DeleteRows(j)
  \/ /\ At(j, "vectors")
     /\ \/ vectors' = vectors \ job[j].ids /\ UNCHANGED used
        \/ Fails /\ UNCHANGED vectors
     /\ Moves(j, "file")
     /\ UNCHANGED <<doc, chunks, file, cache, reader, loose>>

PurgeStep(j) == ListVectors(j) \/ DeleteVectors(j) \/ DeleteFile(j) \/ DeleteRows(j)

\* Reindex: the chunk rows are dropped and the document waits again, whatever
\* else is happening to it ...
Reset(j) ==
  /\ At(j, "reset")
  /\ \/ /\ chunks' = DeleteDocumentChunks /\ doc' = UpdateDocumentProcessing
        /\ loose' = loose \cup chunks
        /\ Goes(j, [job[j] EXCEPT !.pc = "clear", !.ids = ListDocumentChunkPineconeIDs])
        /\ UNCHANGED used
     \/ Fails /\ Goes(j, Idle) /\ UNCHANGED <<doc, chunks, loose>>
  /\ UNCHANGED <<file, vectors, cache, reader>>

\* ... their vectors are deleted, or not, and the document is processed.
ClearVectors(j) ==
  /\ At(j, "clear")
  /\ \/ vectors' = vectors \ job[j].ids /\ UNCHANGED used
     \/ Fails /\ UNCHANGED vectors
  /\ Goes(j, [Idle EXCEPT !.pc = "claim"])
  /\ UNCHANGED <<doc, chunks, file, cache, reader, loose>>

ReindexStep(j) == Reset(j) \/ ClearVectors(j)

-----------------------------------------------------------------------------
(* Crashes and recovery.                                                   *)

\* The process of a goroutine (or of the request that starts it) ends.
Die(j) ==
  /\ ~At(j, "idle") /\ used.deaths < MaxDeaths
  /\ used' = [used EXCEPT !.deaths = @ + 1]
  /\ Goes(j, Idle)
  /\ UNCHANGED <<doc, Stores, reader, loose>>

\* Ten minutes pass.  A goroutine that lives touches the row more often.
Age ==
  /\ doc.there /\ ~doc.stale /\ \A j \in Jobs : At(j, "idle")
  /\ doc' = [doc EXCEPT !.stale = TRUE]
  /\ UNCHANGED <<Stores, job, reader, loose, used>>

\* RecoverStuckJobs, of any process that starts.
Recover(j) ==
  /\ At(j, "idle") /\ ListStuckDocuments
  /\ Moves(j, IF doc.status = "deleting" THEN "list" ELSE "claim")
  /\ UNCHANGED <<doc, Stores, reader, loose, used>>

-----------------------------------------------------------------------------
(* Reading.                                                                *)

Answers(r, s) == reader' = [reader EXCEPT ![r] = s]
Shown(r, seen) == [reader[r] EXCEPT !.pc = "done", !.result = IF seen THEN "text" ELSE "empty"]

\* List and Get.
Look(r) ==
  /\ reader[r].pc = "idle"
  /\ \E admin \in BOOLEAN : \E seen \in {ListDocuments(admin), GetDocumentForUser(admin)} :
       Answers(r, [Shown(r, seen) EXCEPT !.admin = admin])
  /\ UNCHANGED <<doc, Stores, job, loose, used>>

\* Mutant of SearchCacheKey: the key is made of the query alone.
SharedCacheKey(admin) == TRUE

\* searchCacheKey: the caller's scope is part of the key.
SearchCacheKey(admin) == admin

\* Search, up to the cache.
LookUp(r) ==
  /\ reader[r].pc = "idle"
  /\ \E admin \in BOOLEAN :
       LET hit == cache[SearchCacheKey(admin)] IN
       Answers(r, IF hit # "none" THEN [pc |-> "done", admin |-> admin, result |-> hit]
                                  ELSE [Asking EXCEPT !.pc = "resolve", !.admin = admin])
  /\ UNCHANGED <<doc, Stores, job, loose, used>>

\* ... the documents the caller may search: none, and the search is over.
Resolve(r) ==
  /\ reader[r].pc = "resolve"
  /\ Answers(r, IF ListSearchableDocumentIDs(reader[r].admin)
                THEN [reader[r] EXCEPT !.pc = "query"] ELSE Shown(r, FALSE))
  /\ UNCHANGED <<doc, Stores, job, loose, used>>

\* ... Searcher.Search and the hydration, which keeps a chunk whose document
\* has gone by now.  A search that fails is answered without a result.
Query(r) ==
  /\ reader[r].pc = "query"
  /\ \/ Answers(r, [reader[r] EXCEPT !.pc = "store", !.result = IF vectors = {} THEN "empty" ELSE "text"])
     \/ Answers(r, Shown(r, FALSE))
  /\ UNCHANGED <<doc, Stores, job, loose, used>>

\* ... and the result is cached, and answered.
StoreResult(r) ==
  /\ reader[r].pc = "store"
  /\ cache' = [cache EXCEPT ![SearchCacheKey(reader[r].admin)] = reader[r].result]
  /\ Answers(r, [reader[r] EXCEPT !.pc = "done"])
  /\ UNCHANGED <<doc, chunks, file, vectors, job, loose, used>>

Ask(r) ==
  /\ reader[r].pc = "done"
  /\ Answers(r, Asking)
  /\ UNCHANGED <<doc, Stores, job, loose, used>>

\* searchCacheTTL.
Expire ==
  /\ \E admin \in BOOLEAN : cache[admin] # "none" /\ cache' = [cache EXCEPT ![admin] = "none"]
  /\ UNCHANGED <<doc, chunks, file, vectors, job, reader, loose, used>>

SearchStep(r) == LookUp(r) \/ Resolve(r) \/ Query(r) \/ StoreResult(r)

JobStep(j) ==
  ProcessStep(j) \/ InvalidateSearchCache(j) \/ PurgeStep(j) \/ ReindexStep(j)

Next ==
  \/ \E j \in Jobs : JobStep(j) \/ Upload(j) \/ Delete(j) \/ ReindexRequest(j) \/ Recover(j) \/ Die(j)
  \/ \E r \in Readers : SearchStep(r) \/ Look(r) \/ Ask(r)
  \/ Age \/ Expire

Spec == Init /\ [][Next]_vars

-----------------------------------------------------------------------------
(* Properties.                                                             *)

TypeOK ==
  /\ doc \in Docs
  /\ chunks \subseteq Chunks /\ vectors \subseteq Chunks /\ loose \subseteq Chunks
  /\ file \in Files
  /\ job \in [Jobs -> JobStates]
  /\ cache \in [BOOLEAN -> Results]
  /\ reader \in [Readers -> ReaderStates]
  /\ used \in Bounds

\* A document is embedded by one goroutine at a time, whatever instances start
\* up and sweep beside a live worker ("can't start it a second time and pay to
\* embed it twice", ClaimDocumentForProcessing); only a reindex, which sets the
\* row back to pending whatever is going on, can put a second one beside it.
EmbeddedOnce ==
  Cardinality({j \in Jobs : job[j].pc \in Working}) <= 1 + used.reindexes

\* Nobody but an owner or admin is shown a trace of an owner_only document:
\* not in a list, not by its id, not by a search, and not through a result
\* that an admin's search has cached.
OwnerOnlyStaysHidden ==
  \A r \in Readers :
    reader[r].result = "text" /\ doc.visibility = "owner_only" => reader[r].admin

\* A purged document leaves no file behind, and no vector except one that no
\* chunk row named when the purge read them: upserted by a job that was still
\* working, or before a failure or crash kept its row from being written, or
\* left by a reindex that could not clear it (Purge: "Deleting rows before
\* confirming the external cleanup would leave orphaned vectors/files").
PurgeLeavesNothing ==
  ~doc.there /\ doc # NoDoc => file = "none" /\ vectors \subseteq loose

\* Stated by ListDocuments: once DELETE has been called the document should
\* not reappear in a normal list view while the purge removes it.
DeletionShows == [][doc.status = "deleting" /\ doc'.there => doc'.status = "deleting"]_vars
=============================================================================
