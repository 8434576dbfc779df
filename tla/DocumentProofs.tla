----------------------------- MODULE DocumentProofs -----------------------------
(***************************************************************************)
(* Proofs about DocumentLibrary: what the row's status, the order of a     *)
(* purge and the cache's key guarantee for any number of goroutines,       *)
(* readers and chunks, although nothing else keeps the goroutines apart.   *)
(***************************************************************************)
EXTENDS DocumentLibrary, FiniteSetTheorems, TLAPS

-----------------------------------------------------------------------------
(* The inductive invariant.                                                *)

\* Before its record is saved a document has left no trace but its file, and
\* one upload is at work; a record that is gone stays gone.
NewInv ==
  /\ doc = NoDoc =>
       /\ chunks = {} /\ vectors = {} /\ used.reindexes = 0
       /\ \A a \in BOOLEAN : cache[a] # "text"
       /\ \A r \in Readers : reader[r].pc \notin {"query", "store"} /\ reader[r].result # "text"
       /\ \A j \in Jobs : job[j].pc \in {"idle", "insert"}
  /\ \A j \in Jobs : At(j, "insert") =>
       /\ doc = NoDoc /\ file # "none"
       /\ \A k \in Jobs : At(k, "insert") => k = j

\* A reader without the scope has not got past the list of what it may
\* search, so that no result with the text is cached under its key.
HiddenInv ==
  doc.visibility = "owner_only" =>
    /\ cache[FALSE] # "text"
    /\ \A r \in Readers : ~reader[r].admin =>
         reader[r].result # "text" /\ reader[r].pc \notin {"query", "store"}

\* The rows, or else the list that a purge made of them, name every vector
\* that should not be loose.
PurgeInv ==
  /\ vectors \ loose \subseteq chunks
  /\ \A j \in Jobs :
       /\ At(j, "vectors") => vectors \ loose \subseteq job[j].ids
       /\ job[j].pc \in {"file", "purge"} => vectors \subseteq loose
       /\ At(j, "purge") => file = "none"
  /\ PurgeLeavesNothing

\* Who works on the document, or will set it back to pending.
Held(places) == {j \in Jobs : job[j].pc \in places}
Resetting == {"invalidateFirst", "reset"}
Busy == Working \cup Resetting

Waiting == IF doc.there /\ doc.status = "pending" THEN 1 ELSE 0

\* A pending document is a place for one worker that only a reindex opens
\* again; a stale one has no worker.
ClaimInv ==
  /\ doc.stale => doc # NoDoc /\ Held(Working) = {}
  /\ Cardinality(Held(Resetting)) <= used.reindexes
  /\ Cardinality(Held(Busy)) + Waiting <= 1 + used.reindexes

DocInv == TypeOK /\ NewInv /\ HiddenInv /\ PurgeInv /\ ClaimInv

LEMMA MaximaAreNats == MaxReindexes \in Nat /\ MaxDeletes \in Nat /\ MaxFailures \in Nat /\ MaxDeaths \in Nat
BY BoundAssumption

LEMMA InvInit == Init => DocInv
<1> SUFFICES ASSUME Init PROVE DocInv
  OBVIOUS
<1>1. /\ doc = NoDoc /\ chunks = {} /\ file = "none" /\ vectors = {} /\ loose = {}
      /\ \A a \in BOOLEAN : cache[a] = "none"
      /\ \A j \in Jobs : job[j] = Idle
      /\ \A r \in Readers : reader[r] = Asking
      /\ used = [reindexes |-> 0, deletes |-> 0, failures |-> 0, deaths |-> 0]
  BY DEF Init
<1>2. TypeOK
  <2>1. Idle \in JobStates /\ Asking \in ReaderStates /\ doc \in Docs
    BY <1>1, NChunksAssumption DEF Idle, JobStates, PCs, Working, Chunks, Asking, ReaderStates, Results,
       NoDoc, Docs, Statuses, Visibilities
  <2>2. job \in [Jobs -> JobStates] /\ reader \in [Readers -> ReaderStates]
    BY <2>1 DEF Init
  <2>3. cache \in [BOOLEAN -> Results]
    BY DEF Init, Results
  <2>4. used \in Bounds
    BY <1>1, MaximaAreNats DEF Bounds
  <2> QED
    BY <1>1, <2>1, <2>2, <2>3, <2>4 DEF TypeOK, Files
<1>3. NewInv
  BY <1>1 DEF NewInv, Idle, Asking, At
<1>4. HiddenInv
  BY <1>1 DEF HiddenInv, NoDoc
<1>5. PurgeInv
  BY <1>1 DEF PurgeInv, PurgeLeavesNothing, Idle, At
<1>6. ClaimInv
  <2>1. Held(Working) = {} /\ Held(Resetting) = {} /\ Held(Busy) = {}
    BY <1>1 DEF Held, Busy, Working, Resetting, Idle
  <2>2. doc.stale = FALSE /\ doc.there = FALSE
    BY <1>1 DEF NoDoc
  <2>3. Cardinality(Held(Resetting)) = 0 /\ Cardinality(Held(Busy)) = 0
    BY <2>1, FS_EmptySet
  <2> QED
    BY <1>1, <2>1, <2>2, <2>3 DEF ClaimInv, Waiting
<1> QED
  BY <1>2, <1>3, <1>4, <1>5, <1>6 DEF DocInv

-----------------------------------------------------------------------------
(* How a step moves its goroutine, its reader and the row.                 *)

LEMMA GoesTo ==
  ASSUME TypeOK, NEW j \in Jobs, NEW s, Goes(j, s)
  PROVE  /\ job'[j] = s /\ \A k \in Jobs \ {j} : job'[k] = job[k]
         /\ s \in JobStates => job' \in [Jobs -> JobStates]
BY DEF TypeOK, Goes

LEMMA MovesTo ==
  ASSUME TypeOK, NEW j \in Jobs, NEW pc, Moves(j, pc)
  PROVE  /\ job'[j].pc = pc /\ job'[j].next = job[j].next /\ job'[j].ids = job[j].ids
         /\ \A k \in Jobs \ {j} : job'[k] = job[k]
         /\ pc \in PCs => job' \in [Jobs -> JobStates]
BY GoesTo DEF TypeOK, Moves, JobStates

LEMMA AnswersTo ==
  ASSUME TypeOK, NEW r \in Readers, NEW s, Answers(r, s)
  PROVE  /\ reader'[r] = s /\ \A x \in Readers \ {r} : reader'[x] = reader[x]
         /\ s \in ReaderStates => reader' \in [Readers -> ReaderStates]
BY DEF TypeOK, Answers

LEMMA StatusSet ==
  ASSUME TypeOK, NEW s \in Statuses
  PROVE  /\ WithStatus(s) \in Docs /\ WithStatus(s).there = doc.there
         /\ WithStatus(s).visibility = doc.visibility
         /\ WithStatus(s).stale => doc.stale
         /\ doc.there => WithStatus(s).status = s /\ ~WithStatus(s).stale
         /\ ~doc.there => WithStatus(s) = doc
BY DEF TypeOK, Docs, WithStatus

LEMMA FailsType == TypeOK /\ Fails => used' \in Bounds /\ used'.reindexes = used.reindexes
BY MaximaAreNats DEF TypeOK, Fails, Bounds

LEMMA IdleFacts ==
  /\ Idle \in JobStates /\ Idle.pc = "idle"
  /\ [Idle EXCEPT !.pc = "read"] \in JobStates /\ [Idle EXCEPT !.pc = "read"].pc = "read"
  /\ [Idle EXCEPT !.pc = "claim"] \in JobStates /\ [Idle EXCEPT !.pc = "claim"].pc = "claim"
BY NChunksAssumption DEF Idle, JobStates, PCs, Working, Chunks

LEMMA PCsAre ==
  /\ Working = {"read", "upsert", "rows", "index", "fail"}
  /\ PCs = {"read", "upsert", "rows", "index", "fail", "idle", "insert", "claim", "invalidate", "list",
            "vectors", "file", "purge", "invalidateFirst", "reset", "clear"}
BY DEF PCs, Working

-----------------------------------------------------------------------------
(* The invariant's parts, one by one.                                      *)

\* The steps that one goroutine takes.
GoroutineStep(j) ==
  JobStep(j) \/ Upload(j) \/ Delete(j) \/ ReindexRequest(j) \/ Recover(j) \/ Die(j)
ReaderStep(r) == SearchStep(r) \/ Look(r) \/ Ask(r)

LEMMA NextIs ==
  Next <=> \/ \E j \in Jobs : GoroutineStep(j)
           \/ \E r \in Readers : ReaderStep(r)
           \/ Age \/ Expire
BY DEF Next, GoroutineStep, ReaderStep

LEMMA TypeGoroutine ==
  ASSUME TypeOK, NEW j \in Jobs, GoroutineStep(j)
  PROVE  TypeOK'
<1> USE TypeOK
<1>1. job[j] \in JobStates /\ job[j].next \in Chunks /\ job[j].ids \subseteq Chunks /\ doc \in Docs
  BY DEF TypeOK, JobStates
<1>2. CASE SaveRecord(j)
  <2>1. \A v \in Visibilities : InsertDocument(v) \in Docs
    BY DEF InsertDocument, Docs, Statuses
  <2> QED
    BY <1>2, <2>1, MovesTo, GoesTo, IdleFacts, FailsType, PCsAre DEF SaveRecord, TypeOK
<1>3. CASE Claim(j)
  BY <1>3, GoesTo, IdleFacts, FailsType, StatusSet DEF Claim, TypeOK, Statuses, Stores
<1>4. CASE ReadFile(j)
  BY <1>4, MovesTo, FailsType, PCsAre DEF ReadFile, TypeOK, Stores
<1>5. CASE UpsertBatch(j)
  BY <1>1, <1>5, MovesTo, FailsType, PCsAre DEF UpsertBatch, TypeOK
<1>6. CASE InsertChunks(j)
  <2> DEFINE n == job[j].next
             more == [job[j] EXCEPT !.pc = "upsert", !.next = n + 1]
             last == [job[j] EXCEPT !.pc = "index"]
  <2>1. last \in JobStates
    BY <1>1, PCsAre DEF JobStates
  <2>2. MoreBatches(n) => more \in JobStates
    <3>1. MoreBatches(n) => n + 1 \in Chunks
      BY <1>1, NChunksAssumption DEF MoreBatches, Chunks
    <3> QED
      BY <1>1, <3>1, PCsAre DEF JobStates
  <2>3. TouchDocument \in Docs
    BY <1>1, StatusSet DEF TouchDocument, Docs
  <2>4. CASE /\ chunks' = InsertDocumentChunk(n)
             /\ loose' = IF Purging THEN loose ELSE loose \ {n}
             /\ doc' = TouchDocument
             /\ Goes(j, IF MoreBatches(n) THEN more ELSE last)
             /\ UNCHANGED used
    <3>1. job' \in [Jobs -> JobStates]
      BY <2>1, <2>2, <2>4, GoesTo
    <3> QED
      BY <1>1, <1>6, <2>3, <2>4, <3>1 DEF InsertChunks, TypeOK, InsertDocumentChunk
  <2>5. CASE Moves(j, "fail") /\ UNCHANGED <<doc, chunks, loose>> /\ (UNCHANGED used \/ Fails)
    BY <1>6, <2>5, MovesTo, FailsType, PCsAre DEF InsertChunks, TypeOK
  <2> QED
    BY <1>6, <2>4, <2>5 DEF InsertChunks
<1>7. CASE Finish(j) \/ GiveUp(j)
  BY <1>7, MovesTo, GoesTo, IdleFacts, FailsType, StatusSet, PCsAre
     DEF Finish, GiveUp, TypeOK, Statuses, Stores, MarkDocumentIndexed, MarkDocumentFailed
<1>8. CASE InvalidateSearchCache(j)
  <2>1. cache' \in [BOOLEAN -> Results]
    BY <1>8 DEF InvalidateSearchCache, Results
  <2> QED
    BY <1>8, <2>1, MovesTo, PCsAre DEF InvalidateSearchCache, TypeOK
<1>9. CASE ListVectors(j)
  <2> DEFINE listed == [job[j] EXCEPT !.pc = "vectors", !.ids = ListDocumentChunkPineconeIDs]
  <2>1. listed \in JobStates
    BY <1>1, PCsAre DEF JobStates, ListDocumentChunkPineconeIDs, TypeOK
  <2> HIDE DEF listed
  <2>2. Goes(j, listed) \/ Goes(j, Idle)
    BY <1>9 DEF ListVectors, listed
  <2> QED
    BY <1>9, <2>1, <2>2, GoesTo, IdleFacts, FailsType DEF ListVectors, TypeOK, Stores
<1>10. CASE DeleteVectors(j) \/ DeleteFile(j)
  BY <1>10, MovesTo, GoesTo, IdleFacts, FailsType, PCsAre DEF DeleteVectors, DeleteFile, TypeOK, Files
<1>11. CASE DeleteRows(j)
  <2>1. HardDeleteDocument \in Docs
    BY <1>1 DEF HardDeleteDocument, Docs, Statuses
  <2> QED
    BY <1>11, <2>1, GoesTo, IdleFacts, FailsType DEF DeleteRows, TypeOK, DeleteDocumentChunks
<1>12. CASE Reset(j)
  <2> DEFINE st == [job[j] EXCEPT !.pc = "clear", !.ids = ListDocumentChunkPineconeIDs]
  <2>1. st \in JobStates
    BY <1>1, PCsAre DEF JobStates, ListDocumentChunkPineconeIDs, TypeOK
  <2> HIDE DEF st
  <2>2. Goes(j, st) \/ Goes(j, Idle)
    BY <1>12 DEF Reset, st
  <2>3. UpdateDocumentProcessing \in Docs
    BY StatusSet DEF UpdateDocumentProcessing, Statuses
  <2> QED
    BY <1>12, <2>1, <2>2, <2>3, GoesTo, IdleFacts, FailsType
       DEF Reset, TypeOK, DeleteDocumentChunks
<1>13. CASE ClearVectors(j)
  BY <1>13, GoesTo, IdleFacts, FailsType DEF ClearVectors, TypeOK
<1>14. CASE Upload(j)
  BY <1>14, MovesTo, PCsAre DEF Upload, TypeOK, Files
<1>15. CASE Delete(j)
  <2>1. used' \in Bounds
    BY <1>15, MaximaAreNats DEF Delete, TypeOK, Bounds
  <2> QED
    BY <1>15, <2>1, MovesTo, PCsAre, StatusSet DEF Delete, TypeOK, Stores, SoftDeleteDocument, Statuses
<1>16. CASE ReindexRequest(j)
  <2>1. used' \in Bounds
    BY <1>16, MaximaAreNats DEF ReindexRequest, TypeOK, Bounds
  <2> QED
    BY <1>16, <2>1, MovesTo, PCsAre DEF ReindexRequest, TypeOK, Stores
<1>17. CASE Recover(j)
  BY <1>17, MovesTo, PCsAre DEF Recover, TypeOK, Stores
<1>18. CASE Die(j)
  <2>1. used' \in Bounds
    BY <1>18, MaximaAreNats DEF Die, TypeOK, Bounds
  <2> QED
    BY <1>18, <2>1, GoesTo, IdleFacts DEF Die, TypeOK, Stores
<1> QED
  BY <1>2, <1>3, <1>4, <1>5, <1>6, <1>7, <1>8, <1>9, <1>10, <1>11, <1>12, <1>13, <1>14, <1>15, <1>16,
     <1>17, <1>18 DEF GoroutineStep, JobStep, ProcessStep, PurgeStep, ReindexStep

LEMMA TypeOthers ==
  ASSUME TypeOK, (\E r \in Readers : ReaderStep(r)) \/ Age \/ Expire \/ UNCHANGED vars
  PROVE  TypeOK'
<1> USE TypeOK
<1>1. ASSUME NEW r \in Readers, ReaderStep(r) PROVE TypeOK'
  <2>1. reader[r] \in ReaderStates
    BY DEF TypeOK
  <2>2. \A seen \in BOOLEAN, admin \in BOOLEAN :
          Shown(r, seen) \in ReaderStates /\ [Shown(r, seen) EXCEPT !.admin = admin] \in ReaderStates
    BY <2>1 DEF Shown, ReaderStates, Results
  <2>3. CASE Look(r)
    <3>1. PICK admin \in BOOLEAN : \E seen \in {ListDocuments(admin), GetDocumentForUser(admin)} :
            Answers(r, [Shown(r, seen) EXCEPT !.admin = admin])
      BY <2>3 DEF Look
    <3>2. ListDocuments(admin) \in BOOLEAN /\ GetDocumentForUser(admin) \in BOOLEAN
      BY DEF ListDocuments, GetDocumentForUser, TypeOK, Docs, VisibleTo
    <3>3. reader' \in [Readers -> ReaderStates]
      BY <2>2, <3>1, <3>2, AnswersTo
    <3> QED
      BY <2>3, <3>3 DEF Look, TypeOK, Stores
  <2>4. CASE LookUp(r)
    <3>1. PICK admin \in BOOLEAN :
            LET hit == cache[SearchCacheKey(admin)] IN
            Answers(r, IF hit # "none" THEN [pc |-> "done", admin |-> admin, result |-> hit]
                                       ELSE [Asking EXCEPT !.pc = "resolve", !.admin = admin])
      BY <2>4 DEF LookUp
    <3> DEFINE hit == cache[SearchCacheKey(admin)]
    <3>2. /\ [pc |-> "done", admin |-> admin, result |-> hit] \in ReaderStates
          /\ [Asking EXCEPT !.pc = "resolve", !.admin = admin] \in ReaderStates
      BY DEF TypeOK, SearchCacheKey, ReaderStates, Asking, Results
    <3>3. reader' \in [Readers -> ReaderStates]
      BY <3>1, <3>2, AnswersTo
    <3> QED
      BY <2>4, <3>3 DEF LookUp, TypeOK, Stores
  <2>5. CASE Resolve(r) \/ Query(r)
    <3>1. [reader[r] EXCEPT !.pc = "query"] \in ReaderStates
      BY <2>1 DEF ReaderStates
    <3>2. \A res \in {"empty", "text"} : [reader[r] EXCEPT !.pc = "store", !.result = res] \in ReaderStates
      BY <2>1 DEF ReaderStates, Results
    <3>3. reader' \in [Readers -> ReaderStates]
      BY <2>2, <2>5, <3>1, <3>2, AnswersTo DEF Resolve, Query
    <3> QED
      BY <2>5, <3>3 DEF Resolve, Query, TypeOK, Stores
  <2>6. CASE StoreResult(r)
    <3>1. [reader[r] EXCEPT !.pc = "done"] \in ReaderStates /\ reader[r].result \in Results
      BY <2>1 DEF ReaderStates
    <3>2. reader' \in [Readers -> ReaderStates] /\ cache' \in [BOOLEAN -> Results]
      BY <2>6, <3>1, AnswersTo DEF StoreResult, TypeOK
    <3> QED
      BY <2>6, <3>2 DEF StoreResult, TypeOK
  <2>7. CASE Ask(r)
    <3>1. Asking \in ReaderStates
      BY DEF Asking, ReaderStates, Results
    <3>2. reader' \in [Readers -> ReaderStates]
      BY <2>7, <3>1, AnswersTo DEF Ask
    <3> QED
      BY <2>7, <3>2 DEF Ask, TypeOK, Stores
  <2> QED
    BY <1>1, <2>3, <2>4, <2>5, <2>6, <2>7 DEF ReaderStep, SearchStep
<1>2. CASE Age
  BY <1>2 DEF Age, TypeOK, Stores, Docs
<1>3. CASE Expire
  BY <1>3 DEF Expire, TypeOK, Results
<1>4. CASE UNCHANGED vars
  BY <1>4 DEF vars, TypeOK
<1> QED
  BY <1>1, <1>2, <1>3, <1>4

\* Whatever a goroutine does after the upload, it does to a record that is or
\* was there.
LEMMA RecordStays ==
  ASSUME TypeOK, doc # NoDoc
  PROVE  /\ \A s \in Statuses : WithStatus(s) # NoDoc
         /\ TouchDocument # NoDoc /\ HardDeleteDocument # NoDoc
<1>1. \A s \in Statuses : WithStatus(s) # NoDoc
  BY StatusSet DEF NoDoc
<1>2. TouchDocument # NoDoc
  BY <1>1 DEF TouchDocument, TypeOK, Docs
<1>3. HardDeleteDocument # NoDoc
  BY DEF HardDeleteDocument, NoDoc, TypeOK, Docs
<1> QED
  BY <1>1, <1>2, <1>3

LEMMA NewGoroutine ==
  ASSUME DocInv, NEW j \in Jobs, GoroutineStep(j)
  PROVE  NewInv'
<1> USE DEF DocInv
<1>1. ASSUME doc # NoDoc, doc' # NoDoc, job'[j].pc # "insert", \A k \in Jobs \ {j} : job'[k] = job[k]
      PROVE  NewInv'
  BY <1>1 DEF NewInv, At
<1>2. job[j].pc \notin {"idle", "insert"} \/ doc.there => doc # NoDoc
  BY DEF NewInv, NoDoc
<1>3. CASE Claim(j)
  BY <1>1, <1>2, <1>3, GoesTo, IdleFacts, RecordStays DEF Claim, Statuses, At
<1>4. CASE ReadFile(j) \/ UpsertBatch(j)
  BY <1>1, <1>2, <1>4, MovesTo DEF ReadFile, UpsertBatch, At
<1>5. CASE InsertChunks(j)
  <2> DEFINE n == job[j].next
             more == [job[j] EXCEPT !.pc = "upsert", !.next = n + 1]
             last == [job[j] EXCEPT !.pc = "index"]
  <2>1. more.pc = "upsert" /\ last.pc = "index"
    BY DEF TypeOK, JobStates
  <2> HIDE DEF more, last
  <2>2. CASE doc' = TouchDocument /\ Goes(j, IF MoreBatches(n) THEN more ELSE last)
    BY <1>1, <1>2, <1>5, <2>1, <2>2, GoesTo, RecordStays DEF InsertChunks, At
  <2>3. CASE UNCHANGED doc /\ Moves(j, "fail")
    BY <1>1, <1>2, <1>5, <2>3, MovesTo DEF InsertChunks, At
  <2> QED
    BY <1>5, <2>2, <2>3 DEF InsertChunks, more, last
<1>6. CASE Finish(j) \/ GiveUp(j)
  BY <1>1, <1>2, <1>6, MovesTo, GoesTo, IdleFacts, RecordStays
     DEF Finish, GiveUp, MarkDocumentIndexed, MarkDocumentFailed, Statuses, At
<1>7. CASE InvalidateSearchCache(j)
  BY <1>1, <1>2, <1>7, MovesTo DEF InvalidateSearchCache
<1>8. CASE ListVectors(j)
  <2> DEFINE listed == [job[j] EXCEPT !.pc = "vectors", !.ids = ListDocumentChunkPineconeIDs]
  <2>1. listed.pc = "vectors"
    BY DEF TypeOK, JobStates
  <2>2. Goes(j, listed) \/ Goes(j, Idle)
    BY <1>8 DEF ListVectors
  <2> HIDE DEF listed
  <2> QED
    BY <1>1, <1>2, <1>8, <2>1, <2>2, GoesTo, IdleFacts DEF ListVectors, At
<1>9. CASE DeleteVectors(j) \/ DeleteFile(j) \/ DeleteRows(j)
  BY <1>1, <1>2, <1>9, MovesTo, GoesTo, IdleFacts, RecordStays DEF DeleteVectors, DeleteFile, DeleteRows, At
<1>10. CASE Reset(j)
  <2> DEFINE st == [job[j] EXCEPT !.pc = "clear", !.ids = ListDocumentChunkPineconeIDs]
  <2>1. st.pc = "clear"
    BY DEF TypeOK, JobStates
  <2>2. Goes(j, st) \/ Goes(j, Idle)
    BY <1>10 DEF Reset
  <2> HIDE DEF st
  <2> QED
    BY <1>1, <1>2, <1>10, <2>1, <2>2, GoesTo, IdleFacts, RecordStays
       DEF Reset, At, UpdateDocumentProcessing, Statuses
<1>11. CASE ClearVectors(j)
  BY <1>1, <1>2, <1>11, GoesTo, IdleFacts DEF ClearVectors, At
<1>12. CASE Delete(j) \/ ReindexRequest(j) \/ Recover(j)
  BY <1>1, <1>2, <1>12, MovesTo, RecordStays
     DEF Delete, ReindexRequest, Recover, SoftDeleteDocument, Statuses, ListStuckDocuments
<1>13. CASE Upload(j)
  BY <1>13, MovesTo DEF Upload, NewInv, At
<1>14. CASE SaveRecord(j)
  <2>1. doc = NoDoc /\ \A k \in Jobs : At(k, "insert") => k = j
    BY <1>14 DEF SaveRecord, NewInv
  <2>2. \A v \in Visibilities : InsertDocument(v) # NoDoc
    BY DEF InsertDocument, NoDoc
  <2>3. CASE \E v \in Visibilities : doc' = InsertDocument(v) /\ Moves(j, "claim")
    BY <1>14, <2>1, <2>2, <2>3, MovesTo DEF SaveRecord, NewInv, At
  <2>4. CASE Fails /\ Goes(j, Idle) /\ UNCHANGED doc
    BY <1>14, <2>4, GoesTo, IdleFacts, FailsType DEF SaveRecord, NewInv, At
  <2> QED
    BY <1>14, <2>3, <2>4 DEF SaveRecord
<1>15. CASE Die(j)
  <2>1. used'.reindexes = used.reindexes
    BY <1>15 DEF Die, TypeOK, Bounds
  <2> QED
    BY <1>15, <2>1, GoesTo, IdleFacts DEF Die, NewInv, At, Stores
<1> QED
  BY <1>3, <1>4, <1>5, <1>6, <1>7, <1>8, <1>9, <1>10, <1>11, <1>12, <1>13, <1>14, <1>15
     DEF GoroutineStep, JobStep, ProcessStep, PurgeStep, ReindexStep

\* A reader that is not admin, or before there is a record, never gets as far
\* as the query; its key is not an admin's.
LEMMA ReaderKeeps ==
  ASSUME DocInv, NEW r \in Readers, ReaderStep(r)
  PROVE  NewInv' /\ HiddenInv'
<1> USE DEF DocInv
<1>1. UNCHANGED <<doc, chunks, file, vectors, job, loose, used>> /\ reader[r] \in ReaderStates
  BY DEF ReaderStep, SearchStep, Look, LookUp, Resolve, Query, StoreResult, Ask, Stores, TypeOK
<1> DEFINE Blind(admin) == doc = NoDoc \/ (doc.visibility = "owner_only" /\ ~admin)
           Clear(st) == st.result # "text" /\ st.pc \notin {"query", "store"}
<1>2. \A a \in BOOLEAN : Blind(a) => cache[a] # "text"
  BY DEF NewInv, HiddenInv
<1>3. Blind(reader[r].admin) => Clear(reader[r])
  BY DEF NewInv, HiddenInv
<1>4. \A a \in BOOLEAN : Blind(a) =>
        ~ListDocuments(a) /\ ~GetDocumentForUser(a) /\ ~ListSearchableDocumentIDs(a)
  BY DEF ListDocuments, GetDocumentForUser, ListSearchableDocumentIDs, VisibleTo, NoDoc
<1>5. ASSUME NEW st, Answers(r, st), Blind(st.admin) => Clear(st),
             \A a \in BOOLEAN : Blind(a) => cache'[a] # "text"
      PROVE  NewInv' /\ HiddenInv'
  <2>1. reader'[r] = st /\ \A x \in Readers \ {r} : reader'[x] = reader[x]
    BY <1>5, AnswersTo
  <2>2. NewInv'
    BY <1>1, <1>5, <2>1 DEF NewInv, At
  <2>3. HiddenInv'
    BY <1>1, <1>5, <2>1 DEF HiddenInv
  <2> QED
    BY <2>2, <2>3
<1>6. \A seen \in BOOLEAN, admin \in BOOLEAN :
        /\ Shown(r, seen).admin = reader[r].admin /\ Shown(r, seen).pc = "done"
        /\ Shown(r, seen).result = IF seen THEN "text" ELSE "empty"
        /\ [Shown(r, seen) EXCEPT !.admin = admin].admin = admin
        /\ [Shown(r, seen) EXCEPT !.admin = admin].pc = "done"
        /\ [Shown(r, seen) EXCEPT !.admin = admin].result = IF seen THEN "text" ELSE "empty"
  BY <1>1 DEF Shown, ReaderStates
<1>7. CASE Look(r)
  <2>1. PICK admin \in BOOLEAN : \E seen \in {ListDocuments(admin), GetDocumentForUser(admin)} :
          Answers(r, [Shown(r, seen) EXCEPT !.admin = admin])
    BY <1>7 DEF Look
  <2>2. PICK seen \in {ListDocuments(admin), GetDocumentForUser(admin)} :
          Answers(r, [Shown(r, seen) EXCEPT !.admin = admin])
    BY <2>1
  <2>3. seen \in BOOLEAN /\ (Blind(admin) => ~seen)
    BY <1>4 DEF ListDocuments, GetDocumentForUser, TypeOK, Docs, VisibleTo
  <2> QED
    BY <1>2, <1>5, <1>6, <1>7, <2>2, <2>3, ZenonT(60) DEF Look, Stores
<1>8. CASE LookUp(r)
  <2>1. PICK admin \in BOOLEAN :
          LET hit == cache[SearchCacheKey(admin)] IN
          Answers(r, IF hit # "none" THEN [pc |-> "done", admin |-> admin, result |-> hit]
                                     ELSE [Asking EXCEPT !.pc = "resolve", !.admin = admin])
    BY <1>8 DEF LookUp
  <2> DEFINE hit == cache[SearchCacheKey(admin)]
             known == [pc |-> "done", admin |-> admin, result |-> hit]
             asks == [Asking EXCEPT !.pc = "resolve", !.admin = admin]
  <2>2. /\ known.admin = admin /\ known.pc = "done" /\ known.result = cache[admin]
        /\ asks.admin = admin /\ asks.pc = "resolve" /\ asks.result = "none"
    BY DEF SearchCacheKey, Asking
  <2>3. Answers(r, known) \/ Answers(r, asks)
    BY <2>1
  <2>4. UNCHANGED cache
    BY <1>8 DEF LookUp, Stores
  <2> HIDE DEF known, asks
  <2> QED
    BY <1>2, <1>5, <2>2, <2>3, <2>4
<1>9. CASE Resolve(r)
  <2> DEFINE asks == [reader[r] EXCEPT !.pc = "query"]
  <2>1. asks.admin = reader[r].admin /\ asks.result = reader[r].result /\ reader[r].admin \in BOOLEAN
    BY <1>1 DEF ReaderStates
  <2>2. \/ ListSearchableDocumentIDs(reader[r].admin) /\ Answers(r, asks)
        \/ Answers(r, Shown(r, FALSE))
    BY <1>9 DEF Resolve
  <2>3. UNCHANGED cache
    BY <1>9 DEF Resolve, Stores
  <2> HIDE DEF asks
  <2> QED
    BY <1>2, <1>4, <1>5, <1>6, <2>1, <2>2, <2>3
<1>10. CASE Query(r)
  <2>1. ~Blind(reader[r].admin) /\ reader[r].admin \in BOOLEAN
    BY <1>1, <1>3, <1>10 DEF Query, ReaderStates
  <2> DEFINE found == [reader[r] EXCEPT !.pc = "store", !.result = IF vectors = {} THEN "empty" ELSE "text"]
  <2>2. found.admin = reader[r].admin
    BY <1>1 DEF ReaderStates
  <2>3. (Answers(r, found) \/ Answers(r, Shown(r, FALSE))) /\ UNCHANGED cache
    BY <1>10 DEF Query, Stores
  <2> HIDE DEF found
  <2> QED
    BY <1>2, <1>5, <1>6, <2>1, <2>2, <2>3
<1>11. CASE StoreResult(r)
  <2>1. ~Blind(reader[r].admin) /\ reader[r].admin \in BOOLEAN
    BY <1>1, <1>3, <1>11 DEF StoreResult, ReaderStates
  <2> DEFINE done == [reader[r] EXCEPT !.pc = "done"]
  <2>2. done.admin = reader[r].admin /\ Answers(r, done)
    BY <1>1, <1>11 DEF ReaderStates, StoreResult
  <2>3. \A a \in BOOLEAN : Blind(a) => cache'[a] = cache[a]
    BY <1>11, <2>1 DEF StoreResult, SearchCacheKey, TypeOK
  <2> HIDE DEF done
  <2> QED
    BY <1>2, <1>5, <2>1, <2>2, <2>3
<1>12. CASE Ask(r)
  <2>1. Asking.result = "none" /\ Asking.pc = "idle"
    BY DEF Asking
  <2> QED
    BY <1>2, <1>5, <1>12, <2>1 DEF Ask, Stores
<1> QED
  BY <1>7, <1>8, <1>9, <1>10, <1>11, <1>12 DEF ReaderStep, SearchStep

\* A document is what it was saved as, or gone.
LEMMA VisibilityStays ==
  ASSUME TypeOK
  PROVE  /\ \A s \in Statuses : WithStatus(s).visibility = doc.visibility
         /\ TouchDocument.visibility = doc.visibility /\ HardDeleteDocument.visibility = doc.visibility
BY StatusSet DEF TouchDocument, HardDeleteDocument, TypeOK, Docs

LEMMA HiddenGoroutine ==
  ASSUME DocInv, NEW j \in Jobs, GoroutineStep(j)
  PROVE  HiddenInv'
<1> USE DEF DocInv
<1>1. UNCHANGED reader /\ (UNCHANGED cache \/ cache' = [admin \in BOOLEAN |-> "none"])
  BY DEF GoroutineStep, JobStep, ProcessStep, PurgeStep, ReindexStep, SaveRecord, Claim, ReadFile, UpsertBatch,
     InsertChunks, Finish, GiveUp, InvalidateSearchCache, ListVectors, DeleteVectors, DeleteFile, DeleteRows,
     Reset, ClearVectors, Upload, Delete, ReindexRequest, Recover, Die, Stores
<1>2. CASE doc'.visibility = doc.visibility
  BY <1>1, <1>2 DEF HiddenInv
<1>3. CASE SaveRecord(j)
  <2>1. doc = NoDoc
    BY <1>3 DEF SaveRecord, NewInv
  <2> QED
    BY <1>1, <1>3, <2>1 DEF SaveRecord, NewInv, HiddenInv
<1>4. ~SaveRecord(j) => doc'.visibility = doc.visibility
  <2>1. CASE JobStep(j) /\ ~SaveRecord(j)
    BY <2>1, VisibilityStays DEF JobStep, ProcessStep, PurgeStep, ReindexStep, Claim, ReadFile, UpsertBatch,
       InsertChunks, Finish, GiveUp, InvalidateSearchCache, ListVectors, DeleteVectors, DeleteFile, DeleteRows,
       Reset, ClearVectors, MarkDocumentIndexed, MarkDocumentFailed, UpdateDocumentProcessing, Statuses
  <2>2. CASE Upload(j) \/ Delete(j) \/ ReindexRequest(j) \/ Recover(j) \/ Die(j)
    BY <2>2, VisibilityStays DEF Upload, Delete, ReindexRequest, Recover, Die, SoftDeleteDocument, Statuses
  <2> QED
    BY <2>1, <2>2 DEF GoroutineStep
<1> QED
  BY <1>2, <1>3, <1>4

\* The vectors: what no row names any more is loose, or on a purge's list.
LEMMA PurgeGoroutine ==
  ASSUME DocInv, NEW j \in Jobs, GoroutineStep(j)
  PROVE  PurgeInv'
<1> USE DEF DocInv
<1> DEFINE Others == \A k \in Jobs \ {j} : job'[k] = job[k]
           Later == {"vectors", "file", "purge"}
\* Steps that disturb none of the stores, for better or worse.
<1>1. ASSUME Others, vectors' \ loose' \subseteq vectors \ loose, chunks \subseteq chunks', UNCHANGED file,
             job'[j].pc \notin Later,
             doc'.there = doc.there, doc = NoDoc => doc' = NoDoc
      PROVE  PurgeInv'
  BY <1>1 DEF PurgeInv, PurgeLeavesNothing, At
<1>2. \A s \in Statuses : WithStatus(s).there = doc.there /\ (doc = NoDoc => WithStatus(s) = NoDoc)
  BY StatusSet DEF NoDoc
<1>3. TouchDocument.there = doc.there /\ (doc = NoDoc => TouchDocument = NoDoc)
  BY <1>2 DEF TouchDocument, TypeOK, Docs
<1>4. CASE SaveRecord(j)
  <2>1. doc = NoDoc /\ \A k \in Jobs : job[k].pc \in {"idle", "insert"}
    BY <1>4 DEF SaveRecord, NewInv
  <2>2. CASE \E v \in Visibilities : doc' = InsertDocument(v) /\ Moves(j, "claim")
    <3>1. doc'.there
      BY <2>2 DEF InsertDocument
    <3>2. UNCHANGED <<chunks, vectors, loose>> /\ \A k \in Jobs : job'[k].pc \notin Later
      BY <1>4, <2>1, <2>2, MovesTo DEF SaveRecord
    <3> QED
      BY <3>1, <3>2 DEF PurgeInv, PurgeLeavesNothing, At
  <2>3. CASE Fails /\ Goes(j, Idle) /\ UNCHANGED doc
    BY <1>1, <1>4, <2>3, GoesTo, IdleFacts DEF SaveRecord
  <2> QED
    BY <1>4, <2>2, <2>3 DEF SaveRecord
<1>5. CASE Claim(j)
  BY <1>1, <1>2, <1>5, GoesTo, IdleFacts DEF Claim, Stores, Statuses
<1>6. CASE ReadFile(j)
  BY <1>1, <1>6, MovesTo DEF ReadFile, Stores
<1>7. CASE UpsertBatch(j)
  <2>1. vectors' \ loose' \subseteq vectors \ loose
    BY <1>7 DEF UpsertBatch
  <2> QED
    BY <1>1, <1>7, <2>1, MovesTo DEF UpsertBatch
<1>8. CASE InsertChunks(j)
  <2> DEFINE n == job[j].next
             more == [job[j] EXCEPT !.pc = "upsert", !.next = n + 1]
             last == [job[j] EXCEPT !.pc = "index"]
  <2>1. more.pc = "upsert" /\ last.pc = "index"
    BY DEF TypeOK, JobStates
  <2> HIDE DEF more, last
  <2>2. CASE UNCHANGED <<doc, chunks, loose>> /\ Moves(j, "fail")
    BY <1>1, <1>8, <2>2, MovesTo DEF InsertChunks
  <2>3. CASE /\ doc.there
             /\ chunks' = InsertDocumentChunk(n)
             /\ loose' = IF Purging THEN loose ELSE loose \ {n}
             /\ doc' = TouchDocument
             /\ Goes(j, IF MoreBatches(n) THEN more ELSE last)
    <3>1. job'[j].pc \in {"upsert", "index"} /\ Others
      BY <2>1, <2>3, GoesTo
    <3>2. UNCHANGED <<vectors, file>>
      BY <1>8 DEF InsertChunks
    <3>3. CASE Purging
      BY <1>1, <1>3, <2>3, <3>1, <3>2, <3>3 DEF InsertDocumentChunk
    <3>4. CASE ~Purging
      <4>1. \A k \in Jobs : job'[k].pc \notin Later
        BY <3>1, <3>4 DEF Purging
      <4>2. vectors' \ loose' \subseteq chunks'
        BY <2>3, <3>2, <3>4 DEF PurgeInv, InsertDocumentChunk
      <4>3. doc'.there
        BY <1>3, <2>3
      <4> QED
        BY <4>1, <4>2, <4>3 DEF PurgeInv, PurgeLeavesNothing, At
    <3> QED
      BY <3>3, <3>4
  <2> QED
    BY <1>8, <2>2, <2>3 DEF InsertChunks, more, last
<1>9. CASE Finish(j) \/ GiveUp(j)
  BY <1>1, <1>2, <1>9, MovesTo, GoesTo, IdleFacts
     DEF Finish, GiveUp, Stores, MarkDocumentIndexed, MarkDocumentFailed, Statuses
<1>10. CASE InvalidateSearchCache(j)
  BY <1>1, <1>10, MovesTo DEF InvalidateSearchCache
<1>11. CASE ListVectors(j)
  <2> DEFINE listed == [job[j] EXCEPT !.pc = "vectors", !.ids = ListDocumentChunkPineconeIDs]
  <2>1. listed.pc = "vectors" /\ listed.ids = chunks
    BY DEF TypeOK, JobStates, ListDocumentChunkPineconeIDs
  <2>2. (Goes(j, listed) \/ Goes(j, Idle)) /\ UNCHANGED <<doc, chunks, file, vectors, loose>>
    BY <1>11 DEF ListVectors, Stores
  <2> HIDE DEF listed
  <2>3. CASE Goes(j, listed)
    BY <2>1, <2>2, <2>3, GoesTo DEF PurgeInv, PurgeLeavesNothing, At
  <2>4. CASE Goes(j, Idle)
    BY <1>1, <2>2, <2>4, GoesTo, IdleFacts
  <2> QED
    BY <2>2, <2>3, <2>4
\* The list is deleted, and what it did not name was loose.
<1>12. CASE DeleteVectors(j)
  <2>1. CASE vectors' = vectors \ job[j].ids /\ Moves(j, "file")
    <3>1. vectors' \subseteq loose
      BY <1>12, <2>1 DEF DeleteVectors, PurgeInv
    <3>2. UNCHANGED <<doc, chunks, file, loose>> /\ job'[j].pc = "file" /\ Others
      BY <1>12, <2>1, MovesTo DEF DeleteVectors
    <3> QED
      BY <2>1, <3>1, <3>2 DEF PurgeInv, PurgeLeavesNothing, At
  <2>2. CASE Goes(j, Idle) /\ UNCHANGED vectors
    BY <1>1, <1>12, <2>2, GoesTo, IdleFacts DEF DeleteVectors
  <2> QED
    BY <1>12, <2>1, <2>2 DEF DeleteVectors
<1>13. CASE DeleteFile(j)
  <2>1. CASE file' = "none" /\ Moves(j, "purge")
    <3>1. UNCHANGED <<doc, chunks, vectors, loose>> /\ job'[j].pc = "purge" /\ Others /\ At(j, "file")
      BY <1>13, <2>1, MovesTo DEF DeleteFile
    <3> QED
      BY <2>1, <3>1 DEF PurgeInv, PurgeLeavesNothing, At
  <2>2. CASE Goes(j, Idle) /\ UNCHANGED file
    BY <1>1, <1>13, <2>2, GoesTo, IdleFacts DEF DeleteFile
  <2> QED
    BY <1>13, <2>1, <2>2 DEF DeleteFile
<1>14. CASE DeleteRows(j)
  <2>1. UNCHANGED <<file, vectors, loose>> /\ job'[j].pc = "idle" /\ Others
    BY <1>14, GoesTo, IdleFacts DEF DeleteRows
  <2>2. vectors \subseteq loose /\ file = "none"
    BY <1>14 DEF DeleteRows, PurgeInv, At
  <2> QED
    BY <2>1, <2>2 DEF PurgeInv, PurgeLeavesNothing, At
<1>15. CASE Reset(j)
  <2> DEFINE st == [job[j] EXCEPT !.pc = "clear", !.ids = ListDocumentChunkPineconeIDs]
  <2>1. st.pc = "clear"
    BY DEF TypeOK, JobStates
  <2>2. CASE /\ chunks' = DeleteDocumentChunks /\ doc' = UpdateDocumentProcessing
             /\ loose' = loose \cup chunks /\ Goes(j, st)
    <3> HIDE DEF st
    <3>1. UNCHANGED <<file, vectors>> /\ job'[j].pc = "clear" /\ Others
      BY <1>15, <2>1, <2>2, GoesTo DEF Reset
    <3>2. vectors' \subseteq loose'
      BY <2>2, <3>1 DEF PurgeInv
    <3>3. doc'.there = doc.there /\ (doc = NoDoc => doc' = NoDoc)
      BY <1>2, <2>2 DEF UpdateDocumentProcessing, Statuses
    <3> QED
      BY <3>1, <3>2, <3>3 DEF PurgeInv, PurgeLeavesNothing, At
  <2>3. CASE Goes(j, Idle) /\ UNCHANGED <<doc, chunks, loose>>
    BY <1>1, <1>15, <2>3, GoesTo, IdleFacts DEF Reset
  <2> QED
    BY <1>15, <2>2, <2>3 DEF Reset
<1>16. CASE ClearVectors(j)
  BY <1>1, <1>16, GoesTo, IdleFacts DEF ClearVectors
<1>17. CASE Delete(j) \/ ReindexRequest(j) \/ Recover(j) \/ Die(j)
  BY <1>1, <1>2, <1>17, MovesTo, GoesTo, IdleFacts
     DEF Delete, ReindexRequest, Recover, Die, Stores, SoftDeleteDocument, Statuses
<1>18. CASE Upload(j)
  <2>1. doc = NoDoc /\ UNCHANGED <<doc, chunks, vectors, loose>> /\ job'[j].pc = "insert" /\ Others
    BY <1>18, MovesTo DEF Upload
  <2>2. \A k \in Jobs : job'[k].pc \notin Later
    BY <2>1 DEF NewInv
  <2> QED
    BY <2>1, <2>2 DEF PurgeInv, PurgeLeavesNothing, At
<1> QED
  BY <1>4, <1>5, <1>6, <1>7, <1>8, <1>9, <1>10, <1>11, <1>12, <1>13, <1>14, <1>15, <1>16, <1>17, <1>18
     DEF GoroutineStep, JobStep, ProcessStep, PurgeStep, ReindexStep

-----------------------------------------------------------------------------
(* Counting goroutines.                                                    *)

LEMMA HeldIsFinite == \A places : IsFiniteSet(Held(places)) /\ Cardinality(Held(places)) \in Nat
BY JobsAssumption, FS_Subset, FS_CardinalityType DEF Held

\* One goroutine moves: into the places, out of them, or neither.
LEMMA HeldStep ==
  ASSUME NEW j \in Jobs, NEW places, \A k \in Jobs \ {j} : job'[k] = job[k]
  PROVE  /\ Cardinality(Held(places)') \in Nat /\ Cardinality(Held(places)) \in Nat
         /\ job[j].pc \in places \/ job'[j].pc \notin places
              => Cardinality(Held(places)') <= Cardinality(Held(places))
         /\ job[j].pc \in places /\ job'[j].pc \notin places
              => Cardinality(Held(places)') = Cardinality(Held(places)) - 1
         /\ Cardinality(Held(places)') <= Cardinality(Held(places)) + 1
<1> DEFINE H == Held(places)
           I == {k \in Jobs : job'[k].pc \in places}
<1>1. IsFiniteSet(H) /\ Cardinality(H) \in Nat /\ Held(places) = H
  BY HeldIsFinite
<1>2. Held(places)' = I
  BY DEF Held
<1>3. IsFiniteSet(I) /\ Cardinality(I) \in Nat
  BY JobsAssumption, FS_Subset, FS_CardinalityType
<1>4. CASE job[j].pc \in places /\ job'[j].pc \in places
  <2>1. I = H
    BY <1>4 DEF Held
  <2>2. Cardinality(I) = Cardinality(H)
    BY <2>1
  <2> HIDE DEF H, I
  <2> QED
    BY <1>1, <1>2, <1>4, <2>2
<1>5. CASE job[j].pc \in places /\ job'[j].pc \notin places
  <2>1. I = H \ {j} /\ j \in H
    BY <1>5 DEF Held
  <2>2. Cardinality(I) = Cardinality(H) - 1
    BY <1>1, <2>1, FS_RemoveElement
  <2> QED
    BY <1>1, <1>2, <1>3, <1>5, <2>2
<1>6. CASE job[j].pc \notin places /\ job'[j].pc \in places
  <2>1. I = H \cup {j} /\ j \notin H
    BY <1>6 DEF Held
  <2>2. Cardinality(I) = Cardinality(H) + 1
    BY <1>1, <2>1, FS_AddElement
  <2> QED
    BY <1>1, <1>2, <1>3, <1>6, <2>2
<1>7. CASE job[j].pc \notin places /\ job'[j].pc \notin places
  <2>1. I = H
    BY <1>7 DEF Held
  <2>2. Cardinality(I) = Cardinality(H)
    BY <2>1
  <2> HIDE DEF H, I
  <2> QED
    BY <1>1, <1>2, <1>7, <2>2
<1> QED
  BY <1>4, <1>5, <1>6, <1>7

LEMMA ClaimGoroutine ==
  ASSUME DocInv, NEW j \in Jobs, GoroutineStep(j)
  PROVE  ClaimInv'
<1> USE DEF DocInv
<1> DEFINE Others == \A k \in Jobs \ {j} : job'[k] = job[k]
           pc == job[j].pc
<1>1. used.reindexes \in Nat /\ Waiting \in {0, 1} /\ Waiting' \in {0, 1} /\ job[j].pc \in PCs
  BY MaximaAreNats DEF TypeOK, Bounds, Waiting, JobStates
\* Steps that neither begin work nor ask for it.
<1>2. ASSUME Others, job'[j].pc \in Working => pc \in Working, job'[j].pc \in Resetting => pc \in Resetting,
             Waiting' <= Waiting, doc'.stale => doc.stale, doc # NoDoc => doc' # NoDoc,
             used'.reindexes = used.reindexes
      PROVE  ClaimInv'
  <2>1. pc \in Resetting \/ job'[j].pc \notin Resetting
    BY <1>2
  <2>2. pc \in Busy \/ job'[j].pc \notin Busy
    BY <1>2 DEF Busy
  <2>3. /\ Cardinality(Held(Resetting)') <= Cardinality(Held(Resetting))
        /\ Cardinality(Held(Resetting)') \in Nat /\ Cardinality(Held(Resetting)) \in Nat
    BY <1>2, <2>1, HeldStep
  <2>4. /\ Cardinality(Held(Busy)') <= Cardinality(Held(Busy))
        /\ Cardinality(Held(Busy)') \in Nat /\ Cardinality(Held(Busy)) \in Nat
    BY <1>2, <2>2, HeldStep
  <2>5. doc'.stale => doc' # NoDoc /\ Held(Working)' = {}
    BY <1>2 DEF ClaimInv, Held
  <2> QED
    BY <1>1, <1>2, <2>3, <2>4, <2>5 DEF ClaimInv
<1>3. \A s \in Statuses \ {"pending"} : doc' = WithStatus(s) =>
        Waiting' <= Waiting /\ (doc'.stale => doc.stale) /\ (doc # NoDoc => doc' # NoDoc)
  BY <1>1, StatusSet, RecordStays DEF Waiting
<1>4. doc' = doc => Waiting' <= Waiting /\ (doc'.stale => doc.stale) /\ (doc # NoDoc => doc' # NoDoc)
  BY <1>1 DEF Waiting
<1>5. doc' = TouchDocument => Waiting' <= Waiting /\ (doc'.stale => doc.stale) /\ (doc # NoDoc => doc' # NoDoc)
  <2>1. /\ TouchDocument.there = doc.there /\ (TouchDocument.stale => doc.stale)
        /\ doc.there => TouchDocument.status = doc.status
    BY StatusSet DEF TouchDocument, TypeOK, Docs
  <2> QED
    BY <1>1, <2>1, RecordStays DEF Waiting
<1>6. doc' = HardDeleteDocument => Waiting' <= Waiting /\ (doc'.stale => doc.stale) /\ (doc # NoDoc => doc' # NoDoc)
  <2>1. HardDeleteDocument.there = FALSE /\ HardDeleteDocument.stale = doc.stale
    BY DEF HardDeleteDocument, TypeOK, Docs
  <2> QED
    BY <1>1, <2>1, RecordStays DEF Waiting
<1>7. {"read", "upsert", "rows", "index", "fail"} = Working /\ Resetting = {"invalidateFirst", "reset"}
      /\ \A x \in Resetting : x \notin Working
  BY PCsAre DEF Resetting
<1>8. UNCHANGED used \/ Fails => used'.reindexes = used.reindexes
  BY FailsType
<1>9. CASE SaveRecord(j)
  <2>1. doc = NoDoc /\ \A k \in Jobs : job[k].pc \in {"idle", "insert"}
    BY <1>9 DEF SaveRecord, NewInv
  <2>2. CASE \E v \in Visibilities : doc' = InsertDocument(v) /\ Moves(j, "claim")
    <3>1. \A k \in Jobs : job'[k].pc \in {"idle", "insert", "claim"}
      BY <2>1, <2>2, MovesTo
    <3>2. Held(Resetting)' = {} /\ Held(Busy)' = {} /\ Held(Working)' = {}
      BY <1>7, <3>1 DEF Held, Busy
    <3>3. Cardinality(Held(Resetting)') = 0 /\ Cardinality(Held(Busy)') = 0
      BY <3>2, FS_EmptySet
    <3>4. used'.reindexes = used.reindexes
      BY <1>8, <1>9 DEF SaveRecord
    <3>5. doc'.stale = FALSE
      BY <2>2 DEF InsertDocument
    <3> QED
      BY <1>1, <3>2, <3>3, <3>4, <3>5 DEF ClaimInv
  <2>3. CASE Fails /\ Goes(j, Idle) /\ UNCHANGED doc
    BY <1>2, <1>4, <1>7, <1>8, <2>3, GoesTo, IdleFacts
  <2> QED
    BY <1>9, <2>2, <2>3 DEF SaveRecord
\* A worker begins where the document waited, or where a stale one has none.
<1>10. CASE Claim(j)
  <2>1. CASE ClaimDocumentForProcessing /\ doc' = WithStatus("processing") /\ Goes(j, [Idle EXCEPT !.pc = "read"])
    <3>1. job'[j].pc = "read" /\ Others /\ pc = "claim"
      BY <1>10, <2>1, GoesTo, IdleFacts DEF Claim, At
    <3>2. ~doc'.stale /\ Waiting' = 0
      BY <2>1, StatusSet DEF ClaimDocumentForProcessing, Statuses, Waiting
    <3>3. /\ Cardinality(Held(Resetting)') <= Cardinality(Held(Resetting))
          /\ Cardinality(Held(Resetting)') \in Nat /\ Cardinality(Held(Resetting)) \in Nat
          /\ Cardinality(Held(Busy)') <= Cardinality(Held(Busy)) + 1
          /\ Cardinality(Held(Busy)') \in Nat /\ Cardinality(Held(Busy)) \in Nat
      BY <1>7, <3>1, HeldStep
    <3>4. used'.reindexes = used.reindexes
      BY <1>8, <1>10 DEF Claim
    <3>5. CASE doc.status = "pending"
      <4>1. Waiting = 1
        BY <2>1, <3>5 DEF ClaimDocumentForProcessing, Waiting
      <4> QED
        BY <1>1, <3>2, <3>3, <3>4, <4>1 DEF ClaimInv
    <3>6. CASE doc.stale
      <4>1. Held(Busy) = Held(Resetting)
        BY <3>6 DEF ClaimInv, Held, Busy
      <4> QED
        BY <1>1, <3>2, <3>3, <3>4, <4>1 DEF ClaimInv
    <3> QED
      BY <2>1, <3>5, <3>6 DEF ClaimDocumentForProcessing
  <2>2. CASE Goes(j, Idle) /\ UNCHANGED doc
    BY <1>2, <1>4, <1>7, <1>8, <1>10, <2>2, GoesTo, IdleFacts DEF Claim
  <2> QED
    BY <1>10, <2>1, <2>2 DEF Claim
<1>11. CASE ReadFile(j) \/ UpsertBatch(j)
  BY <1>2, <1>4, <1>7, <1>8, <1>11, MovesTo DEF ReadFile, UpsertBatch, At
<1>12. CASE InsertChunks(j)
  <2> DEFINE n == job[j].next
             more == [job[j] EXCEPT !.pc = "upsert", !.next = n + 1]
             last == [job[j] EXCEPT !.pc = "index"]
  <2>1. more.pc = "upsert" /\ last.pc = "index" /\ pc = "rows"
    BY <1>12 DEF TypeOK, JobStates, InsertChunks, At
  <2>2. UNCHANGED used \/ Fails
    BY <1>12 DEF InsertChunks
  <2> HIDE DEF more, last
  <2>3. CASE doc' = TouchDocument /\ Goes(j, IF MoreBatches(n) THEN more ELSE last)
    BY <1>2, <1>5, <1>7, <1>8, <2>1, <2>2, <2>3, GoesTo
  <2>4. CASE UNCHANGED doc /\ Moves(j, "fail")
    BY <1>2, <1>4, <1>7, <1>8, <2>1, <2>2, <2>4, MovesTo
  <2> QED
    BY <1>12, <2>3, <2>4 DEF InsertChunks, more, last
<1>13. CASE Finish(j) \/ GiveUp(j)
  <2>1. doc' = doc \/ \E s \in Statuses \ {"pending"} : doc' = WithStatus(s)
    BY <1>13 DEF Finish, GiveUp, MarkDocumentIndexed, MarkDocumentFailed, Statuses
  <2>2. Waiting' <= Waiting /\ (doc'.stale => doc.stale) /\ (doc # NoDoc => doc' # NoDoc)
    BY <1>3, <1>4, <2>1
  <2> QED
    BY <1>2, <1>7, <1>8, <1>13, <2>2, MovesTo, GoesTo, IdleFacts DEF Finish, GiveUp, At
<1>14. CASE InvalidateSearchCache(j)
  <2>1. /\ UNCHANGED <<doc, used>> /\ Others
        /\ \/ pc = "invalidate" /\ job'[j].pc = "list"
           \/ pc = "invalidateFirst" /\ job'[j].pc = "reset"
    BY <1>14, MovesTo DEF InvalidateSearchCache, At
  <2> QED
    BY <1>2, <1>4, <1>7, <1>8, <2>1
<1>15. CASE ListVectors(j)
  <2> DEFINE listed == [job[j] EXCEPT !.pc = "vectors", !.ids = ListDocumentChunkPineconeIDs]
  <2>1. listed.pc = "vectors"
    BY DEF TypeOK, JobStates
  <2>2. (Goes(j, listed) \/ Goes(j, Idle)) /\ UNCHANGED doc /\ (UNCHANGED used \/ Fails)
    BY <1>15 DEF ListVectors
  <2> HIDE DEF listed
  <2> QED
    BY <1>2, <1>4, <1>7, <1>8, <2>1, <2>2, GoesTo, IdleFacts
<1>16. CASE DeleteVectors(j) \/ DeleteFile(j) \/ ClearVectors(j)
  <2>1. Others /\ job'[j].pc \in {"file", "purge", "claim", "idle"}
    BY <1>16, MovesTo, GoesTo, IdleFacts DEF DeleteVectors, DeleteFile, ClearVectors
  <2>2. UNCHANGED doc /\ (UNCHANGED used \/ Fails)
    BY <1>16 DEF DeleteVectors, DeleteFile, ClearVectors
  <2> QED
    BY <1>2, <1>4, <1>7, <1>8, <2>1, <2>2
<1>17. CASE DeleteRows(j)
  BY <1>2, <1>4, <1>6, <1>7, <1>8, <1>17, GoesTo, IdleFacts DEF DeleteRows
\* The reindex has its place for one worker.
<1>18. CASE Reset(j)
  <2> DEFINE st == [job[j] EXCEPT !.pc = "clear", !.ids = ListDocumentChunkPineconeIDs]
  <2>1. st.pc = "clear" /\ pc = "reset"
    BY <1>18 DEF TypeOK, JobStates, Reset, At
  <2>2. UNCHANGED used \/ Fails
    BY <1>18 DEF Reset
  <2>3. CASE doc' = UpdateDocumentProcessing /\ Goes(j, st)
    <3> HIDE DEF st
    <3>1. job'[j].pc = "clear" /\ Others
      BY <2>1, <2>3, GoesTo
    <3>2. /\ Cardinality(Held(Resetting)') <= Cardinality(Held(Resetting))
          /\ Cardinality(Held(Resetting)') \in Nat /\ Cardinality(Held(Resetting)) \in Nat
      BY <1>7, <2>1, <3>1, HeldStep
    <3>3. pc \in Busy /\ job'[j].pc \notin Busy
      BY <1>7, <2>1, <3>1 DEF Busy
    <3>4. /\ Cardinality(Held(Busy)') = Cardinality(Held(Busy)) - 1
          /\ Cardinality(Held(Busy)') \in Nat /\ Cardinality(Held(Busy)) \in Nat
      BY <3>1, <3>3, HeldStep
    <3>5. (doc'.stale => doc.stale) /\ (doc # NoDoc => doc' # NoDoc)
      BY <2>3, StatusSet, RecordStays DEF UpdateDocumentProcessing, Statuses
    <3>6. doc'.stale => doc' # NoDoc /\ Held(Working)' = {}
      BY <1>7, <3>1, <3>5 DEF ClaimInv, Held
    <3> QED
      BY <1>1, <1>8, <2>2, <3>2, <3>4, <3>6 DEF ClaimInv
  <2>4. CASE Goes(j, Idle) /\ UNCHANGED doc
    BY <1>2, <1>4, <1>7, <1>8, <2>2, <2>4, GoesTo, IdleFacts
  <2> QED
    BY <1>18, <2>3, <2>4 DEF Reset
<1>19. CASE Upload(j) \/ Recover(j)
  BY <1>2, <1>4, <1>7, <1>8, <1>19, MovesTo DEF Upload, Recover
<1>20. CASE Delete(j)
  <2>1. used'.reindexes = used.reindexes /\ doc' = WithStatus("deleting")
    BY <1>20 DEF Delete, TypeOK, Bounds, SoftDeleteDocument
  <2>2. "deleting" \in Statuses \ {"pending"}
    BY DEF Statuses
  <2> QED
    BY <1>2, <1>3, <1>7, <1>20, <2>1, <2>2, MovesTo DEF Delete
\* The request counts before its place opens.
<1>21. CASE ReindexRequest(j)
  <2>1. job'[j].pc = "invalidateFirst" /\ Others /\ pc = "idle" /\ UNCHANGED doc
    BY <1>21, MovesTo DEF ReindexRequest, At
  <2>2. used'.reindexes = used.reindexes + 1
    BY <1>21 DEF ReindexRequest, TypeOK, Bounds
  <2>3. /\ Cardinality(Held(Resetting)') <= Cardinality(Held(Resetting)) + 1
        /\ Cardinality(Held(Resetting)') \in Nat /\ Cardinality(Held(Resetting)) \in Nat
        /\ Cardinality(Held(Busy)') <= Cardinality(Held(Busy)) + 1
        /\ Cardinality(Held(Busy)') \in Nat /\ Cardinality(Held(Busy)) \in Nat
    BY <2>1, HeldStep
  <2>4. doc'.stale => doc' # NoDoc /\ Held(Working)' = {}
    BY <1>7, <2>1 DEF ClaimInv, Held
  <2>5. Waiting' = Waiting
    BY <2>1 DEF Waiting
  <2> QED
    BY <1>1, <2>2, <2>3, <2>4, <2>5 DEF ClaimInv
<1>22. CASE Die(j)
  <2>1. used'.reindexes = used.reindexes
    BY <1>22 DEF Die, TypeOK, Bounds
  <2> QED
    BY <1>2, <1>4, <1>7, <1>22, <2>1, GoesTo, IdleFacts DEF Die
<1> QED
  BY <1>9, <1>10, <1>11, <1>12, <1>13, <1>14, <1>15, <1>16, <1>17, <1>18, <1>19, <1>20, <1>21, <1>22
     DEF GoroutineStep, JobStep, ProcessStep, PurgeStep, ReindexStep

-----------------------------------------------------------------------------
(* All the steps, and the theorems.                                        *)

LEMMA StepsOfOthers ==
  ASSUME DocInv, (\E r \in Readers : ReaderStep(r)) \/ Age \/ Expire \/ UNCHANGED vars
  PROVE  NewInv' /\ HiddenInv' /\ PurgeInv' /\ ClaimInv'
<1> USE DEF DocInv
<1>1. ASSUME UNCHANGED <<doc, chunks, file, vectors, job, loose, used>> PROVE PurgeInv' /\ ClaimInv'
  BY <1>1 DEF PurgeInv, PurgeLeavesNothing, ClaimInv, At, Held, Waiting
<1>2. ASSUME NEW r \in Readers, ReaderStep(r) PROVE NewInv' /\ HiddenInv' /\ PurgeInv' /\ ClaimInv'
  <2>1. UNCHANGED <<doc, chunks, file, vectors, job, loose, used>>
    BY <1>2 DEF ReaderStep, SearchStep, Look, LookUp, Resolve, Query, StoreResult, Ask, Stores
  <2> QED
    BY <1>1, <1>2, <2>1, ReaderKeeps
<1>3. CASE Age
  <2>1. /\ UNCHANGED <<chunks, file, vectors, cache, job, reader, loose, used>> /\ doc.there
        /\ doc' = [doc EXCEPT !.stale = TRUE] /\ \A j \in Jobs : job[j].pc = "idle"
    BY <1>3 DEF Age, Stores, At
  <2>2. doc'.there = doc.there /\ doc'.status = doc.status /\ doc'.visibility = doc.visibility
    BY <2>1 DEF TypeOK, Docs
  <2>3. doc # NoDoc /\ doc' # NoDoc
    BY <2>1, <2>2 DEF NoDoc
  <2>4. NewInv' /\ HiddenInv' /\ PurgeInv'
    BY <2>1, <2>2, <2>3 DEF NewInv, HiddenInv, PurgeInv, PurgeLeavesNothing, At
  <2>5. Held(Working)' = {}
    BY <2>1, PCsAre DEF Held
  <2>6. Held(Resetting)' = Held(Resetting) /\ Held(Busy)' = Held(Busy) /\ Waiting' = Waiting
    BY <2>1, <2>2 DEF Held, Waiting
  <2>7. ClaimInv'
    BY <2>1, <2>3, <2>5, <2>6 DEF ClaimInv
  <2> QED
    BY <2>4, <2>7
<1>4. CASE Expire
  <2>1. UNCHANGED <<doc, chunks, file, vectors, job, reader, loose, used>>
    BY <1>4 DEF Expire
  <2>2. \A a \in BOOLEAN : cache'[a] \in {"none", cache[a]}
    BY <1>4 DEF Expire, TypeOK
  <2>3. NewInv' /\ HiddenInv'
    BY <2>1, <2>2 DEF NewInv, HiddenInv, At
  <2> QED
    BY <1>1, <2>1, <2>3
<1>5. CASE UNCHANGED vars
  BY <1>1, <1>5 DEF vars, NewInv, HiddenInv, At
<1> QED
  BY <1>2, <1>3, <1>4, <1>5

LEMMA InvStep == DocInv /\ [Next]_vars => DocInv'
<1> SUFFICES ASSUME DocInv, [Next]_vars PROVE DocInv'
  OBVIOUS
<1>1. TypeOK
  BY DEF DocInv
<1>2. ASSUME NEW j \in Jobs, GoroutineStep(j) PROVE DocInv'
  BY <1>1, <1>2, TypeGoroutine, NewGoroutine, HiddenGoroutine, PurgeGoroutine, ClaimGoroutine DEF DocInv
<1>3. CASE (\E r \in Readers : ReaderStep(r)) \/ Age \/ Expire \/ UNCHANGED vars
  BY <1>1, <1>3, TypeOthers, StepsOfOthers DEF DocInv
<1> QED
  BY <1>2, <1>3, NextIs

LEMMA AlwaysInv == Spec => []DocInv
BY InvInit, InvStep, PTL DEF Spec

\* The shape of the state, of every store and every goroutine.
THEOREM TypeCorrect == Spec => []TypeOK
<1>1. DocInv => TypeOK
  BY DEF DocInv
<1> QED
  BY <1>1, AlwaysInv, PTL

\* ClaimDocumentForProcessing lets one goroutine embed a document, whoever
\* sweeps, crashes or is asked meanwhile, except that each reindex may put one
\* more beside it.
THEOREM EmbeddedAtMostOnce == Spec => []EmbeddedOnce
<1>1. DocInv => EmbeddedOnce
  <2> SUFFICES ASSUME DocInv PROVE EmbeddedOnce
    OBVIOUS
  <2>1. Held(Working) \subseteq Held(Busy)
    BY DEF Held, Busy
  <2>2. Cardinality(Held(Working)) <= Cardinality(Held(Busy))
    BY <2>1, HeldIsFinite, FS_Subset
  <2>3. Cardinality(Held(Working)) \in Nat /\ Cardinality(Held(Busy)) \in Nat /\ used.reindexes \in Nat
    BY HeldIsFinite, MaximaAreNats DEF DocInv, TypeOK, Bounds
  <2>4. Waiting \in {0, 1} /\ Cardinality(Held(Busy)) + Waiting <= 1 + used.reindexes
    BY DEF DocInv, ClaimInv, Waiting
  <2>5. Cardinality(Held(Working)) <= 1 + used.reindexes
    BY <2>2, <2>3, <2>4
  <2> QED
    BY <2>5 DEF EmbeddedOnce, Held
<1> QED
  BY <1>1, AlwaysInv, PTL

\* Lists, lookups, searches and the search cache never show a member what is
\* for owners and admins only (searchCacheKey, canSeeOwnerOnly).
THEOREM OwnerOnlyAlwaysStaysHidden == Spec => []OwnerOnlyStaysHidden
<1>1. DocInv => OwnerOnlyStaysHidden
  BY DEF DocInv, HiddenInv, OwnerOnlyStaysHidden
<1> QED
  BY <1>1, AlwaysInv, PTL

\* A purge that gets as far as the rows has deleted the file, and every vector
\* that it could know of (Purge, Reindex and the processing loop).
THEOREM PurgeAlwaysLeavesNothing == Spec => []PurgeLeavesNothing
<1>1. DocInv => PurgeLeavesNothing
  BY DEF DocInv, PurgeInv
<1> QED
  BY <1>1, AlwaysInv, PTL
================================================================================
