---------------------------- MODULE RecordIndex ----------------------------
(***************************************************************************)
(* A club's records: the uploaded file, its row and the chunks it is       *)
(* searched by.  Computing the chunks takes model calls outside any        *)
(* transaction, so that a record can be deleted, or indexed by another     *)
(* request, meanwhile; a search reads the rows, then the chunks, then the  *)
(* rows again, each in its own transaction.                                *)
(*                                                                         *)
(*   record_service            upload_record, index_record, delete_record  *)
(*   record_discovery_service  search_records                              *)
(*   record_search_port        search_chunks                               *)
(*   record_parser             parse_record                                *)
(*   infra/storage             save_file, read_file, delete_file           *)
(***************************************************************************)
EXTENDS Naturals, FiniteSets

CONSTANTS Records,     \* records a club may have
          Keepers,     \* requests that upload, index or delete
          Searchers,   \* requests that search or download
          MaxIndexRuns \* bound on the indexing runs of all records

ASSUME RecordBounds == MaxIndexRuns \in Nat

VARIABLES record,  \* the Record rows
          indexed, \* per record, the indexing runs its RecordChunk rows are of
          file,    \* the records whose stored object exists
          keeper,  \* per keeping request, what it waits for
          searcher, \* per search, what it has read so far
          runs,    \* indexing runs begun
          unfiled  \* history: records whose upload failed after its commit

recordVars == <<record, indexed, file, keeper, searcher, runs, unfiled>>

----------------------------------------------------------------------------
(* Types *)

FileTypes == {"PDF", "CSV", "XLSX", "HWP", "IMAGE"}

\* Rows; ABSENT and DELETED stand for no row.  `blocks` says that
\* parse_result has at least one block.
Record == [status: {"ABSENT", "FAILED", "COMPLETED", "INDEXED", "DELETED"},
           type: FileTypes, blocks: BOOLEAN, index_error: BOOLEAN]

present(d) == record[d].status \notin {"ABSENT", "DELETED"}

Keeper == [at: {"IDLE", "STORED", "COMMITTED", "MODEL", "UNLINK"}, of: Records,
           run: 0 .. MaxIndexRuns]

Free(d) == [at |-> "IDLE", of |-> d, run |-> 0]

\* `lexical` maps a record to the status its row had when the keyword
\* query read it ("NONE": it did not match); `found` are the records whose
\* chunks the vector query returned; `gone` is history, the records deleted
\* before the search began; `shown` is the answer.
Search == [at: {"IDLE", "MODEL", "ROWS", "ANSWERED"},
           lexical: [Records -> {"NONE", "FAILED", "COMPLETED", "INDEXED"}],
           found: SUBSET Records, gone: SUBSET Records, shown: SUBSET Records]

RecordTypeOK ==
    /\ record \in [Records -> Record]
    /\ indexed \in [Records -> SUBSET (1 .. MaxIndexRuns)]
    /\ file \subseteq Records
    /\ keeper \in [Keepers -> Keeper]
    /\ searcher \in [Searchers -> Search]
    /\ runs \in 0 .. MaxIndexRuns
    /\ unfiled \subseteq Records

RecordInit ==
    /\ \E type \in [Records -> FileTypes] :
          record = [d \in Records |-> [status |-> "ABSENT", type |-> type[d],
                                       blocks |-> FALSE, index_error |-> FALSE]]
    /\ indexed = [d \in Records |-> {}]
    /\ file = {}
    /\ \E d \in Records : keeper = [k \in Keepers |-> Free(d)]
    /\ searcher = [s \in Searchers |->
                   [at |-> "IDLE", lexical |-> [d \in Records |-> "NONE"],
                    found |-> {}, gone |-> {}, shown |-> {}]]
    /\ runs = 0 /\ unfiled = {}

----------------------------------------------------------------------------
(* Uploading *)

\* save_file: the object is written before there is a row for it.
save_file(k, d) ==
    /\ keeper[k].at = "IDLE"
    /\ record[d].status = "ABSENT" /\ d \notin file
    /\ \A j \in Keepers : keeper[j].at = "STORED" => keeper[j].of # d
    /\ file' = file \cup {d}
    /\ keeper' = [keeper EXCEPT ![k] = [at |-> "STORED", of |-> d, run |-> 0]]
    /\ UNCHANGED <<record, indexed, searcher, runs, unfiled>>

\* A PDF has blocks or fails (locked, damaged, or a scan without text).
parse_pdf == {"BLOCKS", "UNSUPPORTED_FORMAT", "IMAGE_NOT_READABLE"}

\* A workbook or a CSV file may have no row below its header.
parse_xlsx == {"BLOCKS", "NO_BLOCKS", "UNSUPPORTED_FORMAT"}
parse_csv == {"BLOCKS", "NO_BLOCKS", "UNSUPPORTED_FORMAT"}

\* What parsing a file of type t may give: blocks, an expected failure, or
\* an error nobody wrapped.
parse_record(t) ==
    {"UNEXPECTED"} \cup
    CASE t = "PDF"  -> parse_pdf
      [] t = "XLSX" -> parse_xlsx
      [] t = "CSV"  -> parse_csv
      [] OTHER      -> {"UNSUPPORTED_FORMAT"}

\* A failed parse or a failed commit of the row takes the object with it.
upload_fails(k) ==
    LET d == keeper[k].of IN
    /\ keeper[k].at = "STORED"
    /\ file' = file \ {d}
    /\ keeper' = [keeper EXCEPT ![k] = Free(d)]
    /\ UNCHANGED <<record, indexed, searcher, runs, unfiled>>

\* The row is committed, parsed or with its parse_error; from here on everybody
\* sees it.
commit_upload(k) ==
    LET d == keeper[k].of IN
    /\ keeper[k].at = "STORED"
    /\ \E out \in parse_record(record[d].type) \ {"UNEXPECTED"} :
          record' = [record EXCEPT
                       ![d].status = IF out \in {"BLOCKS", "NO_BLOCKS"}
                                       THEN "COMPLETED" ELSE "FAILED",
                       ![d].blocks = out = "BLOCKS"]
    /\ keeper' = [keeper EXCEPT ![k].at = "COMMITTED"]
    /\ UNCHANGED <<indexed, file, searcher, runs, unfiled>>

\* The row is read back after the commit.  If that fails, or the row is gone,
\* the except clause takes the object of the row it no longer can take back.
refresh_fails(k) ==
    LET d == keeper[k].of IN
    /\ keeper[k].at = "COMMITTED"
    /\ file' = file \ {d}
    /\ unfiled' = unfiled \cup {d}
    /\ keeper' = [keeper EXCEPT ![k] = Free(d)]
    /\ UNCHANGED <<record, indexed, searcher, runs>>

\* A record that waits for its index goes on to be indexed by the same request.
upload_record(k) ==
    LET d == keeper[k].of
        unindexed == record[d].status = "COMPLETED"
    IN
    /\ keeper[k].at = "COMMITTED" /\ present(d)
    /\ unindexed => runs < MaxIndexRuns
    /\ runs' = IF unindexed THEN runs + 1 ELSE runs
    /\ keeper' = [keeper EXCEPT
                    ![k] = IF unindexed THEN [at |-> "MODEL", of |-> d, run |-> runs + 1]
                                        ELSE Free(d)]
    /\ UNCHANGED <<record, indexed, file, searcher, unfiled>>

----------------------------------------------------------------------------
(* Indexing *)

\* index_record up to its commit: an indexed record is returned as it is,
\* one that was not parsed is refused.
index_record(k, d) ==
    /\ keeper[k].at = "IDLE"
    /\ record[d].status = "COMPLETED"
    /\ runs < MaxIndexRuns
    /\ runs' = runs + 1
    /\ keeper' = [keeper EXCEPT ![k] = [at |-> "MODEL", of |-> d, run |-> runs + 1]]
    /\ UNCHANGED <<record, indexed, file, searcher, unfiled>>

\* Fault: the row is not read again after the model call.
AsBeforeTheCall(d) == TRUE

\* The row, locked and read again after the model call, still wants chunks.
wants_chunks(d) == record[d].status = "COMPLETED"

\* The model call failed (or the record has no block to index).
index_failed(k) ==
    LET d == keeper[k].of IN
    /\ keeper[k].at = "MODEL"
    /\ record' = IF wants_chunks(d)
                   THEN [record EXCEPT ![d].index_error = TRUE] ELSE record
    /\ keeper' = [keeper EXCEPT ![k] = Free(d)]
    /\ UNCHANGED <<indexed, file, searcher, runs, unfiled>>

\* The chunks of this run replace those there are.
index_done(k) ==
    LET d == keeper[k].of IN
    /\ keeper[k].at = "MODEL"
    /\ record[d].blocks
    /\ keeper' = [keeper EXCEPT ![k] = Free(d)]
    /\ IF wants_chunks(d)
         THEN /\ record' = [record EXCEPT ![d].status = "INDEXED",
                                          ![d].index_error = FALSE]
              /\ indexed' = [indexed EXCEPT ![d] = {keeper[k].run}]
         ELSE UNCHANGED <<record, indexed>>
    /\ UNCHANGED <<file, searcher, runs, unfiled>>

----------------------------------------------------------------------------
(* Deleting *)

\* delete_record: the row under its lock, the chunks with it (CASCADE); the
\* object only after the commit.
delete_record(k, d) ==
    /\ keeper[k].at = "IDLE" /\ present(d)
    /\ record' = [record EXCEPT ![d].status = "DELETED"]
    /\ indexed' = [indexed EXCEPT ![d] = {}]
    /\ keeper' = [keeper EXCEPT ![k] = [at |-> "UNLINK", of |-> d, run |-> 0]]
    /\ UNCHANGED <<file, searcher, runs, unfiled>>

\* delete_file; a failure is logged and the object stays behind.
delete_file(k) ==
    LET d == keeper[k].of IN
    /\ keeper[k].at = "UNLINK"
    /\ file' \in {file, file \ {d}}
    /\ keeper' = [keeper EXCEPT ![k] = Free(d)]
    /\ UNCHANGED <<record, indexed, searcher, runs, unfiled>>

\* The process dies while a request is under way.
keeper_lost(k) ==
    /\ keeper[k].at # "IDLE"
    /\ keeper' = [keeper EXCEPT ![k] = Free(keeper[k].of)]
    /\ UNCHANGED <<record, indexed, file, searcher, runs, unfiled>>

----------------------------------------------------------------------------
(* Searching *)

\* The keyword query and the counts: any rows may match.  The model is asked
\* only if some record is indexed.
begin_search(s) ==
    /\ searcher[s].at \in {"IDLE", "ANSWERED"}
    /\ \E match \in SUBSET {d \in Records : present(d)} :
          searcher' = [searcher EXCEPT ![s] =
                       [at |-> IF \E d \in Records : record[d].status = "INDEXED"
                                 THEN "MODEL" ELSE "ROWS",
                        lexical |-> [d \in Records |->
                                       IF d \in match THEN record[d].status
                                                      ELSE "NONE"],
                        found |-> {},
                        gone |-> {d \in Records : record[d].status = "DELETED"},
                        shown |-> {}]]
    /\ UNCHANGED <<record, indexed, file, keeper, runs, unfiled>>

\* search_chunks joins every chunk with its row: the club's own, INDEXED.
searchable(d) == indexed[d] # {} /\ record[d].status = "INDEXED"

\* The vector query, after the query's embedding was computed; the scores
\* decide which of the chunks are close enough (select_semantic_records).
search_chunks(s) ==
    /\ searcher[s].at = "MODEL"
    /\ \E close \in SUBSET {d \in Records : searchable(d)} :
          searcher' = [searcher EXCEPT ![s].at = "ROWS", ![s].found = close]
    /\ UNCHANGED <<record, indexed, file, keeper, runs, unfiled>>

\* The embedding failed: the answer has the keyword matches only.
search_unavailable(s) ==
    /\ searcher[s].at = "MODEL"
    /\ searcher' = [searcher EXCEPT ![s].at = "ROWS"]
    /\ UNCHANGED <<record, indexed, file, keeper, runs, unfiled>>

\* The rows of chunks that no keyword matched are read last.
reloaded(s) == {d \in searcher[s].found : /\ searcher[s].lexical[d] = "NONE"
                                        /\ record[d].status = "INDEXED"}

\* The answer: keyword matches as they were read first, and the reloaded
\* rows.
answer_search(s) ==
    /\ searcher[s].at = "ROWS"
    /\ searcher' = [searcher EXCEPT ![s].at = "ANSWERED",
                    ![s].shown = {d \in Records : searcher[s].lexical[d] # "NONE"}
                                   \cup reloaded(s)]
    /\ UNCHANGED <<record, indexed, file, keeper, runs, unfiled>>

RecordNext ==
    \/ \E k \in Keepers, d \in Records :
          save_file(k, d) \/ index_record(k, d) \/ delete_record(k, d)
    \/ \E k \in Keepers :
          \/ upload_fails(k) \/ commit_upload(k)
          \/ refresh_fails(k) \/ upload_record(k)
          \/ index_failed(k) \/ index_done(k)
          \/ delete_file(k) \/ keeper_lost(k)
    \/ \E s \in Searchers :
          \/ begin_search(s) \/ search_chunks(s) \/ search_unavailable(s)
          \/ answer_search(s)

----------------------------------------------------------------------------
(* Properties *)

\* A row has chunks exactly when it is INDEXED, all of one indexing run, and
\* no index error; a deleted record has none.
ChunksAreOfOneRun ==
    \A d \in Records :
        /\ Cardinality(indexed[d]) = IF record[d].status = "INDEXED" THEN 1 ELSE 0
        /\ record[d].status = "INDEXED" => ~record[d].index_error

\* Whoever can see a record can download it: its object is there, unless the
\* upload failed after its commit.
FileIsThere == \A d \in Records : present(d) /\ d \notin unfiled => d \in file

\* A record that is left does not lose its original (delete_record).
RecordKeepsItsFile == \A d \in Records : present(d) => d \in file

\* A search begun after a record was deleted does not show it.
DeletedIsNotShown ==
    \A s \in Searchers : searcher[s].shown \cap searcher[s].gone = {}

\* record_service, record_discovery_service: whatever the interleaving of
\* uploads, indexing, deletion, crashes and searches, the row, its file and
\* its chunks stay together (but for an upload that failed after its commit), and
\* a deleted record is not found again.
RecordsStayWhole ==
    RecordTypeOK /\ ChunksAreOfOneRun /\ FileIsThere /\ DeletedIsNotShown

=============================================================================
