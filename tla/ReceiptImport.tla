--------------------------- MODULE ReceiptImport ---------------------------
(***************************************************************************)
(* One receipt import: a CSV file or the photo of a receipt becomes rows   *)
(* that members correct and confirm, and every row of a confirmed import   *)
(* one Expense.  A photo is read by a model outside any transaction; a     *)
(* reading older than OCR_TIMEOUT may be retried, so that an old answer    *)
(* can arrive after the new one, or after the import was confirmed.        *)
(*                                                                         *)
(*   accounting_service   create_receipt_import, _run_receipt_ocr,         *)
(*                        retry_receipt_import, update_draft,              *)
(*                        confirm_receipt_import, the expense operations   *)
(*   expense_csv_parser   parse_expense_csv                                *)
(*   record_service       delete_record, for the original file             *)
(***************************************************************************)
EXTENDS Naturals, FiniteSets, Sequences

CONSTANTS Uploads,      \* upload or retry requests that may run at once
          Importers,    \* members with the import on the screen
          MaxOcrJobs,   \* bound on the OCR jobs of the import
          MaxRows,      \* bound on the rows one file gives
          MaxDrafts,    \* bound on ReceiptImport.version
          SlowStorage   \* reading the original may outlast OCR_TIMEOUT

ASSUME ReceiptBounds ==
    MaxOcrJobs \in Nat /\ MaxRows \in Nat /\ MaxDrafts \in Nat \ {0}

VARIABLES import,   \* the ReceiptImport row and its ReceiptImportRows
          ocr,      \* its AgentJobs
          uploads,  \* per request, what it waits for
          view,     \* per member, the import as it was loaded
          ledger    \* expenses the confirmations recorded, and those left

receiptVars == <<import, ocr, uploads, view, ledger>>

----------------------------------------------------------------------------
(* Types *)

Jobs == 1 .. MaxOcrJobs
ImportStatus == {"ABSENT", "PROCESSING", "NEEDS_REVIEW", "FAILED", "CONFIRMED"}

\* A row: the job that read it (0 for a CSV row), the draft version that last
\* wrote it, and whether it blocks confirmation (a validation error, or no
\* amount or date).
Row == [read: 0 .. MaxOcrJobs, draft: 0 .. MaxDrafts, blocked: BOOLEAN]

\* `original` says that record_id still points to the uploaded file.
Import == [type: {"EXPENSE_CSV", "RECEIPT_IMAGE"}, status: ImportStatus,
           version: 1 .. MaxDrafts, job: 0 .. MaxOcrJobs,
           rows: UNION {[1 .. n -> Row] : n \in 0 .. MaxRows},
           original: BOOLEAN]

\* `late` says that OCR_TIMEOUT has passed since started_at.
Job == [status: {"NONE", "RUNNING", "FAILED", "SUCCEEDED"}, late: BOOLEAN]

Upload == [at: {"IDLE", "SOURCE", "MODEL"}, job: 0 .. MaxOcrJobs]

Resting == [at |-> "IDLE", job |-> 0]

\* `recorded` is history: per expense of this import, the row as it was
\* confirmed and as the confirming member had seen it; `kept` counts those
\* not deleted since.
Ledger == [recorded: Seq([row: Row, seen: Row]), kept: Nat]

ReceiptTypeOK ==
    /\ import \in Import
    /\ ocr \in [Jobs -> Job]
    /\ uploads \in [Uploads -> Upload]
    /\ view \in [Importers -> Import]
    /\ ledger \in Ledger /\ ledger.kept <= Len(ledger.recorded)

NoImport == [type |-> "EXPENSE_CSV", status |-> "ABSENT", version |-> 1,
             job |-> 0, rows |-> <<>>, original |-> FALSE]

ReceiptInit ==
    /\ import = NoImport
    /\ ocr = [j \in Jobs |-> [status |-> "NONE", late |-> FALSE]]
    /\ uploads = [u \in Uploads |-> Resting]
    /\ view = [e \in Importers |-> NoImport]
    /\ ledger = [recorded |-> <<>>, kept |-> 0]

----------------------------------------------------------------------------
(* Uploading *)

\* What parse_expense_csv makes of the rows of a file: each is readable, or
\* carries an error for the date or the amount it could not read.
parse_expense_csv ==
    UNION {[1 .. n -> {[read |-> 0, draft |-> 1, blocked |-> b] : b \in BOOLEAN}] :
           n \in 0 .. MaxRows}

\* create_receipt_import with type EXPENSE_CSV, in one transaction; a file
\* without the required columns (CsvFormatError) fails the import.
create_csv_import(u) ==
    /\ uploads[u] = Resting
    /\ import.status = "ABSENT"
    /\ \/ \E rows \in parse_expense_csv :
            import' = [import EXCEPT !.status = "NEEDS_REVIEW", !.rows = rows,
                                     !.original = TRUE]
       \/ import' = [import EXCEPT !.status = "FAILED", !.original = TRUE]
    /\ UNCHANGED <<ocr, uploads, view, ledger>>

\* A job that is not used yet, to be created and started.
NewJob == CHOOSE j \in Jobs : ocr[j].status = "NONE"

job_left == \E j \in Jobs : ocr[j].status = "NONE"

Started(jobs, j) == [jobs EXCEPT ![j] = [status |-> "RUNNING", late |-> FALSE]]

\* create_receipt_import with type RECEIPT_IMAGE, up to its commit.
create_image_import(u) ==
    /\ uploads[u] = Resting
    /\ import.status = "ABSENT"
    /\ job_left
    /\ import' = [import EXCEPT !.type = "RECEIPT_IMAGE", !.status = "PROCESSING",
                                !.job = NewJob, !.original = TRUE]
    /\ ocr' = Started(ocr, NewJob)
    /\ uploads' = [uploads EXCEPT ![u] = [at |-> "MODEL", job |-> NewJob]]
    /\ UNCHANGED <<view, ledger>>

----------------------------------------------------------------------------
(* Reading the photo *)

\* Fault: the rows of a reading are stored whichever job asked for it.
AnyJobOpen(j) == import.status = "PROCESSING"

\* The import still waits for the reading of job j.
awaits(j) == import.job = j /\ import.status = "PROCESSING"

\* The rows the model returned, inserted with row_no 1, 2, ...; a row
\* without a date or an amount blocks confirmation.
OcrRows(j) ==
    UNION {[1 .. n -> {[read |-> j, draft |-> 1, blocked |-> b] : b \in BOOLEAN}] :
           n \in 1 .. MaxRows}

\* _run_receipt_ocr after the model call: the reading failed (error, or no
\* readable row), or gave rows.  uq_receipt_rows_import_rowno aborts the
\* transaction when the import already has rows.
finish_ocr(u) ==
    LET j == uploads[u].job IN
    /\ uploads[u].at = "MODEL"
    /\ uploads' = [uploads EXCEPT ![u] = Resting]
    /\ \/ /\ awaits(j)
          /\ import' = [import EXCEPT !.status = "FAILED"]
          /\ ocr' = [ocr EXCEPT ![j].status = "FAILED"]
       \/ /\ awaits(j)
          /\ import.rows = <<>>
          /\ \E rows \in OcrRows(j) :
                import' = [import EXCEPT !.status = "NEEDS_REVIEW", !.rows = rows]
          /\ ocr' = [ocr EXCEPT ![j].status = "SUCCEEDED"]
       \/ /\ awaits(j) => import.rows # <<>>
          /\ UNCHANGED <<import, ocr>>
    /\ UNCHANGED <<view, ledger>>

retryable ==
    \/ import.status = "PROCESSING" /\ ocr[import.job].late
    \/ import.status = "FAILED"

\* retry_receipt_import up to its commit: the replaced job is failed, and a
\* new one started.
retry_receipt_import(u) ==
    /\ uploads[u] = Resting
    /\ import.type = "RECEIPT_IMAGE" /\ import.original
    /\ retryable
    /\ job_left
    /\ ocr' = Started(IF import.status = "PROCESSING"
                        THEN [ocr EXCEPT ![import.job].status = "FAILED"]
                        ELSE ocr, NewJob)
    /\ import' = [import EXCEPT !.status = "PROCESSING", !.job = NewJob]
    /\ uploads' = [uploads EXCEPT ![u] = [at |-> "SOURCE", job |-> NewJob]]
    /\ UNCHANGED <<view, ledger>>

\* The original is read for the new attempt.
source_read(u) ==
    /\ uploads[u].at = "SOURCE"
    /\ uploads' = [uploads EXCEPT ![u].at = "MODEL"]
    /\ UNCHANGED <<import, ocr, view, ledger>>

\* The original cannot be read: the import fails.  session.get returns the
\* row this session already holds (expire_on_commit is off), so the check
\* that the import still waits for this job compares what the retry itself
\* wrote, and the status is overwritten.
source_unavailable(u) ==
    LET j == uploads[u].job IN
    /\ uploads[u].at = "SOURCE"
    /\ import' = [import EXCEPT !.status = "FAILED"]
    /\ ocr' = [ocr EXCEPT ![j].status = "FAILED"]
    /\ uploads' = [uploads EXCEPT ![u] = Resting]
    /\ UNCHANGED <<view, ledger>>

\* OCR_TIMEOUT passes.
ocr_late(j) ==
    /\ ocr[j].status = "RUNNING" /\ ~ocr[j].late
    /\ ~SlowStorage => \A u \in Uploads : uploads[u] # [at |-> "SOURCE", job |-> j]
    /\ ocr' = [ocr EXCEPT ![j].late = TRUE]
    /\ UNCHANGED <<import, uploads, view, ledger>>

\* The process dies while a request waits.
upload_lost(u) ==
    /\ uploads[u] # Resting
    /\ uploads' = [uploads EXCEPT ![u] = Resting]
    /\ UNCHANGED <<import, ocr, view, ledger>>

\* record_service.delete_record on the original: record_id becomes NULL.
delete_original ==
    /\ import.original
    /\ import' = [import EXCEPT !.original = FALSE]
    /\ UNCHANGED <<ocr, uploads, view, ledger>>

----------------------------------------------------------------------------
(* Reviewing *)

\* GET /receipt-imports/{id}.
get_receipt_import(e) ==
    /\ import.status # "ABSENT"
    /\ view' = [view EXCEPT ![e] = import]
    /\ UNCHANGED <<import, ocr, uploads, ledger>>

\* The screen offers correction and confirmation of an import it shows as
\* under review, and sends the version it shows.
version_seen(e) ==
    /\ view[e].status = "NEEDS_REVIEW"
    /\ view[e].version = import.version

\* A corrected row: the submitted values replace the old ones, and clear the
\* errors of those fields.
Corrected(row, v, all) == [row EXCEPT !.draft = v, !.blocked = @ /\ ~all]

update_draft(e) ==
    /\ version_seen(e)
    /\ import.status = "NEEDS_REVIEW"
    /\ import.version < MaxDrafts
    /\ \E edited \in SUBSET (DOMAIN import.rows), all \in BOOLEAN :
          import' = [import EXCEPT
                       !.version = @ + 1,
                       !.rows = [n \in DOMAIN @ |->
                                   IF n \in edited
                                     THEN Corrected(@[n], import.version + 1, all)
                                     ELSE @[n]]]
    /\ UNCHANGED <<ocr, uploads, view, ledger>>

under_review == import.status = "NEEDS_REVIEW"

\* confirm_receipt_import: one Expense per row, all in one transaction.
confirm_receipt_import(e) ==
    /\ version_seen(e)
    /\ under_review
    /\ \A n \in DOMAIN import.rows : ~import.rows[n].blocked
    /\ import' = [import EXCEPT !.status = "CONFIRMED"]
    /\ ledger' = [recorded |-> ledger.recorded \o
                                 [n \in DOMAIN import.rows |->
                                    [row |-> import.rows[n],
                                     seen |-> IF n \in DOMAIN view[e].rows
                                                THEN view[e].rows[n]
                                                ELSE [import.rows[n] EXCEPT
                                                        !.draft = 0]]],
                  kept |-> ledger.kept + Len(import.rows)]
    /\ UNCHANGED <<ocr, uploads, view>>

\* delete_expense on one of them; the row's confirmed_expense_id is cleared.
delete_expense ==
    /\ ledger.kept > 0
    /\ ledger' = [ledger EXCEPT !.kept = @ - 1]
    /\ UNCHANGED <<import, ocr, uploads, view>>

ReceiptNext ==
    \/ \E u \in Uploads :
          \/ create_csv_import(u) \/ create_image_import(u)
          \/ finish_ocr(u) \/ retry_receipt_import(u)
          \/ source_read(u) \/ source_unavailable(u) \/ upload_lost(u)
    \/ \E e \in Importers :
          \/ get_receipt_import(e) \/ update_draft(e) \/ confirm_receipt_import(e)
    \/ \E j \in Jobs : ocr_late(j)
    \/ delete_original
    \/ delete_expense

----------------------------------------------------------------------------
(* Properties *)

\* The rows under review all come from one reading, the import's own job,
\* and that job says so.
RowsOfOneReading ==
    import.type = "RECEIPT_IMAGE" /\ import.status \in {"NEEDS_REVIEW", "CONFIRMED"} =>
        /\ import.rows # <<>>
        /\ ocr[import.job].status = "SUCCEEDED"
        /\ \A n \in DOMAIN import.rows : import.rows[n].read = import.job

\* A confirmed import left exactly one expense per row, any other none.
OneExpensePerRow ==
    [n \in DOMAIN ledger.recorded |-> ledger.recorded[n].row] =
        IF import.status = "CONFIRMED" THEN import.rows ELSE <<>>

\* Every expense was recorded as the confirming member had seen its row.
ConfirmedAsSeen ==
    \A n \in DOMAIN ledger.recorded :
        ledger.recorded[n].row = ledger.recorded[n].seen

\* At most one job of the import is running, the one the import names, and an
\* import that waits names a running job: a retry can always take over.
OneJobRuns ==
    \A j \in Jobs : ocr[j].status = "RUNNING" <=>
                     import.job = j /\ import.status = "PROCESSING"

\* accounting_service: however late, often or concurrently the receipt is
\* read, corrected and confirmed, every receipt row is booked once, as seen.
ReceiptIsBookedOnce ==
    /\ ReceiptTypeOK
    /\ RowsOfOneReading /\ OneExpensePerRow /\ ConfirmedAsSeen /\ OneJobRuns

=============================================================================
