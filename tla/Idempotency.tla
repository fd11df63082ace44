---------------------------- MODULE Idempotency ----------------------------
(***************************************************************************)
(* The Idempotency-Key table (be/app/core/idempotency.py): the row that    *)
(* one (member, endpoint, key) triple owns and what the helper functions   *)
(* do to it.  Every operator is a function from rows to rows or answers;   *)
(* the module that uses them says when they run and in which transaction.  *)
(*                                                                         *)
(* modified_at is abstracted to what the code compares: `stamp` names the  *)
(* request that last wrote the column (two reads of the column are equal   *)
(* exactly when the stamps are) and `stale` says that more than            *)
(* STALE_PROCESSING_AFTER has passed since.                                *)
(***************************************************************************)
EXTENDS Naturals

CONSTANTS Requests,  \* HTTP requests that may carry the key
          Nobody     \* no request

ASSUME NobodyAssumption == Nobody \notin Requests

KeyStatus == {"ABSENT", "PROCESSING", "COMPLETED"}

\* An IdempotencyKey row.  `id` is the primary key: the request that inserted
\* the row.  The body hash is represented by the body, the saved response by
\* the base_revision it reports.
KeyRow == [status: KeyStatus, id: Requests \cup {Nobody}, body: Nat,
           stamp: Requests \cup {Nobody}, stale: BOOLEAN, response: Nat]

AbsentRow == [status |-> "ABSENT", id |-> Nobody, body |-> 0,
              stamp |-> Nobody, stale |-> FALSE, response |-> 0]

NewRow(r, body) == [status |-> "PROCESSING", id |-> r, body |-> body,
                    stamp |-> r, stale |-> FALSE, response |-> 0]

is_stale(row) == row.status = "PROCESSING" /\ row.stale

\* Fault: the body hash is not compared.
ResolveBranchAnyBody(row, body) ==
    IF row.status = "ABSENT" THEN "insert"
    ELSE IF row.status = "COMPLETED" THEN "replay"
    ELSE IF ~is_stale(row) THEN "in_progress"
    ELSE "take_over"

\* The branch resolve() takes for the row it read.
ResolveBranch(row, body) ==
    IF row.status = "ABSENT" THEN "insert"
    ELSE IF row.body # body THEN "conflict"
    ELSE IF row.status = "COMPLETED" THEN "replay"
    ELSE IF ~is_stale(row) THEN "in_progress"
    ELSE "take_over"

\* Fault: the UPDATE does not ask for the modified_at that was read.
StillProcessing(row, read) == row.id = read.id /\ row.status = "PROCESSING"

\* The conditional UPDATE of a takeover matches the row that was read, and
\* only while nobody has completed, deleted or taken it over since.
StillAsRead(row, read) ==
    /\ row.id = read.id
    /\ row.status = "PROCESSING"
    /\ row.stamp = read.stamp

TakenOver(row, r) == [row EXCEPT !.stamp = r, !.stale = FALSE]

\* Fault: the response is stored under a status the table does not know.
SaveAsDone(row, id, response) ==
    IF row.status # "ABSENT" /\ row.id = id
    THEN [row EXCEPT !.status = "DONE", !.response = response]
    ELSE row

\* Fault: the turn is committed and its key is not completed with it.
SaveForgotten(row, id, response) == row

save_response(row, id, response) ==
    IF row.status # "ABSENT" /\ row.id = id
    THEN [row EXCEPT !.status = "COMPLETED", !.response = response]
    ELSE row

\* release() deletes by primary key, whatever the row's status.
release(row, id) ==
    IF row.status # "ABSENT" /\ row.id = id THEN AbsentRow ELSE row

\* Fault: the age of a PROCESSING row is not looked at.
LookupIgnoresAge(row) ==
    CASE row.status = "ABSENT"    -> "not_saved"
      [] row.status = "COMPLETED" -> "completed"
      [] OTHER                    -> "processing"

\* What lookup_request answers for the row.
LookupAnswer(row) ==
    CASE row.status = "ABSENT"    -> "not_saved"
      [] row.status = "COMPLETED" -> "completed"
      [] is_stale(row)            -> "not_saved"
      [] OTHER                    -> "processing"
=============================================================================
