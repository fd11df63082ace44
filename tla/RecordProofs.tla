---------------------------- MODULE RecordProofs ----------------------------
(***************************************************************************)
(* What holds of the files, the cases and the conversations of a club for  *)
(* any number of files, requests, indexing runs, readings, callers,        *)
(* attempts, turns and tool calls: its records and their index             *)
(* (RecordIndex), the receipts it imports (ReceiptImport), the cases an    *)
(* operation raises (OperationCase), and the stored history of a planning  *)
(* conversation (Conversation).  The lemmas on folds come from             *)
(* AnswerProofs.                                                           *)
(***************************************************************************)
EXTENDS RecordIndex, ReceiptImport, OperationCase, Conversation, AnswerProofs

----------------------------------------------------------------------------
(* The invariant.  RecordsStayWhole alone is not inductive: that a file is *)
(* not taken away from a row, or a deleted row not brought back, rests on  *)
(* what each request under way has left behind.                            *)

\* A row has the chunks of one run, or none.
RecordFits(d) ==
    /\ record[d].status # "INDEXED" => indexed[d] = {}
    /\ record[d].status = "INDEXED" =>
         /\ ~record[d].index_error
         /\ \E run \in 1 .. MaxIndexRuns : indexed[d] = {run}
    /\ present(d) /\ d \notin unfiled => d \in file

\* An upload owns the object it stored until its row is committed, and a
\* deletion takes away objects of deleted rows only.
KeeperFits(k) ==
    /\ keeper[k].at = "STORED" =>
         record[keeper[k].of].status = "ABSENT" /\ keeper[k].of \in file
    /\ keeper[k].at = "COMMITTED" => record[keeper[k].of].status # "ABSENT"
    /\ keeper[k].at = "MODEL" =>
         keeper[k].run \in 1 .. MaxIndexRuns /\ record[keeper[k].of].status # "ABSENT"
    /\ keeper[k].at = "UNLINK" => record[keeper[k].of].status = "DELETED"

UploadsDiffer ==
    \A j, k \in Keepers :
        keeper[j].at = "STORED" /\ keeper[k].at = "STORED" /\ keeper[j].of = keeper[k].of
            => j = k

\* What was deleted before a search began stays deleted and did not match.
SearchFits(s) ==
    /\ \A d \in searcher[s].gone :
         record[d].status = "DELETED" /\ searcher[s].lexical[d] = "NONE"
    /\ searcher[s].shown \cap searcher[s].gone = {}

RecordInv ==
    /\ RecordTypeOK /\ UploadsDiffer
    /\ \A d \in Records : RecordFits(d)
    /\ \A k \in Keepers : KeeperFits(k)
    /\ \A s \in Searchers : SearchFits(s)

LEMMA InitRecords == RecordInit => RecordInv
<1> SUFFICES ASSUME RecordInit PROVE RecordInv
  OBVIOUS
<1>1. /\ \A d \in Records : record[d].status = "ABSENT" /\ indexed[d] = {}
      /\ record \in [Records -> Record] /\ indexed \in [Records -> SUBSET (1 .. MaxIndexRuns)]
      /\ file = {} /\ runs = 0 /\ unfiled = {}
  BY DEF RecordInit, Record
<1>2. keeper \in [Keepers -> Keeper] /\ \A k \in Keepers : keeper[k].at = "IDLE"
  BY RecordBounds DEF RecordInit, Free, Keeper
<1>3. /\ searcher \in [Searchers -> Search]
      /\ \A s \in Searchers : searcher[s].gone = {} /\ searcher[s].shown = {}
  BY DEF RecordInit, Search
<1>4. RecordTypeOK
  BY <1>1, <1>2, <1>3, RecordBounds DEF RecordTypeOK
<1> QED
  BY <1>1, <1>2, <1>3, <1>4
     DEF RecordInv, UploadsDiffer, RecordFits, KeeperFits, SearchFits, present

----------------------------------------------------------------------------
(* What a step may do to a row, a request and a search *)

\* A row never comes back from DELETED, nor to ABSENT; a search keeps what it
\* read while the rows move on.
RowsMove ==
    \A d \in Records :
        /\ record[d].status = "DELETED" => record'[d].status = "DELETED"
        /\ record'[d].status = "ABSENT" => record[d].status = "ABSENT"

LEMMA SearchesStay ==
    ASSUME RecordInv, RowsMove, UNCHANGED searcher
    PROVE  \A s \in Searchers : SearchFits(s)'
BY DEF RecordInv, RecordTypeOK, Search, SearchFits, RowsMove

\* The other requests keep what they hold when one request moves on, one row
\* that none of them has stored for changes, and no object of theirs goes.
LEMMA KeepersStay ==
    ASSUME RecordInv, NEW k \in Keepers, NEW new \in Keeper, RowsMove,
           keeper' = [keeper EXCEPT ![k] = new],
           \A j \in Keepers \ {k} : keeper[j].at = "STORED" =>
               /\ record'[keeper[j].of].status = "ABSENT" /\ keeper[j].of \in file'
               /\ new.at = "STORED" => new.of # keeper[j].of,
           new.at = "STORED" => record'[new.of].status = "ABSENT" /\ new.of \in file',
           new.at = "MODEL" =>
               new.run \in 1 .. MaxIndexRuns /\ record'[new.of].status # "ABSENT",
           new.at = "COMMITTED" => record'[new.of].status # "ABSENT",
           new.at = "UNLINK" => record'[new.of].status = "DELETED"
    PROVE  /\ keeper' \in [Keepers -> Keeper]
           /\ \A j \in Keepers : KeeperFits(j)'
           /\ UploadsDiffer'
<1>1. /\ keeper \in [Keepers -> Keeper] /\ keeper' \in [Keepers -> Keeper]
      /\ keeper'[k] = new /\ \A j \in Keepers \ {k} : keeper'[j] = keeper[j]
  BY DEF RecordInv, RecordTypeOK
<1>2. KeeperFits(k)'
  BY <1>1 DEF KeeperFits
<1>3. ASSUME NEW j \in Keepers \ {k} PROVE KeeperFits(j)'
  <2>1. KeeperFits(j) /\ keeper[j].of \in Records /\ keeper'[j] = keeper[j]
    BY <1>1 DEF RecordInv, Keeper
  <2> QED
    BY <2>1 DEF KeeperFits, RowsMove
<1>4. UploadsDiffer'
  BY <1>1 DEF UploadsDiffer, RecordInv
<1> QED
  BY <1>1, <1>2, <1>3, <1>4

\* Free requests, and those at work.
LEMMA KeeperTypes ==
    ASSUME RecordInv
    PROVE  /\ \A d \in Records : Free(d) \in Keeper /\ Free(d).at = "IDLE"
           /\ \A d \in Records, at \in {"STORED", "COMMITTED", "MODEL", "UNLINK"},
                 run \in 0 .. MaxIndexRuns :
                    [at |-> at, of |-> d, run |-> run] \in Keeper
           /\ \A k \in Keepers : keeper[k].of \in Records /\ keeper[k] \in Keeper
           /\ runs \in Nat /\ runs <= MaxIndexRuns /\ MaxIndexRuns \in Nat
BY RecordBounds DEF RecordInv, RecordTypeOK, Keeper, Free

\* Steps that change neither rows nor chunks nor objects.
LEMMA RowsStay ==
    ASSUME RecordInv, UNCHANGED <<record, indexed, file, unfiled>>
    PROVE  RowsMove /\ \A d \in Records : RecordFits(d)'
BY DEF RecordInv, RowsMove, RecordFits, present

----------------------------------------------------------------------------
(* Each step keeps the invariant *)

LEMMA SaveFileKeeps ==
    ASSUME RecordInv, NEW k \in Keepers, NEW d \in Records, save_file(k, d)
    PROVE  RecordInv'
<1> DEFINE new == [at |-> "STORED", of |-> d, run |-> 0]
<1>1. /\ new \in Keeper /\ keeper' = [keeper EXCEPT ![k] = new]
      /\ record[d].status = "ABSENT" /\ d \notin file /\ file' = file \cup {d}
      /\ UNCHANGED <<record, indexed, searcher, runs, unfiled>>
  BY KeeperTypes DEF save_file
<1>2. RowsMove /\ \A x \in Records : RecordFits(x)'
  BY <1>1 DEF RecordInv, RowsMove, RecordFits, present
<1>3. \A j \in Keepers \ {k} : keeper[j].at = "STORED" =>
         /\ record'[keeper[j].of].status = "ABSENT" /\ keeper[j].of \in file'
         /\ keeper[j].of # d
  BY <1>1 DEF RecordInv, KeeperFits
<1>4. new.at = "STORED" /\ new.of = d
  OBVIOUS
<1> HIDE DEF new
<1>5. /\ keeper' \in [Keepers -> Keeper] /\ UploadsDiffer'
      /\ \A j \in Keepers : KeeperFits(j)'
  BY <1>1, <1>2, <1>3, <1>4, KeepersStay
<1>6. RecordTypeOK'
  BY <1>1, <1>5 DEF RecordInv, RecordTypeOK
<1> QED
  BY <1>1, <1>2, <1>5, <1>6, SearchesStay DEF RecordInv

\* A failed upload takes its object with it: no row and no other upload has it.
LEMMA UploadFailsKeeps ==
    ASSUME RecordInv, NEW k \in Keepers, upload_fails(k)
    PROVE  RecordInv'
<1> DEFINE d == keeper[k].of
<1>1. /\ keeper[k].at = "STORED" /\ record[d].status = "ABSENT" /\ d \in Records
      /\ file' = file \ {d} /\ keeper' = [keeper EXCEPT ![k] = Free(d)]
      /\ UNCHANGED <<record, indexed, searcher, runs, unfiled>>
  BY KeeperTypes DEF upload_fails, RecordInv, KeeperFits
<1>2. RowsMove /\ \A x \in Records : RecordFits(x)'
  BY <1>1 DEF RecordInv, RowsMove, RecordFits, present
<1>3. \A j \in Keepers \ {k} : keeper[j].at = "STORED" =>
         record'[keeper[j].of].status = "ABSENT" /\ keeper[j].of \in file'
  BY <1>1 DEF RecordInv, KeeperFits, UploadsDiffer
<1> DEFINE new == Free(d)
<1>6. new \in Keeper /\ new.at = "IDLE" /\ keeper' = [keeper EXCEPT ![k] = new]
  BY <1>1, KeeperTypes
<1> HIDE DEF new
<1>4. /\ keeper' \in [Keepers -> Keeper] /\ UploadsDiffer'
      /\ \A j \in Keepers : KeeperFits(j)'
  BY <1>2, <1>3, <1>6, KeepersStay
<1>5. RecordTypeOK'
  BY <1>1, <1>4 DEF RecordInv, RecordTypeOK
<1> QED
  BY <1>1, <1>2, <1>4, <1>5, SearchesStay DEF RecordInv

\* A row that changes together with the request that changes it.
OneRow(k, d, row, new, chunks) ==
    /\ row \in Record /\ new \in Keeper /\ chunks \subseteq 1 .. MaxIndexRuns
    /\ record' = [record EXCEPT ![d] = row] /\ indexed' = [indexed EXCEPT ![d] = chunks]
    /\ keeper' = [keeper EXCEPT ![k] = new]
    /\ UNCHANGED <<file, searcher, unfiled>> /\ runs' \in 0 .. MaxIndexRuns
    /\ row.status # "ABSENT"
    /\ record[d].status = "DELETED" => row.status = "DELETED"
    /\ row.status # "INDEXED" => chunks = {}
    /\ row.status = "INDEXED" =>
         ~row.index_error /\ \E run \in 1 .. MaxIndexRuns : chunks = {run}
    /\ d \in file \cup unfiled \/ row.status = "DELETED"
    /\ \A j \in Keepers \ {k} : keeper[j].at = "STORED" => keeper[j].of # d
    /\ new.at # "STORED" /\ new.of = d
    /\ new.at = "MODEL" => new.run \in 1 .. MaxIndexRuns
    /\ new.at = "UNLINK" => row.status = "DELETED"

LEMMA OneRowMoves ==
    ASSUME RecordInv, NEW k \in Keepers, NEW d \in Records, NEW row, NEW new, NEW chunks,
           OneRow(k, d, row, new, chunks)
    PROVE  RecordInv'
<1> USE DEF OneRow
<1>1. /\ record' \in [Records -> Record] /\ record'[d] = row
      /\ \A x \in Records \ {d} : record'[x] = record[x]
      /\ indexed' \in [Records -> SUBSET (1 .. MaxIndexRuns)] /\ indexed'[d] = chunks
      /\ \A x \in Records \ {d} : indexed'[x] = indexed[x]
  BY DEF RecordInv, RecordTypeOK
<1>2. RowsMove
  BY <1>1 DEF RowsMove
<1>3. ASSUME NEW x \in Records PROVE RecordFits(x)'
  <2>1. CASE x = d
    BY <1>1, <2>1 DEF RecordFits, present
  <2>2. CASE x # d
    BY <1>1, <2>2 DEF RecordInv, RecordFits, present
  <2> QED
    BY <2>1, <2>2
<1>4. \A j \in Keepers \ {k} : keeper[j].at = "STORED" =>
         record'[keeper[j].of].status = "ABSENT" /\ keeper[j].of \in file'
  BY <1>1, KeeperTypes DEF RecordInv, KeeperFits
<1>5. /\ new.at # "STORED"
      /\ new.at \in {"COMMITTED", "MODEL"} => record'[new.of].status # "ABSENT"
      /\ new.at = "UNLINK" => record'[new.of].status = "DELETED"
  BY <1>1
<1>6. /\ keeper' \in [Keepers -> Keeper] /\ UploadsDiffer'
      /\ \A j \in Keepers : KeeperFits(j)'
  <2>1. new.at = "MODEL" =>
           new.run \in 1 .. MaxIndexRuns /\ record'[new.of].status # "ABSENT"
    BY <1>5
  <2>2. \A j \in Keepers \ {k} : keeper[j].at = "STORED" =>
           /\ record'[keeper[j].of].status = "ABSENT" /\ keeper[j].of \in file'
           /\ new.at = "STORED" => new.of # keeper[j].of
    BY <1>4, <1>5
  <2> QED
    BY <1>2, <1>5, <2>1, <2>2, KeepersStay
<1>7. RecordTypeOK'
  BY <1>1, <1>6 DEF RecordInv, RecordTypeOK
<1> QED
  BY <1>2, <1>3, <1>6, <1>7, SearchesStay DEF RecordInv

LEMMA CommitKeeps ==
    ASSUME RecordInv, NEW k \in Keepers, commit_upload(k)
    PROVE  RecordInv'
<1> DEFINE d == keeper[k].of
<1>1. PICK out \in parse_record(record[d].type) \ {"UNEXPECTED"} :
        record' = [record EXCEPT
                     ![d].status = IF out \in {"BLOCKS", "NO_BLOCKS"}
                                     THEN "COMPLETED" ELSE "FAILED",
                     ![d].blocks = out = "BLOCKS"]
  BY DEF commit_upload
<1> DEFINE row == [record[d] EXCEPT !.status = IF out \in {"BLOCKS", "NO_BLOCKS"}
                                                 THEN "COMPLETED" ELSE "FAILED",
                                    !.blocks = (out = "BLOCKS")]
           new == [keeper[k] EXCEPT !.at = "COMMITTED"]
<1>2. /\ keeper[k].at = "STORED" /\ d \in Records /\ record[d].status = "ABSENT"
      /\ d \in file /\ record \in [Records -> Record] /\ record[d] \in Record
      /\ indexed \in [Records -> SUBSET (1 .. MaxIndexRuns)] /\ indexed[d] = {}
      /\ UNCHANGED <<indexed, file, searcher, runs, unfiled>> /\ runs \in 0 .. MaxIndexRuns
  BY KeeperTypes DEF commit_upload, RecordInv, KeeperFits, RecordTypeOK, RecordFits
<1>3. record' = [record EXCEPT ![d] = row]
  BY <1>1, <1>2
<1>4. row \in Record /\ row.status \in {"COMPLETED", "FAILED"}
  BY <1>2 DEF Record
<1>5. /\ new \in Keeper /\ new.at = "COMMITTED" /\ new.of = d
      /\ keeper' = [keeper EXCEPT ![k] = new]
  BY KeeperTypes DEF Keeper, commit_upload, RecordInv, RecordTypeOK
<1>6. \A j \in Keepers \ {k} : keeper[j].at = "STORED" => keeper[j].of # d
  BY <1>2 DEF RecordInv, UploadsDiffer
<1>7. indexed' = [indexed EXCEPT ![d] = {}]
  BY <1>2
<1> HIDE DEF row, new, d
<1>8. OneRow(k, d, row, new, {})
  BY <1>2, <1>3, <1>4, <1>5, <1>6, <1>7 DEF OneRow
<1> QED
  BY <1>2, <1>8, OneRowMoves

\* An object that goes: its row is deleted, or was left without it by the
\* request that takes it.
LEMMA ObjectGoes ==
    ASSUME RecordInv, NEW k \in Keepers, NEW d \in Records,
           keeper' = [keeper EXCEPT ![k] = Free(d)],
           record[d].status # "ABSENT", file' \in {file, file \ {d}},
           unfiled \subseteq unfiled', unfiled' \subseteq Records,
           record[d].status = "DELETED" \/ d \in unfiled',
           UNCHANGED <<record, indexed, searcher, runs>>
    PROVE  RecordInv'
<1> DEFINE new == Free(d)
<1>1. new \in Keeper /\ new.at = "IDLE" /\ keeper' = [keeper EXCEPT ![k] = new]
  BY KeeperTypes
<1>2. RowsMove /\ \A x \in Records : RecordFits(x)'
  BY DEF RecordInv, RowsMove, RecordFits, present
<1>3. \A j \in Keepers \ {k} : keeper[j].at = "STORED" =>
         record'[keeper[j].of].status = "ABSENT" /\ keeper[j].of \in file'
  BY DEF RecordInv, KeeperFits
<1> HIDE DEF new
<1>4. /\ keeper' \in [Keepers -> Keeper] /\ UploadsDiffer'
      /\ \A j \in Keepers : KeeperFits(j)'
  BY <1>1, <1>2, <1>3, KeepersStay
<1>5. RecordTypeOK'
  BY <1>4 DEF RecordInv, RecordTypeOK
<1> QED
  BY <1>2, <1>4, <1>5, SearchesStay DEF RecordInv

LEMMA RefreshFailsKeeps ==
    ASSUME RecordInv, NEW k \in Keepers, refresh_fails(k)
    PROVE  RecordInv'
<1> DEFINE d == keeper[k].of
<1>1. /\ d \in Records /\ record[d].status # "ABSENT"
      /\ keeper' = [keeper EXCEPT ![k] = Free(d)]
      /\ file' = file \ {d} /\ unfiled' = unfiled \cup {d}
      /\ UNCHANGED <<record, indexed, searcher, runs>>
  BY KeeperTypes DEF refresh_fails, RecordInv, KeeperFits
<1>2. unfiled' \subseteq Records
  BY <1>1 DEF RecordInv, RecordTypeOK
<1> HIDE DEF d
<1> QED
  BY <1>1, <1>2, ObjectGoes

\* A request that begins, ends or is lost without touching rows or objects.
LEMMA OneKeeperMoves ==
    ASSUME RecordInv, NEW k \in Keepers, NEW new \in Keeper,
           keeper' = [keeper EXCEPT ![k] = new],
           UNCHANGED <<record, indexed, file, searcher, unfiled>>, runs' \in 0 .. MaxIndexRuns,
           new.at \in {"IDLE", "MODEL"},
           new.at = "MODEL" =>
               new.run \in 1 .. MaxIndexRuns /\ record[new.of].status # "ABSENT"
    PROVE  RecordInv'
<1>1. RowsMove /\ \A d \in Records : RecordFits(d)'
  BY RowsStay
<1>2. \A j \in Keepers \ {k} : keeper[j].at = "STORED" =>
         /\ record'[keeper[j].of].status = "ABSENT" /\ keeper[j].of \in file'
         /\ new.at = "STORED" => new.of # keeper[j].of
  BY DEF RecordInv, KeeperFits
<1>3. /\ new.at # "STORED" /\ new.at # "UNLINK" /\ new.at # "COMMITTED"
      /\ new.at = "MODEL" =>
           new.run \in 1 .. MaxIndexRuns /\ record'[new.of].status # "ABSENT"
  OBVIOUS
<1>4. /\ keeper' \in [Keepers -> Keeper] /\ UploadsDiffer'
      /\ \A j \in Keepers : KeeperFits(j)'
  BY <1>1, <1>2, <1>3, KeepersStay
<1>5. RecordTypeOK'
  BY <1>4 DEF RecordInv, RecordTypeOK
<1> QED
  BY <1>1, <1>4, <1>5, SearchesStay DEF RecordInv

LEMMA UploadKeeps ==
    ASSUME RecordInv, NEW k \in Keepers, upload_record(k)
    PROVE  RecordInv'
<1> DEFINE d == keeper[k].of
<1>1. d \in Records /\ record[d].status # "ABSENT"
  BY KeeperTypes DEF upload_record, RecordInv, KeeperFits
<1>2. CASE record[d].status = "COMPLETED"
  <2> DEFINE new == [at |-> "MODEL", of |-> d, run |-> runs + 1]
  <2>1. runs + 1 \in 1 .. MaxIndexRuns /\ runs + 1 \in 0 .. MaxIndexRuns
    BY <1>2, KeeperTypes DEF upload_record
  <2>2. /\ new \in Keeper /\ new.at = "MODEL" /\ new.of = d /\ new.run = runs + 1
        /\ keeper' = [keeper EXCEPT ![k] = new] /\ runs' = runs + 1
        /\ UNCHANGED <<record, indexed, file, searcher, unfiled>>
    BY <1>1, <1>2, <2>1, KeeperTypes DEF upload_record
  <2> HIDE DEF new, d
  <2> QED
    BY <1>1, <2>1, <2>2, OneKeeperMoves
<1>3. CASE record[d].status # "COMPLETED"
  <2> DEFINE new == Free(d)
  <2>1. /\ new \in Keeper /\ new.at = "IDLE"
        /\ keeper' = [keeper EXCEPT ![k] = new] /\ runs' \in 0 .. MaxIndexRuns
        /\ UNCHANGED <<record, indexed, file, searcher, unfiled>>
    BY <1>1, <1>3, KeeperTypes DEF upload_record
  <2> HIDE DEF new, d
  <2> QED
    BY <2>1, OneKeeperMoves
<1> QED
  BY <1>2, <1>3

LEMMA BeginIndexKeeps ==
    ASSUME RecordInv, NEW k \in Keepers, NEW d \in Records, index_record(k, d)
    PROVE  RecordInv'
<1> DEFINE new == [at |-> "MODEL", of |-> d, run |-> runs + 1]
<1>1. runs + 1 \in 1 .. MaxIndexRuns /\ runs + 1 \in 0 .. MaxIndexRuns
  BY KeeperTypes DEF index_record
<1>2. /\ new \in Keeper /\ new.at = "MODEL" /\ new.of = d /\ new.run = runs + 1
      /\ keeper' = [keeper EXCEPT ![k] = new] /\ runs' = runs + 1
      /\ UNCHANGED <<record, indexed, file, searcher, unfiled>> /\ record[d].status # "ABSENT"
  BY <1>1, KeeperTypes DEF index_record
<1> HIDE DEF new
<1> QED
  BY <1>1, <1>2, OneKeeperMoves

LEMMA LostKeeps ==
    ASSUME RecordInv, NEW k \in Keepers, keeper_lost(k)
    PROVE  RecordInv'
<1> DEFINE new == Free(keeper[k].of)
<1>1. /\ new \in Keeper /\ new.at = "IDLE" /\ keeper' = [keeper EXCEPT ![k] = new]
      /\ UNCHANGED <<record, indexed, file, searcher, runs, unfiled>> /\ runs \in 0 .. MaxIndexRuns
  BY KeeperTypes DEF keeper_lost
<1> HIDE DEF new
<1> QED
  BY <1>1, OneKeeperMoves

\* A request that indexes writes its row only if that still waits for chunks.
LEMMA IndexKeeps ==
    ASSUME RecordInv, NEW k \in Keepers, index_failed(k) \/ index_done(k)
    PROVE  RecordInv'
<1> DEFINE d == keeper[k].of
           new == Free(d)
<1>1. /\ d \in Records /\ keeper[k].run \in 1 .. MaxIndexRuns
      /\ new \in Keeper /\ new.at = "IDLE" /\ new.of = d
      /\ keeper' = [keeper EXCEPT ![k] = new]
      /\ UNCHANGED <<file, searcher, runs, unfiled>> /\ runs \in 0 .. MaxIndexRuns
      /\ record \in [Records -> Record] /\ record[d] \in Record
      /\ indexed \in [Records -> SUBSET (1 .. MaxIndexRuns)]
  BY KeeperTypes DEF index_failed, index_done, RecordInv, KeeperFits, RecordTypeOK, Free
<1>2. CASE UNCHANGED <<record, indexed>>
  <2> HIDE DEF new, d
  <2> QED
    BY <1>1, <1>2, OneKeeperMoves
<1>3. CASE ~UNCHANGED <<record, indexed>>
  <2>1. /\ record[d].status = "COMPLETED" /\ d \in file \cup unfiled /\ indexed[d] = {}
        /\ \A j \in Keepers \ {k} : keeper[j].at = "STORED" => keeper[j].of # d
    BY <1>1, <1>3 DEF index_failed, index_done, wants_chunks, RecordInv, RecordFits,
                      present, KeeperFits
  <2>2. CASE index_failed(k)
    <3> DEFINE row == [record[d] EXCEPT !.index_error = TRUE]
    <3>1. row \in Record /\ row.status = "COMPLETED"
      BY <1>1, <2>1 DEF Record
    <3>2. record' = [record EXCEPT ![d] = row] /\ indexed' = [indexed EXCEPT ![d] = {}]
      BY <1>1, <2>1, <2>2 DEF index_failed, wants_chunks
    <3> HIDE DEF row, new, d
    <3>3. OneRow(k, d, row, new, {})
      BY <1>1, <2>1, <3>1, <3>2 DEF OneRow
    <3> QED
      BY <1>1, <3>3, OneRowMoves
  <2>3. CASE index_done(k)
    <3> DEFINE row == [record[d] EXCEPT !.status = "INDEXED", !.index_error = FALSE]
               run == keeper[k].run
    <3>1. row \in Record /\ row.status = "INDEXED" /\ ~row.index_error
      BY <1>1 DEF Record
    <3>2. record' = [record EXCEPT ![d] = row] /\ indexed' = [indexed EXCEPT ![d] = {run}]
      BY <1>1, <2>1, <2>3 DEF index_done, wants_chunks
    <3>3. run \in 1 .. MaxIndexRuns
      BY <1>1
    <3> HIDE DEF row, new, d, run
    <3>4. OneRow(k, d, row, new, {run})
      BY <1>1, <2>1, <3>1, <3>2, <3>3 DEF OneRow
    <3> QED
      BY <1>1, <3>4, OneRowMoves
  <2> QED
    BY <2>2, <2>3
<1> QED
  BY <1>2, <1>3

LEMMA DeleteKeeps ==
    ASSUME RecordInv, NEW k \in Keepers, NEW d \in Records, delete_record(k, d)
    PROVE  RecordInv'
<1> DEFINE row == [record[d] EXCEPT !.status = "DELETED"]
           new == [at |-> "UNLINK", of |-> d, run |-> 0]
<1>1. /\ record \in [Records -> Record] /\ record[d] \in Record
      /\ indexed' = [indexed EXCEPT ![d] = {}] /\ keeper' = [keeper EXCEPT ![k] = new]
      /\ UNCHANGED <<file, searcher, runs, unfiled>> /\ runs \in 0 .. MaxIndexRuns
      /\ record[d].status # "ABSENT"
  BY DEF delete_record, RecordInv, RecordTypeOK, present
<1>2. row \in Record /\ row.status = "DELETED" /\ record' = [record EXCEPT ![d] = row]
  BY <1>1 DEF Record, delete_record
<1>3. /\ new \in Keeper /\ new.at = "UNLINK" /\ new.of = d
  BY KeeperTypes
<1>4. \A j \in Keepers \ {k} : keeper[j].at = "STORED" => keeper[j].of # d
  BY <1>1 DEF RecordInv, KeeperFits
<1> HIDE DEF row, new
<1>5. OneRow(k, d, row, new, {})
  BY <1>1, <1>2, <1>3, <1>4 DEF OneRow
<1> QED
  BY <1>5, OneRowMoves

\* The object goes after its row, which is deleted for good.
LEMMA DeleteFileKeeps ==
    ASSUME RecordInv, NEW k \in Keepers, delete_file(k)
    PROVE  RecordInv'
<1> DEFINE d == keeper[k].of
<1>1. /\ record[d].status = "DELETED" /\ d \in Records
      /\ keeper' = [keeper EXCEPT ![k] = Free(d)]
      /\ file' \in {file, file \ {d}}
      /\ UNCHANGED <<record, indexed, searcher, runs, unfiled>>
  BY KeeperTypes DEF delete_file, RecordInv, KeeperFits
<1>2. unfiled' \subseteq Records
  BY <1>1 DEF RecordInv, RecordTypeOK
<1> HIDE DEF d
<1> QED
  BY <1>1, <1>2, ObjectGoes

\* One search moves on; rows, chunks, objects and the other requests stay.
LEMMA OneSearchMoves ==
    ASSUME RecordInv, NEW s \in Searchers, NEW new \in Search,
           searcher' = [searcher EXCEPT ![s] = new],
           UNCHANGED <<record, indexed, file, keeper, runs, unfiled>>,
           \A d \in new.gone : record[d].status = "DELETED" /\ new.lexical[d] = "NONE",
           new.shown \cap new.gone = {}
    PROVE  RecordInv'
<1>1. /\ searcher' \in [Searchers -> Search] /\ searcher'[s] = new
      /\ \A t \in Searchers \ {s} : searcher'[t] = searcher[t]
  BY DEF RecordInv, RecordTypeOK
<1>2. \A t \in Searchers : SearchFits(t)'
  BY <1>1 DEF RecordInv, SearchFits
<1>3. RecordTypeOK' /\ UploadsDiffer' /\ \A k \in Keepers : KeeperFits(k)'
  BY <1>1 DEF RecordInv, RecordTypeOK, UploadsDiffer, KeeperFits
<1> QED
  BY <1>2, <1>3, RowsStay DEF RecordInv

LEMMA SearchKeeps ==
    ASSUME RecordInv, NEW s \in Searchers,
           begin_search(s) \/ search_chunks(s) \/ search_unavailable(s) \/ answer_search(s)
    PROVE  RecordInv'
<1>1. /\ searcher \in [Searchers -> Search] /\ searcher[s] \in Search /\ SearchFits(s)
      /\ record \in [Records -> Record]
  BY DEF RecordInv, RecordTypeOK
<1>2. CASE begin_search(s)
  <2>1. PICK match \in SUBSET {d \in Records : present(d)} :
          searcher' = [searcher EXCEPT ![s] =
                       [at |-> IF \E d \in Records : record[d].status = "INDEXED"
                                 THEN "MODEL" ELSE "ROWS",
                        lexical |-> [d \in Records |->
                                       IF d \in match THEN record[d].status ELSE "NONE"],
                        found |-> {},
                        gone |-> {d \in Records : record[d].status = "DELETED"},
                        shown |-> {}]]
    BY <1>2 DEF begin_search
  <2> DEFINE place == IF \E d \in Records : record[d].status = "INDEXED"
                      THEN "MODEL" ELSE "ROWS"
             lexical == [d \in Records |-> IF d \in match THEN record[d].status ELSE "NONE"]
             gone == {d \in Records : record[d].status = "DELETED"}
             new == [at |-> place, lexical |-> lexical, found |-> {}, gone |-> gone,
                     shown |-> {}]
  <2>2. place \in {"MODEL", "ROWS"}
    OBVIOUS
  <2>3. lexical \in [Records -> {"NONE", "FAILED", "COMPLETED", "INDEXED"}]
    BY <1>1 DEF present, Record
  <2>4. gone \subseteq Records /\ \A d \in gone : record[d].status = "DELETED"
                                               /\ lexical[d] = "NONE"
    BY DEF present
  <2>5. searcher' = [searcher EXCEPT ![s] = new]
    BY <2>1
  <2> HIDE DEF place, lexical, gone
  <2>6. /\ new \in Search /\ new.gone = gone /\ new.lexical = lexical /\ new.shown = {}
    BY <2>2, <2>3, <2>4 DEF Search
  <2>7. UNCHANGED <<record, indexed, file, keeper, runs, unfiled>>
    BY <1>2 DEF begin_search
  <2> HIDE DEF new
  <2> QED
    BY <2>4, <2>5, <2>6, <2>7, OneSearchMoves
<1>3. CASE search_chunks(s)
  <2>1. PICK close \in SUBSET {d \in Records : searchable(d)} :
          searcher' = [searcher EXCEPT ![s].at = "ROWS", ![s].found = close]
    BY <1>3 DEF search_chunks
  <2> DEFINE new == [searcher[s] EXCEPT !.at = "ROWS", !.found = close]
  <2>2. /\ new \in Search /\ new.gone = searcher[s].gone
        /\ new.lexical = searcher[s].lexical /\ new.shown = searcher[s].shown
    BY <1>1 DEF Search
  <2>3. searcher' = [searcher EXCEPT ![s] = new]
    BY <1>1, <2>1
  <2>4. UNCHANGED <<record, indexed, file, keeper, runs, unfiled>>
    BY <1>3 DEF search_chunks
  <2> HIDE DEF new
  <2> QED
    BY <1>1, <2>2, <2>3, <2>4, OneSearchMoves DEF SearchFits
<1>4. CASE search_unavailable(s)
  <2> DEFINE new == [searcher[s] EXCEPT !.at = "ROWS"]
  <2>2. /\ new \in Search /\ new.gone = searcher[s].gone
        /\ new.lexical = searcher[s].lexical /\ new.shown = searcher[s].shown
    BY <1>1 DEF Search
  <2>3. searcher' = [searcher EXCEPT ![s] = new]
    BY <1>1, <1>4 DEF search_unavailable
  <2>4. UNCHANGED <<record, indexed, file, keeper, runs, unfiled>>
    BY <1>4 DEF search_unavailable
  <2> HIDE DEF new
  <2> QED
    BY <1>1, <2>2, <2>3, <2>4, OneSearchMoves DEF SearchFits
<1>5. CASE answer_search(s)
  <2> DEFINE shown == {d \in Records : searcher[s].lexical[d] # "NONE"} \cup reloaded(s)
             new == [searcher[s] EXCEPT !.at = "ANSWERED", !.shown = shown]
  <2>1. shown \subseteq Records /\ shown \cap searcher[s].gone = {}
    BY <1>1 DEF reloaded, SearchFits, Search
  <2>2. searcher' = [searcher EXCEPT ![s] = new]
    BY <1>1, <1>5 DEF answer_search
  <2> HIDE DEF shown
  <2>3. /\ new \in Search /\ new.gone = searcher[s].gone
        /\ new.lexical = searcher[s].lexical /\ new.shown = shown
    BY <1>1, <2>1 DEF Search
  <2>4. UNCHANGED <<record, indexed, file, keeper, runs, unfiled>>
    BY <1>5 DEF answer_search
  <2> HIDE DEF new
  <2> QED
    BY <1>1, <2>1, <2>2, <2>3, <2>4, OneSearchMoves DEF SearchFits
<1> QED
  BY <1>2, <1>3, <1>4, <1>5

LEMMA NextRecords == RecordInv /\ [RecordNext]_recordVars => RecordInv'
<1> SUFFICES ASSUME RecordInv, [RecordNext]_recordVars PROVE RecordInv'
  OBVIOUS
<1>1. CASE UNCHANGED recordVars
  BY <1>1 DEF recordVars, RecordInv, RecordTypeOK, UploadsDiffer, RecordFits, KeeperFits,
              SearchFits, present
<1> QED
  BY <1>1, SaveFileKeeps, BeginIndexKeeps, DeleteKeeps, UploadFailsKeeps, CommitKeeps,
     RefreshFailsKeeps, UploadKeeps, IndexKeeps, DeleteFileKeeps, LostKeeps, SearchKeeps
     DEF RecordNext

\* record_service and record_discovery_service: whatever uploads, indexing
\* runs, deletions, crashes and searches overlap, a record's row, its file and
\* its chunks stay together, and a deleted record is not shown again; a row
\* loses its file only to an upload that failed after its commit.
THEOREM RecordsAreWhole == RecordInit /\ [][RecordNext]_recordVars => []RecordsStayWhole
<1>1. RecordInv => RecordsStayWhole
  <2> SUFFICES ASSUME RecordInv PROVE RecordsStayWhole
    OBVIOUS
  <2>1. ASSUME NEW d \in Records
        PROVE  Cardinality(indexed[d]) = IF record[d].status = "INDEXED" THEN 1 ELSE 0
    <3>1. RecordFits(d)
      BY DEF RecordInv
    <3>2. CASE record[d].status = "INDEXED"
      <4>1. PICK run \in 1 .. MaxIndexRuns : indexed[d] = {run}
        BY <3>1, <3>2 DEF RecordFits
      <4> QED
        BY <3>2, <4>1, FS_Singleton
    <3>3. CASE record[d].status # "INDEXED"
      BY <3>1, <3>3, FS_EmptySet DEF RecordFits
    <3> QED
      BY <3>2, <3>3
  <2>2. ChunksAreOfOneRun
    BY <2>1 DEF ChunksAreOfOneRun, RecordInv, RecordFits
  <2> QED
    BY <2>2 DEF RecordsStayWhole, FileIsThere, DeletedIsNotShown, RecordInv, RecordFits,
                SearchFits
<1> QED
  BY <1>1, InitRecords, NextRecords, PTL

----------------------------------------------------------------------------
(* Receipts.  ReceiptIsBookedOnce is not inductive: that a reading is      *)
(* stored once rests on the requests that wait for it, and that a member   *)
(* confirms what was seen on every version a screen may still show.        *)

\* Rows are there from the reading on, and only a photo is waited for.
ImportFits ==
    /\ import.status \in {"ABSENT", "PROCESSING", "FAILED"} => import.rows = <<>>
    /\ import.type = "RECEIPT_IMAGE" => import.job \in Jobs
    /\ import.status = "PROCESSING" => import.type = "RECEIPT_IMAGE"
    /\ import.status = "ABSENT" => import.type = "EXPENSE_CSV"

\* Every request waits for a job of its own, and one that still reads the
\* original for the job the import names.
UploadFits(u) ==
    /\ uploads[u].at # "IDLE" =>
         uploads[u].job \in Jobs /\ ocr[uploads[u].job].status # "NONE"
    /\ uploads[u].at = "SOURCE" =>
         awaits(uploads[u].job) /\ ~ocr[uploads[u].job].late

UploadsWaitApart ==
    \A u, v \in Uploads :
        uploads[u].at # "IDLE" /\ uploads[v].at # "IDLE"
        /\ uploads[u].job = uploads[v].job => u = v

\* A screen that offers confirmation shows an older version or these rows.
ViewFits(e) ==
    view[e].status = "NEEDS_REVIEW" =>
        /\ import.status \in {"NEEDS_REVIEW", "CONFIRMED"}
        /\ view[e].version <= import.version
        /\ view[e].version = import.version => view[e].rows = import.rows

ReceiptInv ==
    /\ ReceiptTypeOK /\ ImportFits
    /\ RowsOfOneReading /\ OneExpensePerRow /\ ConfirmedAsSeen /\ OneJobRuns
    /\ import.status # "CONFIRMED" => ledger.recorded = <<>>
    /\ \A u \in Uploads : UploadFits(u)
    /\ UploadsWaitApart
    /\ \A e \in Importers : ViewFits(e)

RowLists == UNION {[1 .. n -> Row] : n \in 0 .. MaxRows}

LEMMA EmptyRows == <<>> \in RowLists
<1>1. 0 \in 0 .. MaxRows /\ <<>> \in [1 .. 0 -> Row]
  BY ReceiptBounds
<1> QED
  BY <1>1 DEF RowLists

LEMMA RowsAreSequences ==
    ASSUME NEW rows \in RowLists
    PROVE  rows \in Seq(Row) /\ Len(rows) \in Nat /\ DOMAIN rows = 1 .. Len(rows)
<1>1. PICK n \in 0 .. MaxRows : rows \in [1 .. n -> Row]
  BY DEF RowLists
<1>2. n \in Nat
  BY <1>1, ReceiptBounds
<1> QED
  BY <1>1, <1>2

LEMMA ImportFields ==
    ASSUME NEW row \in Import
    PROVE  /\ row.type \in {"EXPENSE_CSV", "RECEIPT_IMAGE"} /\ row.status \in ImportStatus
           /\ row.version \in 1 .. MaxDrafts /\ row.job \in 0 .. MaxOcrJobs
           /\ row.rows \in RowLists /\ row.original \in BOOLEAN
BY DEF Import, RowLists

LEMMA InitReceipt == ReceiptInit => ReceiptInv
<1> SUFFICES ASSUME ReceiptInit PROVE ReceiptInv
  OBVIOUS
<1>1. /\ 1 \in 1 .. MaxDrafts /\ 0 \in 0 .. MaxOcrJobs
  BY ReceiptBounds
<1>2. NoImport \in Import
  BY <1>1, EmptyRows DEF NoImport, Import, ImportStatus, RowLists
<1>3. /\ import.status = "ABSENT" /\ import.type = "EXPENSE_CSV" /\ import.rows = <<>>
      /\ import.version = 1 /\ import.job = 0
      /\ \A e \in Importers : view[e].status = "ABSENT"
  BY DEF ReceiptInit, NoImport
<1>4. uploads \in [Uploads -> Upload] /\ \A u \in Uploads : uploads[u].at = "IDLE"
  BY <1>1 DEF ReceiptInit, Resting, Upload
<1>5. ocr \in [Jobs -> Job] /\ \A j \in Jobs : ocr[j].status = "NONE"
  BY DEF ReceiptInit, Job
<1>6. /\ ledger.recorded = <<>> /\ ledger.kept = 0
      /\ ledger.recorded \in Seq([row: Row, seen: Row]) /\ ledger \in Ledger
      /\ Len(ledger.recorded) = 0
  BY DEF ReceiptInit, Ledger
<1>7. ReceiptTypeOK
  BY <1>2, <1>4, <1>5, <1>6 DEF ReceiptInit, ReceiptTypeOK
<1>8. OneExpensePerRow /\ ConfirmedAsSeen
  BY <1>3, <1>6 DEF OneExpensePerRow, ConfirmedAsSeen
<1> QED
  BY <1>3, <1>4, <1>5, <1>6, <1>7, <1>8 DEF ReceiptInv, ImportFits, UploadFits,
      UploadsWaitApart, ViewFits, RowsOfOneReading, OneJobRuns

\* A step of the readings: a reviewed import keeps its rows.
LEMMA ReadingMoves ==
    ASSUME ReceiptInv, import' \in Import, ocr' \in [Jobs -> Job],
           uploads' \in [Uploads -> Upload], UNCHANGED <<view, ledger>>,
           import'.status = "CONFIRMED" <=> import.status = "CONFIRMED",
           import.status \in {"NEEDS_REVIEW", "CONFIRMED"} =>
               /\ import'.status \in {"NEEDS_REVIEW", "CONFIRMED"}
               /\ import'.rows = import.rows /\ import'.version = import.version,
           ImportFits', RowsOfOneReading', OneJobRuns', UploadsWaitApart',
           \A u \in Uploads : UploadFits(u)'
    PROVE  ReceiptInv'
<1>1. ReceiptTypeOK'
  BY DEF ReceiptInv, ReceiptTypeOK
<1>2. OneExpensePerRow' /\ ConfirmedAsSeen'
  BY DEF ReceiptInv, OneExpensePerRow, ConfirmedAsSeen
<1>3. \A e \in Importers : ViewFits(e)'
  BY DEF ReceiptInv, ViewFits
<1> QED
  BY <1>1, <1>2, <1>3 DEF ReceiptInv

LEMMA ReceiptTypes ==
    ASSUME ReceiptInv
    PROVE  /\ import \in Import /\ ocr \in [Jobs -> Job]
           /\ uploads \in [Uploads -> Upload] /\ view \in [Importers -> Import]
           /\ \A u \in Uploads : uploads[u].at \in {"IDLE", "SOURCE", "MODEL"}
                                 /\ uploads[u].job \in 0 .. MaxOcrJobs
           /\ Resting \in Upload /\ Resting.at = "IDLE"
BY ReceiptBounds DEF ReceiptInv, ReceiptTypeOK, Upload, Resting

LEMMA CsvKeeps ==
    ASSUME ReceiptInv, NEW u \in Uploads, create_csv_import(u)
    PROVE  ReceiptInv'
<1>1. import.status = "ABSENT" /\ UNCHANGED <<ocr, uploads, view, ledger>>
  <2>1. import.status = "ABSENT"
    BY Zenon DEF create_csv_import
  <2>2. UNCHANGED <<ocr, uploads, view, ledger>>
    BY Zenon DEF create_csv_import
  <2> QED
    BY <2>1, <2>2
<1>2. import.type = "EXPENSE_CSV" /\ import.rows = <<>>
  BY <1>1 DEF ReceiptInv, ImportFits
<1>3. /\ import' \in Import /\ import'.type = "EXPENSE_CSV"
      /\ \/ import'.status = "NEEDS_REVIEW"
         \/ import'.status = "FAILED" /\ import'.rows = <<>>
  <2>1. CASE import' = [import EXCEPT !.status = "FAILED", !.original = TRUE]
    BY <1>2, <2>1, ReceiptTypes DEF Import, ImportStatus
  <2>2. ASSUME NEW rows \in parse_expense_csv,
               import' = [import EXCEPT !.status = "NEEDS_REVIEW", !.rows = rows,
                                        !.original = TRUE]
        PROVE  import' \in Import /\ import'.type = "EXPENSE_CSV"
               /\ import'.status = "NEEDS_REVIEW"
    <3>1. \A b \in BOOLEAN : [read |-> 0, draft |-> 1, blocked |-> b] \in Row
      BY ReceiptBounds DEF Row
    <3>2. PICK n \in 0 .. MaxRows :
            rows \in [1 .. n -> {[read |-> 0, draft |-> 1, blocked |-> b] : b \in BOOLEAN}]
      BY <2>2 DEF parse_expense_csv
    <3>3. rows \in [1 .. n -> Row]
      BY <3>1, <3>2
    <3>4. rows \in RowLists
      BY <3>3 DEF RowLists
    <3> QED
      BY <1>2, <2>2, <3>4, ReceiptTypes DEF Import, ImportStatus, RowLists
  <2>3. \/ \E rows \in parse_expense_csv :
                import' = [import EXCEPT !.status = "NEEDS_REVIEW", !.rows = rows,
                                         !.original = TRUE]
        \/ import' = [import EXCEPT !.status = "FAILED", !.original = TRUE]
    BY Zenon DEF create_csv_import
  <2> QED
    BY <2>1, <2>2, <2>3, Zenon
<1>4. OneJobRuns'
  BY <1>1, <1>3 DEF ReceiptInv, OneJobRuns
<1>5. \A v \in Uploads : UploadFits(v)'
  BY <1>1 DEF ReceiptInv, UploadFits, awaits
<1> QED
  BY <1>1, <1>3, <1>4, <1>5, ReceiptTypes, ReadingMoves
     DEF ReceiptInv, ImportFits, RowsOfOneReading, UploadsWaitApart

\* A new job is started for a request that waits from now on.
StartsJob(u, j, at, failed) ==
    /\ j \in Jobs /\ ocr[j].status = "NONE"
    /\ import'.status = "PROCESSING" /\ import'.job = j /\ import'.rows = <<>>
    /\ import'.type = "RECEIPT_IMAGE" /\ import' \in Import
    /\ ocr' = Started(failed, j)
    /\ uploads' = [uploads EXCEPT ![u] = [at |-> at, job |-> j]]

LEMMA StartKeepsReceipt ==
    ASSUME ReceiptInv, NEW u \in Uploads, NEW j, NEW at \in {"SOURCE", "MODEL"},
           NEW failed \in [Jobs -> Job], StartsJob(u, j, at, failed),
           \A i \in Jobs : /\ failed[i].status # "RUNNING"
                           /\ ocr[i].status # "NONE" => failed[i].status # "NONE",
           import.status \in {"ABSENT", "PROCESSING", "FAILED"},
           \A v \in Uploads : uploads[v].at # "SOURCE",
           UNCHANGED <<view, ledger>>
    PROVE  ReceiptInv'
<1> DEFINE started == [status |-> "RUNNING", late |-> FALSE]
           mine == [at |-> at, job |-> j]
<1>1. /\ j \in Jobs /\ started \in Job /\ started.status = "RUNNING" /\ ~started.late
      /\ mine \in Upload /\ mine.at = at /\ mine.job = j
  BY DEF StartsJob, Job, Upload, Jobs
<1>2. ocr' = [failed EXCEPT ![j] = started] /\ uploads' = [uploads EXCEPT ![u] = mine]
  BY DEF StartsJob, Started
<1> HIDE DEF started, mine
<1>3. /\ ocr' \in [Jobs -> Job] /\ ocr'[j] = started
      /\ \A i \in Jobs : i # j => ocr'[i] = failed[i]
  BY <1>1, <1>2
<1>4. /\ uploads' \in [Uploads -> Upload] /\ uploads'[u] = mine
      /\ \A v \in Uploads : v # u => uploads'[v] = uploads[v]
  BY <1>1, <1>2, ReceiptTypes
<1>5. OneJobRuns'
  BY <1>1, <1>3 DEF StartsJob, OneJobRuns
<1>6. ASSUME NEW v \in Uploads PROVE UploadFits(v)'
  <2>1. CASE v = u
    BY <1>1, <1>3, <1>4, <2>1 DEF StartsJob, UploadFits, awaits
  <2>2. CASE v # u
    BY <1>1, <1>3, <1>4, <2>2 DEF ReceiptInv, UploadFits
  <2> QED
    BY <2>1, <2>2
<1>7. UploadsWaitApart'
  BY <1>1, <1>4 DEF ReceiptInv, UploadFits, UploadsWaitApart, StartsJob
<1>8. ImportFits' /\ RowsOfOneReading'
  BY <1>1 DEF StartsJob, ImportFits, RowsOfOneReading
<1>9. import' \in Import /\ import'.status = "PROCESSING"
  BY DEF StartsJob
<1> QED
  BY <1>3, <1>4, <1>5, <1>6, <1>7, <1>8, <1>9, ReadingMoves

LEMMA ImageKeeps ==
    ASSUME ReceiptInv, NEW u \in Uploads, create_image_import(u)
    PROVE  ReceiptInv'
<1>1. NewJob \in Jobs /\ ocr[NewJob].status = "NONE"
  BY DEF create_image_import, job_left, NewJob
<1>2. /\ import.status = "ABSENT" /\ import.rows = <<>> /\ UNCHANGED <<view, ledger>>
      /\ import' = [import EXCEPT !.type = "RECEIPT_IMAGE", !.status = "PROCESSING",
                                  !.job = NewJob, !.original = TRUE]
      /\ ocr' = Started(ocr, NewJob)
      /\ uploads' = [uploads EXCEPT ![u] = [at |-> "MODEL", job |-> NewJob]]
  BY DEF create_image_import, ReceiptInv, ImportFits
<1>3. \A i \in Jobs : ocr[i].status # "RUNNING"
  BY <1>2 DEF ReceiptInv, OneJobRuns
<1>4. \A v \in Uploads : uploads[v].at # "SOURCE"
  BY <1>2 DEF ReceiptInv, UploadFits, awaits
<1>5. StartsJob(u, NewJob, "MODEL", ocr)
  <2>1. NewJob \in 0 .. MaxOcrJobs
    BY <1>1 DEF Jobs
  <2>2. /\ import' \in Import /\ import'.rows = <<>> /\ import'.status = "PROCESSING"
        /\ import'.type = "RECEIPT_IMAGE" /\ import'.job = NewJob
    BY <1>2, <2>1, ReceiptTypes DEF Import, ImportStatus
  <2> QED
    BY <1>1, <1>2, <2>2 DEF StartsJob
<1> QED
  BY <1>2, <1>3, <1>4, <1>5, ReceiptTypes, StartKeepsReceipt

LEMMA RetryImportKeeps ==
    ASSUME ReceiptInv, NEW u \in Uploads, retry_receipt_import(u)
    PROVE  ReceiptInv'
<1> DEFINE k == import.job
           lost == [ocr[k] EXCEPT !.status = "FAILED"]
           failed == IF import.status = "PROCESSING"
                       THEN [ocr EXCEPT ![k].status = "FAILED"] ELSE ocr
<1>1. NewJob \in Jobs /\ ocr[NewJob].status = "NONE"
  BY DEF retry_receipt_import, job_left, NewJob
<1>2. /\ import.type = "RECEIPT_IMAGE" /\ retryable /\ UNCHANGED <<view, ledger>>
      /\ ocr' = Started(failed, NewJob)
      /\ import' = [import EXCEPT !.status = "PROCESSING", !.job = NewJob]
      /\ uploads' = [uploads EXCEPT ![u] = [at |-> "SOURCE", job |-> NewJob]]
  BY DEF retry_receipt_import
<1>3. import.status \in {"PROCESSING", "FAILED"} /\ import.rows = <<>> /\ k \in Jobs
  BY <1>2 DEF retryable, ReceiptInv, ImportFits
<1>4. lost \in Job /\ lost.status = "FAILED"
  BY <1>3, ReceiptTypes DEF Job
<1>5. /\ failed \in [Jobs -> Job]
      /\ \A i \in Jobs : failed[i] = IF i = k /\ import.status = "PROCESSING"
                                     THEN lost ELSE ocr[i]
  BY <1>3, <1>4, ReceiptTypes
<1>6. \A i \in Jobs : ocr[i].status = "RUNNING" => i = k /\ import.status = "PROCESSING"
  BY DEF ReceiptInv, OneJobRuns
<1>7. \A v \in Uploads : uploads[v].at # "SOURCE"
  BY <1>2 DEF retryable, ReceiptInv, UploadFits, awaits
<1>8. StartsJob(u, NewJob, "SOURCE", failed)
  <2>1. NewJob \in 0 .. MaxOcrJobs
    BY <1>1 DEF Jobs
  <2>2. /\ import' \in Import /\ import'.rows = <<>> /\ import'.status = "PROCESSING"
        /\ import'.type = "RECEIPT_IMAGE" /\ import'.job = NewJob
    BY <1>2, <1>3, <2>1, ReceiptTypes DEF Import, ImportStatus
  <2> HIDE DEF failed
  <2> QED
    BY <1>1, <1>2, <2>2 DEF StartsJob
<1> HIDE DEF failed, lost, k
<1>9. \A i \in Jobs : /\ failed[i].status # "RUNNING"
                      /\ ocr[i].status # "NONE" => failed[i].status # "NONE"
  BY <1>4, <1>5, <1>6
<1> QED
  BY <1>2, <1>3, <1>5, <1>7, <1>8, <1>9, StartKeepsReceipt

LEMMA JobStatusSet ==
    ASSUME ReceiptInv, NEW j \in Jobs, NEW st \in {"FAILED", "SUCCEEDED"},
           ocr' = [ocr EXCEPT ![j].status = st]
    PROVE  /\ ocr' \in [Jobs -> Job]
           /\ \A i \in Jobs : /\ ocr'[i].status = IF i = j THEN st ELSE ocr[i].status
                              /\ ocr'[i].late = ocr[i].late
<1> DEFINE row == [ocr[j] EXCEPT !.status = st]
<1>1. row \in Job /\ row.status = st /\ row.late = ocr[j].late
  BY ReceiptTypes DEF Job
<1>2. ocr' = [ocr EXCEPT ![j] = row]
  BY ReceiptTypes
<1> HIDE DEF row
<1> QED
  BY <1>1, <1>2, ReceiptTypes

LEMMA WaitEnds ==
    ASSUME ReceiptInv, NEW u \in Uploads, uploads' = [uploads EXCEPT ![u] = Resting]
    PROVE  /\ uploads' \in [Uploads -> Upload] /\ uploads'[u].at = "IDLE"
           /\ \A v \in Uploads : v # u => uploads'[v] = uploads[v]
           /\ UploadsWaitApart'
<1>1. /\ uploads' \in [Uploads -> Upload] /\ uploads'[u].at = "IDLE"
      /\ \A v \in Uploads : v # u => uploads'[v] = uploads[v]
  BY ReceiptTypes
<1> QED
  BY <1>1 DEF ReceiptInv, UploadsWaitApart

\* The job of request u ends, and with it what the import waits for.
LEMMA ReadingEnds ==
    ASSUME ReceiptInv, NEW u \in Uploads, NEW st \in {"FAILED", "SUCCEEDED"},
           uploads[u].at # "IDLE", awaits(uploads[u].job),
           uploads' = [uploads EXCEPT ![u] = Resting],
           ocr' = [ocr EXCEPT ![uploads[u].job].status = st],
           import' \in Import, import'.type = import.type, import'.job = import.job,
           import'.status = (IF st = "FAILED" THEN "FAILED" ELSE "NEEDS_REVIEW"),
           st = "FAILED" => import'.rows = <<>>,
           st = "SUCCEEDED" =>
               /\ import'.rows # <<>>
               /\ \A n \in DOMAIN import'.rows : import'.rows[n].read = import'.job,
           UNCHANGED <<view, ledger>>
    PROVE  ReceiptInv'
<1> DEFINE j == uploads[u].job
<1>1. j \in Jobs /\ import.job = j /\ import.status = "PROCESSING"
  BY DEF ReceiptInv, UploadFits, awaits
<1>2. /\ ocr' \in [Jobs -> Job]
      /\ \A i \in Jobs : /\ ocr'[i].status = IF i = j THEN st ELSE ocr[i].status
                         /\ ocr'[i].late = ocr[i].late
  BY <1>1, JobStatusSet
<1>3. /\ uploads' \in [Uploads -> Upload] /\ uploads'[u].at = "IDLE"
      /\ \A v \in Uploads : v # u => uploads'[v] = uploads[v]
      /\ UploadsWaitApart'
  BY WaitEnds
<1>4. \A v \in Uploads : v # u /\ uploads[v].at # "IDLE" => uploads[v].job # j
  BY DEF ReceiptInv, UploadsWaitApart
<1> HIDE DEF j
<1>5. OneJobRuns'
  BY <1>1, <1>2 DEF ReceiptInv, OneJobRuns
<1>6. ASSUME NEW v \in Uploads PROVE UploadFits(v)'
  <2>1. CASE v = u
    BY <1>3, <2>1 DEF UploadFits
  <2>2. CASE v # u
    BY <1>1, <1>2, <1>3, <1>4, <2>2 DEF ReceiptInv, UploadFits, awaits
  <2> QED
    BY <2>1, <2>2
<1>7. ImportFits'
  BY <1>1 DEF ReceiptInv, ImportFits
<1>8. RowsOfOneReading'
  BY <1>1, <1>2 DEF ReceiptInv, ImportFits, RowsOfOneReading
<1> QED
  BY <1>1, <1>2, <1>3, <1>5, <1>6, <1>7, <1>8, ReadingMoves

LEMMA FinishOcrKeeps ==
    ASSUME ReceiptInv, NEW u \in Uploads, finish_ocr(u)
    PROVE  ReceiptInv'
<1> DEFINE j == uploads[u].job
<1>1. /\ uploads[u].at = "MODEL" /\ uploads' = [uploads EXCEPT ![u] = Resting]
      /\ UNCHANGED <<view, ledger>>
  BY Zenon DEF finish_ocr
<1>2. CASE /\ awaits(j) /\ import' = [import EXCEPT !.status = "FAILED"]
           /\ ocr' = [ocr EXCEPT ![j].status = "FAILED"]
  <2>1. import.rows = <<>>
    BY <1>2 DEF awaits, ReceiptInv, ImportFits
  <2>2. /\ import' \in Import /\ import'.type = import.type /\ import'.job = import.job
        /\ import'.status = "FAILED" /\ import'.rows = <<>>
    BY <1>2, <2>1, ReceiptTypes DEF Import, ImportStatus
  <2> QED
    BY <1>1, <1>2, <2>2, ReadingEnds
<1>3. ASSUME awaits(j), NEW rows \in OcrRows(j),
             import' = [import EXCEPT !.status = "NEEDS_REVIEW", !.rows = rows],
             ocr' = [ocr EXCEPT ![j].status = "SUCCEEDED"]
      PROVE  ReceiptInv'
  <2>1. PICK n \in 1 .. MaxRows :
          rows \in [1 .. n -> {[read |-> j, draft |-> 1, blocked |-> b] : b \in BOOLEAN}]
    BY <1>3 DEF OcrRows
  <2>2. j \in 0 .. MaxOcrJobs /\ n \in 0 .. MaxRows /\ 1 \in 0 .. MaxDrafts /\ 1 \in 1 .. n
    BY <2>1, ReceiptTypes, ReceiptBounds
  <2> HIDE DEF j
  <2>3. \A b \in BOOLEAN : /\ [read |-> j, draft |-> 1, blocked |-> b] \in Row
                           /\ [read |-> j, draft |-> 1, blocked |-> b].read = j
    BY <2>2 DEF Row
  <2>4. /\ rows \in [1 .. n -> Row] /\ \A i \in DOMAIN rows : rows[i].read = j
        /\ DOMAIN rows = 1 .. n
    BY <2>1, <2>3
  <2>5. rows \in RowLists /\ rows # <<>>
    BY <2>2, <2>4 DEF RowLists
  <2>6. /\ import' \in Import /\ import'.type = import.type /\ import'.job = import.job
        /\ import'.status = "NEEDS_REVIEW" /\ import'.rows = rows
    BY <1>3, <2>5, ReceiptTypes DEF Import, ImportStatus, RowLists
  <2>7. import.job = j
    BY <1>3 DEF awaits
  <2> USE DEF j
  <2> QED
    BY <1>1, <1>3, <2>4, <2>5, <2>6, <2>7, ReadingEnds
<1>4. CASE UNCHANGED <<import, ocr>>
  <2>1. /\ uploads' \in [Uploads -> Upload] /\ uploads'[u].at = "IDLE"
        /\ \A v \in Uploads : v # u => uploads'[v] = uploads[v]
        /\ UploadsWaitApart'
    BY <1>1, WaitEnds
  <2>2. \A v \in Uploads : UploadFits(v)'
    BY <1>4, <2>1 DEF ReceiptInv, UploadFits, awaits
  <2> QED
    BY <1>1, <1>4, <2>1, <2>2, ReceiptTypes, ReadingMoves
       DEF ReceiptInv, ImportFits, RowsOfOneReading, OneJobRuns
<1>5. \/ /\ awaits(j) /\ import' = [import EXCEPT !.status = "FAILED"]
         /\ ocr' = [ocr EXCEPT ![j].status = "FAILED"]
      \/ /\ awaits(j)
         /\ \E rows \in OcrRows(j) :
               import' = [import EXCEPT !.status = "NEEDS_REVIEW", !.rows = rows]
         /\ ocr' = [ocr EXCEPT ![j].status = "SUCCEEDED"]
      \/ UNCHANGED <<import, ocr>>
  BY Zenon DEF finish_ocr
<1> HIDE DEF j
<1> QED
  BY <1>2, <1>3, <1>4, <1>5, Zenon

LEMMA SourceReadKeeps ==
    ASSUME ReceiptInv, NEW u \in Uploads, source_read(u)
    PROVE  ReceiptInv'
<1> DEFINE row == [uploads[u] EXCEPT !.at = "MODEL"]
<1>1. row \in Upload /\ row.at = "MODEL" /\ row.job = uploads[u].job
  BY ReceiptTypes DEF Upload
<1>2. /\ uploads[u].at = "SOURCE" /\ uploads' = [uploads EXCEPT ![u] = row]
      /\ UNCHANGED <<import, ocr, view, ledger>>
  BY ReceiptTypes DEF source_read
<1> HIDE DEF row
<1>3. /\ uploads' \in [Uploads -> Upload]
      /\ \A v \in Uploads : uploads'[v] = IF v = u THEN row ELSE uploads[v]
  BY <1>1, <1>2, ReceiptTypes
<1>4. \A v \in Uploads : UploadFits(v)'
  BY <1>1, <1>2, <1>3 DEF ReceiptInv, UploadFits, awaits
<1>5. UploadsWaitApart'
  BY <1>1, <1>2, <1>3 DEF ReceiptInv, UploadsWaitApart
<1> QED
  BY <1>2, <1>3, <1>4, <1>5, ReceiptTypes, ReadingMoves
     DEF ReceiptInv, ImportFits, RowsOfOneReading, OneJobRuns

\* The stale check of source_unavailable is harmless while the original is
\* read in time: the import still waits for this job.
LEMMA SourceUnavailableKeeps ==
    ASSUME ReceiptInv, NEW u \in Uploads, source_unavailable(u)
    PROVE  ReceiptInv'
<1>1. /\ uploads[u].at = "SOURCE" /\ import' = [import EXCEPT !.status = "FAILED"]
      /\ ocr' = [ocr EXCEPT ![uploads[u].job].status = "FAILED"]
      /\ uploads' = [uploads EXCEPT ![u] = Resting]
      /\ UNCHANGED <<view, ledger>>
  BY DEF source_unavailable
<1>2. awaits(uploads[u].job) /\ import.rows = <<>>
  BY <1>1 DEF ReceiptInv, UploadFits, awaits, ImportFits
<1>3. /\ import' \in Import /\ import'.type = import.type /\ import'.job = import.job
      /\ import'.status = "FAILED" /\ import'.rows = <<>>
  BY <1>1, <1>2, ReceiptTypes DEF Import, ImportStatus
<1> QED
  BY <1>1, <1>2, <1>3, ReadingEnds

LEMMA UploadLostKeeps ==
    ASSUME ReceiptInv, NEW u \in Uploads, upload_lost(u)
    PROVE  ReceiptInv'
<1>1. /\ uploads' = [uploads EXCEPT ![u] = Resting]
      /\ UNCHANGED <<import, ocr, view, ledger>>
  BY DEF upload_lost
<1>2. /\ uploads' \in [Uploads -> Upload] /\ uploads'[u].at = "IDLE"
      /\ \A v \in Uploads : v # u => uploads'[v] = uploads[v]
      /\ UploadsWaitApart'
  BY <1>1, WaitEnds
<1>3. \A v \in Uploads : UploadFits(v)'
  BY <1>1, <1>2 DEF ReceiptInv, UploadFits, awaits
<1> QED
  BY <1>1, <1>2, <1>3, ReceiptTypes, ReadingMoves
     DEF ReceiptInv, ImportFits, RowsOfOneReading, OneJobRuns

LEMMA LateKeeps ==
    ASSUME ReceiptInv, ~SlowStorage, NEW j \in Jobs, ocr_late(j)
    PROVE  ReceiptInv'
<1> DEFINE row == [ocr[j] EXCEPT !.late = TRUE]
<1>1. row \in Job /\ row.status = ocr[j].status
  BY ReceiptTypes DEF Job
<1>2. /\ ocr' = [ocr EXCEPT ![j] = row] /\ UNCHANGED <<import, uploads, view, ledger>>
      /\ \A u \in Uploads : uploads[u] # [at |-> "SOURCE", job |-> j]
  BY ReceiptTypes DEF ocr_late
<1> HIDE DEF row
<1>3. /\ ocr' \in [Jobs -> Job]
      /\ \A i \in Jobs : /\ ocr'[i].status = ocr[i].status
                         /\ i # j => ocr'[i] = ocr[i]
  BY <1>1, <1>2, ReceiptTypes
<1>4. ASSUME NEW u \in Uploads, uploads[u].at = "SOURCE" PROVE uploads[u].job # j
  BY <1>2, <1>4, ReceiptTypes DEF Upload
<1>5. \A u \in Uploads : UploadFits(u)'
  BY <1>2, <1>3, <1>4 DEF ReceiptInv, UploadFits, awaits
<1>6. RowsOfOneReading' /\ OneJobRuns'
  BY <1>2, <1>3 DEF ReceiptInv, ImportFits, RowsOfOneReading, OneJobRuns
<1> QED
  BY <1>2, <1>3, <1>5, <1>6, ReceiptTypes, ReadingMoves
     DEF ReceiptInv, ImportFits, UploadsWaitApart

LEMMA DeleteOriginalKeeps ==
    ASSUME ReceiptInv, delete_original
    PROVE  ReceiptInv'
<1>1. /\ import' = [import EXCEPT !.original = FALSE]
      /\ UNCHANGED <<ocr, uploads, view, ledger>>
  BY DEF delete_original
<1>2. /\ import' \in Import /\ import'.type = import.type /\ import'.job = import.job
      /\ import'.status = import.status /\ import'.rows = import.rows
      /\ import'.version = import.version
  BY <1>1, ReceiptTypes DEF Import
<1>3. \A u \in Uploads : UploadFits(u)'
  BY <1>1, <1>2 DEF ReceiptInv, UploadFits, awaits
<1> QED
  BY <1>1, <1>2, <1>3, ReceiptTypes, ReadingMoves
     DEF ReceiptInv, ImportFits, RowsOfOneReading, OneJobRuns, UploadsWaitApart

LEMMA GetImportKeeps ==
    ASSUME ReceiptInv, NEW e \in Importers, get_receipt_import(e)
    PROVE  ReceiptInv'
<1>1. /\ view' = [view EXCEPT ![e] = import] /\ UNCHANGED <<import, ocr, uploads, ledger>>
  BY DEF get_receipt_import
<1>2. /\ view' \in [Importers -> Import]
      /\ \A x \in Importers : view'[x] = IF x = e THEN import ELSE view[x]
  BY <1>1, ReceiptTypes
<1>3. import.version \in Nat
  BY ReceiptTypes, ImportFields
<1>4. \A x \in Importers : ViewFits(x)'
  BY <1>1, <1>2, <1>3 DEF ReceiptInv, ViewFits
<1>5. \A u \in Uploads : UploadFits(u)'
  BY <1>1 DEF ReceiptInv, UploadFits, awaits
<1> QED
  BY <1>1, <1>2, <1>4, <1>5 DEF ReceiptInv, ReceiptTypeOK, ImportFits,
      RowsOfOneReading, OneExpensePerRow, ConfirmedAsSeen, OneJobRuns, UploadsWaitApart

\* A correction makes every version a screen shows an older one.
LEMMA UpdateDraftKeeps ==
    ASSUME ReceiptInv, NEW e \in Importers, update_draft(e)
    PROVE  ReceiptInv'
<1>1. PICK edited \in SUBSET (DOMAIN import.rows), all \in BOOLEAN :
        import' = [import EXCEPT
                     !.version = @ + 1,
                     !.rows = [n \in DOMAIN @ |->
                                 IF n \in edited
                                   THEN Corrected(@[n], import.version + 1, all)
                                   ELSE @[n]]]
  BY Zenon DEF update_draft
<1>2. /\ import.status = "NEEDS_REVIEW" /\ import.version < MaxDrafts
      /\ UNCHANGED <<ocr, uploads, view, ledger>>
  <2>1. import.status = "NEEDS_REVIEW" /\ import.version < MaxDrafts
    BY Zenon DEF update_draft
  <2>2. UNCHANGED <<ocr, uploads, view, ledger>>
    BY Zenon DEF update_draft
  <2> QED
    BY <2>1, <2>2
<1> DEFINE old == import.rows
           v == import.version + 1
           rows == [n \in DOMAIN old |->
                      IF n \in edited THEN Corrected(old[n], v, all) ELSE old[n]]
<1>3. /\ import.version \in 1 .. MaxDrafts /\ v \in 1 .. MaxDrafts /\ v \in 0 .. MaxDrafts
      /\ old \in RowLists
  BY <1>2, ReceiptTypes, ImportFields, ReceiptBounds
<1>4. import' = [import EXCEPT !.version = v, !.rows = rows]
  BY <1>1, ReceiptTypes DEF Import
<1>5. PICK k \in 0 .. MaxRows : old \in [1 .. k -> Row]
  BY <1>3 DEF RowLists
<1> HIDE DEF old, v
<1>6. \A row \in Row : /\ Corrected(row, v, all) \in Row
                       /\ Corrected(row, v, all).read = row.read
  BY <1>3 DEF Corrected, Row
<1>7. /\ rows \in [1 .. k -> Row] /\ DOMAIN rows = DOMAIN old
      /\ \A n \in DOMAIN old : rows[n].read = old[n].read
  BY <1>5, <1>6
<1>8. rows \in RowLists
  BY <1>7 DEF RowLists
<1>9. old # <<>> => rows # <<>>
  BY <1>5, <1>7
<1> HIDE DEF rows
<1>10. /\ import' \in Import /\ import'.type = import.type /\ import'.job = import.job
       /\ import'.status = import.status /\ import'.version = v /\ import'.rows = rows
  BY <1>3, <1>4, <1>8, ReceiptTypes DEF Import, RowLists
<1>11. \A x \in Importers : ViewFits(x)'
  <2>1. \A x \in Importers : view[x].version \in 1 .. MaxDrafts
    BY ReceiptTypes, ImportFields
  <2>2. v = import.version + 1
    BY DEF v
  <2> QED
    BY <1>2, <1>3, <1>10, <2>1, <2>2 DEF ReceiptInv, ViewFits
<1>12. RowsOfOneReading'
  BY <1>2, <1>7, <1>9, <1>10 DEF ReceiptInv, RowsOfOneReading, old
<1>13. \A u \in Uploads : UploadFits(u)'
  BY <1>2, <1>10 DEF ReceiptInv, UploadFits, awaits
<1>14. OneExpensePerRow' /\ ConfirmedAsSeen'
  BY <1>2, <1>10 DEF ReceiptInv, OneExpensePerRow, ConfirmedAsSeen
<1>15. ReceiptTypeOK' /\ ImportFits'
  BY <1>2, <1>10 DEF ReceiptInv, ReceiptTypeOK, ImportFits
<1> QED
  BY <1>2, <1>10, <1>11, <1>12, <1>13, <1>14, <1>15
     DEF ReceiptInv, OneJobRuns, UploadsWaitApart

\* The version check makes the rows that are booked the rows that were seen.
LEMMA ConfirmKeeps ==
    ASSUME ReceiptInv, NEW e \in Importers, confirm_receipt_import(e)
    PROVE  ReceiptInv'
<1> DEFINE rows == import.rows
           booked == [n \in DOMAIN rows |->
                        [row |-> rows[n],
                         seen |-> IF n \in DOMAIN view[e].rows THEN view[e].rows[n]
                                  ELSE [rows[n] EXCEPT !.draft = 0]]]
<1>1. /\ version_seen(e) /\ import.status = "NEEDS_REVIEW"
      /\ import' = [import EXCEPT !.status = "CONFIRMED"]
      /\ UNCHANGED <<ocr, uploads, view>>
  BY DEF confirm_receipt_import, under_review
<1>2. ledger' = [recorded |-> ledger.recorded \o booked,
                 kept |-> ledger.kept + Len(rows)]
  BY DEF confirm_receipt_import
<1>3. view[e].rows = rows
  BY <1>1 DEF version_seen, ReceiptInv, ViewFits
<1>4. booked = [n \in DOMAIN rows |-> [row |-> rows[n], seen |-> rows[n]]]
  BY <1>3
<1>5. rows \in Seq(Row) /\ Len(rows) \in Nat /\ DOMAIN rows = 1 .. Len(rows)
  BY RowsAreSequences, ReceiptTypes, ImportFields
<1> HIDE DEF rows, booked
<1>6. /\ booked \in Seq([row: Row, seen: Row]) /\ Len(booked) = Len(rows)
      /\ DOMAIN booked = DOMAIN rows
      /\ \A n \in DOMAIN rows : booked[n].row = rows[n] /\ booked[n].seen = rows[n]
  BY <1>4, <1>5
<1>7. ledger.recorded = <<>> /\ ledger.kept = 0
  BY <1>1 DEF ReceiptInv, ReceiptTypeOK, Ledger
<1>8. ledger.recorded \o booked = booked
  BY <1>6, <1>7
<1>9. ledger' = [recorded |-> booked, kept |-> Len(rows)]
  BY <1>2, <1>5, <1>7, <1>8
<1>10. /\ ledger' \in Ledger /\ ledger'.recorded = booked /\ ledger'.kept = Len(rows)
  BY <1>5, <1>6, <1>9 DEF Ledger
<1>11. /\ import' \in Import /\ import'.type = import.type /\ import'.job = import.job
       /\ import'.status = "CONFIRMED" /\ import'.version = import.version
       /\ import'.rows = rows
  BY <1>1, ReceiptTypes DEF Import, ImportStatus, rows
<1>12. ReceiptTypeOK' /\ ImportFits'
  BY <1>1, <1>5, <1>6, <1>10, <1>11 DEF ReceiptInv, ReceiptTypeOK, ImportFits
<1>13. OneExpensePerRow'
  <2>1. [n \in DOMAIN booked |-> booked[n].row] = rows
    BY <1>5, <1>6
  <2> QED
    BY <1>10, <1>11, <2>1 DEF OneExpensePerRow
<1>14. ConfirmedAsSeen'
  BY <1>6, <1>10 DEF ConfirmedAsSeen
<1>15. RowsOfOneReading' /\ OneJobRuns'
  BY <1>1, <1>11 DEF ReceiptInv, RowsOfOneReading, OneJobRuns, rows
<1>16. \A u \in Uploads : UploadFits(u)'
  BY <1>1 DEF ReceiptInv, UploadFits, awaits
<1>17. \A x \in Importers : ViewFits(x)'
  BY <1>1, <1>11 DEF ReceiptInv, ViewFits, rows
<1> QED
  BY <1>1, <1>11, <1>12, <1>13, <1>14, <1>15, <1>16, <1>17
     DEF ReceiptInv, UploadsWaitApart

LEMMA DeleteExpenseKeeps ==
    ASSUME ReceiptInv, delete_expense
    PROVE  ReceiptInv'
<1>1. /\ ledger.kept > 0 /\ ledger' = [ledger EXCEPT !.kept = ledger.kept - 1]
      /\ UNCHANGED <<import, ocr, uploads, view>>
  BY DEF delete_expense, ReceiptInv, ReceiptTypeOK, Ledger
<1>2. /\ ledger \in Ledger /\ ledger.kept \in Nat /\ ledger.kept <= Len(ledger.recorded)
      /\ ledger.recorded \in Seq([row: Row, seen: Row])
  BY DEF ReceiptInv, ReceiptTypeOK, Ledger
<1>3. ledger.kept - 1 \in Nat /\ ledger.kept - 1 <= Len(ledger.recorded)
  BY <1>1, <1>2
<1>4. /\ ledger' \in Ledger /\ ledger'.recorded = ledger.recorded
      /\ ledger'.kept = ledger.kept - 1
  BY <1>1, <1>2, <1>3 DEF Ledger
<1>5. ReceiptTypeOK'
  BY <1>1, <1>3, <1>4 DEF ReceiptInv, ReceiptTypeOK
<1>6. \A u \in Uploads : UploadFits(u)'
  BY <1>1 DEF ReceiptInv, UploadFits, awaits
<1> QED
  BY <1>1, <1>4, <1>5, <1>6 DEF ReceiptInv, ImportFits, RowsOfOneReading, OneJobRuns,
      OneExpensePerRow, ConfirmedAsSeen, UploadsWaitApart, ViewFits

LEMMA NextReceipt ==
    ~SlowStorage => (ReceiptInv /\ [ReceiptNext]_receiptVars => ReceiptInv')
<1> SUFFICES ASSUME ~SlowStorage, ReceiptInv, [ReceiptNext]_receiptVars PROVE ReceiptInv'
  OBVIOUS
<1>1. CASE UNCHANGED receiptVars
  <2>1. UNCHANGED <<import, ocr, uploads, view, ledger>>
    BY <1>1 DEF receiptVars
  <2>2. \A u \in Uploads : UploadFits(u)'
    BY <2>1 DEF ReceiptInv, UploadFits, awaits
  <2> QED
    BY <2>1, <2>2, ReceiptTypes, ReadingMoves
       DEF ReceiptInv, ImportFits, RowsOfOneReading, OneJobRuns, UploadsWaitApart
<1> QED
  BY <1>1, CsvKeeps, ImageKeeps, FinishOcrKeeps, RetryImportKeeps, SourceReadKeeps,
     SourceUnavailableKeeps, UploadLostKeeps, GetImportKeeps, UpdateDraftKeeps,
     ConfirmKeeps, LateKeeps, DeleteOriginalKeeps, DeleteExpenseKeeps DEF ReceiptNext

\* accounting_service: however late, often or concurrently a receipt is read,
\* corrected and confirmed, every row is booked once, as the member saw it;
\* as long as the original is read within OCR_TIMEOUT.
THEOREM ReceiptsAreBookedOnce ==
    ~SlowStorage =>
        (ReceiptInit /\ [][ReceiptNext]_receiptVars => []ReceiptIsBookedOnce)
<1> SUFFICES ASSUME ~SlowStorage
             PROVE  ReceiptInit /\ [][ReceiptNext]_receiptVars => []ReceiptIsBookedOnce
  OBVIOUS
<1>1. ReceiptInv /\ [ReceiptNext]_receiptVars => ReceiptInv'
  BY NextReceipt
<1>2. ReceiptInv => ReceiptIsBookedOnce
  BY DEF ReceiptInv, ReceiptIsBookedOnce
<1> QED
  BY <1>1, <1>2, InitReceipt, PTL

----------------------------------------------------------------------------
(* Cases.  CaseIsAnsweredOnce is not inductive: whether a late answer may  *)
(* be applied depends on the tokens that are still in flight, so the       *)
(* invariant relates each request that waits for the model to the row.     *)

\* The attempt on the row is the newest one or none; PROCESSING is shown by a
\* row that has one.
AttemptIsNewest ==
    /\ case.attempt \in {0, case.issued}
    /\ case.question = "PROCESSING" \/ case.result = "PROCESSING" =>
         case.attempt = case.issued

\* A confirmation is opened by the answer that ends the question stage, and
\* the result stage is entered only from an answered one.
StagesInOrder ==
    /\ case.actions <= 1
    /\ case.answered => case.actions > 0
    /\ case.actions > 0 <=> case.question = "NEEDS_ANSWER"
    /\ case.question = "NO_QUESTION" => case.result = "READY"
    /\ case.result # "NOT_REQUESTED" =>
         \/ case.question = "NEEDS_ANSWER" /\ case.answered
         \/ case.question = "NO_QUESTION" /\ case.result = "READY"
    /\ case.result = "READY" => case.written = case.issued

\* A request that waits for the model holds an attempt that was issued, and if
\* it is the current one its stage is PROCESSING.
CallsHoldAttempts ==
    \A c \in Callers : calls[c].at = "MODEL" =>
        /\ calls[c].token \in 1 .. case.issued
        /\ same_token(c) =>
             IF calls[c].stage = "QUESTION" THEN case.question = "PROCESSING"
                                            ELSE case.result = "PROCESSING"

CaseInv == CaseTypeOK /\ AttemptIsNewest /\ StagesInOrder /\ CallsHoldAttempts

----------------------------------------------------------------------------
(* The invariant is kept by every step *)

LEMMA InitCase == CaseInit => CaseInv
BY CaseBounds
   DEF CaseInit, CaseInv, CaseTypeOK, AttemptIsNewest, StagesInOrder,
       CallsHoldAttempts, Case, CaseCall, Idle, Situations, Stages, Error

\* The fields of the row and of a request, as the steps below use them.
LEMMA CaseTypes ==
    ASSUME CaseTypeOK
    PROVE  /\ case.situation \in {0, 1, 2}
           /\ case.actions \in Nat /\ case.issued \in Nat
           /\ case.attempt \in Nat /\ case.written \in Nat
           /\ \A c \in Callers : calls[c].stage \in Stages /\ calls[c].token \in Nat
BY CaseBounds DEF CaseTypeOK, Case, CaseCall, Situations

\* What the updates of the row do to its fields.
LEMMA WithStatusFields ==
    ASSUME NEW row \in Case, NEW stage \in Stages, NEW st \in {"PROCESSING", "FAILED"}
    PROVE  LET new == WithStatus(row, stage, st)
           IN  /\ new \in Case
               /\ new.issued = row.issued /\ new.actions = row.actions
               /\ new.answered = row.answered /\ new.written = row.written
               /\ stage = "QUESTION" => new.question = st /\ new.result = row.result
               /\ stage = "RESULT" => new.result = st /\ new.question = row.question
BY DEF WithStatus, Case, Stages

LEMMA ClearedFields ==
    ASSUME NEW row \in Case
    PROVE  /\ Cleared(row) \in Case
           /\ Cleared(row).attempt = 0 /\ Cleared(row).issued = row.issued
           /\ Cleared(row).question = row.question /\ Cleared(row).result = row.result
           /\ Cleared(row).actions = row.actions /\ Cleared(row).answered = row.answered
           /\ Cleared(row).written = row.written
<1>1. 0 \in 0 .. MaxCaseAttempts
  BY CaseBounds
<1>2. Cleared(row) \in Case
  BY <1>1 DEF Cleared, Case
<1> QED
  BY <1>2 DEF Cleared, Case

LEMMA FailedFields ==
    ASSUME CaseTypeOK, NEW stage \in Stages, NEW code \in Error
    PROVE  LET new == FailedWith(stage, code)
           IN  /\ new \in Case /\ new.attempt = 0 /\ new.issued = case.issued
               /\ new.actions = case.actions /\ new.answered = case.answered
               /\ new.written = case.written
               /\ stage = "QUESTION" => new.question = "FAILED" /\ new.result = case.result
               /\ stage = "RESULT" => new.result = "FAILED" /\ new.question = case.question
<1> DEFINE a == WithStatus(case, stage, "FAILED")
           b == [a EXCEPT !.error = code]
<1>1. /\ a \in Case /\ a.issued = case.issued /\ a.actions = case.actions
      /\ a.answered = case.answered /\ a.written = case.written
      /\ stage = "QUESTION" => a.question = "FAILED" /\ a.result = case.result
      /\ stage = "RESULT" => a.result = "FAILED" /\ a.question = case.question
  BY WithStatusFields DEF CaseTypeOK
<1> HIDE DEF a
<1>2. /\ b \in Case /\ b.issued = a.issued /\ b.actions = a.actions
      /\ b.answered = a.answered /\ b.written = a.written
      /\ b.question = a.question /\ b.result = a.result
  BY <1>1 DEF Case
<1>3. FailedWith(stage, code) = Cleared(b)
  BY DEF FailedWith, a
<1> HIDE DEF b
<1> QED
  BY <1>1, <1>2, <1>3, ClearedFields

\* A call that ends a stage leaves no attempt on the row, so that no token in
\* flight is the current one.
LEMMA EndingFreesTheRow ==
    ASSUME CaseInv, NEW c \in Callers, calls[c].at = "MODEL", same_token(c),
           NEW row \in Case, case' = row, row.attempt = 0,
           row.issued = case.issued, calls' = [calls EXCEPT ![c] = Idle]
    PROVE  CallsHoldAttempts'
<1> USE CaseBounds
<1>1. CaseTypeOK /\ CallsHoldAttempts
  BY DEF CaseInv
<1>2. \A d \in Callers : calls'[d].at = "MODEL" => d # c /\ calls'[d] = calls[d]
  BY <1>1 DEF CaseTypeOK, Idle
<1>3. case.issued \in Nat /\ \A d \in Callers : calls[d].token \in Nat
  BY <1>1, CaseTypes
<1> QED
  BY <1>1, <1>2, <1>3 DEF CallsHoldAttempts, same_token

LEMMA CreateCase ==
    ASSUME CaseInv, NEW c \in Callers, NEW s \in Situations, create(c, s)
    PROVE  CaseInv'
<1>1. CaseTypeOK'
  BY DEF CaseInv, create, CaseTypeOK, Case, CaseCall, Idle, Stages
<1>2. /\ case'.question = case.question /\ case'.result = case.result
      /\ case'.actions = case.actions /\ case'.answered = case.answered
      /\ case'.attempt = case.attempt /\ case'.issued = case.issued
      /\ case'.written = case.written
  BY DEF CaseInv, create, CaseTypeOK, Case
<1>3. \A d \in Callers : calls'[d].at = "MODEL" => calls'[d] = calls[d]
  BY DEF CaseInv, create, CaseTypeOK
<1> QED
  BY <1>1, <1>2, <1>3
     DEF CaseInv, AttemptIsNewest, StagesInOrder, CallsHoldAttempts, same_token

LEMMA BeginRun ==
    ASSUME CaseInv, NEW c \in Callers, NEW stage \in Stages, NEW valid \in BOOLEAN,
           begin_run(c, stage, valid)
    PROVE  CaseInv'
<1> USE CaseBounds
<1>1. CaseTypeOK'
  <2>1. calls' \in [Callers -> CaseCall] /\ operating' \in BOOLEAN
    BY CaseTypes DEF CaseInv, begin_run, CaseTypeOK, CaseCall, Idle, Stages
  <2>2. CASE valid
    <3> DEFINE a == WithStatus(case, stage, "PROCESSING")
    <3>1. a \in Case
      BY WithStatusFields DEF CaseInv, CaseTypeOK
    <3> HIDE DEF a
    <3>2. /\ case.issued + 1 \in 0 .. MaxCaseAttempts
          /\ case' = [a EXCEPT !.attempt = case.issued + 1, !.issued = case.issued + 1,
                              !.expired = FALSE, !.error = "NONE"]
      BY <2>2, CaseTypes DEF begin_run, CaseInv, a
    <3> QED
      BY <2>1, <3>1, <3>2 DEF CaseTypeOK, Case, Error
  <2>3. CASE ~valid
    <3>1. case' = FailedWith(stage, "AI_INVALID_INPUT")
      BY <2>3 DEF begin_run
    <3> QED
      BY <2>1, <3>1, FailedFields DEF CaseInv, CaseTypeOK, Error
  <2> QED
    BY <2>2, <2>3
<1>2. /\ stage = "QUESTION" => /\ case.question \in {"PENDING", "PROCESSING", "FAILED"}
                               /\ case.actions = 0 /\ ~case.answered
                               /\ case.result = "NOT_REQUESTED"
      /\ stage = "RESULT" => /\ case.question = "NEEDS_ANSWER" /\ case.answered
                             /\ case.result # "READY"
  BY CaseTypes DEF CaseInv, CaseTypeOK, Case, begin_run, answered_already, StagesInOrder
<1>3. /\ case'.actions = case.actions /\ case'.answered = case.answered
      /\ case'.written = case.written
  BY DEF CaseInv, CaseTypeOK, Case, begin_run, FailedWith, Cleared, WithStatus
<1>4. \A d \in Callers \ {c} : calls'[d] = calls[d]
  BY DEF CaseInv, CaseTypeOK, begin_run
<1>5. CASE valid
  <2>1. /\ case'.attempt = case.issued + 1 /\ case'.issued = case.issued + 1
        /\ stage = "QUESTION" => case'.question = "PROCESSING" /\ case'.result = case.result
        /\ stage = "RESULT" => case'.result = "PROCESSING" /\ case'.question = case.question
        /\ calls'[c] = [at |-> "MODEL", stage |-> stage, token |-> case.issued + 1]
    BY <1>5 DEF CaseInv, CaseTypeOK, Case, begin_run, WithStatus
  <2>2. AttemptIsNewest'
    BY <2>1 DEF AttemptIsNewest
  <2>3. StagesInOrder'
    BY <2>1, <1>2, <1>3, CaseTypes DEF CaseInv, StagesInOrder, Stages
  <2>4. CallsHoldAttempts'
    BY <2>1, <1>4, CaseTypes DEF CaseInv, CallsHoldAttempts, same_token, Stages
  <2> QED
    BY <1>1, <2>2, <2>3, <2>4 DEF CaseInv
<1>6. CASE ~valid
  <2>1. /\ case'.attempt = 0 /\ case'.issued = case.issued
        /\ stage = "QUESTION" => case'.question = "FAILED" /\ case'.result = case.result
        /\ stage = "RESULT" => case'.result = "FAILED" /\ case'.question = case.question
        /\ calls'[c] = Idle
    BY <1>6 DEF CaseInv, CaseTypeOK, Case, begin_run, FailedWith, Cleared, WithStatus
  <2>2. AttemptIsNewest'
    BY <2>1, <1>2 DEF AttemptIsNewest, Stages
  <2>3. StagesInOrder'
    BY <2>1, <1>2, <1>3, CaseTypes DEF CaseInv, StagesInOrder, Stages
  <2>4. CallsHoldAttempts'
    BY <2>1, <1>4, CaseTypes DEF CaseInv, CallsHoldAttempts, same_token, Idle
  <2> QED
    BY <1>1, <2>2, <2>3, <2>4 DEF CaseInv
<1> QED
  BY <1>5, <1>6

LEMMA EndRun ==
    ASSUME CaseInv, NEW c \in Callers, NEW answer \in CaseAnswers, end_run(c, answer)
    PROVE  CaseInv'
<1> USE CaseBounds
<1> DEFINE stage == calls[c].stage
<1>1. /\ calls[c].at = "MODEL" /\ stage \in Stages
      /\ calls' = [calls EXCEPT ![c] = Idle] /\ operating' = operating
  BY CaseTypes DEF CaseInv, end_run
<1>2. calls' \in [Callers -> CaseCall]
  BY <1>1 DEF CaseInv, CaseTypeOK, CaseCall, Idle, Stages
<1>3. CASE ~same_token(c)
  <2>1. case' = case
    BY <1>3 DEF end_run
  <2>2. \A d \in Callers : calls'[d].at = "MODEL" => calls'[d] = calls[d]
    BY <1>1 DEF CaseInv, CaseTypeOK, Idle
  <2> QED
    BY <1>1, <1>2, <2>1, <2>2
       DEF CaseInv, CaseTypeOK, AttemptIsNewest, StagesInOrder, CallsHoldAttempts,
           same_token
<1>4. CASE same_token(c)
  <2>1. /\ calls[c].token = case.attempt /\ case.attempt = case.issued
        /\ stage = "QUESTION" => /\ case.question = "PROCESSING" /\ case.actions = 0
                                 /\ ~case.answered /\ case.result = "NOT_REQUESTED"
        /\ stage = "RESULT" => /\ case.question = "NEEDS_ANSWER" /\ case.answered
                               /\ case.result = "PROCESSING"
    BY <1>1, <1>4, CaseTypes
       DEF CaseInv, CallsHoldAttempts, same_token, AttemptIsNewest, StagesInOrder, Stages
  <2>2. ASSUME NEW code \in Error, case' = FailedWith(stage, code)
        PROVE  CaseInv'
    <3>1. /\ case' \in Case /\ case'.attempt = 0 /\ case'.issued = case.issued
          /\ case'.actions = case.actions /\ case'.answered = case.answered
          /\ case'.written = case.written
          /\ stage = "QUESTION" => case'.question = "FAILED" /\ case'.result = case.result
          /\ stage = "RESULT" => case'.result = "FAILED" /\ case'.question = case.question
      BY <2>2, <1>1, FailedFields DEF CaseInv
    <3>2. CallsHoldAttempts'
      BY <1>1, <1>4, <3>1, EndingFreesTheRow
    <3>3. AttemptIsNewest' /\ StagesInOrder'
      BY <3>1, <2>1, <1>1, CaseTypes DEF CaseInv, AttemptIsNewest, StagesInOrder, Stages
    <3> QED
      BY <3>1, <3>2, <3>3, <1>1, <1>2 DEF CaseInv, CaseTypeOK
  <2>3. CASE ~operating
    BY <2>2, <2>3, <1>4 DEF end_run, Error
  <2>4. CASE operating /\ answer = "ERROR"
    BY <2>2, <2>4, <1>4 DEF end_run, Error, apply_answer
  <2>5. CASE operating /\ answer = "CLARIFICATION" /\ stage = "RESULT"
    BY <2>2, <2>5, <1>4 DEF end_run, Error, apply_answer
  <2>6. CASE operating /\ answer = "CLARIFICATION" /\ stage = "QUESTION"
    <3> DEFINE a == [case EXCEPT !.question = "NEEDS_ANSWER", !.actions = @ + 1]
    <3>0. /\ a \in Case /\ a.issued = case.issued
          /\ a.actions = case.actions + 1 /\ a.answered = case.answered
          /\ a.question = "NEEDS_ANSWER" /\ a.result = case.result
      <4>1. case.actions + 1 \in Nat
        BY CaseTypes DEF CaseInv
      <4>2. a = [case EXCEPT !.question = "NEEDS_ANSWER", !.actions = case.actions + 1]
        BY DEF CaseInv, CaseTypeOK, Case
      <4> QED
        BY <4>1, <4>2 DEF CaseInv, CaseTypeOK, Case
    <3>1. case' = Cleared(a)
      BY <2>6, <1>4 DEF end_run, apply_answer
    <3> HIDE DEF a
    <3>2. /\ case' \in Case /\ case'.attempt = 0 /\ case'.issued = case.issued
          /\ case'.actions = case.actions + 1 /\ case'.answered = case.answered
          /\ case'.question = "NEEDS_ANSWER" /\ case'.result = case.result
      BY <3>0, <3>1, ClearedFields
    <3>3. CallsHoldAttempts'
      BY <1>1, <1>4, <3>2, EndingFreesTheRow
    <3>4. AttemptIsNewest' /\ StagesInOrder'
      BY <3>2, <2>1, <2>6, CaseTypes DEF CaseInv, AttemptIsNewest, StagesInOrder
    <3> QED
      BY <3>2, <3>3, <3>4, <1>1, <1>2 DEF CaseInv, CaseTypeOK
  <2>7. CASE operating /\ answer = "SUGGESTION"
    <3> DEFINE a == [case EXCEPT
                      !.question = IF stage = "QUESTION" THEN "NO_QUESTION" ELSE @,
                      !.result = "READY", !.written = calls[c].token]
    <3>0. /\ a \in Case /\ a.issued = case.issued
          /\ a.actions = case.actions /\ a.answered = case.answered
          /\ a.question = IF stage = "QUESTION" THEN "NO_QUESTION" ELSE case.question
          /\ a.result = "READY" /\ a.written = case.issued
      BY <2>1 DEF CaseInv, CaseTypeOK, Case
    <3>1. case' = Cleared(a)
      BY <2>7, <1>4 DEF end_run, apply_answer
    <3> HIDE DEF a
    <3>2. /\ case' \in Case /\ case'.attempt = 0 /\ case'.issued = case.issued
          /\ case'.actions = case.actions /\ case'.answered = case.answered
          /\ case'.question = IF stage = "QUESTION" THEN "NO_QUESTION" ELSE case.question
          /\ case'.result = "READY" /\ case'.written = case.issued
      BY <3>0, <3>1, ClearedFields
    <3>3. CallsHoldAttempts'
      BY <1>1, <1>4, <3>2, EndingFreesTheRow
    <3>4. AttemptIsNewest' /\ StagesInOrder'
      BY <3>2, <2>1, <1>1, CaseTypes DEF CaseInv, AttemptIsNewest, StagesInOrder, Stages
    <3> QED
      BY <3>2, <3>3, <3>4, <1>1, <1>2 DEF CaseInv, CaseTypeOK
  <2> QED
    BY <2>3, <2>4, <2>5, <2>6, <2>7, <1>1 DEF CaseAnswers, Stages
<1> QED
  BY <1>3, <1>4

LEMMA NextCase == CaseInv /\ [CaseNext]_caseVars => CaseInv'
<1> SUFFICES ASSUME CaseInv, [CaseNext]_caseVars PROVE CaseInv'
  OBVIOUS
<1>1. ASSUME NEW c \in Callers, NEW s \in Situations, create(c, s) PROVE CaseInv'
  BY <1>1, CreateCase
<1>2. ASSUME NEW c \in Callers, NEW stage \in Stages, NEW valid \in BOOLEAN,
             begin_run(c, stage, valid)
      PROVE  CaseInv'
  BY <1>2, BeginRun
<1>3. ASSUME NEW c \in Callers, NEW answer \in CaseAnswers, end_run(c, answer)
      PROVE  CaseInv'
  BY <1>3, EndRun
<1>4. CASE answer_question
  <2>1. /\ case' \in Case /\ case'.answered
        /\ case'.question = case.question /\ case'.result = case.result
        /\ case'.actions = case.actions /\ case'.attempt = case.attempt
        /\ case'.issued = case.issued /\ case'.written = case.written
    BY <1>4 DEF answer_question, CaseInv, CaseTypeOK, Case
  <2> QED
    BY <1>4, <2>1 DEF answer_question, CaseInv, CaseTypeOK, AttemptIsNewest,
                      StagesInOrder, CallsHoldAttempts, same_token
<1>5. CASE attempt_expires
  <2>1. /\ case' \in Case /\ case'.answered = case.answered
        /\ case'.question = case.question /\ case'.result = case.result
        /\ case'.actions = case.actions /\ case'.attempt = case.attempt
        /\ case'.issued = case.issued /\ case'.written = case.written
    BY <1>5 DEF attempt_expires, CaseInv, CaseTypeOK, Case
  <2> QED
    BY <1>5, <2>1 DEF attempt_expires, CaseInv, CaseTypeOK, AttemptIsNewest,
                      StagesInOrder, CallsHoldAttempts, same_token
<1>6. ASSUME NEW c \in Callers, call_lost(c) PROVE CaseInv'
  <2>1. /\ calls' \in [Callers -> CaseCall]
        /\ \A d \in Callers : calls'[d].at = "MODEL" => calls'[d] = calls[d]
    BY <1>6, CaseBounds DEF call_lost, CaseInv, CaseTypeOK, CaseCall, Idle, Stages
  <2> QED
    BY <1>6, <2>1 DEF call_lost, CaseInv, CaseTypeOK, AttemptIsNewest,
                      StagesInOrder, CallsHoldAttempts, same_token
<1>7. CASE event_ends
  BY <1>7 DEF event_ends, CaseInv, CaseTypeOK, AttemptIsNewest,
              StagesInOrder, CallsHoldAttempts, same_token
<1>8. CASE UNCHANGED caseVars
  BY <1>8 DEF caseVars, CaseInv, CaseTypeOK, AttemptIsNewest,
              StagesInOrder, CallsHoldAttempts, same_token
<1> QED
  BY <1>1, <1>2, <1>3, <1>4, <1>5, <1>6, <1>7, <1>8 DEF CaseNext

LEMMA CaseInvSuffices == CaseInv => CaseIsAnsweredOnce
BY CaseTypes
   DEF CaseInv, CaseIsAnsweredOnce, OneQuestionPerCase, ResultRestsOnTheAnswer,
       ShownProgressIsLive, shown_status, AttemptIsNewest, StagesInOrder

\* operation_cases.run, whatever else runs: however many requests retry a slow
\* model call, are lost or come late, the case asks at most one question, keeps
\* the result that rests on its answer, and never looks busy for good.
THEOREM CasesAreAnsweredOnce == CaseInit /\ [][CaseNext]_caseVars => []CaseIsAnsweredOnce
BY InitCase, NextCase, CaseInvSuffices, PTL

----------------------------------------------------------------------------
(* The conversation.  Whole reads a stored history without the validator:  *)
(* it holds because at every moment the calls of a response are answered,  *)
(* in order, by the messages after it, and those that are not yet answered *)
(* are the calls still to be run (Exchange).  In step with that an         *)
(* announced call is told of and open, one that was answered told to its   *)
(* end, and any other silent (Progress).                                   *)

Notices ==
    [op : Nat,
     kind : {"condition_started", "condition_applied", "search_started", "search_finished",
             "generation_started", "generation_writing", "generation_finished"},
     status : {"running", "completed", "skipped", "empty", "failed"}]

\* What was announced of the first i calls.
AnnouncesOf(asked, i) ==
    {ns \in Seq(Notices) :
        /\ \A n \in DOMAIN ns : ns[n].status = "running" /\ \E k \in 1..i :
              asked[k].tool = "update_event_conditions" /\ ns[n].op = asked[k].id
        /\ \A k \in 1..i : asked[k].tool = "update_event_conditions" =>
              \E n \in DOMAIN ns : ns[n].op = asked[k].id}

LEMMA AnnounceOne ==
    ASSUME NEW asked \in Seq(Calls), NEW i \in 0..Len(asked), i < Len(asked),
           NEW ns \in AnnouncesOf(asked, i)
    PROVE  announce_change(ns, asked[i + 1]) \in AnnouncesOf(asked, i + 1)
<1>1. i \in Nat /\ i + 1 \in 1..Len(asked) /\ 1..i + 1 = 1..i \cup {i + 1}
  OBVIOUS
<1>2. PICK c : c = asked[i + 1]
  OBVIOUS
<1>3. c \in Calls /\ c.id \in Nat
  <2>1. c \in Calls
    BY <1>1, <1>2
  <2> QED
    BY <2>1, TalkAssumption DEF Calls
<1>4. ns \in Seq(Notices)
  BY DEF AnnouncesOf
<1>5. CASE c.tool = "update_event_conditions"
  <2>1. PICK n : n = Notice(c.id, "condition_started", "running")
    OBVIOUS
  <2>2. n \in Notices /\ n.op = c.id /\ n.status = "running"
    BY <1>3, <2>1 DEF Notices, Notice
  <2>3. PICK up : up = Append(ns, n)
    OBVIOUS
  <2>4. /\ up \in Seq(Notices) /\ Len(up) = Len(ns) + 1 /\ DOMAIN up = 1..Len(ns) + 1 /\ DOMAIN ns = 1..Len(ns)
        /\ \A k \in 1..Len(ns) : up[k] = ns[k]
        /\ up[Len(ns) + 1] = n /\ 1..Len(ns) + 1 = 1..Len(ns) \cup {Len(ns) + 1}
    BY <1>4, <2>2, <2>3
  <2>5. announce_change(ns, c) = up
    BY <1>5, <2>1, <2>3 DEF announce_change
  <2>6. \A j \in DOMAIN up : up[j].status = "running" /\ \E k \in 1..i + 1 :
              asked[k].tool = "update_event_conditions" /\ up[j].op = asked[k].id
    <3>1. i + 1 \in 1..i + 1 /\ \A k \in 1..i : k \in 1..i + 1
      BY <1>1
    <3>2. ASSUME NEW j \in DOMAIN up PROVE up[j].status = "running" /\ \E k \in 1..i + 1 :
              asked[k].tool = "update_event_conditions" /\ up[j].op = asked[k].id
      <4>1. CASE j \in 1..Len(ns)
        <5>1. up[j] = ns[j] /\ j \in DOMAIN ns
          BY <2>4, <4>1
        <5>2. up[j].status = "running" /\ \E k \in 1..i :
                 asked[k].tool = "update_event_conditions" /\ up[j].op = asked[k].id
          BY <5>1 DEF AnnouncesOf
        <5> QED
          BY <3>1, <5>2
      <4>2. CASE j = Len(ns) + 1
        <5>1. up[j] = n
          BY <2>4, <4>2
        <5>2. asked[i + 1].tool = "update_event_conditions" /\ n.op = asked[i + 1].id
          BY <1>2, <1>5, <2>2
        <5> QED
          BY <2>2, <3>1, <5>1, <5>2
      <4> QED
        BY <2>4, <3>2, <4>1, <4>2
    <3> QED
      BY <3>2
  <2>7. \A k \in 1..i + 1 : asked[k].tool = "update_event_conditions" =>
              \E j \in DOMAIN up : up[j].op = asked[k].id
    <3>1. ASSUME NEW k \in 1..i + 1, asked[k].tool = "update_event_conditions"
          PROVE  \E j \in DOMAIN up : up[j].op = asked[k].id
      <4>1. CASE k \in 1..i
        <5>1. PICK j \in DOMAIN ns : ns[j].op = asked[k].id
          BY <3>1, <4>1 DEF AnnouncesOf
        <5>2. up[j] = ns[j] /\ j \in DOMAIN up
          BY <2>4
        <5> QED
          BY <5>1, <5>2
      <4>2. CASE k = i + 1
        <5>1. asked[k].id = c.id /\ Len(ns) + 1 \in DOMAIN up /\ up[Len(ns) + 1] = n
          BY <1>2, <2>4, <4>2
        <5> QED
          BY <2>2, <5>1
      <4> QED
        BY <1>1, <4>1, <4>2
    <3> QED
      BY <3>1
  <2> QED
    BY <1>2, <2>4, <2>5, <2>6, <2>7 DEF AnnouncesOf
<1>6. CASE c.tool # "update_event_conditions"
  BY <1>1, <1>2, <1>4, <1>6 DEF announce_change, AnnouncesOf
<1> QED
  BY <1>5, <1>6

LEMMA AnnouncedOf ==
    ASSUME NEW asked \in Seq(Calls)
    PROVE  announced(asked) \in AnnouncesOf(asked, Len(asked))
<1> DEFINE n == Len(asked)
           S == Seq(Notices)
           step == [p \in (1..n) \X S |-> announce_change(p[2], asked[p[1]])]
           is(it) == it = [s \in SUBSET (DOMAIN asked) |->
                        IF s = {} THEN <<>> ELSE announce_change(it[s \ {Max(s)}], asked[Max(s)])]
           f == CHOOSE it : is(it)
           I == [i \in 0..n |-> AnnouncesOf(asked, i)]
<1>1. n \in Nat /\ DOMAIN asked = 1..n
  OBVIOUS
<1>2. announced(asked) = f[DOMAIN asked]
  BY Zenon DEF announced, FoldLeft, MapThenFoldSet
<1>3. \A i \in 1..n, x \in S : announce_change(x, asked[i]) \in S
  <2> SUFFICES ASSUME NEW i \in 1..n, NEW x \in S PROVE announce_change(x, asked[i]) \in S
    OBVIOUS
  <2>1. asked[i] \in Calls
    BY <1>1
  <2>2. PICK e : e = Notice(asked[i].id, "condition_started", "running")
    OBVIOUS
  <2>3. e \in Notices
    BY <2>1, <2>2, TalkAssumption DEF Notices, Notice, Calls
  <2>4. Append(x, e) \in S
    BY <2>3
  <2> QED
    BY <2>2, <2>4 DEF announce_change
<1>4. <<>> \in S
  OBVIOUS
<1>5. step \in [(1..n) \X S -> S]
  BY <1>3
<1>6. \A i \in 1..n, x \in S : step[i, x] = announce_change(x, asked[i])
  OBVIOUS
<1>7. Leads(I, n, S, <<>>, step)
  <2>1. <<>> \in I[0]
    <3>1. <<>> \in AnnouncesOf(asked, 0)
      BY DEF AnnouncesOf
    <3>2. 0 \in 0..n
      OBVIOUS
    <3> QED
      BY <3>1, <3>2
  <2>2. ASSUME NEW i \in 0..n, i < n, NEW x \in I[i] \cap S PROVE step[i + 1, x] \in I[i + 1]
    <3>1. i + 1 \in 1..n /\ i + 1 \in 0..n
      BY <1>1, <2>2
    <3>2. announce_change(x, asked[i + 1]) \in AnnouncesOf(asked, i + 1)
      BY <2>2, AnnounceOne
    <3> HIDE DEF step
    <3> QED
      BY <1>6, <2>2, <3>1, <3>2
  <2> HIDE DEF I, step
  <2> QED
    BY <2>1, <2>2 DEF Leads
<1>8. I[n] = AnnouncesOf(asked, n)
  <2>1. n \in 0..n
    BY <1>1
  <2> QED
    BY <2>1
<1> HIDE DEF n, step, S, I
<1>9. FoldOn(n, S, <<>>, step)
  BY <1>1, <1>4, <1>5, FoldExists
<1>10. PICK it \in [SUBSET (1..n) -> S] :
         /\ it[{}] = <<>>
         /\ \A s \in SUBSET (1..n) : s # {} => Max(s) \in s /\ it[s] = step[Max(s), it[s \ {Max(s)}]]
  BY <1>9 DEF FoldOn
<1>11. ASSUME NEW s \in SUBSET (1..n), s # {}
      PROVE  it[s] = announce_change(it[s \ {Max(s)}], asked[Max(s)])
  <2>1. Max(s) \in 1..n /\ it[s \ {Max(s)}] \in S
    BY <1>10, <1>11
  <2> QED
    BY <1>6, <1>10, <1>11, <2>1
<1>12. is(it)
  <2>1. it = [s \in SUBSET (1..n) |-> it[s]]
    OBVIOUS
  <2>2. \A s \in SUBSET (1..n) :
           it[s] = IF s = {} THEN <<>> ELSE announce_change(it[s \ {Max(s)}], asked[Max(s)])
    BY <1>10, <1>11
  <2> QED
    BY <1>1, <2>1, <2>2
<1>13. is(f)
  <2> HIDE DEF is
  <2> QED
    BY <1>12
<1> HIDE DEF f
<1>14. f = [s \in SUBSET (1..n) |->
              IF s = {} THEN <<>> ELSE announce_change(f[s \ {Max(s)}], asked[Max(s)])]
  BY <1>1, <1>13
<1> HIDE DEF is
<1>15. /\ f[{}] = <<>>
       /\ \A s \in SUBSET (1..n) : s # {} => f[s] = announce_change(f[s \ {Max(s)}], asked[Max(s)])
  BY <1>14
<1>16. Folds(f, n, S, <<>>, step)
  <2> SUFFICES ASSUME NEW s \in SUBSET (1..n), s # {}, f[s \ {Max(s)}] \in S
               PROVE  f[s] = step[Max(s), f[s \ {Max(s)}]]
    BY <1>15 DEF Folds
  <2>1. Max(s) \in 1..n
    BY <1>10
  <2> QED
    BY <1>6, <1>15, <2>1
<1>17. f[1..n] \in I[n] \cap S
  BY <1>1, <1>4, <1>5, <1>7, <1>16, FoldReaches
<1> QED
  BY <1>1, <1>2, <1>8, <1>17 DEF n

\* A scan of no message ends as it begins.
LEMMA NothingIsValid == validate_planning_history(<<>>)
<1> DEFINE base == [ok |-> TRUE, pending |-> {}, seen |-> {}, users |-> {}]
           is(it) == it = [s \in SUBSET (DOMAIN <<>>) |->
                        IF s = {} THEN base ELSE ValidStep(<<>>[Max(s)], it[s \ {Max(s)}])]
           f == CHOOSE it : is(it)
           end == f[DOMAIN <<>>]
<1>1. validate_planning_history(<<>>) <=> end.ok /\ end.pending = {}
  BY Zenon DEF validate_planning_history, FoldLeft, MapThenFoldSet
<1>2. DOMAIN <<>> = {} /\ SUBSET {} = {{}}
  OBVIOUS
<1> DEFINE it == [s \in {{}} |-> base]
<1>3. it[{}] = base
  OBVIOUS
<1>4. is(it)
  BY <1>2
<1>5. is(f)
  <2> HIDE DEF is, it
  <2> QED
    BY <1>4
<1> HIDE DEF f
<1>6. f[{}] = base
  BY <1>2, <1>5
<1> QED
  BY <1>1, <1>2, <1>6

\* Different calls of a response have different ids.
LEMMA IdsDiffer ==
    ASSUME NEW asked \in Seq(Calls), Cardinality(IdsOf(Range(asked))) = Len(asked)
    PROVE  \A i, j \in DOMAIN asked : asked[i].id = asked[j].id => i = j
<1>1. PICK n \in Nat : n = Len(asked) /\ DOMAIN asked = 1..n
  OBVIOUS
<1> DEFINE S == IdsOf(Range(asked))
           f == [i \in 1..n |-> asked[i].id]
<1>2. S = {f[i] : i \in 1..n}
  <2>1. Range(asked) = {asked[i] : i \in 1..n}
    BY <1>1, Zenon DEF Range
  <2> QED
    BY <2>1 DEF IdsOf
<1>3. f \in Surjection(1..n, S)
  <2>1. f \in [1..n -> S]
    BY <1>2
  <2>2. \A t \in S : \E i \in 1..n : f[i] = t
    BY <1>2
  <2> HIDE DEF f, S
  <2> QED
    BY <2>1, <2>2, Zenon DEF Surjection
<1>4. IsFiniteSet(1..n) /\ Cardinality(1..n) = n
  <2>1. PICK one \in Int, m \in Int : one = 1 /\ m = n
    BY <1>1
  <2>2. /\ IsFiniteSet(one..m)
        /\ Cardinality(one..m) = IF one > m THEN 0 ELSE m - one + 1
    BY ONLY FS_Interval
  <2> QED
    BY <1>1, <2>1, <2>2
<1>5. f \in Injection(1..n, S)
  <2> HIDE DEF f, S
  <2>1. Cardinality(1..n) = Cardinality(S)
    BY <1>1, <1>4 DEF S
  <2> QED
    BY <1>3, <1>4, <2>1, FS_SurjSameCardinalityImpliesInj
<1>6. \A i, j \in 1..n : f[i] = f[j] => i = j
  <2> HIDE DEF f, S
  <2>1. f \in [1..n -> S]
    BY <1>5, Zenon DEF Injection
  <2>2. DOMAIN f = 1..n
    BY <2>1
  <2> QED
    BY <1>5, <2>2, Zenon DEF Injection, IsInjective
<1> QED
  BY <1>1, <1>6

\* The last of some numbers from 1 to n.
LEMMA LastNumberOf ==
    ASSUME NEW n \in Nat, NEW all \in SUBSET (1..n), all # {}
    PROVE  \E i \in all : \A j \in all : j <= i
<1> DEFINE T == {k \in 0..n : \A s \in SUBSET (1..k) : s # {} => \E i \in s : \A j \in s : j <= i}
<1>1. 0 \in T
  <2>1. \A s \in SUBSET (1..0) : s = {}
    OBVIOUS
  <2>2. 0 \in 0..n
    OBVIOUS
  <2> QED
    BY <2>1, <2>2
<1>2. ASSUME NEW k \in 0..n, k < n, k \in T PROVE k + 1 \in T
  <2>1. k \in Nat /\ k + 1 \in 0..n
    BY <1>2
  <2>2. ASSUME NEW s \in SUBSET (1..k + 1), s # {} PROVE \E i \in s : \A j \in s : j <= i
    <3>1. CASE k + 1 \in s
      <4>1. \A j \in s : j \in 1..k + 1 /\ j <= k + 1
        BY <2>1
      <4> QED
        BY <3>1, <4>1
    <3>2. CASE k + 1 \notin s
      <4>1. s \in SUBSET (1..k)
        BY <2>1, <3>2
      <4> QED
        BY <1>2, <2>2, <4>1
    <3> QED
      BY <3>1, <3>2
  <2> QED
    BY <2>1, <2>2
<1> HIDE DEF T
<1>3. \A i \in 0..n : i \in T
  BY <1>1, <1>2, UpTo
<1>4. n \in T
  BY <1>3
<1> QED
  BY <1>4 DEF T

----------------------------------------------------------------------------
(* The messages of a conversation *)

ToolResults == {"applied", "topics", "unchanged", "rejected", "available", "not_found", "failed", "generated"}

Messages ==
    {UserMessage(u) : u \in UserIds} \cup {Assistant(asked) : asked \in Seq(Calls)}
        \cup {ToolMessage(p[1], p[2]) : p \in Calls \X ToolResults}

LEMMA UserIs ==
    ASSUME NEW u \in UserIds
    PROVE  /\ UserMessage(u) \in Messages /\ UserMessage(u).role = "user"
           /\ UserMessage(u).id = u /\ UserMessage(u).calls = <<>>
<1>1. PICK e : e = ""
  OBVIOUS
<1>2. UserMessage(u) = [role |-> "user", id |-> u, calls |-> <<>>, of |-> 0, tool |-> e, result |-> e]
  BY <1>1, Zenon DEF UserMessage
<1>3. UserMessage(u) \in Messages
  BY Zenon DEF Messages
<1> QED
  BY <1>2, <1>3

LEMMA AssistantIs ==
    ASSUME NEW asked \in Seq(Calls)
    PROVE  /\ Assistant(asked) \in Messages /\ Assistant(asked).role = "assistant"
           /\ Assistant(asked).calls = asked
<1>1. PICK e : e = ""
  OBVIOUS
<1>2. Assistant(asked) = [role |-> "assistant", id |-> e, calls |-> asked, of |-> 0, tool |-> e, result |-> e]
  BY <1>1, Zenon DEF Assistant
<1>3. Assistant(asked) \in Messages
  BY Zenon DEF Messages
<1> QED
  BY <1>2, <1>3

LEMMA ToolIs ==
    ASSUME NEW call \in Calls, NEW result \in ToolResults
    PROVE  /\ ToolMessage(call, result) \in Messages /\ ToolMessage(call, result).role = "tool"
           /\ ToolMessage(call, result).of = call.id /\ ToolMessage(call, result).calls = <<>>
           /\ ToolMessage(call, result).tool = call.tool /\ ToolMessage(call, result).result = result
<1>1. PICK e : e = ""
  OBVIOUS
<1>2. ToolMessage(call, result) = [role |-> "tool", id |-> e, calls |-> <<>>, of |-> call.id, tool |-> call.tool, result |-> result]
  BY <1>1, Zenon DEF ToolMessage
<1>3. ToolMessage(call, result) \in Messages
  <2>1. PICK p : p = <<call, result>>
    OBVIOUS
  <2>2. p \in Calls \X ToolResults /\ p[1] = call /\ p[2] = result
    BY <2>1
  <2> QED
    BY <2>2, Zenon DEF Messages
<1> QED
  BY <1>2, <1>3

LEMMA MessageIs ==
    ASSUME NEW m \in Messages
    PROVE  /\ m.calls \in Seq(Calls) /\ m.role \in {"user", "assistant", "tool"}
           /\ m.role # "assistant" => m.calls = <<>>
<1>1. CASE \E u \in UserIds : m = UserMessage(u)
  <2>1. PICK u \in UserIds : m = UserMessage(u)
    BY <1>1
  <2>2. m.role = "user" /\ m.calls = <<>>
    BY <2>1, UserIs
  <2> QED
    BY <2>2
<1>2. CASE \E asked \in Seq(Calls) : m = Assistant(asked)
  <2>1. PICK asked \in Seq(Calls) : m = Assistant(asked)
    BY <1>2
  <2>2. m.role = "assistant" /\ m.calls = asked
    BY <2>1, AssistantIs
  <2> QED
    BY <2>2
<1>3. CASE \E p \in Calls \X ToolResults : m = ToolMessage(p[1], p[2])
  <2>1. PICK p \in Calls \X ToolResults : m = ToolMessage(p[1], p[2])
    BY <1>3
  <2>2. p[1] \in Calls /\ p[2] \in ToolResults
    OBVIOUS
  <2>3. m.role = "tool" /\ m.calls = <<>>
    BY <2>1, <2>2, ToolIs
  <2> QED
    BY <2>3
<1> QED
  BY <1>1, <1>2, <1>3, Zenon DEF Messages

\* A call with this id was calls for.
Asked(messages, op) == \E i \in DOMAIN messages : \E k \in DOMAIN messages[i].calls : messages[i].calls[k].id = op

LEMMA AskedIds == \A messages : \A op : Asked(messages, op) <=> op \in IdsOf(CallsOf(messages))
<1> SUFFICES ASSUME NEW messages, NEW op
             PROVE  Asked(messages, op) <=> op \in IdsOf(CallsOf(messages))
  OBVIOUS
<1>1. \A i \in DOMAIN messages : \A c :
        c \in Range(messages[i].calls) <=> \E k \in DOMAIN messages[i].calls : messages[i].calls[k] = c
  BY Zenon DEF Range
<1>2. \A c : c \in CallsOf(messages) <=>
        \E i \in DOMAIN messages : \E k \in DOMAIN messages[i].calls : messages[i].calls[k] = c
  BY <1>1 DEF CallsOf
<1>3. op \in IdsOf(CallsOf(messages)) <=> \E c \in CallsOf(messages) : op = c.id
  BY DEF IdsOf
<1> QED
  BY <1>2, <1>3 DEF Asked

\* The calls of a response are answered in order by the messages after it,
\* and what has no answer yet is still to be run.
Answered(messages, todo) ==
    \A i \in DOMAIN messages : \A k \in DOMAIN messages[i].calls :
        IF i + k <= Len(messages)
        THEN messages[i + k].role = "tool" /\ messages[i + k].of = messages[i].calls[k].id
        ELSE i + k - Len(messages) \in DOMAIN todo /\ todo[i + k - Len(messages)] = messages[i].calls[k]

AskedBefore(messages) ==
    \A j \in DOMAIN messages : messages[j].role = "tool" =>
        \E i \in 1..j - 1 : \E k \in DOMAIN messages[i].calls : messages[i].calls[k].id = messages[j].of

SaidOnce(messages) ==
    \A i, j \in DOMAIN messages : i # j =>
        /\ \A k \in DOMAIN messages[i].calls : \A l \in DOMAIN messages[j].calls :
              messages[i].calls[k].id # messages[j].calls[l].id
        /\ messages[i].role = "user" /\ messages[j].role = "user" => messages[i].id # messages[j].id

Distinct(asked) == \A i, j \in DOMAIN asked : asked[i].id = asked[j].id => i = j

Exchange(messages, todo) ==
    /\ messages \in Seq(Messages) /\ todo \in Seq(Calls)
    /\ Answered(messages, todo) /\ AskedBefore(messages) /\ SaidOnce(messages)
    /\ Distinct(todo) /\ \A k \in DOMAIN todo : Asked(messages, todo[k].id)

LEMMA ExchangeIsWhole ==
    ASSUME NEW messages, Exchange(messages, <<>>)
    PROVE  Whole(messages)
<1>1. messages \in Seq(Messages) /\ DOMAIN messages = 1..Len(messages) /\ Len(messages) \in Nat
  BY DEF Exchange
<1>2. ASSUME NEW i \in DOMAIN messages, messages[i].role = "assistant",
             NEW n, n = Len(messages[i].calls)
      PROVE  /\ i + n <= Len(messages)
             /\ {messages[j].of : j \in i + 1..i + n} = IdsOf(Range(messages[i].calls))
             /\ \A j \in i + 1..i + n : messages[j].role = "tool"
  <2>1. PICK asked : asked = messages[i].calls
    OBVIOUS
  <2>2. asked \in Seq(Calls)
    BY <1>1, <2>1, MessageIs
  <2>3. n \in Nat /\ DOMAIN asked = 1..n /\ i \in Nat
    BY <1>1, <1>2, <2>1, <2>2
  <2>4. \A k \in 1..n : i + k <= Len(messages) /\ messages[i + k].role = "tool" /\ messages[i + k].of = asked[k].id
    <3>1. DOMAIN <<>> = {}
      OBVIOUS
    <3> QED
      BY <2>1, <2>3, <3>1 DEF Exchange, Answered
  <2>5. i + n <= Len(messages)
    <3>1. CASE n = 0
      BY <1>1, <2>3, <3>1
    <3>2. CASE n # 0
      BY <2>3, <2>4, <3>2
    <3> QED
      BY <3>1, <3>2
  <2>6. \A j \in i + 1..i + n : \E k \in 1..n : j = i + k
    <3> SUFFICES ASSUME NEW j \in i + 1..i + n PROVE \E k \in 1..n : j = i + k
      OBVIOUS
    <3>1. j - i \in 1..n /\ j = i + (j - i)
      BY <2>3
    <3> QED
      BY <3>1
  <2>7. \A k \in 1..n : i + k \in i + 1..i + n
    BY <2>3
  <2>8. IdsOf(Range(asked)) = {asked[k].id : k \in 1..n}
    <3>1. Range(asked) = {asked[k] : k \in 1..n}
      BY <2>3, Zenon DEF Range
    <3> QED
      BY <3>1 DEF IdsOf
  <2>9. {messages[j].of : j \in i + 1..i + n} = {asked[k].id : k \in 1..n}
    <3>1. \A j \in i + 1..i + n : \E k \in 1..n : messages[j].of = asked[k].id
      BY <2>4, <2>6
    <3>2. \A k \in 1..n : \E j \in i + 1..i + n : messages[j].of = asked[k].id
      <4> SUFFICES ASSUME NEW k \in 1..n PROVE \E j \in i + 1..i + n : messages[j].of = asked[k].id
        OBVIOUS
      <4>1. i + k \in i + 1..i + n /\ messages[i + k].of = asked[k].id
        BY <2>4, <2>7
      <4> QED
        BY <4>1
    <3> QED
      BY <3>1, <3>2
  <2>10. \A j \in i + 1..i + n : messages[j].role = "tool"
    BY <2>4, <2>6
  <2> QED
    BY <2>1, <2>5, <2>8, <2>9, <2>10
<1>3. AskedBefore(messages)
  BY DEF Exchange
<1>4. ASSUME NEW i \in DOMAIN messages, NEW j \in DOMAIN messages, i # j
      PROVE  /\ IdsOf(Range(messages[i].calls)) \cap IdsOf(Range(messages[j].calls)) = {}
             /\ messages[i].role = "user" /\ messages[j].role = "user" => messages[i].id # messages[j].id
  <2>1. SaidOnce(messages)
    BY DEF Exchange
  <2>2. \A c \in Range(messages[i].calls) : \E k \in DOMAIN messages[i].calls : c = messages[i].calls[k]
    BY Zenon DEF Range
  <2>3. \A c \in Range(messages[j].calls) : \E k \in DOMAIN messages[j].calls : c = messages[j].calls[k]
    BY Zenon DEF Range
  <2>4. \A c \in Range(messages[i].calls) : \A d \in Range(messages[j].calls) : c.id # d.id
    BY <1>4, <2>1, <2>2, <2>3 DEF SaidOnce
  <2>5. IdsOf(Range(messages[i].calls)) \cap IdsOf(Range(messages[j].calls)) = {}
    BY <2>4 DEF IdsOf
  <2> QED
    BY <1>4, <2>1, <2>5 DEF SaidOnce
<1> QED
  BY <1>2, <1>3, <1>4 DEF Whole, AskedBefore

\* One more message: what the old ones say stays.
LEMMA MoreMessages ==
    ASSUME NEW messages \in Seq(Messages), NEW m \in Messages
    PROVE  /\ Append(messages, m) \in Seq(Messages)
           /\ Len(messages) \in Nat /\ DOMAIN messages = 1..Len(messages)
           /\ Len(Append(messages, m)) = Len(messages) + 1
           /\ DOMAIN Append(messages, m) = 1..Len(messages) + 1
           /\ 1..Len(messages) + 1 = 1..Len(messages) \cup {Len(messages) + 1}
           /\ \A i \in 1..Len(messages) : Append(messages, m)[i] = messages[i]
           /\ Append(messages, m)[Len(messages) + 1] = m
           /\ \A op : Asked(messages, op) => Asked(Append(messages, m), op)
<1>1. PICK up : up = Append(messages, m)
  OBVIOUS
<1>2. PICK n \in Nat : n = Len(messages)
  OBVIOUS
<1>3. /\ up \in Seq(Messages) /\ Len(up) = n + 1 /\ DOMAIN messages = 1..n /\ DOMAIN up = 1..n + 1
      /\ 1..n + 1 = 1..n \cup {n + 1}
      /\ \A i \in 1..n : up[i] = messages[i]
      /\ up[n + 1] = m
  BY <1>1, <1>2
<1>4. \A op : Asked(messages, op) => Asked(up, op)
  <2> SUFFICES ASSUME NEW op, Asked(messages, op) PROVE Asked(up, op)
    OBVIOUS
  <2>1. PICK i \in 1..n : \E k \in DOMAIN messages[i].calls : messages[i].calls[k].id = op
    BY <1>3 DEF Asked
  <2>2. up[i] = messages[i] /\ i \in DOMAIN up
    BY <1>3
  <2> QED
    BY <2>1, <2>2 DEF Asked
<1> QED
  BY <1>1, <1>2, <1>3, <1>4

LEMMA ExchangeBegins ==
    ASSUME NEW messages, Exchange(messages, <<>>), NEW u \in UserIds,
           u \notin {messages[i].id : i \in DOMAIN messages}
    PROVE  Exchange(Append(messages, UserMessage(u)), <<>>)
<1>1. PICK m : m = UserMessage(u)
  OBVIOUS
<1>2. m \in Messages /\ m.role = "user" /\ m.id = u /\ m.calls = <<>>
  BY <1>1, UserIs
<1>3. messages \in Seq(Messages)
  BY DEF Exchange
<1>4. PICK n \in Nat : n = Len(messages)
  BY <1>3
<1>5. PICK up : up = Append(messages, m)
  OBVIOUS
<1>6. /\ up \in Seq(Messages) /\ Len(up) = n + 1 /\ DOMAIN messages = 1..n /\ DOMAIN up = 1..n + 1
      /\ 1..n + 1 = 1..n \cup {n + 1}
      /\ \A i \in 1..n : up[i] = messages[i]
      /\ up[n + 1] = m
      /\ \A op : Asked(messages, op) => Asked(up, op)
  BY <1>2, <1>3, <1>4, <1>5, MoreMessages
<1>7. DOMAIN <<>> = {}
  OBVIOUS
<1>8. Answered(up, <<>>)
  <2> SUFFICES ASSUME NEW i \in DOMAIN up, NEW k \in DOMAIN up[i].calls
               PROVE  i + k <= n + 1 /\ up[i + k].role = "tool" /\ up[i + k].of = up[i].calls[k].id
    BY <1>6 DEF Answered
  <2>1. i \in 1..n /\ k \in DOMAIN messages[i].calls /\ up[i] = messages[i]
    BY <1>2, <1>6, <1>7
  <2>2. messages[i].calls \in Seq(Calls)
    BY <1>3, <1>6, <2>1, MessageIs
  <2>3. k \in Nat \ {0}
    BY <2>1, <2>2
  <2>4. i + k <= n /\ messages[i + k].role = "tool" /\ messages[i + k].of = messages[i].calls[k].id
    BY <1>4, <1>6, <1>7, <2>1 DEF Exchange, Answered
  <2>5. i + k \in 1..n
    BY <2>1, <2>3, <2>4
  <2> QED
    BY <1>6, <2>1, <2>4, <2>5
<1>9. AskedBefore(up)
  <2> SUFFICES ASSUME NEW j \in DOMAIN up, up[j].role = "tool"
               PROVE  \E i \in 1..j - 1 : \E k \in DOMAIN up[i].calls : up[i].calls[k].id = up[j].of
    BY DEF AskedBefore
  <2>1. j \in 1..n /\ up[j] = messages[j] /\ messages[j].role = "tool"
    BY <1>2, <1>6
  <2>2. PICK i \in 1..j - 1 : \E k \in DOMAIN messages[i].calls : messages[i].calls[k].id = messages[j].of
    BY <1>6, <2>1 DEF Exchange, AskedBefore
  <2>3. up[i] = messages[i]
    BY <1>6, <2>1
  <2> QED
    BY <2>1, <2>2, <2>3
<1>10. SaidOnce(up)
  <2>1. \A i \in 1..n : messages[i].id # u
    BY <1>6
  <2>2. SaidOnce(messages)
    BY DEF Exchange
  <2> SUFFICES ASSUME NEW i \in 1..n + 1, NEW j \in 1..n + 1, i # j
               PROVE  /\ \A k \in DOMAIN up[i].calls : \A l \in DOMAIN up[j].calls :
                            up[i].calls[k].id # up[j].calls[l].id
                      /\ up[i].role = "user" /\ up[j].role = "user" => up[i].id # up[j].id
    BY <1>6 DEF SaidOnce
  <2>3. CASE i \in 1..n /\ j \in 1..n
    BY <1>6, <2>2, <2>3 DEF SaidOnce
  <2>4. CASE i = n + 1 /\ j \in 1..n
    BY <1>2, <1>6, <1>7, <2>1, <2>4
  <2>5. CASE j = n + 1 /\ i \in 1..n
    BY <1>2, <1>6, <1>7, <2>1, <2>5
  <2> QED
    BY <1>6, <2>3, <2>4, <2>5
<1>11. Exchange(up, <<>>)
  BY <1>6, <1>7, <1>8, <1>9, <1>10 DEF Exchange, Distinct
<1> QED
  BY <1>1, <1>5, <1>11

LEMMA ExchangeAsks ==
    ASSUME NEW messages, Exchange(messages, <<>>), NEW asked \in Seq(Calls), Distinct(asked),
           \A k \in DOMAIN asked : ~Asked(messages, asked[k].id)
    PROVE  Exchange(Append(messages, Assistant(asked)), asked)
<1>1. PICK m : m = Assistant(asked)
  OBVIOUS
<1>2. m \in Messages /\ m.role = "assistant" /\ m.calls = asked
  BY <1>1, AssistantIs
<1>3. messages \in Seq(Messages)
  BY DEF Exchange
<1>4. PICK n \in Nat : n = Len(messages)
  BY <1>3
<1>5. PICK up : up = Append(messages, m)
  OBVIOUS
<1>6. /\ up \in Seq(Messages) /\ Len(up) = n + 1 /\ DOMAIN messages = 1..n /\ DOMAIN up = 1..n + 1
      /\ 1..n + 1 = 1..n \cup {n + 1}
      /\ \A i \in 1..n : up[i] = messages[i]
      /\ up[n + 1] = m
      /\ \A op : Asked(messages, op) => Asked(up, op)
  BY <1>2, <1>3, <1>4, <1>5, MoreMessages
<1>7. DOMAIN <<>> = {}
  OBVIOUS
<1>8. Answered(up, asked)
  <2> SUFFICES ASSUME NEW i \in DOMAIN up, NEW k \in DOMAIN up[i].calls
               PROVE  IF i + k <= n + 1
                      THEN up[i + k].role = "tool" /\ up[i + k].of = up[i].calls[k].id
                      ELSE i + k - (n + 1) \in DOMAIN asked /\ asked[i + k - (n + 1)] = up[i].calls[k]
    BY <1>6 DEF Answered
  <2>1. CASE i \in 1..n
    <3>1. k \in DOMAIN messages[i].calls /\ up[i] = messages[i]
      BY <1>6, <2>1
    <3>2. messages[i].calls \in Seq(Calls)
      BY <1>3, <1>6, <2>1, MessageIs
    <3>3. k \in Nat \ {0}
      BY <3>1, <3>2
    <3>4. i + k <= n /\ messages[i + k].role = "tool" /\ messages[i + k].of = messages[i].calls[k].id
      BY <1>4, <1>6, <1>7, <2>1, <3>1 DEF Exchange, Answered
    <3>5. i + k \in 1..n /\ i + k <= n + 1
      BY <2>1, <3>3, <3>4
    <3> QED
      BY <1>6, <3>1, <3>4, <3>5
  <2>2. CASE i = n + 1
    <3>1. up[i].calls = asked /\ k \in DOMAIN asked
      BY <1>2, <1>6, <2>2
    <3>2. k \in Nat \ {0}
      BY <3>1
    <3>3. ~(i + k <= n + 1) /\ i + k - (n + 1) = k
      BY <2>2, <3>2
    <3> QED
      BY <3>1, <3>3
  <2> QED
    BY <1>6, <2>1, <2>2
<1>9. AskedBefore(up)
  <2> SUFFICES ASSUME NEW j \in DOMAIN up, up[j].role = "tool"
               PROVE  \E i \in 1..j - 1 : \E k \in DOMAIN up[i].calls : up[i].calls[k].id = up[j].of
    BY DEF AskedBefore
  <2>1. j \in 1..n /\ up[j] = messages[j] /\ messages[j].role = "tool"
    BY <1>2, <1>6
  <2>2. PICK i \in 1..j - 1 : \E k \in DOMAIN messages[i].calls : messages[i].calls[k].id = messages[j].of
    BY <1>6, <2>1 DEF Exchange, AskedBefore
  <2>3. up[i] = messages[i]
    BY <1>6, <2>1
  <2> QED
    BY <2>1, <2>2, <2>3
<1>10. SaidOnce(up)
  <2>1. \A i \in 1..n : \A k \in DOMAIN messages[i].calls : \A l \in DOMAIN asked :
            messages[i].calls[k].id # asked[l].id
    BY <1>6 DEF Asked
  <2>2. SaidOnce(messages)
    BY DEF Exchange
  <2> SUFFICES ASSUME NEW i \in 1..n + 1, NEW j \in 1..n + 1, i # j
               PROVE  /\ \A k \in DOMAIN up[i].calls : \A l \in DOMAIN up[j].calls :
                            up[i].calls[k].id # up[j].calls[l].id
                      /\ up[i].role = "user" /\ up[j].role = "user" => up[i].id # up[j].id
    BY <1>6 DEF SaidOnce
  <2>3. CASE i \in 1..n /\ j \in 1..n
    BY <1>6, <2>2, <2>3 DEF SaidOnce
  <2>4. CASE i = n + 1 /\ j \in 1..n
    <3>1. up[i] = m /\ up[j] = messages[j]
      BY <1>6, <2>4
    <3> QED
      BY <1>2, <2>1, <2>4, <3>1
  <2>5. CASE j = n + 1 /\ i \in 1..n
    <3>1. up[j] = m /\ up[i] = messages[i]
      BY <1>6, <2>5
    <3> QED
      BY <1>2, <2>1, <2>5, <3>1
  <2> QED
    BY <1>6, <2>3, <2>4, <2>5
<1>11. \A k \in DOMAIN asked : Asked(up, asked[k].id)
  <2> SUFFICES ASSUME NEW k \in DOMAIN asked PROVE Asked(up, asked[k].id)
    OBVIOUS
  <2>1. n + 1 \in DOMAIN up /\ up[n + 1].calls = asked
    BY <1>2, <1>6
  <2> QED
    BY <2>1 DEF Asked
<1>12. Exchange(up, asked)
  BY <1>6, <1>8, <1>9, <1>10, <1>11 DEF Exchange
<1> QED
  BY <1>1, <1>5, <1>12

\* The first of some calls, and the others.
LEMMA CallsAfter ==
    ASSUME NEW todo \in Seq(Calls), todo # <<>>
    PROVE  /\ Head(todo) \in Calls /\ Head(todo) = todo[1] /\ 1 \in DOMAIN todo
           /\ Tail(todo) \in Seq(Calls)
           /\ \A k : k \in DOMAIN Tail(todo) <=> k \in Nat \ {0} /\ k + 1 \in DOMAIN todo
           /\ \A k \in DOMAIN Tail(todo) : Tail(todo)[k] = todo[k + 1]
<1>1. PICK n \in Nat : Len(todo) = n + 1
  <2>1. Len(todo) \in Nat /\ Len(todo) # 0
    BY EmptySeq
  <2>2. Len(todo) - 1 \in Nat /\ Len(todo) = (Len(todo) - 1) + 1
    BY <2>1
  <2> QED
    BY <2>2
<1>2. PICK undone : undone = Tail(todo)
  OBVIOUS
<1>3. undone \in Seq(Calls) /\ Len(undone) = n /\ \A i \in 1..n : undone[i] = todo[i + 1]
  BY <1>1, <1>2, HeadTailProperties
<1>4. DOMAIN undone = 1..n /\ DOMAIN todo = 1..n + 1
  BY <1>1, <1>3
<1>5. Head(todo) = todo[1] /\ todo[1] \in Calls /\ 1 \in DOMAIN todo
  BY <1>1, <1>4, HeadTailProperties
<1>6. \A k : k \in 1..n <=> k \in Nat \ {0} /\ k + 1 \in 1..n + 1
  OBVIOUS
<1> QED
  BY <1>2, <1>3, <1>4, <1>5, <1>6

LEMMA ExchangeAnswers ==
    ASSUME NEW messages, NEW todo, Exchange(messages, todo), todo # <<>>, NEW result \in ToolResults
    PROVE  Exchange(Append(messages, ToolMessage(Head(todo), result)), Tail(todo))
<1>1. messages \in Seq(Messages) /\ todo \in Seq(Calls)
  BY DEF Exchange
<1>2. PICK c, undone : c = Head(todo) /\ undone = Tail(todo)
  OBVIOUS
<1>3. /\ c \in Calls /\ c = todo[1] /\ 1 \in DOMAIN todo /\ undone \in Seq(Calls)
      /\ \A k : k \in DOMAIN undone <=> k \in Nat \ {0} /\ k + 1 \in DOMAIN todo
      /\ \A k \in DOMAIN undone : undone[k] = todo[k + 1]
  BY <1>1, <1>2, CallsAfter
<1>4. PICK m : m = ToolMessage(c, result)
  OBVIOUS
<1>5. m \in Messages /\ m.role = "tool" /\ m.calls = <<>> /\ m.of = c.id
  BY <1>3, <1>4, ToolIs
<1>6. PICK n \in Nat : n = Len(messages)
  BY <1>1
<1>7. PICK up : up = Append(messages, m)
  OBVIOUS
<1>8. /\ up \in Seq(Messages) /\ Len(up) = n + 1 /\ DOMAIN messages = 1..n /\ DOMAIN up = 1..n + 1
      /\ 1..n + 1 = 1..n \cup {n + 1}
      /\ \A i \in 1..n : up[i] = messages[i]
      /\ up[n + 1] = m
      /\ \A op : Asked(messages, op) => Asked(up, op)
  BY <1>1, <1>5, <1>6, <1>7, MoreMessages
<1>9. DOMAIN <<>> = {}
  OBVIOUS
<1>10. Answered(up, undone)
  <2> SUFFICES ASSUME NEW i \in DOMAIN up, NEW k \in DOMAIN up[i].calls
               PROVE  IF i + k <= n + 1
                      THEN up[i + k].role = "tool" /\ up[i + k].of = up[i].calls[k].id
                      ELSE i + k - (n + 1) \in DOMAIN undone /\ undone[i + k - (n + 1)] = up[i].calls[k]
    BY <1>8 DEF Answered
  <2>1. i \in 1..n /\ k \in DOMAIN messages[i].calls /\ up[i] = messages[i]
    BY <1>5, <1>8, <1>9
  <2>2. messages[i].calls \in Seq(Calls)
    BY <1>1, <1>8, <2>1, MessageIs
  <2>3. k \in Nat \ {0} /\ i \in Nat
    BY <2>1, <2>2
  <2>4. IF i + k <= n
        THEN messages[i + k].role = "tool" /\ messages[i + k].of = messages[i].calls[k].id
        ELSE i + k - n \in DOMAIN todo /\ todo[i + k - n] = messages[i].calls[k]
    BY <1>6, <1>8, <2>1 DEF Exchange, Answered
  <2>5. CASE i + k <= n
    <3>1. i + k \in 1..n /\ i + k <= n + 1
      BY <2>1, <2>3, <2>5
    <3> QED
      BY <1>8, <2>1, <2>4, <2>5, <3>1
  <2>6. CASE i + k = n + 1
    <3>1. ~(i + k <= n) /\ i + k - n = 1 /\ i + k <= n + 1
      BY <2>3, <2>6
    <3>2. c = messages[i].calls[k]
      BY <1>3, <2>4, <3>1
    <3> QED
      BY <1>5, <1>8, <2>1, <2>6, <3>1, <3>2
  <2>7. CASE i + k > n + 1
    <3>1. PICK d \in Nat \ {0} : i + k - (n + 1) = d /\ i + k - n = d + 1
      <4>1. i + k - (n + 1) \in Nat \ {0} /\ i + k - n = (i + k - (n + 1)) + 1
        BY <2>3, <2>7
      <4> QED
        BY <4>1
    <3>2. ~(i + k <= n) /\ ~(i + k <= n + 1)
      BY <2>3, <2>7
    <3>3. d + 1 \in DOMAIN todo /\ todo[d + 1] = messages[i].calls[k]
      BY <2>4, <3>1, <3>2
    <3>4. d \in DOMAIN undone /\ undone[d] = messages[i].calls[k]
      BY <1>3, <3>1, <3>3
    <3> QED
      BY <2>1, <3>1, <3>2, <3>4
  <2>8. i + k <= n \/ i + k = n + 1 \/ i + k > n + 1
    BY <2>3
  <2> QED
    BY <2>5, <2>6, <2>7, <2>8
<1>11. AskedBefore(up)
  <2> SUFFICES ASSUME NEW j \in DOMAIN up, up[j].role = "tool"
               PROVE  \E i \in 1..j - 1 : \E k \in DOMAIN up[i].calls : up[i].calls[k].id = up[j].of
    BY DEF AskedBefore
  <2>1. CASE j \in 1..n
    <3>1. up[j] = messages[j] /\ messages[j].role = "tool"
      BY <1>8, <2>1
    <3>2. PICK i \in 1..j - 1 : \E k \in DOMAIN messages[i].calls : messages[i].calls[k].id = messages[j].of
      BY <1>8, <2>1, <3>1 DEF Exchange, AskedBefore
    <3>3. up[i] = messages[i]
      BY <1>8, <2>1
    <3> QED
      BY <3>1, <3>2, <3>3
  <2>2. CASE j = n + 1
    <3>1. Asked(messages, c.id)
      BY <1>3 DEF Exchange
    <3>2. PICK i \in 1..n : \E k \in DOMAIN messages[i].calls : messages[i].calls[k].id = c.id
      BY <1>8, <3>1 DEF Asked
    <3>3. i \in 1..j - 1 /\ up[i] = messages[i] /\ up[j].of = c.id
      BY <1>5, <1>8, <2>2
    <3> QED
      BY <3>2, <3>3
  <2> QED
    BY <1>8, <2>1, <2>2
<1>12. SaidOnce(up)
  <2>2. SaidOnce(messages)
    BY DEF Exchange
  <2> SUFFICES ASSUME NEW i \in 1..n + 1, NEW j \in 1..n + 1, i # j
               PROVE  /\ \A k \in DOMAIN up[i].calls : \A l \in DOMAIN up[j].calls :
                            up[i].calls[k].id # up[j].calls[l].id
                      /\ up[i].role = "user" /\ up[j].role = "user" => up[i].id # up[j].id
    BY <1>8 DEF SaidOnce
  <2>3. CASE i \in 1..n /\ j \in 1..n
    BY <1>8, <2>2, <2>3 DEF SaidOnce
  <2>4. CASE i = n + 1 \/ j = n + 1
    BY <1>5, <1>8, <1>9, <2>4
  <2> QED
    BY <1>8, <2>3, <2>4
<1>13. Distinct(undone)
  <2> SUFFICES ASSUME NEW i \in DOMAIN undone, NEW j \in DOMAIN undone, undone[i].id = undone[j].id
               PROVE  i = j
    BY DEF Distinct
  <2>1. /\ i \in Nat /\ j \in Nat /\ i + 1 \in DOMAIN todo /\ j + 1 \in DOMAIN todo
        /\ todo[i + 1].id = todo[j + 1].id
    BY <1>3
  <2>2. i + 1 = j + 1
    BY <2>1 DEF Exchange, Distinct
  <2> QED
    BY <2>1, <2>2
<1>14. \A k \in DOMAIN undone : Asked(up, undone[k].id)
  BY <1>3, <1>8 DEF Exchange
<1>15. Exchange(up, undone)
  BY <1>3, <1>8, <1>10, <1>11, <1>12, <1>13, <1>14 DEF Exchange
<1> QED
  BY <1>2, <1>4, <1>7, <1>15

----------------------------------------------------------------------------
(* What the screen was told *)

Silent(notices, op) == Spoken(notices, op) = {}

Open(notices, op) ==
    Spoken(notices, op) # {} /\ \A i \in Spoken(notices, op) : notices[i].status = "running"

LEMMA MoreNotices ==
    ASSUME NEW ns \in Seq(Notices), NEW more \in Seq(Notices)
    PROVE  /\ ns \o more \in Seq(Notices)
           /\ Len(ns) \in Nat /\ Len(more) \in Nat
           /\ DOMAIN ns = 1..Len(ns) /\ DOMAIN more = 1..Len(more)
           /\ DOMAIN (ns \o more) = 1..Len(ns) + Len(more)
           /\ \A i \in 1..Len(ns) : i \in DOMAIN (ns \o more) /\ (ns \o more)[i] = ns[i]
           /\ \A i \in 1..Len(more) : Len(ns) + i \in DOMAIN (ns \o more) /\ (ns \o more)[Len(ns) + i] = more[i]
           /\ \A i \in DOMAIN (ns \o more) : i \in 1..Len(ns) \/ \E j \in 1..Len(more) : i = Len(ns) + j
<1>1. PICK up : up = ns \o more
  OBVIOUS
<1>2. PICK n \in Nat, m \in Nat : n = Len(ns) /\ m = Len(more)
  OBVIOUS
<1>3. /\ up \in Seq(Notices) /\ Len(up) = n + m
      /\ DOMAIN ns = 1..n /\ DOMAIN more = 1..m /\ DOMAIN up = 1..n + m
      /\ \A i \in 1..n : up[i] = ns[i]
      /\ \A i \in 1..m : up[n + i] = more[i]
  BY <1>1, <1>2
<1>4. /\ \A i \in 1..n : i \in 1..n + m
      /\ \A i \in 1..m : n + i \in 1..n + m
  OBVIOUS
<1>5. \A i \in 1..n + m : i \in 1..n \/ \E j \in 1..m : i = n + j
  <2> SUFFICES ASSUME NEW i \in 1..n + m, i \notin 1..n PROVE \E j \in 1..m : i = n + j
    OBVIOUS
  <2>1. i - n \in 1..m /\ i = n + (i - n)
    OBVIOUS
  <2> QED
    BY <2>1
<1> QED
  BY <1>1, <1>2, <1>3, <1>4, <1>5

\* Of an operation nothing new is said of, what was said stays.
LEMMA OthersSpoken ==
    ASSUME NEW ns \in Seq(Notices), NEW more \in Seq(Notices), NEW op, Silent(more, op)
    PROVE  /\ Spoken(ns \o more, op) = Spoken(ns, op)
           /\ \A i \in Spoken(ns, op) : (ns \o more)[i] = ns[i] /\ i \in Nat
<1>1. PICK up : up = ns \o more
  OBVIOUS
<1>2. PICK n \in Nat, m \in Nat : n = Len(ns) /\ m = Len(more)
  BY MoreNotices
<1>3. /\ DOMAIN ns = 1..n /\ DOMAIN more = 1..m
      /\ \A i \in 1..n : i \in DOMAIN up /\ up[i] = ns[i]
      /\ \A i \in 1..m : n + i \in DOMAIN up /\ up[n + i] = more[i]
      /\ \A i \in DOMAIN up : i \in 1..n \/ \E j \in 1..m : i = n + j
  BY <1>1, <1>2, MoreNotices
<1>4. \A j \in 1..m : more[j].op # op
  BY <1>3 DEF Silent, Spoken
<1>5. \A i \in DOMAIN up : up[i].op = op => i \in 1..n
  BY <1>3, <1>4
<1>6. Spoken(up, op) = Spoken(ns, op)
  BY <1>3, <1>5 DEF Spoken
<1> QED
  BY <1>1, <1>3, <1>6 DEF Spoken

LEMMA OthersStay ==
    ASSUME NEW ns \in Seq(Notices), NEW more \in Seq(Notices), NEW op, Silent(more, op),
           NEW ms, NEW later, Range(ms) \subseteq Range(later)
    PROVE  /\ Silent(ns, op) => Silent(ns \o more, op)
           /\ Open(ns, op) => Open(ns \o more, op)
           /\ ToldToTheEnd(ns, ms, op) => ToldToTheEnd(ns \o more, later, op)
<1>1. PICK up : up = ns \o more
  OBVIOUS
<1>2. Spoken(up, op) = Spoken(ns, op) /\ \A i \in Spoken(ns, op) : up[i] = ns[i]
  BY <1>1, OthersSpoken
<1>3. ToldToTheEnd(ns, ms, op) => ToldToTheEnd(up, later, op)
  <2> SUFFICES ASSUME ToldToTheEnd(ns, ms, op) PROVE ToldToTheEnd(up, later, op)
    OBVIOUS
  <2>1. PICK e \in Spoken(ns, op) :
          /\ ns[e].status # "running" /\ Spoken(ns, op) # {e}
          /\ \A i \in Spoken(ns, op) \ {e} : i < e /\ ns[i].status = "running"
          /\ op # 0 => \E m \in Range(ms) : m.role = "tool" /\ m.of = op /\ ns[e].status = ShownAs(m)
    BY DEF ToldToTheEnd
  <2>2. /\ up[e].status # "running" /\ Spoken(up, op) # {e} /\ e \in Spoken(up, op)
        /\ \A i \in Spoken(up, op) \ {e} : i < e /\ up[i].status = "running"
    BY <1>2, <2>1
  <2>3. op # 0 => \E m \in Range(later) : m.role = "tool" /\ m.of = op /\ up[e].status = ShownAs(m)
    BY <1>2, <2>1
  <2> QED
    BY <2>2, <2>3 DEF ToldToTheEnd
<1> QED
  BY <1>1, <1>2, <1>3 DEF Silent, Open

\* An operation that was announced is told to its end.
LEMMA ToldEnds ==
    ASSUME NEW ns \in Seq(Notices), NEW more \in Seq(Notices), more # <<>>, NEW op, Open(ns, op),
           \A j \in DOMAIN more : more[j].op = op,
           \A j \in DOMAIN more : j < Len(more) => more[j].status = "running",
           more[Len(more)].status # "running",
           NEW ms,
           op # 0 => \E m \in Range(ms) : m.role = "tool" /\ m.of = op /\ more[Len(more)].status = ShownAs(m)
    PROVE  ToldToTheEnd(ns \o more, ms, op)
<1>1. PICK up : up = ns \o more
  OBVIOUS
<1>2. PICK n \in Nat, m \in Nat : n = Len(ns) /\ m = Len(more)
  BY MoreNotices
<1>3. /\ DOMAIN ns = 1..n /\ DOMAIN more = 1..m
      /\ \A i \in 1..n : i \in DOMAIN up /\ up[i] = ns[i]
      /\ \A i \in 1..m : n + i \in DOMAIN up /\ up[n + i] = more[i]
      /\ \A i \in DOMAIN up : i \in 1..n \/ \E j \in 1..m : i = n + j
  BY <1>1, <1>2, MoreNotices
<1>4. m # 0 /\ m \in 1..m
  BY <1>2, EmptySeq
<1>5. up[n + m] = more[m] /\ n + m \in Spoken(up, op)
  BY <1>3, <1>4 DEF Spoken
<1>6. ASSUME NEW i \in Spoken(up, op), i # n + m PROVE i < n + m /\ up[i].status = "running"
  <2>1. i \in DOMAIN up /\ up[i].op = op
    BY <1>6 DEF Spoken
  <2>2. CASE i \in 1..n
    <3>1. up[i] = ns[i] /\ i \in Spoken(ns, op)
      BY <1>3, <2>1, <2>2 DEF Spoken
    <3>2. i < n + m
      BY <1>4, <2>2
    <3> QED
      BY <3>1, <3>2 DEF Open
  <2>3. CASE \E j \in 1..m : i = n + j
    <3>1. PICK j \in 1..m : i = n + j
      BY <2>3
    <3>2. j < m /\ i < n + m
      BY <1>6, <3>1
    <3>3. j \in DOMAIN more /\ up[i] = more[j]
      BY <1>3, <3>1
    <3>4. more[j].status = "running"
      BY <1>2, <3>2, <3>3
    <3> QED
      BY <3>2, <3>3, <3>4
  <2> QED
    BY <1>3, <2>1, <2>2, <2>3
<1>7. Spoken(up, op) # {n + m}
  <2>1. PICK i \in Spoken(ns, op) : TRUE
    BY DEF Open
  <2>2. i \in 1..n /\ i \in Spoken(up, op) /\ i # n + m
    BY <1>3, <1>4, <2>1 DEF Spoken
  <2> QED
    BY <2>2
<1>8. /\ up[n + m].status # "running"
      /\ op # 0 => \E msg \in Range(ms) : msg.role = "tool" /\ msg.of = op /\ up[n + m].status = ShownAs(msg)
  BY <1>2, <1>5
<1>9. ToldToTheEnd(up, ms, op)
  BY <1>5, <1>6, <1>7, <1>8 DEF ToldToTheEnd
<1> QED
  BY <1>1, <1>9

\* The calls of an answer that are still to be run have been announced, or
\* nothing was said of them; every other operation has ended.
Progress(ns, ms, todo, busy) ==
    /\ ns \in Seq(Notices)
    /\ \A i \in DOMAIN ns :
          /\ ns[i].op \in Nat \ {0} /\ Asked(ms, ns[i].op)
          /\ ToldToTheEnd(ns, ms, ns[i].op) \/ \E k \in DOMAIN todo : todo[k].id = ns[i].op
    /\ \A k \in DOMAIN todo :
          IF todo[k].tool = "update_event_conditions" \/ (busy /\ k = 1)
          THEN Open(ns, todo[k].id) ELSE Silent(ns, todo[k].id)

LEMMA RangeMore ==
    ASSUME NEW ms \in Seq(Messages), NEW m \in Messages
    PROVE  Range(ms) \subseteq Range(Append(ms, m)) /\ m \in Range(Append(ms, m))
<1>1. PICK up : up = Append(ms, m)
  OBVIOUS
<1>2. /\ DOMAIN ms = 1..Len(ms) /\ DOMAIN up = 1..Len(ms) + 1 /\ Len(ms) + 1 \in 1..Len(ms) + 1
      /\ 1..Len(ms) + 1 = 1..Len(ms) \cup {Len(ms) + 1}
      /\ \A i \in 1..Len(ms) : up[i] = ms[i]
      /\ up[Len(ms) + 1] = m
  BY <1>1, MoreMessages
<1>3. \A x : x \in Range(ms) <=> \E i \in 1..Len(ms) : ms[i] = x
  BY <1>2, Zenon DEF Range
<1>4. \A x : x \in Range(up) <=> \E i \in 1..Len(ms) + 1 : up[i] = x
  BY <1>2, Zenon DEF Range
<1>5. m \in Range(up)
  BY <1>2, <1>4
<1>6. ASSUME NEW x \in Range(ms) PROVE x \in Range(up)
  <2>1. PICK i \in 1..Len(ms) : ms[i] = x
    BY <1>3
  <2>2. i \in 1..Len(ms) + 1 /\ up[i] = x
    BY <1>2, <2>1
  <2> QED
    BY <1>4, <2>2
<1> QED
  BY <1>1, <1>5, <1>6

LEMMA ProgressAsks ==
    ASSUME NEW ms \in Seq(Messages), NEW ns, Progress(ns, ms, <<>>, FALSE),
           NEW asked \in Seq(Calls), Distinct(asked),
           \A k \in DOMAIN asked : ~Asked(ms, asked[k].id)
    PROVE  Progress(ns \o announced(asked), Append(ms, Assistant(asked)), asked, FALSE)
<1>1. PICK more : more = announced(asked)
  OBVIOUS
<1>2. /\ more \in Seq(Notices)
      /\ \A j \in DOMAIN more : more[j].status = "running" /\ \E k \in 1..Len(asked) :
              asked[k].tool = "update_event_conditions" /\ more[j].op = asked[k].id
      /\ \A k \in 1..Len(asked) : asked[k].tool = "update_event_conditions" =>
              \E j \in DOMAIN more : more[j].op = asked[k].id
  <2>1. more \in AnnouncesOf(asked, Len(asked))
    BY <1>1, AnnouncedOf
  <2> QED
    BY <2>1 DEF AnnouncesOf
<1>3. PICK m : m = Assistant(asked)
  OBVIOUS
<1>4. m \in Messages /\ m.calls = asked
  BY <1>3, AssistantIs
<1>5. PICK later : later = Append(ms, m)
  OBVIOUS
<1>6. /\ Range(ms) \subseteq Range(later)
      /\ Len(ms) + 1 \in DOMAIN later /\ later[Len(ms) + 1] = m
      /\ \A op : Asked(ms, op) => Asked(later, op)
  BY <1>4, <1>5, MoreMessages, RangeMore
<1>7. \A k \in DOMAIN asked : Asked(later, asked[k].id)
  BY <1>4, <1>6 DEF Asked
<1>8. DOMAIN asked = 1..Len(asked) /\ DOMAIN <<>> = {} /\ ns \in Seq(Notices)
  BY DEF Progress
<1>9. PICK up : up = ns \o more
  OBVIOUS
<1>10. PICK n \in Nat, l \in Nat : n = Len(ns) /\ l = Len(more)
  BY <1>2, <1>8, MoreNotices
<1>11. /\ up \in Seq(Notices) /\ DOMAIN ns = 1..n /\ DOMAIN more = 1..l
       /\ \A i \in 1..n : i \in DOMAIN up /\ up[i] = ns[i]
       /\ \A i \in 1..l : n + i \in DOMAIN up /\ up[n + i] = more[i]
       /\ \A i \in DOMAIN up : i \in 1..n \/ \E j \in 1..l : i = n + j
  BY <1>2, <1>8, <1>9, <1>10, MoreNotices
<1>12. \A k \in DOMAIN asked : Silent(ns, asked[k].id)
  <2> SUFFICES ASSUME NEW k \in DOMAIN asked, NEW i \in DOMAIN ns, ns[i].op = asked[k].id PROVE FALSE
    BY DEF Silent, Spoken
  <2>1. Asked(ms, ns[i].op)
    BY DEF Progress
  <2> QED
    BY <2>1
<1>13. ASSUME NEW i \in DOMAIN up
       PROVE  /\ up[i].op \in Nat \ {0} /\ Asked(later, up[i].op)
              /\ ToldToTheEnd(up, later, up[i].op) \/ \E k \in DOMAIN asked : asked[k].id = up[i].op
  <2>1. CASE i \in 1..n
    <3>1. PICK op : op = ns[i].op
      OBVIOUS
    <3>2. up[i].op = op /\ op \in Nat \ {0} /\ Asked(ms, op) /\ ToldToTheEnd(ns, ms, op)
      BY <1>8, <1>11, <2>1, <3>1 DEF Progress
    <3>3. Silent(more, op)
      <4> SUFFICES ASSUME NEW j \in DOMAIN more, more[j].op = op PROVE FALSE
        BY DEF Silent, Spoken
      <4>1. PICK k \in DOMAIN asked : asked[k].id = op
        BY <1>2, <1>8
      <4> QED
        BY <3>2, <4>1
    <3>4. ToldToTheEnd(up, later, op)
      BY <1>2, <1>6, <1>8, <1>9, <3>2, <3>3, OthersStay
    <3> QED
      BY <1>6, <3>2, <3>4
  <2>2. CASE \E j \in 1..l : i = n + j
    <3>1. PICK j \in 1..l : i = n + j
      BY <2>2
    <3>2. j \in DOMAIN more /\ up[i] = more[j]
      BY <1>11, <3>1
    <3>3. PICK k \in DOMAIN asked : up[i].op = asked[k].id
      BY <1>2, <1>8, <3>2
    <3>4. asked[k] \in Calls
      OBVIOUS
    <3>5. asked[k].id \in Nat \ {0}
      BY <3>4, TalkAssumption DEF Calls
    <3> QED
      BY <1>7, <3>3, <3>5
  <2> QED
    BY <1>11, <2>1, <2>2
<1>14. ASSUME NEW k \in DOMAIN asked
       PROVE  IF asked[k].tool = "update_event_conditions"
              THEN Open(up, asked[k].id) ELSE Silent(up, asked[k].id)
  <2>1. CASE asked[k].tool = "update_event_conditions"
    <3>1. PICK j \in DOMAIN more : more[j].op = asked[k].id
      BY <1>2, <1>8, <2>1
    <3>2. n + j \in DOMAIN up /\ up[n + j].op = asked[k].id
      BY <1>11, <3>1
    <3>3. \A i \in DOMAIN up : up[i].op = asked[k].id => up[i].status = "running"
      <4> SUFFICES ASSUME NEW i \in DOMAIN up, up[i].op = asked[k].id PROVE up[i].status = "running"
        OBVIOUS
      <4>1. i \notin 1..n
        BY <1>11, <1>12 DEF Silent, Spoken
      <4>2. PICK h \in 1..l : i = n + h
        BY <1>11, <4>1
      <4>3. h \in DOMAIN more /\ up[i] = more[h]
        BY <1>11, <4>2
      <4>4. more[h].status = "running"
        BY <1>2, <4>3
      <4> QED
        BY <4>3, <4>4
    <3> QED
      BY <2>1, <3>2, <3>3 DEF Open, Spoken
  <2>2. CASE asked[k].tool # "update_event_conditions"
    <3>1. Silent(more, asked[k].id)
      <4> SUFFICES ASSUME NEW j \in DOMAIN more, more[j].op = asked[k].id PROVE FALSE
        BY DEF Silent, Spoken
      <4>1. PICK h \in DOMAIN asked : asked[h].tool = "update_event_conditions" /\ asked[h].id = asked[k].id
        BY <1>2, <1>8
      <4>2. h = k
        BY <4>1 DEF Distinct
      <4> QED
        BY <2>2, <4>1, <4>2
    <3>2. Silent(up, asked[k].id)
      BY <1>2, <1>6, <1>8, <1>9, <1>12, <3>1, OthersStay
    <3> QED
      BY <2>2, <3>2
  <2> QED
    BY <2>1, <2>2
<1>15. Progress(up, later, asked, FALSE)
  BY <1>11, <1>13, <1>14 DEF Progress
<1> QED
  BY <1>1, <1>3, <1>5, <1>9, <1>15

LEMMA ProgressStarts ==
    ASSUME NEW ns, NEW ms \in Seq(Messages), NEW todo, Exchange(ms, todo),
           Progress(ns, ms, todo, FALSE), todo # <<>>, todo[1].tool # "update_event_conditions",
           NEW e \in Notices, e.op = todo[1].id, e.status = "running"
    PROVE  Progress(ns \o <<e>>, ms, todo, TRUE)
<1>1. PICK more : more = <<e>>
  OBVIOUS
<1>2. more \in Seq(Notices) /\ Len(more) = 1 /\ DOMAIN more = 1..1 /\ more[1] = e
  BY <1>1
<1>3. ns \in Seq(Notices) /\ todo \in Seq(Calls) /\ Distinct(todo)
  BY DEF Progress, Exchange
<1>4. 1 \in DOMAIN todo /\ todo[1] \in Calls
  BY <1>3, CallsAfter
<1>5. PICK op : op = todo[1].id
  OBVIOUS
<1>6. op \in Nat \ {0} /\ Asked(ms, op)
  <2>1. op \in Nat \ {0}
    BY <1>4, <1>5, TalkAssumption DEF Calls
  <2> QED
    BY <1>4, <1>5, <2>1 DEF Exchange
<1>7. PICK up : up = ns \o more
  OBVIOUS
<1>8. PICK n \in Nat : n = Len(ns)
  BY <1>3
<1>9. /\ up \in Seq(Notices) /\ DOMAIN ns = 1..n
      /\ \A i \in 1..n : i \in DOMAIN up /\ up[i] = ns[i]
      /\ n + 1 \in DOMAIN up /\ up[n + 1] = e
      /\ \A i \in DOMAIN up : i \in 1..n \/ i = n + 1
  <2>1. 1 \in 1..1 /\ \A j \in 1..1 : j = 1
    OBVIOUS
  <2>0. more \in Seq(Notices)
    BY <1>2
  <2>2. /\ up \in Seq(Notices) /\ DOMAIN ns = 1..n
        /\ \A i \in 1..n : i \in DOMAIN up /\ up[i] = ns[i]
        /\ \A i \in 1..Len(more) : n + i \in DOMAIN up /\ up[n + i] = more[i]
        /\ \A i \in DOMAIN up : i \in 1..n \/ \E j \in 1..Len(more) : i = n + j
    BY <1>3, <1>7, <1>8, <2>0, MoreNotices
  <2>3. n + 1 \in DOMAIN up /\ up[n + 1] = e
    BY <1>2, <2>1, <2>2
  <2>4. \A i \in DOMAIN up : i \in 1..n \/ i = n + 1
    BY <1>2, <2>1, <2>2
  <2> QED
    BY <2>2, <2>3, <2>4
<1>10. \A other : other # op => Silent(more, other)
  BY <1>2, <1>5 DEF Silent, Spoken
<1>11. Silent(ns, op)
  BY <1>4, <1>5 DEF Progress
<1>12. Open(up, op)
  <2>1. n + 1 \in Spoken(up, op)
    BY <1>5, <1>9 DEF Spoken
  <2>2. \A i \in Spoken(up, op) : i = n + 1
    BY <1>9, <1>11 DEF Spoken, Silent
  <2> QED
    BY <1>9, <2>1, <2>2 DEF Open
<1>13. ASSUME NEW i \in DOMAIN up
       PROVE  /\ up[i].op \in Nat \ {0} /\ Asked(ms, up[i].op)
              /\ ToldToTheEnd(up, ms, up[i].op) \/ \E k \in DOMAIN todo : todo[k].id = up[i].op
  <2>1. CASE up[i].op = op
    BY <1>4, <1>5, <1>6, <2>1
  <2>2. CASE up[i].op # op
    <3>1. i \in DOMAIN ns /\ up[i] = ns[i]
      BY <1>5, <1>9, <2>2
    <3>2. PICK other : other = ns[i].op
      OBVIOUS
    <3>3. other \in Nat \ {0} /\ Asked(ms, other) /\ (ToldToTheEnd(ns, ms, other) \/ \E k \in DOMAIN todo : todo[k].id = other)
      BY <3>1, <3>2 DEF Progress
    <3>4. ToldToTheEnd(ns, ms, other) => ToldToTheEnd(up, ms, other)
      BY <1>2, <1>3, <1>7, <1>10, <2>2, <3>1, <3>2, OthersStay
    <3> QED
      BY <3>1, <3>2, <3>3, <3>4
  <2> QED
    BY <2>1, <2>2
<1>14. ASSUME NEW k \in DOMAIN todo
       PROVE  IF todo[k].tool = "update_event_conditions" \/ k = 1
              THEN Open(up, todo[k].id) ELSE Silent(up, todo[k].id)
  <2>1. CASE k = 1
    BY <1>5, <1>12, <2>1
  <2>2. CASE k # 1
    <3>1. todo[k].id # op
      BY <1>3, <1>4, <1>5, <2>2 DEF Distinct
    <3>2. IF todo[k].tool = "update_event_conditions"
          THEN Open(ns, todo[k].id) ELSE Silent(ns, todo[k].id)
      BY <2>2 DEF Progress
    <3>3. /\ Silent(ns, todo[k].id) => Silent(up, todo[k].id)
          /\ Open(ns, todo[k].id) => Open(up, todo[k].id)
      BY <1>2, <1>3, <1>7, <1>10, <3>1, OthersStay
    <3> QED
      BY <2>2, <3>2, <3>3
  <2> QED
    BY <2>1, <2>2
<1>15. Progress(up, ms, todo, TRUE)
  BY <1>9, <1>13, <1>14 DEF Progress
<1> QED
  BY <1>1, <1>7, <1>15

\* What is told when a call ends.
TellsTheEnd(more, todo, busy, m) ==
    /\ more \in Seq(Notices)
    /\ \A j \in DOMAIN more : more[j].op = todo[1].id
    /\ IF todo[1].tool = "update_event_conditions" \/ busy
       THEN /\ more # <<>>
            /\ \A j \in DOMAIN more : j < Len(more) => more[j].status = "running"
            /\ more[Len(more)].status # "running" /\ more[Len(more)].status = ShownAs(m)
       ELSE more = <<>>

LEMMA ProgressEnds ==
    ASSUME NEW ns, NEW ms, NEW todo, Exchange(ms, todo), NEW busy,
           Progress(ns, ms, todo, busy), todo # <<>>, NEW result \in ToolResults, NEW m,
           m = ToolMessage(Head(todo), result), NEW more, TellsTheEnd(more, todo, busy, m)
    PROVE  Progress(ns \o more, Append(ms, m), Tail(todo), FALSE)
<1>1. /\ ns \in Seq(Notices) /\ more \in Seq(Notices) /\ ms \in Seq(Messages)
      /\ todo \in Seq(Calls) /\ Distinct(todo)
  BY DEF Progress, Exchange, TellsTheEnd
<1>2. PICK c, undone : c = Head(todo) /\ undone = Tail(todo)
  OBVIOUS
<1>3. /\ c \in Calls /\ c = todo[1] /\ 1 \in DOMAIN todo /\ undone \in Seq(Calls)
      /\ \A k : k \in DOMAIN undone <=> k \in Nat \ {0} /\ k + 1 \in DOMAIN todo
      /\ \A k \in DOMAIN undone : undone[k] = todo[k + 1]
  BY <1>1, <1>2, CallsAfter
<1>4. m \in Messages /\ m.role = "tool" /\ m.of = c.id
  BY <1>2, <1>3, ToolIs
<1>5. PICK op : op = c.id
  OBVIOUS
<1>6. op \in Nat \ {0} /\ Asked(ms, op)
  <2>1. op \in Nat \ {0}
    BY <1>3, <1>5, TalkAssumption DEF Calls
  <2> QED
    BY <1>3, <1>5, <2>1 DEF Exchange
<1>7. PICK later : later = Append(ms, m)
  OBVIOUS
<1>8. /\ Range(ms) \subseteq Range(later) /\ m \in Range(later)
      /\ \A other : Asked(ms, other) => Asked(later, other)
  BY <1>1, <1>4, <1>7, MoreMessages, RangeMore
<1>9. PICK up : up = ns \o more
  OBVIOUS
<1>10. PICK n \in Nat, l \in Nat : n = Len(ns) /\ l = Len(more)
  BY <1>1, MoreNotices
<1>11. /\ up \in Seq(Notices) /\ DOMAIN ns = 1..n /\ DOMAIN more = 1..l
       /\ \A i \in 1..n : i \in DOMAIN up /\ up[i] = ns[i]
       /\ \A i \in 1..l : n + i \in DOMAIN up /\ up[n + i] = more[i]
       /\ \A i \in DOMAIN up : i \in 1..n \/ \E j \in 1..l : i = n + j
  BY <1>1, <1>9, <1>10, MoreNotices
<1>12. \A other : other # op => Silent(more, other)
  BY <1>3, <1>5 DEF TellsTheEnd, Silent, Spoken
<1>13. IF more = <<>> THEN Silent(up, op) ELSE ToldToTheEnd(up, later, op)
  <2>1. CASE todo[1].tool = "update_event_conditions" \/ busy
    <3>1. Open(ns, op)
      BY <1>3, <1>5, <2>1 DEF Progress
    <3>2. /\ more # <<>>
          /\ \A j \in DOMAIN more : more[j].op = op
          /\ \A j \in DOMAIN more : j < Len(more) => more[j].status = "running"
          /\ more[Len(more)].status # "running" /\ more[Len(more)].status = ShownAs(m)
      BY <1>3, <1>5, <2>1 DEF TellsTheEnd
    <3>3. \E msg \in Range(later) : msg.role = "tool" /\ msg.of = op /\ more[Len(more)].status = ShownAs(msg)
      BY <1>4, <1>5, <1>8, <3>2
    <3> QED
      BY <1>1, <1>9, <3>1, <3>2, <3>3, ToldEnds
  <2>2. CASE ~(todo[1].tool = "update_event_conditions" \/ busy)
    <3>1. more = <<>>
      BY <2>2 DEF TellsTheEnd
    <3>2. Silent(ns, op)
      BY <1>3, <1>5, <2>2 DEF Progress
    <3>3. Silent(more, op)
      BY <3>1 DEF Silent, Spoken
    <3> QED
      BY <1>1, <1>8, <1>9, <3>1, <3>2, <3>3, OthersStay
  <2> QED
    BY <2>1, <2>2
<1>14. ASSUME NEW i \in DOMAIN up
       PROVE  /\ up[i].op \in Nat \ {0} /\ Asked(later, up[i].op)
              /\ ToldToTheEnd(up, later, up[i].op) \/ \E k \in DOMAIN undone : undone[k].id = up[i].op
  <2>1. CASE up[i].op = op
    <3>1. ~Silent(up, op)
      BY <2>1 DEF Silent, Spoken
    <3> QED
      BY <1>6, <1>8, <1>13, <2>1, <3>1
  <2>2. CASE up[i].op # op
    <3>1. i \in DOMAIN ns /\ up[i] = ns[i]
      <4>1. i \in 1..n
        <5> SUFFICES ASSUME NEW j \in 1..l, i = n + j PROVE FALSE
          BY <1>11
        <5>1. up[i] = more[j] /\ j \in DOMAIN more
          BY <1>11
        <5> QED
          BY <1>3, <1>5, <2>2, <5>1 DEF TellsTheEnd
      <4> QED
        BY <1>11, <4>1
    <3>2. PICK other : other = ns[i].op
      OBVIOUS
    <3>3. other \in Nat \ {0} /\ Asked(ms, other) /\ (ToldToTheEnd(ns, ms, other) \/ \E k \in DOMAIN todo : todo[k].id = other)
      BY <3>1, <3>2 DEF Progress
    <3>4. ToldToTheEnd(ns, ms, other) => ToldToTheEnd(up, later, other)
      BY <1>1, <1>8, <1>9, <1>12, <2>2, <3>1, <3>2, OthersStay
    <3>5. (\E k \in DOMAIN todo : todo[k].id = other) => \E k \in DOMAIN undone : undone[k].id = other
      <4> SUFFICES ASSUME NEW k \in DOMAIN todo, todo[k].id = other
                   PROVE  \E h \in DOMAIN undone : undone[h].id = other
        OBVIOUS
      <4>1. k # 1 /\ k \in Nat \ {0}
        BY <1>1, <1>3, <1>5, <2>2, <3>1, <3>2
      <4>2. PICK h \in Nat \ {0} : k = h + 1
        <5>1. k - 1 \in Nat \ {0} /\ k = (k - 1) + 1
          BY <4>1
        <5> QED
          BY <5>1
      <4>3. h \in DOMAIN undone /\ undone[h] = todo[k]
        BY <1>3, <4>2
      <4> QED
        BY <4>3
    <3> QED
      BY <1>8, <3>1, <3>2, <3>3, <3>4, <3>5
  <2> QED
    BY <2>1, <2>2
<1>15. ASSUME NEW k \in DOMAIN undone
       PROVE  IF undone[k].tool = "update_event_conditions" \/ (FALSE /\ k = 1)
              THEN Open(up, undone[k].id) ELSE Silent(up, undone[k].id)
  <2>1. k \in Nat \ {0} /\ k + 1 \in DOMAIN todo /\ undone[k] = todo[k + 1] /\ k + 1 # 1
    <3>1. k \in Nat \ {0} /\ k + 1 \in DOMAIN todo /\ undone[k] = todo[k + 1]
      BY <1>3
    <3> QED
      BY <3>1
  <2>2. undone[k].id # op
    BY <1>1, <1>3, <1>5, <2>1 DEF Distinct
  <2>3. IF undone[k].tool = "update_event_conditions"
        THEN Open(ns, undone[k].id) ELSE Silent(ns, undone[k].id)
    BY <2>1 DEF Progress
  <2>4. /\ Silent(ns, undone[k].id) => Silent(up, undone[k].id)
        /\ Open(ns, undone[k].id) => Open(up, undone[k].id)
    BY <1>1, <1>8, <1>9, <1>12, <2>2, OthersStay
  <2> QED
    BY <2>3, <2>4
<1>16. Progress(up, later, undone, FALSE)
  BY <1>11, <1>14, <1>15 DEF Progress
<1> QED
  BY <1>2, <1>7, <1>9, <1>16

----------------------------------------------------------------------------
(* A turn and what is stored *)

FactsFit(ms, facts) ==
    \A f \in facts : f[1] \in 0..Len(ms) /\ f[2] \in 0..Len(ms) /\ FactsOfLastSearch(ms, f)

LEMMA FactsStay ==
    ASSUME NEW ms \in Seq(Messages), NEW m \in Messages, NEW facts, FactsFit(ms, facts)
    PROVE  FactsFit(Append(ms, m), facts)
<1>1. PICK up : up = Append(ms, m)
  OBVIOUS
<1>2. PICK n \in Nat : n = Len(ms)
  BY MoreMessages
<1>3. Len(up) = n + 1 /\ \A i \in 1..n : up[i] = ms[i]
  BY <1>1, <1>2, MoreMessages
<1>4. ASSUME NEW f \in facts
      PROVE  f[1] \in 0..n + 1 /\ f[2] \in 0..n + 1 /\ FactsOfLastSearch(up, f)
  <2>1. f[1] \in 0..n /\ f[2] \in 0..n /\ FactsOfLastSearch(ms, f)
    BY <1>2 DEF FactsFit
  <2>2. ASSUME f[2] # 0
        PROVE  up[f[2]].result = "available" /\ \A j \in f[2] + 1..f[1] : up[j].tool # "search_past_events"
    <3>1. f[2] \in 1..n /\ \A j \in f[2] + 1..f[1] : j \in 1..n
      BY <2>1, <2>2
    <3> QED
      BY <1>3, <2>1, <2>2, <3>1 DEF FactsOfLastSearch
  <2> QED
    BY <2>1, <2>2 DEF FactsOfLastSearch
<1>5. FactsFit(up, facts)
  BY <1>3, <1>4 DEF FactsFit
<1> QED
  BY <1>1, <1>5

LEMMA LatestFits ==
    ASSUME NEW ms \in Seq(Messages)
    PROVE  FactsFit(ms, {<<Len(ms), latest_reference_facts(ms)>>})
<1>1. PICK n \in Nat : n = Len(ms) /\ DOMAIN ms = 1..n
  BY MoreMessages
<1>2. PICK all : all = Searches(ms)
  OBVIOUS
<1>3. all \in SUBSET (1..n) /\ \A j \in 1..n : ms[j].tool = "search_past_events" => j \in all
  BY <1>1, <1>2 DEF Searches
<1>4. PICK k : k = latest_reference_facts(ms)
  OBVIOUS
<1>5. CASE k = 0
  <2>1. FactsOfLastSearch(ms, <<n, k>>)
    BY <1>5 DEF FactsOfLastSearch
  <2>2. 0 \in 0..n /\ n \in 0..n
    OBVIOUS
  <2> QED
    BY <1>1, <1>4, <1>5, <2>1, <2>2 DEF FactsFit
<1>6. CASE k # 0
  <2> DEFINE top == CHOOSE i \in all : \A j \in all : j <= i
  <2>1. k = top /\ all # {} /\ ms[top].result = "available"
    BY <1>2, <1>4, <1>6 DEF latest_reference_facts
  <2>2. top \in all /\ \A j \in all : j <= top
    <3>1. \E i \in all : \A j \in all : j <= i
      BY <1>3, <2>1, LastNumberOf
    <3> QED
      BY <3>1
  <2> HIDE DEF top
  <2>3. k \in 1..n /\ ms[k].result = "available" /\ \A j \in all : j <= k
    BY <1>3, <2>1, <2>2
  <2>4. \A j \in k + 1..n : ms[j].tool # "search_past_events"
    <3> SUFFICES ASSUME NEW j \in k + 1..n, ms[j].tool = "search_past_events" PROVE FALSE
      OBVIOUS
    <3>1. j \in 1..n /\ ~(j <= k)
      BY <2>3
    <3> QED
      BY <1>3, <2>3, <3>1
  <2>5. FactsOfLastSearch(ms, <<n, k>>)
    BY <2>3, <2>4 DEF FactsOfLastSearch
  <2>6. k \in 0..n /\ n \in 0..n
    BY <2>3
  <2> QED
    BY <1>1, <1>4, <2>5, <2>6 DEF FactsFit
<1> QED
  BY <1>5, <1>6

Chat ==
    [at : {"idle", "agent", "tools", "answered", "failed"}, messages : Seq(Messages), todo : Seq(Calls),
     running : BOOLEAN, count : 0..MAX_TOOL_CALLS, searched : BOOLEAN, notices : Seq(Notices),
     facts : SUBSET (Nat \X Nat)]

\* While a turn goes on and once it is answered.
GoesOn(c) ==
    /\ Exchange(c.messages, c.todo)
    /\ Progress(c.notices, c.messages, c.todo, c.running)
    /\ FactsFit(c.messages, c.facts)
    /\ c.at = "agent" => c.todo = <<>>
    /\ c.running => /\ c.todo # <<>> /\ c.todo[1].tool # "update_event_conditions"
                    /\ c.count < MAX_TOOL_CALLS

ProgressIsTrue(c) ==
    /\ \A i \in DOMAIN c.notices : ToldToTheEnd(c.notices, c.messages, c.notices[i].op)
    /\ FactsFit(c.messages, c.facts)

TurnFits(c) ==
    /\ c \in Chat
    /\ c.at \in {"agent", "tools"} => GoesOn(c)
    /\ c.at = "answered" => ProgressIsTrue(c)

HistoryFits(h) ==
    Exchange(h, <<>>) /\ Len(h) <= MAX_PLANNING_HISTORY /\ validate_planning_history(h)

ConversationInv == TurnFits(chat) /\ HistoryFits(history)

LEMMA RestedIs ==
    /\ Rested \in Chat /\ Rested.at = "idle" /\ Rested.messages = <<>> /\ Rested.todo = <<>>
    /\ Rested.running = FALSE /\ Rested.count = 0 /\ Rested.searched = FALSE
    /\ Rested.notices = <<>> /\ Rested.facts = {}
<1>1. 0 \in 0..MAX_TOOL_CALLS
  BY TalkAssumption
<1> QED
  BY <1>1 DEF Rested, Chat

LEMMA RunIsOver ==
    ASSUME TurnFits(chat), chat.at = "tools", chat.todo # <<>>,
           NEW result \in ToolResults, NEW n \in {0, 1}, chat.count + n <= MAX_TOOL_CALLS, NEW more,
           TellsTheEnd(more, chat.todo, chat.running, ToolMessage(Head(chat.todo), result)),
           chat' = call_finished(notify(chat, more), result, n)
    PROVE  TurnFits(chat')
<1>1. chat \in Chat /\ GoesOn(chat) /\ more \in Seq(Notices)
  BY DEF TurnFits, TellsTheEnd
<1>2. PICK m : m = ToolMessage(Head(chat.todo), result)
  OBVIOUS
<1>3. Exchange(chat.messages, chat.todo) /\ Progress(chat.notices, chat.messages, chat.todo, chat.running)
  BY <1>1 DEF GoesOn
<1>4. chat.messages \in Seq(Messages) /\ chat.todo \in Seq(Calls) /\ chat.notices \in Seq(Notices)
  BY <1>1 DEF Chat
<1>5. m \in Messages /\ Tail(chat.todo) \in Seq(Calls)
  BY <1>2, <1>4, CallsAfter, ToolIs
<1>6. PICK ms, ns, undone : ms = Append(chat.messages, m) /\ ns = chat.notices \o more /\ undone = Tail(chat.todo)
  OBVIOUS
<1>7. ms \in Seq(Messages) /\ ns \in Seq(Notices) /\ undone \in Seq(Calls)
  BY <1>1, <1>4, <1>5, <1>6
<1>8. PICK searched \in BOOLEAN : searched = (chat.searched \/ Head(chat.todo).tool = "search_past_events")
  OBVIOUS
<1>9. PICK t : t = notify(chat, more)
  OBVIOUS
<1>10. t \in Chat /\ t = [chat EXCEPT !.notices = ns]
  BY <1>1, <1>6, <1>7, <1>9 DEF notify, Chat
<1>11. chat' = [t EXCEPT !.messages = ms, !.todo = undone, !.running = FALSE,
                         !.count = chat.count + n, !.searched = searched]
  <2>1. /\ t.messages = chat.messages /\ t.todo = chat.todo /\ t.count = chat.count /\ t.searched = chat.searched
    BY <1>1, <1>10 DEF Chat
  <2>2. chat' = [t EXCEPT !.messages = Append(t.messages, m), !.todo = Tail(t.todo), !.running = FALSE,
                          !.count = t.count + n,
                          !.searched = t.searched \/ Head(chat.todo).tool = "search_past_events"]
    BY <1>2, <1>9, Zenon DEF call_finished, CurrentCall
  <2> QED
    BY <1>6, <1>8, <2>1, <2>2
<1>12. chat.count + n \in 0..MAX_TOOL_CALLS
  BY <1>1, TalkAssumption DEF Chat
<1>13. /\ chat' \in Chat /\ chat'.at = "tools" /\ chat'.messages = ms /\ chat'.todo = undone
       /\ chat'.running = FALSE /\ chat'.notices = ns /\ chat'.facts = chat.facts
  <2>1. t.at = "tools" /\ t.notices = ns /\ t.facts = chat.facts
    BY <1>1, <1>10 DEF Chat
  <2>2. PICK count \in 0..MAX_TOOL_CALLS : count = chat.count + n
    BY <1>12
  <2>3. PICK no \in BOOLEAN : no = FALSE
    OBVIOUS
  <2>4. chat' = [t EXCEPT !.messages = ms, !.todo = undone, !.running = no,
                          !.count = count, !.searched = searched]
    BY <1>11, <2>2, <2>3
  <2>5. /\ chat' \in Chat /\ chat'.at = t.at /\ chat'.messages = ms /\ chat'.todo = undone
        /\ chat'.running = no /\ chat'.notices = t.notices /\ chat'.facts = t.facts
    <3>1. t \in Chat
      BY <1>10
    <3>2. /\ chat'.at = t.at /\ chat'.messages = ms /\ chat'.todo = undone /\ chat'.running = no
          /\ chat'.notices = t.notices /\ chat'.facts = t.facts
      BY <2>4, <3>1 DEF Chat
    <3>3. chat' \in Chat
      BY <1>7, <2>4, <3>1 DEF Chat
    <3> QED
      BY <3>2, <3>3
  <2> QED
    BY <2>1, <2>3, <2>5
<1>14. Exchange(ms, undone)
  BY <1>2, <1>3, <1>6, ExchangeAnswers
<1>15. Progress(ns, ms, undone, FALSE)
  BY <1>2, <1>3, <1>6, ProgressEnds
<1>16. FactsFit(ms, chat.facts)
  BY <1>1, <1>4, <1>5, <1>6, FactsStay DEF GoesOn
<1> QED
  BY <1>13, <1>14, <1>15, <1>16 DEF TurnFits, GoesOn

LEMMA NothingTold == ASSUME chat \in Chat PROVE notify(chat, <<>>) = chat
<1>1. chat.notices \o <<>> = chat.notices
  BY DEF Chat
<1>2. notify(chat, <<>>) = [chat EXCEPT !.notices = chat.notices]
  BY <1>1 DEF notify
<1> QED
  BY <1>2 DEF Chat

\* The call whose turn it is.
LEMMA FirstCall ==
    ASSUME chat \in Chat, chat.todo # <<>>
    PROVE  CurrentCall \in Calls /\ CurrentCall = chat.todo[1] /\ CurrentCall.id \in Nat /\ CurrentCall = Head(chat.todo)
<1>1. chat.todo \in Seq(Calls)
  BY DEF Chat
<1>2. CurrentCall \in Calls /\ CurrentCall = chat.todo[1]
  BY <1>1, CallsAfter DEF CurrentCall
<1>3. CurrentCall.id \in Nat
  BY <1>2, TalkAssumption DEF Calls
<1> QED
  BY <1>2, <1>3 DEF CurrentCall

LEMMA OneTold ==
    ASSUME chat \in Chat, chat.todo # <<>>, NEW result \in ToolResults, NEW e \in Notices,
           e.op = CurrentCall.id, e.status # "running",
           e.status = ShownAs(ToolMessage(CurrentCall, result)),
           CurrentCall.tool = "update_event_conditions" \/ chat.running
    PROVE  TellsTheEnd(<<e>>, chat.todo, chat.running, ToolMessage(Head(chat.todo), result))
<1>1. PICK more : more = <<e>>
  OBVIOUS
<1>2. more \in Seq(Notices) /\ Len(more) = 1 /\ DOMAIN more = 1..1 /\ more[1] = e /\ more # <<>>
  BY <1>1
<1>3. \A j \in DOMAIN more : j = 1
  BY <1>2
<1>4. CurrentCall = chat.todo[1] /\ CurrentCall = Head(chat.todo)
  BY FirstCall
<1>5. TellsTheEnd(more, chat.todo, chat.running, ToolMessage(CurrentCall, result))
  BY <1>2, <1>3, <1>4 DEF TellsTheEnd
<1> QED
  BY <1>1, <1>4, <1>5

LEMMA ShownResults ==
    ASSUME NEW call \in Calls, NEW result \in ToolResults
    PROVE  ShownAs(ToolMessage(call, result)) =
             IF result \in {"applied", "available", "generated"} THEN "completed"
             ELSE IF result = "not_found" THEN "empty"
             ELSE IF call.tool = "update_event_conditions" THEN "skipped"
             ELSE "failed"
<1>1. PICK m : m = ToolMessage(call, result)
  OBVIOUS
<1>2. m.result = result /\ m.tool = call.tool
  BY <1>1, ToolIs
<1> QED
  BY <1>1, <1>2 DEF ShownAs

LEMMA ConditionTold ==
    ASSUME chat \in Chat, chat.todo # <<>>, CurrentCall.tool = "update_event_conditions",
           NEW result \in {"applied", "topics", "unchanged", "rejected"}
    PROVE  TellsTheEnd(condition_told(result), chat.todo, chat.running, ToolMessage(Head(chat.todo), result))
<1>1. CurrentCall \in Calls /\ CurrentCall.id \in Nat /\ result \in ToolResults
  BY FirstCall DEF ToolResults
<1>2. PICK status : status = IF result = "applied" THEN "completed" ELSE "skipped"
  OBVIOUS
<1>3. PICK e : e = Notice(CurrentCall.id, "condition_applied", status)
  OBVIOUS
<1>4. e \in Notices /\ e.op = CurrentCall.id /\ e.status = status
  BY <1>1, <1>2, <1>3 DEF Notice, Notices
<1>5. status = ShownAs(ToolMessage(CurrentCall, result)) /\ status # "running"
  BY <1>1, <1>2, ShownResults
<1>6. condition_told(result) = <<e>>
  BY <1>2, <1>3 DEF condition_told
<1> QED
  BY <1>1, <1>4, <1>5, <1>6, OneTold

LEMMA OverLimitKeeps == ASSUME TurnFits(chat), over_limit PROVE TurnFits(chat')
<1>1. /\ chat.at = "tools" /\ chat.todo # <<>> /\ chat.count >= MAX_TOOL_CALLS
      /\ chat' = call_finished(IF CurrentCall.tool = "update_event_conditions"
                      THEN notify(chat, condition_told("rejected")) ELSE chat, "rejected", 0)
  BY DEF over_limit
<1>2. chat \in Chat /\ GoesOn(chat)
  BY <1>1 DEF TurnFits
<1>3. chat.count \in Nat /\ chat.count <= MAX_TOOL_CALLS
  BY <1>2, TalkAssumption DEF Chat
<1>4. ~chat.running
  BY <1>1, <1>2, <1>3, TalkAssumption DEF GoesOn
<1>5. "rejected" \in ToolResults /\ 0 \in {0, 1} /\ chat.count + 0 <= MAX_TOOL_CALLS
  BY <1>3 DEF ToolResults
<1>6. CASE CurrentCall.tool = "update_event_conditions"
  <2>1. TellsTheEnd(condition_told("rejected"), chat.todo, chat.running, ToolMessage(Head(chat.todo), "rejected"))
    BY <1>1, <1>2, <1>6, ConditionTold
  <2>2. chat' = call_finished(notify(chat, condition_told("rejected")), "rejected", 0)
    BY <1>1, <1>6
  <2> QED
    BY <1>1, <1>5, <2>1, <2>2, RunIsOver
<1>7. CASE CurrentCall.tool # "update_event_conditions"
  <2>1. CurrentCall = chat.todo[1]
    BY <1>1, <1>2, FirstCall
  <2>2. TellsTheEnd(<<>>, chat.todo, chat.running, ToolMessage(Head(chat.todo), "rejected"))
    BY <1>4, <1>7, <2>1 DEF TellsTheEnd
  <2>3. chat' = call_finished(notify(chat, <<>>), "rejected", 0)
    BY <1>1, <1>2, <1>7, NothingTold
  <2> QED
    BY <1>1, <1>5, <2>2, <2>3, RunIsOver
<1> QED
  BY <1>6, <1>7

LEMMA RunConditionsKeeps == ASSUME TurnFits(chat), run_conditions PROVE TurnFits(chat')
<1>1. PICK result \in {"applied", "topics", "unchanged", "rejected"} :
        chat' = call_finished(notify(chat, condition_told(result)), result, 1)
  BY DEF run_conditions
<1>2. /\ chat.at = "tools" /\ chat.todo # <<>> /\ chat.count < MAX_TOOL_CALLS
      /\ CurrentCall.tool = "update_event_conditions"
  BY DEF run_conditions, Ready
<1>3. chat \in Chat
  BY DEF TurnFits
<1>4. chat.count + 1 <= MAX_TOOL_CALLS /\ result \in ToolResults /\ 1 \in {0, 1}
  BY <1>2, <1>3, TalkAssumption DEF Chat, ToolResults
<1>5. TellsTheEnd(condition_told(result), chat.todo, chat.running, ToolMessage(Head(chat.todo), result))
  BY <1>2, <1>3, ConditionTold
<1> QED
  BY <1>1, <1>2, <1>4, <1>5, RunIsOver

LEMMA RefuseCallKeeps == ASSUME TurnFits(chat), refuse_call PROVE TurnFits(chat')
<1>1. /\ chat.at = "tools" /\ chat.todo # <<>> /\ ~chat.running /\ chat.count < MAX_TOOL_CALLS
      /\ CurrentCall.tool # "update_event_conditions"
      /\ chat' = call_finished(chat, "rejected", 1)
  BY DEF refuse_call, Ready
<1>2. chat \in Chat
  BY DEF TurnFits
<1>3. chat.count + 1 <= MAX_TOOL_CALLS /\ "rejected" \in ToolResults /\ 1 \in {0, 1}
  BY <1>1, <1>2, TalkAssumption DEF Chat, ToolResults
<1>4. CurrentCall = chat.todo[1]
  BY <1>1, <1>2, FirstCall
<1>5. TellsTheEnd(<<>>, chat.todo, chat.running, ToolMessage(Head(chat.todo), "rejected"))
  BY <1>1, <1>4 DEF TellsTheEnd
<1>6. chat' = call_finished(notify(chat, <<>>), "rejected", 1)
  BY <1>1, <1>2, NothingTold
<1> QED
  BY <1>1, <1>3, <1>5, <1>6, RunIsOver

LEMMA SearchEndsKeeps == ASSUME TurnFits(chat), search_ends PROVE TurnFits(chat')
<1>1. PICK result \in {"available", "not_found", "failed"} :
        chat' = call_finished(notify(chat, search_told(result)), result, 1)
  BY DEF search_ends
<1>2. chat.at = "tools" /\ chat.running /\ CurrentCall.tool = "search_past_events"
  BY DEF search_ends
<1>3. chat \in Chat /\ GoesOn(chat)
  BY <1>2 DEF TurnFits
<1>4. chat.todo # <<>> /\ chat.count < MAX_TOOL_CALLS
  BY <1>2, <1>3 DEF GoesOn
<1>5. chat.count + 1 <= MAX_TOOL_CALLS /\ result \in ToolResults /\ 1 \in {0, 1}
  BY <1>3, <1>4, TalkAssumption DEF Chat, ToolResults
<1>6. PICK status : status = (CASE result = "available" -> "completed"
                              [] result = "not_found" -> "empty"
                              [] result = "failed"    -> "failed")
  OBVIOUS
<1>7. CurrentCall \in Calls /\ CurrentCall.id \in Nat
  BY <1>3, <1>4, FirstCall
<1>8. status \in {"completed", "empty", "failed"} /\ status = ShownAs(ToolMessage(CurrentCall, result))
  BY <1>2, <1>5, <1>6, <1>7, ShownResults
<1>9. PICK e : e = Notice(CurrentCall.id, "search_finished", status)
  OBVIOUS
<1>10. e \in Notices /\ e.op = CurrentCall.id /\ e.status = status /\ e.status # "running"
  BY <1>7, <1>8, <1>9 DEF Notice, Notices
<1>11. search_told(result) = <<e>>
  BY <1>6, <1>9, Zenon DEF search_told
<1>12. TellsTheEnd(search_told(result), chat.todo, chat.running, ToolMessage(Head(chat.todo), result))
  BY <1>2, <1>3, <1>4, <1>5, <1>8, <1>10, <1>11, OneTold
<1> QED
  BY <1>1, <1>2, <1>4, <1>5, <1>12, RunIsOver

\* The words of a generation, for a call or for the button.
LEMMA GenerationTold ==
    ASSUME NEW op \in Nat, NEW result, NEW wrote \in BOOLEAN
    PROVE  LET more == generation_told(op, result, wrote)
           IN  /\ more \in Seq(Notices) /\ more # <<>>
               /\ \A j \in DOMAIN more : more[j].op = op
               /\ \A j \in DOMAIN more : j < Len(more) => more[j].status = "running"
               /\ more[Len(more)].status = IF result = "generated" THEN "completed" ELSE "failed"
<1>1. PICK status : status = IF result = "generated" THEN "completed" ELSE "failed"
  OBVIOUS
<1>2. PICK w, e : /\ w = Notice(op, "generation_writing", "running")
                  /\ e = Notice(op, "generation_finished", status)
  OBVIOUS
<1>3. /\ w \in Notices /\ w.op = op /\ w.status = "running"
      /\ e \in Notices /\ e.op = op /\ e.status = status
  BY <1>1, <1>2 DEF Notice, Notices
<1>4. PICK more : more = generation_told(op, result, wrote)
  OBVIOUS
<1>5. more = (IF wrote THEN <<w>> ELSE <<>>) \o <<e>>
  BY <1>1, <1>2, <1>4, Zenon DEF generation_told
<1>6. CASE wrote
  <2>1. PICK a, b : a = <<w>> /\ b = <<e>>
    OBVIOUS
  <2>2. /\ a \in Seq(Notices) /\ Len(a) = 1 /\ a[1] = w
        /\ b \in Seq(Notices) /\ Len(b) = 1 /\ b[1] = e
    BY <1>3, <2>1
  <2>3. more = a \o b
    BY <1>5, <1>6, <2>1
  <2>4. more \in Seq(Notices) /\ Len(more) = 2 /\ DOMAIN more = 1..2 /\ more[1] = w /\ more[2] = e /\ more # <<>>
    <3>1. a \in Seq(Notices) /\ b \in Seq(Notices)
      BY <2>2
    <3>2. more \in Seq(Notices) /\ DOMAIN more = 1..Len(a) + Len(b)
      BY <2>3, <3>1, MoreNotices
    <3>3. Len(a) + Len(b) = 2 /\ 1 \in 1..Len(a) /\ 1 \in 1..Len(b)
      BY <2>2
    <3>4. Len(more) = 2 /\ DOMAIN more = 1..2
      BY <3>2, <3>3
    <3>5. more[1] = a[1]
      BY <2>3, <3>1, <3>3, MoreNotices
    <3>6. more[Len(a) + 1] = b[1]
      BY <2>3, <3>1, <3>3, MoreNotices
    <3>7. Len(a) + 1 = 2
      BY <2>2
    <3>8. more # <<>>
      BY <3>4
    <3> QED
      BY <2>2, <3>2, <3>4, <3>5, <3>6, <3>7, <3>8
  <2>5. \A j \in DOMAIN more : j = 1 \/ j = 2
    BY <2>4
  <2> QED
    BY <1>1, <1>3, <1>4, <2>4, <2>5
<1>7. CASE ~wrote
  <2>1. more = <<e>>
    BY <1>5, <1>7
  <2>2. more \in Seq(Notices) /\ Len(more) = 1 /\ DOMAIN more = 1..1 /\ more[1] = e /\ more # <<>>
    BY <1>3, <2>1
  <2>3. \A j \in DOMAIN more : j = 1
    BY <2>2
  <2> QED
    BY <1>1, <1>3, <1>4, <2>2, <2>3
<1> QED
  BY <1>6, <1>7

LEMMA GenerationEndsKeeps == ASSUME TurnFits(chat), generation_ends PROVE TurnFits(chat')
<1>1. PICK result \in {"generated", "failed"}, wrote \in BOOLEAN :
        chat' = call_finished(notify(chat, generation_told(CurrentCall.id, result, wrote)), result, 1)
  BY DEF generation_ends
<1>2. chat.at = "tools" /\ chat.running /\ CurrentCall.tool = "generate_event_plan"
  BY DEF generation_ends
<1>3. chat \in Chat /\ GoesOn(chat)
  BY <1>2 DEF TurnFits
<1>4. chat.todo # <<>> /\ chat.count < MAX_TOOL_CALLS
  BY <1>2, <1>3 DEF GoesOn
<1>5. chat.count + 1 <= MAX_TOOL_CALLS /\ result \in ToolResults /\ 1 \in {0, 1}
  BY <1>3, <1>4, TalkAssumption DEF Chat, ToolResults
<1>6. CurrentCall \in Calls /\ CurrentCall.id \in Nat /\ CurrentCall = chat.todo[1] /\ CurrentCall = Head(chat.todo)
  BY <1>3, <1>4, FirstCall
<1>7. PICK more : more = generation_told(CurrentCall.id, result, wrote)
  OBVIOUS
<1>8. /\ more \in Seq(Notices) /\ more # <<>>
      /\ \A j \in DOMAIN more : more[j].op = CurrentCall.id
      /\ \A j \in DOMAIN more : j < Len(more) => more[j].status = "running"
      /\ more[Len(more)].status = IF result = "generated" THEN "completed" ELSE "failed"
  BY <1>6, <1>7, GenerationTold
<1>9. more[Len(more)].status # "running" /\ more[Len(more)].status = ShownAs(ToolMessage(CurrentCall, result))
  BY <1>2, <1>5, <1>6, <1>8, ShownResults
<1>10. TellsTheEnd(more, chat.todo, chat.running, ToolMessage(CurrentCall, result))
  BY <1>2, <1>6, <1>8, <1>9 DEF TellsTheEnd
<1> QED
  BY <1>1, <1>2, <1>4, <1>5, <1>6, <1>7, <1>10, RunIsOver

LEMMA BeginTurnFits == ASSUME HistoryFits(history), begin_turn PROVE TurnFits(chat')
<1>1. PICK u \in UserIds :
        chat' = IF restorable(u)
                THEN [Rested EXCEPT !.at = "agent", !.messages = Append(history, UserMessage(u))]
                ELSE [Rested EXCEPT !.at = "failed"]
  BY DEF begin_turn
<1>2. PICK r : r = Rested
  OBVIOUS
<1>3. /\ r \in Chat /\ r.at = "idle" /\ r.messages = <<>> /\ r.todo = <<>>
      /\ r.running = FALSE /\ r.count = 0 /\ r.searched = FALSE
      /\ r.notices = <<>> /\ r.facts = {}
  BY <1>2, RestedIs
<1>4. CASE restorable(u)
  <2>1. PICK ms : ms = Append(history, UserMessage(u))
    OBVIOUS
  <2>2. Exchange(ms, <<>>)
    BY <1>4, <2>1, ExchangeBegins DEF HistoryFits, restorable
  <2>3. ms \in Seq(Messages)
    BY <2>2 DEF Exchange
  <2>4. chat' = [r EXCEPT !.at = "agent", !.messages = ms]
    BY <1>1, <1>2, <1>4, <2>1
  <2>5. /\ chat' \in Chat /\ chat'.at = "agent" /\ chat'.messages = ms /\ chat'.todo = <<>>
        /\ chat'.running = FALSE /\ chat'.notices = <<>> /\ chat'.facts = {}
    BY <1>3, <2>3, <2>4 DEF Chat
  <2>6. Progress(<<>>, ms, <<>>, FALSE)
    BY DEF Progress
  <2>7. FactsFit(ms, {})
    BY DEF FactsFit
  <2> QED
    BY <2>2, <2>5, <2>6, <2>7 DEF TurnFits, GoesOn
<1>5. CASE ~restorable(u)
  <2>1. chat' = [r EXCEPT !.at = "failed"]
    BY <1>1, <1>2, <1>5
  <2>2. chat' \in Chat /\ chat'.at = "failed"
    BY <1>3, <2>1 DEF Chat
  <2> QED
    BY <2>2 DEF TurnFits
<1> QED
  BY <1>4, <1>5

LEMMA AskForToolsKeeps == ASSUME TurnFits(chat), ask_for_tools PROVE TurnFits(chat')
<1>1. PICK asked \in Offered(chat.messages) :
         chat' = IF fresh_ids(asked, chat.messages)
                 THEN [notify(chat, announced(asked)) EXCEPT !.at = "tools", !.todo = asked, !.searched = FALSE,
                                   !.messages = Append(@, Assistant(asked))]
                 ELSE [notify(chat, announced(asked)) EXCEPT !.at = "failed"]
  BY DEF ask_for_tools
<1>2. chat.at = "agent"
  BY DEF ask_for_tools
<1>3. chat \in Chat /\ GoesOn(chat) /\ chat.todo = <<>>
  BY <1>2 DEF TurnFits, GoesOn
<1>4. asked \in Seq(Calls)
  <2>1. PICK n \in 1..MaxCallsPerAnswer : asked \in [1..n -> Calls]
    BY DEF Offered
  <2>2. n \in Nat
    BY TalkAssumption
  <2> QED
    BY <2>1, <2>2
<1>5. PICK more : more = announced(asked)
  OBVIOUS
<1>6. more \in Seq(Notices)
  BY <1>4, <1>5, AnnouncedOf DEF AnnouncesOf
<1>7. PICK ns, t : ns = chat.notices \o more /\ t = notify(chat, more)
  OBVIOUS
<1>8. chat.notices \in Seq(Notices) /\ chat.messages \in Seq(Messages) /\ chat.running \in BOOLEAN
  BY <1>3 DEF Chat
<1>9. ns \in Seq(Notices)
  BY <1>6, <1>7, <1>8
<1>10. t = [chat EXCEPT !.notices = ns]
  BY <1>7 DEF notify
<1>11. /\ t \in Chat /\ t.notices = ns /\ t.messages = chat.messages /\ t.facts = chat.facts
       /\ t.running = chat.running /\ t.count = chat.count
  BY <1>3, <1>9, <1>10 DEF Chat
<1>12. CASE fresh_ids(asked, chat.messages)
  <2>1. PICK ms : ms = Append(chat.messages, Assistant(asked))
    OBVIOUS
  <2>2. Assistant(asked) \in Messages
    BY <1>4, AssistantIs
  <2>3. ms \in Seq(Messages)
    BY <1>8, <2>1, <2>2
  <2>4. PICK no \in BOOLEAN : no = FALSE
    OBVIOUS
  <2>5. chat' = [t EXCEPT !.at = "tools", !.todo = asked, !.searched = no, !.messages = ms]
    BY <1>1, <1>5, <1>7, <1>11, <1>12, <2>1, <2>4
  <2>6. /\ chat'.at = "tools" /\ chat'.messages = ms /\ chat'.todo = asked
        /\ chat'.running = t.running /\ chat'.notices = t.notices /\ chat'.facts = t.facts
    BY <1>11, <2>5 DEF Chat
  <2>7. chat' \in Chat
    BY <1>4, <1>11, <2>3, <2>5 DEF Chat
  <2>8. Distinct(asked) /\ \A k \in DOMAIN asked : ~Asked(chat.messages, asked[k].id)
    <3>1. Distinct(asked)
      BY <1>4, <1>12, IdsDiffer DEF fresh_ids, Distinct
    <3>2. ASSUME NEW k \in DOMAIN asked PROVE ~Asked(chat.messages, asked[k].id)
      <4>1. asked[k] \in Range(asked)
        BY Zenon DEF Range
      <4>2. asked[k].id \in IdsOf(Range(asked))
        BY <4>1 DEF IdsOf
      <4> QED
        BY <1>12, <4>2, AskedIds DEF fresh_ids
    <3> QED
      BY <3>1, <3>2
  <2>9. ~chat.running
    BY <1>3 DEF GoesOn
  <2>10. Exchange(chat.messages, <<>>) /\ Progress(chat.notices, chat.messages, <<>>, FALSE)
    BY <1>3, <1>8, <2>9 DEF GoesOn
  <2>11. Exchange(ms, asked)
    BY <1>4, <2>1, <2>8, <2>10, ExchangeAsks
  <2>12. Progress(ns, ms, asked, FALSE)
    BY <1>4, <1>5, <1>7, <1>8, <2>1, <2>8, <2>10, ProgressAsks
  <2>13. FactsFit(ms, chat.facts)
    BY <1>3, <1>8, <2>1, <2>2, FactsStay DEF GoesOn
  <2>14. chat'.running = FALSE
    BY <1>8, <1>11, <2>6, <2>9
  <2> QED
    BY <1>11, <2>6, <2>7, <2>11, <2>12, <2>13, <2>14 DEF TurnFits, GoesOn
<1>13. CASE ~fresh_ids(asked, chat.messages)
  <2>1. chat' = [t EXCEPT !.at = "failed"]
    BY <1>1, <1>5, <1>7, <1>13
  <2>2. chat' \in Chat /\ chat'.at = "failed"
    BY <1>11, <2>1 DEF Chat
  <2> QED
    BY <2>2 DEF TurnFits
<1> QED
  BY <1>12, <1>13

\* A search or a generation that starts.
LEMMA RunStartKeeps ==
    ASSUME TurnFits(chat), chat.at = "tools", chat.todo # <<>>, ~chat.running, chat.count < MAX_TOOL_CALLS,
           CurrentCall.tool # "update_event_conditions",
           NEW e \in Notices, e.op = CurrentCall.id, e.status = "running",
           NEW facts \in SUBSET (Nat \X Nat), FactsFit(chat.messages, facts),
           chat' = [chat EXCEPT !.running = TRUE, !.facts = facts, !.notices = chat.notices \o <<e>>]
    PROVE  TurnFits(chat')
<1>1. chat \in Chat /\ GoesOn(chat)
  BY DEF TurnFits
<1>2. /\ chat.notices \in Seq(Notices) /\ chat.messages \in Seq(Messages) /\ chat.todo \in Seq(Calls)
      /\ chat.running = FALSE
  BY <1>1 DEF Chat
<1>3. PICK ns : ns = chat.notices \o <<e>>
  OBVIOUS
<1>4. ns \in Seq(Notices)
  BY <1>2, <1>3
<1>5. PICK yes \in BOOLEAN : yes = TRUE
  OBVIOUS
<1>6. chat' = [chat EXCEPT !.running = yes, !.facts = facts, !.notices = ns]
  BY <1>3, <1>5
<1>7. /\ chat'.at = "tools" /\ chat'.messages = chat.messages /\ chat'.todo = chat.todo
      /\ chat'.running = yes /\ chat'.notices = ns /\ chat'.facts = facts /\ chat'.count = chat.count
  BY <1>1, <1>6 DEF Chat
<1>8. chat' \in Chat
  BY <1>1, <1>4, <1>6 DEF Chat
<1>9. CurrentCall = chat.todo[1]
  BY <1>1, FirstCall
<1>10. Exchange(chat.messages, chat.todo) /\ Progress(chat.notices, chat.messages, chat.todo, FALSE)
  BY <1>1, <1>2 DEF GoesOn
<1>11. Progress(ns, chat.messages, chat.todo, TRUE)
  BY <1>2, <1>3, <1>9, <1>10, ProgressStarts
<1> QED
  BY <1>5, <1>7, <1>8, <1>9, <1>10, <1>11 DEF TurnFits, GoesOn

LEMMA StartSearchKeeps == ASSUME TurnFits(chat), start_search PROVE TurnFits(chat')
<1>1. /\ chat.at = "tools" /\ chat.todo # <<>> /\ ~chat.running /\ chat.count < MAX_TOOL_CALLS
      /\ CurrentCall.tool = "search_past_events"
  BY DEF start_search, Ready
<1>2. PICK e : e = Notice(CurrentCall.id, "search_started", "running")
  OBVIOUS
<1>3. chat \in Chat /\ GoesOn(chat)
  BY <1>1 DEF TurnFits
<1>4. e \in Notices /\ e.op = CurrentCall.id /\ e.status = "running"
  BY <1>1, <1>2, <1>3, FirstCall DEF Notice, Notices
<1>5. chat' = notify([chat EXCEPT !.running = TRUE], <<e>>)
  BY <1>2 DEF start_search
<1>6. chat' = [chat EXCEPT !.running = TRUE, !.facts = chat.facts, !.notices = chat.notices \o <<e>>]
  BY <1>3, <1>5 DEF notify, Chat
<1>7. chat.facts \in SUBSET (Nat \X Nat) /\ FactsFit(chat.messages, chat.facts)
  BY <1>3 DEF Chat, GoesOn
<1> QED
  BY <1>1, <1>4, <1>6, <1>7, RunStartKeeps

LEMMA StartGenerationKeeps == ASSUME TurnFits(chat), start_plan_generation PROVE TurnFits(chat')
<1>1. /\ chat.at = "tools" /\ chat.todo # <<>> /\ ~chat.running /\ chat.count < MAX_TOOL_CALLS
      /\ CurrentCall.tool = "generate_event_plan"
  BY DEF start_plan_generation, Ready
<1>2. PICK e : e = Notice(CurrentCall.id, "generation_started", "running")
  OBVIOUS
<1>3. chat \in Chat /\ GoesOn(chat)
  BY <1>1 DEF TurnFits
<1>4. e \in Notices /\ e.op = CurrentCall.id /\ e.status = "running"
  BY <1>1, <1>2, <1>3, FirstCall DEF Notice, Notices
<1>5. PICK new : new = {<<Len(chat.messages), latest_reference_facts(chat.messages)>>}
  OBVIOUS
<1>6. PICK facts : facts = chat.facts \cup new
  OBVIOUS
<1>7. chat' = notify([chat EXCEPT !.running = TRUE, !.facts = facts], <<e>>)
  BY <1>2, <1>5, <1>6 DEF start_plan_generation
<1>8. chat' = [chat EXCEPT !.running = TRUE, !.facts = facts, !.notices = chat.notices \o <<e>>]
  BY <1>3, <1>7 DEF notify, Chat
<1>9. chat.messages \in Seq(Messages)
  BY <1>3 DEF Chat
<1>10. FactsFit(chat.messages, new) /\ FactsFit(chat.messages, chat.facts)
  BY <1>3, <1>5, <1>9, LatestFits DEF GoesOn
<1>11. FactsFit(chat.messages, facts)
  BY <1>6, <1>10 DEF FactsFit
<1>12. new \in SUBSET (Nat \X Nat)
  <2>1. PICK n, k : n = Len(chat.messages) /\ k = latest_reference_facts(chat.messages)
    OBVIOUS
  <2>2. n \in Nat /\ k \in 0..n
    BY <1>5, <1>9, <1>10, <2>1 DEF FactsFit
  <2> QED
    BY <1>5, <2>1, <2>2
<1>13. facts \in SUBSET (Nat \X Nat)
  BY <1>3, <1>6, <1>12 DEF Chat
<1> QED
  BY <1>1, <1>4, <1>8, <1>11, <1>13, RunStartKeeps

LEMMA ConversationInvHolds == TalkInit => ConversationInv
<1> SUFFICES ASSUME TalkInit PROVE ConversationInv
  OBVIOUS
<1>1. history = <<>> /\ chat = Rested
  BY DEF TalkInit
<1>2. TurnFits(chat)
  BY <1>1, RestedIs DEF TurnFits
<1>3. PICK e : e = <<>>
  OBVIOUS
<1>4. e \in Seq(Messages) /\ e \in Seq(Calls) /\ Len(e) = 0 /\ DOMAIN e = {}
  BY <1>3
<1>5. Exchange(e, e)
  BY <1>4 DEF Exchange, Answered, AskedBefore, SaidOnce, Distinct
<1>6. Len(e) <= MAX_PLANNING_HISTORY
  BY <1>4, TalkAssumption
<1> QED
  BY <1>1, <1>2, <1>3, <1>5, <1>6, NothingIsValid DEF ConversationInv, HistoryFits

LEMMA AllRunKeeps == ASSUME TurnFits(chat), all_run PROVE TurnFits(chat')
<1>1. chat.at = "tools" /\ chat.todo = <<>> /\ chat' = [chat EXCEPT !.at = "agent"]
  BY DEF all_run
<1>2. chat \in Chat /\ GoesOn(chat)
  BY <1>1 DEF TurnFits
<1>3. /\ chat' \in Chat /\ chat'.at = "agent" /\ chat'.messages = chat.messages /\ chat'.todo = chat.todo
      /\ chat'.running = chat.running /\ chat'.notices = chat.notices /\ chat'.facts = chat.facts
      /\ chat'.count = chat.count
  BY <1>1, <1>2 DEF Chat
<1>4. GoesOn(chat')
  BY <1>1, <1>2, <1>3 DEF GoesOn
<1> QED
  BY <1>3, <1>4 DEF TurnFits

LEMMA AnsweringKeeps == ASSUME ConversationInv, answer_member PROVE TurnFits(chat') /\ HistoryFits(history')
<1>1. chat.at = "agent"
  BY DEF answer_member
<1>2. chat \in Chat /\ GoesOn(chat) /\ chat.todo = <<>> /\ HistoryFits(history)
  BY <1>1 DEF ConversationInv, TurnFits, GoesOn
<1>3. PICK none : none = <<>>
  OBVIOUS
<1>4. none \in Seq(Calls) /\ none \in Seq(Notices) /\ DOMAIN none = {}
  BY <1>3
<1>5. PICK m, ms : m = Assistant(none) /\ ms = Append(chat.messages, m)
  OBVIOUS
<1>6. IF storable(ms) THEN history' = ms /\ chat' = [chat EXCEPT !.at = "answered", !.messages = ms]
      ELSE chat' = [chat EXCEPT !.at = "failed"] /\ history' = history
  BY <1>3, <1>5 DEF answer_member
<1>7. chat.messages \in Seq(Messages) /\ m \in Messages
  BY <1>2, <1>4, <1>5, AssistantIs DEF Chat
<1>8. CASE storable(ms)
  <2>1. history' = ms /\ chat' = [chat EXCEPT !.at = "answered", !.messages = ms]
    BY <1>6, <1>8
  <2>2. Exchange(ms, none)
    <3>1. Distinct(none) /\ \A k \in DOMAIN none : ~Asked(chat.messages, none[k].id)
      BY <1>4 DEF Distinct
    <3>2. Exchange(chat.messages, <<>>)
      BY <1>2 DEF GoesOn
    <3> QED
      BY <1>4, <1>5, <3>1, <3>2, ExchangeAsks
  <2>3. HistoryFits(history')
    BY <1>3, <1>8, <2>1, <2>2 DEF HistoryFits, storable
  <2>4. ms \in Seq(Messages)
    BY <2>2 DEF Exchange
  <2>5. /\ chat' \in Chat /\ chat'.at = "answered" /\ chat'.messages = ms
        /\ chat'.notices = chat.notices /\ chat'.facts = chat.facts
    BY <1>2, <2>1, <2>4 DEF Chat
  <2>6. FactsFit(ms, chat.facts)
    BY <1>2, <1>5, <1>7, FactsStay DEF GoesOn
  <2>7. ASSUME NEW i \in DOMAIN chat.notices
        PROVE  ToldToTheEnd(chat.notices, ms, chat.notices[i].op)
    <3>1. PICK ns, op : ns = chat.notices /\ op = chat.notices[i].op
      OBVIOUS
    <3>2. ns \in Seq(Notices)
      BY <1>2, <3>1 DEF Chat
    <3>3. ToldToTheEnd(ns, chat.messages, op)
      BY <1>2, <1>3, <1>4, <3>1 DEF GoesOn, Progress
    <3>4. Silent(none, op)
      BY <1>4 DEF Silent, Spoken
    <3>5. Range(chat.messages) \subseteq Range(ms)
      BY <1>5, <1>7, RangeMore
    <3>6. ns \o none = ns
      BY <1>3, <3>2
    <3> QED
      BY <1>4, <3>1, <3>2, <3>3, <3>4, <3>5, <3>6, OthersStay
  <2> QED
    BY <2>3, <2>5, <2>6, <2>7 DEF TurnFits, ProgressIsTrue
<1>9. CASE ~storable(ms)
  <2>1. chat' = [chat EXCEPT !.at = "failed"] /\ history' = history
    BY <1>6, <1>9
  <2>2. chat' \in Chat /\ chat'.at = "failed"
    BY <1>2, <2>1 DEF Chat
  <2> QED
    BY <1>2, <2>1, <2>2 DEF TurnFits
<1> QED
  BY <1>8, <1>9

LEMMA ButtonFits == ASSUME HistoryFits(history), press_button PROVE TurnFits(chat')
<1>1. PICK result \in {"generated", "failed", "refused"}, wrote \in BOOLEAN :
         chat' = IF ~validate_planning_history(history) THEN [Rested EXCEPT !.at = "failed"]
                  ELSE IF result = "refused" THEN [Rested EXCEPT !.at = "answered", !.messages = history]
                  ELSE [Rested EXCEPT !.at = "answered", !.messages = history,
                          !.notices = <<Notice(0, "generation_started", "running")>>
                                        \o generation_told(0, result, wrote),
                          !.facts = {<<Len(history), latest_reference_facts(history)>>}]
  BY DEF press_button
<1>2. PICK r : r = Rested
  OBVIOUS
<1>3. /\ r \in Chat /\ r.at = "idle" /\ r.messages = <<>> /\ r.todo = <<>>
      /\ r.running = FALSE /\ r.count = 0 /\ r.searched = FALSE
      /\ r.notices = <<>> /\ r.facts = {}
  BY <1>2, RestedIs
<1>4. history \in Seq(Messages) /\ validate_planning_history(history)
  BY DEF HistoryFits, Exchange
<1>5. CASE result = "refused"
  <2>1. chat' = [r EXCEPT !.at = "answered", !.messages = history]
    BY <1>1, <1>2, <1>4, <1>5
  <2>2. chat' \in Chat /\ chat'.at = "answered" /\ chat'.messages = history /\ chat'.notices = <<>> /\ chat'.facts = {}
    BY <1>3, <1>4, <2>1 DEF Chat
  <2> QED
    BY <2>2 DEF TurnFits, ProgressIsTrue, FactsFit
<1>6. CASE result # "refused"
  <2>1. PICK e, more : e = Notice(0, "generation_started", "running") /\ more = generation_told(0, result, wrote)
    OBVIOUS
  <2>2. e \in Notices /\ e.op = 0 /\ e.status = "running"
    BY <2>1 DEF Notice, Notices
  <2>3. /\ more \in Seq(Notices) /\ more # <<>>
        /\ \A j \in DOMAIN more : more[j].op = 0
        /\ \A j \in DOMAIN more : j < Len(more) => more[j].status = "running"
        /\ more[Len(more)].status = IF result = "generated" THEN "completed" ELSE "failed"
    <3>1. PICK op \in Nat : op = 0
      OBVIOUS
    <3>2. more = generation_told(op, result, wrote)
      BY <2>1, <3>1
    <3>3. /\ more \in Seq(Notices) /\ more # <<>>
          /\ \A j \in DOMAIN more : more[j].op = op
          /\ \A j \in DOMAIN more : j < Len(more) => more[j].status = "running"
          /\ more[Len(more)].status = IF result = "generated" THEN "completed" ELSE "failed"
      BY <3>2, GenerationTold
    <3> QED
      BY <3>1, <3>3
  <2>4. PICK one, ns, facts : /\ one = <<e>> /\ ns = one \o more
                              /\ facts = {<<Len(history), latest_reference_facts(history)>>}
    OBVIOUS
  <2>5. one \in Seq(Notices) /\ Len(one) = 1 /\ DOMAIN one = 1..1 /\ one[1] = e
    BY <2>2, <2>4
  <2>6. Open(one, 0)
    <3>1. 1 \in 1..1 /\ \A j \in 1..1 : j = 1
      OBVIOUS
    <3> QED
      BY <2>2, <2>5, <3>1 DEF Open, Spoken
  <2>7. more[Len(more)].status # "running"
    BY <2>3
  <2>8. ToldToTheEnd(ns, history, 0)
    BY <2>3, <2>4, <2>5, <2>6, <2>7, ToldEnds
  <2>9. ns \in Seq(Notices) /\ \A i \in DOMAIN ns : ns[i].op = 0
    <3>0. more \in Seq(Notices) /\ one \in Seq(Notices)
      BY <2>3, <2>5
    <3>1. /\ ns \in Seq(Notices) /\ DOMAIN more = 1..Len(more)
          /\ \A i \in 1..Len(one) : i \in DOMAIN ns /\ ns[i] = one[i]
          /\ \A i \in 1..Len(more) : Len(one) + i \in DOMAIN ns /\ ns[Len(one) + i] = more[i]
          /\ \A i \in DOMAIN ns : i \in 1..Len(one) \/ \E j \in 1..Len(more) : i = Len(one) + j
      BY <2>4, <3>0, MoreNotices
    <3>2. ASSUME NEW i \in DOMAIN ns PROVE ns[i].op = 0
      <4>1. CASE i \in 1..Len(one)
        <5>1. i = 1
          BY <2>5, <4>1
        <5>2. ns[i] = one[i]
          BY <3>1, <4>1
        <5> QED
          BY <2>2, <2>5, <5>1, <5>2
      <4>2. CASE \E j \in 1..Len(more) : i = Len(one) + j
        <5>1. PICK j \in 1..Len(more) : i = Len(one) + j
          BY <4>2
        <5>2. ns[i] = more[j] /\ j \in DOMAIN more
          BY <3>1, <5>1
        <5> QED
          BY <2>3, <5>2
      <4> QED
        BY <3>1, <4>1, <4>2
    <3> QED
      BY <3>1, <3>2
  <2>10. FactsFit(history, facts)
    BY <1>4, <2>4, LatestFits
  <2>11. facts \in SUBSET (Nat \X Nat)
    <3>1. PICK n, k : n = Len(history) /\ k = latest_reference_facts(history)
      OBVIOUS
    <3>2. n \in Nat /\ k \in 0..n
      BY <1>4, <2>4, <2>10, <3>1 DEF FactsFit
    <3> QED
      BY <2>4, <3>1, <3>2
  <2>12. chat' = [r EXCEPT !.at = "answered", !.messages = history, !.notices = ns, !.facts = facts]
    BY <1>1, <1>2, <1>4, <1>6, <2>1, <2>4
  <2>13. chat' \in Chat /\ chat'.at = "answered" /\ chat'.messages = history /\ chat'.notices = ns /\ chat'.facts = facts
    BY <1>3, <1>4, <2>9, <2>11, <2>12 DEF Chat
  <2>14. \A i \in DOMAIN ns : ToldToTheEnd(ns, history, ns[i].op)
    BY <2>8, <2>9
  <2> QED
    BY <2>10, <2>13, <2>14 DEF TurnFits, ProgressIsTrue
<1> QED
  BY <1>5, <1>6

LEMMA ConversationInvKept == ConversationInv /\ [TalkNext]_talkVars => ConversationInv'
<1> SUFFICES ASSUME ConversationInv, [TalkNext]_talkVars PROVE ConversationInv'
  OBVIOUS
<1>1. TurnFits(chat) /\ HistoryFits(history)
  BY DEF ConversationInv
<1>2. CASE begin_turn \/ ask_for_tools \/ over_limit \/ run_conditions \/ start_search
             \/ start_plan_generation \/ refuse_call \/ search_ends \/ generation_ends \/ all_run \/ press_button
  <2>1. TurnFits(chat')
    BY <1>1, <1>2, BeginTurnFits, AskForToolsKeeps, OverLimitKeeps, RunConditionsKeeps, StartSearchKeeps,
       StartGenerationKeeps, RefuseCallKeeps, SearchEndsKeeps, GenerationEndsKeeps, AllRunKeeps, ButtonFits
  <2>2. history' = history
    BY <1>2, Zenon DEF begin_turn, ask_for_tools, over_limit, run_conditions, start_search,
       start_plan_generation, refuse_call, search_ends, generation_ends, all_run, press_button
  <2> QED
    BY <1>1, <2>1, <2>2 DEF ConversationInv
<1>3. CASE answer_member
  BY <1>3, AnsweringKeeps DEF ConversationInv
<1>4. CASE turn_raises
  <2>1. chat \in Chat /\ chat' = [chat EXCEPT !.at = "failed"] /\ history' = history
    BY <1>1, <1>4 DEF turn_raises, TurnFits
  <2>2. chat' \in Chat /\ chat'.at = "failed"
    BY <2>1 DEF Chat
  <2>3. TurnFits(chat')
    BY <2>2 DEF TurnFits
  <2> QED
    BY <1>1, <2>1, <2>3 DEF ConversationInv
<1>5. CASE next_request
  <2>1. chat' = Rested /\ history' = history
    BY <1>5 DEF next_request
  <2>2. TurnFits(chat')
    BY <2>1, RestedIs DEF TurnFits
  <2> QED
    BY <1>1, <2>1, <2>2 DEF ConversationInv
<1>6. CASE UNCHANGED talkVars
  <2>1. chat' = chat /\ history' = history
    BY <1>6 DEF talkVars
  <2> QED
    BY <1>1, <2>1 DEF ConversationInv
<1> QED
  BY <1>2, <1>3, <1>4, <1>5, <1>6 DEF TalkNext

LEMMA ConversationInvShows == ConversationInv => ConversationGoesOn
<1> SUFFICES ASSUME ConversationInv PROVE ConversationGoesOn
  OBVIOUS
<1>1. chat \in Chat /\ Exchange(history, <<>>)
  BY DEF ConversationInv, TurnFits, HistoryFits
<1>2. CallsOf(history) \subseteq Calls
  <2>1. \A i \in DOMAIN history : history[i] \in Messages
    BY <1>1 DEF Exchange
  <2>2. ASSUME NEW i \in DOMAIN history, NEW c \in Range(history[i].calls) PROVE c \in Calls
    <3>1. history[i].calls \in Seq(Calls)
      BY <2>1, MessageIs
    <3>2. PICK k \in DOMAIN history[i].calls : c = history[i].calls[k]
      BY <2>2, Zenon DEF Range
    <3> QED
      BY <3>1, <3>2
  <2> QED
    BY <2>2 DEF CallsOf
<1>3. TalkTypeOK
  BY <1>1, <1>2 DEF TalkTypeOK, Chat
<1>4. Whole(history)
  BY <1>1, ExchangeIsWhole
<1>5. chat.at = "answered" =>
       /\ \A i \in DOMAIN chat.notices : ToldToTheEnd(chat.notices, chat.messages, chat.notices[i].op)
       /\ \A f \in chat.facts : FactsOfLastSearch(chat.messages, f)
  BY DEF ConversationInv, TurnFits, ProgressIsTrue, FactsFit
<1> QED
  BY <1>3, <1>4, <1>5 DEF ConversationGoesOn, ConversationInv, HistoryFits

\* ai/features/planning: whatever the model asks for and however its calls end,
\* the stored history is one the next turn can restore, and the screen of a turn
\* that was answered was told the end of everything it was told the start of.
THEOREM ConversationCanGoOn == TalkInit /\ [][TalkNext]_talkVars => []ConversationGoesOn
<1> QED
  BY ConversationInvHolds, ConversationInvKept, ConversationInvShows, PTL
==============================================================================
