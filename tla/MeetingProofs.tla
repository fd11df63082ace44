--------------------------- MODULE MeetingProofs ----------------------------
(***************************************************************************)
(* What holds of a meeting for any number of requests, speakers, names,    *)
(* segments and jobs, and for any audio: of the review of its minutes      *)
(* (MeetingReview), of the judgement of its transcript (LiveJudgement), and*)
(* of the speech that is saved and heard (Speech); and of a plan while its *)
(* text streams (Generation).  The lemmas on folds and on records come from*)
(* AnswerProofs.                                                           *)
(***************************************************************************)
EXTENDS MeetingReview, LiveJudgement, Speech, Generation, AnswerProofs

----------------------------------------------------------------------------
(* The review *)

Submitting(r) == request[r].pc \in {"submitting", "accepted"}

\* Where the one payment is: not made before the row leaves the queue, owed by
\* the only request that submits, or behind the job the row names.
Billing ==
    /\ paid <= 1
    /\ review.status \in {"NONE", "QUEUED"} => paid = 0 /\ review.job = 0
    /\ review.job # 0 =>
         /\ paid = 1
         /\ review.status \in {"PROCESSING", "FAILED", "NEEDS_REVIEW", "DRAFT_READY"}
    /\ review.status = "PROCESSING" => review.job # 0
    /\ configured /\ review.status = "FAILED" => review.job # 0

\* Without a provider nothing is ever submitted.
NoProvider ==
    ~configured =>
        /\ paid = 0 /\ review.job = 0
        /\ review.status \in {"NONE", "QUEUED", "FAILED"}
        /\ \A r \in Requests : request[r].pc \in {"idle", "retry", "prepare", "failing"}

RequestsFit ==
    /\ \A r \in Requests :
         /\ Submitting(r) => review.status = "SUBMITTING"
         /\ request[r].pc = "submitting" => paid = 0
         /\ request[r].pc = "accepted" => paid = 1 /\ request[r].job # 0
         /\ request[r].pc = "polling" => review.job # 0
         /\ request[r].pc = "failing" => ~configured
    /\ \A r, s \in Requests : Submitting(r) /\ Submitting(s) => r = s

Copying == {"prepare", "polling", "failing", "drafting", "saving"}

\* What the copy of request q has in common with the row, as long as no copy
\* was written that had been overtaken: the version tells whether it is the row.
CopyFits(q, row) ==
    q.pc \in Copying =>
        /\ q.version <= row.version
        /\ q.version = row.version =>
             /\ q.pc \in {"prepare", "polling", "failing"} => row.labels = {}
             /\ q.pc = "drafting" => q.names = row.names
             /\ q.pc = "saving" => row.candidates = 0

CopiesFit ==
    /\ \A r \in Requests :
         /\ request[r].pc = "polling" => request[r].job # 0
         /\ request[r].pc \in Copying => review.status # "NONE"
    /\ ~overtaken => \A r \in Requests : CopyFits(request[r], review)

NoRowYet == review.status = "NONE" => review = NoReview

MinutesInv ==
    /\ ReviewTypeOK /\ NoRowYet
    /\ ResultIsKept /\ CopiesFit /\ DraftUsesStoredNames

BillingInv == Billing /\ NoProvider /\ RequestsFit

LEMMA InitMinutes == ReviewInit => MinutesInv /\ BillingInv
<1> SUFFICES ASSUME ReviewInit PROVE MinutesInv /\ BillingInv
  OBVIOUS
<1>1. /\ review = NoReview /\ paid = 0 /\ configured \in BOOLEAN /\ overtaken = FALSE
      /\ \A r \in Requests : request[r] = IdleRequest
  BY DEF ReviewInit
<1>2. NoReview \in Review /\ IdleRequest \in Request
  BY DEF NoReview, IdleRequest, Review, Request, NameMap, NoNames
<1>3. /\ NoReview.status = "NONE" /\ NoReview.job = 0 /\ NoReview.labels = {}
      /\ NoReview.candidates = 0 /\ IdleRequest.pc = "idle"
  BY DEF NoReview, IdleRequest
<1>4. ReviewTypeOK
  <2>1. request = [r \in Requests |-> IdleRequest]
    BY DEF ReviewInit
  <2>2. request \in [Requests -> Request]
    BY <1>2, <2>1
  <2> QED
    BY <1>1, <1>2, <2>2 DEF ReviewTypeOK
<1>5. NoRowYet /\ ResultIsKept /\ CopiesFit /\ DraftUsesStoredNames
  BY <1>1, <1>3 DEF NoRowYet, ResultIsKept, CopiesFit, CopyFits, Copying, DraftUsesStoredNames
<1>6. BillingInv
  BY <1>1, <1>3 DEF BillingInv, Billing, NoProvider, RequestsFit, Submitting
<1> QED
  BY <1>4, <1>5, <1>6 DEF MinutesInv

----------------------------------------------------------------------------
(* The row moves only together with its version *)

\* What a step may do to the row: every change counts its version up, unless a
\* copy is written that had been overtaken.
RowMoves ==
    \/ UNCHANGED <<review, overtaken>>
    \/ /\ review' \in Review /\ review'.status # "NONE"
       /\ overtaken => overtaken'
       /\ overtaken' \/ review'.version > review.version
       /\ ResultIsKept' /\ DraftUsesStoredNames'

\* What a step may do to the requests: each stays, has no copy of the row, or
\* has just read it.
CopiesMove ==
    \A s \in Requests :
        \/ request'[s] = request[s]
        \/ request'[s].pc \notin Copying
        \/ /\ review' = review /\ review.status # "NONE"
           /\ overtaken' \/ CopyFits(request'[s], review)
           /\ request'[s].pc = "polling" => request'[s].job # 0
        \/ /\ review'.status # "NONE" /\ request'[s].pc = "prepare"
           /\ request'[s].version = review'.version /\ review'.labels = {}

LEMMA MinutesMove ==
    ASSUME MinutesInv, ReviewTypeOK', RowMoves, CopiesMove
    PROVE  MinutesInv'
<1>1. /\ review.version \in Nat /\ review'.version \in Nat
      /\ \A r \in Requests : request[r].version \in Nat /\ request'[r].version \in Nat
  BY DEF MinutesInv, ReviewTypeOK, Review, Request
<1>2. ResultIsKept' /\ DraftUsesStoredNames' /\ NoRowYet'
  BY DEF RowMoves, MinutesInv, ResultIsKept, DraftUsesStoredNames, NoRowYet
<1>3. ASSUME NEW r \in Requests
      PROVE  /\ request'[r].pc = "polling" => request'[r].job # 0
             /\ request'[r].pc \in Copying => review'.status # "NONE"
  BY <1>3 DEF MinutesInv, CopiesFit, CopiesMove, RowMoves, Copying
<1>4. ASSUME ~overtaken', NEW r \in Requests PROVE CopyFits(request'[r], review')
  <2>1. ~overtaken /\ CopyFits(request[r], review)
    BY <1>4 DEF RowMoves, MinutesInv, CopiesFit
  <2>2. review' = review \/ review'.version > review.version
    BY <1>4 DEF RowMoves
  <2>3. CASE request'[r] = request[r]
    BY <1>1, <2>1, <2>2, <2>3 DEF CopyFits
  <2>4. CASE request'[r].pc \notin Copying
    BY <2>4 DEF CopyFits
  <2>5. CASE review' = review /\ CopyFits(request'[r], review)
    BY <2>5
  <2>6. CASE /\ request'[r].pc = "prepare"
             /\ request'[r].version = review'.version /\ review'.labels = {}
    BY <1>1, <2>6 DEF CopyFits
  <2> QED
    BY <1>4, <2>3, <2>4, <2>5, <2>6 DEF CopiesMove
<1> QED
  BY <1>2, <1>3, <1>4 DEF MinutesInv, CopiesFit

\* The fields of the row after each of its updates.
LEMMA RetriedRow ==
    ASSUME NEW row \in Review
    PROVE  /\ retried(row) \in Review
           /\ retried(row).status = IF row.job # 0 THEN "PROCESSING" ELSE "QUEUED"
           /\ retried(row).version = row.version + 1 /\ retried(row).job = row.job
           /\ retried(row).labels = row.labels
           /\ retried(row).candidates = row.candidates
<1>1. row.version \in Nat /\ row.version + 1 \in Nat
  BY DEF Review
<1>2. retried(row) = [row EXCEPT !.status = IF row.job # 0 THEN "PROCESSING" ELSE "QUEUED",
                                 !.version = row.version + 1]
  BY DEF retried, Review
<1> QED
  BY <1>1, <1>2 DEF Review

LEMMA FailedRow ==
    ASSUME NEW row \in Review
    PROVE  /\ failed(row) \in Review /\ failed(row).job = row.job
           /\ failed(row).labels = row.labels /\ failed(row).candidates = row.candidates
           /\ \/ failed(row) = row
              \/ /\ row.status \in {"QUEUED", "PROCESSING", "SUBMITTING"}
                 /\ failed(row).status = "FAILED" /\ failed(row).version = row.version + 1
           /\ row.status = "PROCESSING" => failed(row).status = "FAILED"
<1>1. row.version \in Nat /\ row.version + 1 \in Nat
  BY DEF Review
<1>2. failed(row) = IF row.status \in {"QUEUED", "PROCESSING", "SUBMITTING"}
                    THEN [row EXCEPT !.status = "FAILED", !.version = row.version + 1]
                    ELSE row
  BY DEF failed, Review
<1> QED
  BY <1>1, <1>2 DEF Review

Stepped(row, st, job) == [row EXCEPT !.status = st, !.job = job, !.version = @ + 1]

LEMMA SteppedRow ==
    ASSUME NEW row \in Review, NEW job \in Nat,
           NEW st \in {"SUBMITTING", "PROCESSING", "SUBMISSION_UNKNOWN"}
    PROVE  LET new == Stepped(row, st, job)
           IN  /\ new \in Review /\ new.status = st /\ new.job = job
               /\ new.version > row.version /\ new.labels = row.labels
               /\ new.candidates = row.candidates
<1>1. row.version \in Nat /\ row.version + 1 \in Nat /\ row.version + 1 > row.version
  BY DEF Review
<1>2. Stepped(row, st, job)
        = [row EXCEPT !.status = st, !.job = job, !.version = row.version + 1]
  BY DEF Review, Stepped
<1> QED
  BY <1>1, <1>2 DEF Review

\* A request that leaves, or one whose place alone moves on.
LEMMA RequestMoves ==
    ASSUME ReviewTypeOK, NEW r \in Requests,
           NEW pc \in {"idle", "retry", "submitting"},
           (leave(r) /\ pc = "idle") \/ rest(r, pc)
    PROVE  /\ request' \in [Requests -> Request]
           /\ request'[r].pc = pc
           /\ \A s \in Requests \ {r} : request'[s] = request[s]
<1>1. IdleRequest \in Request /\ IdleRequest.pc = "idle"
  BY DEF IdleRequest, Request, NameMap, NoNames
<1>2. /\ request \in [Requests -> Request]
      /\ request[r] \in Request /\ [request[r] EXCEPT !.pc = pc] \in Request
      /\ [request[r] EXCEPT !.pc = pc].pc = pc
  BY DEF ReviewTypeOK, Request
<1>3. CASE leave(r) /\ pc = "idle"
  BY <1>1, <1>2, <1>3 DEF leave
<1>4. CASE rest(r, pc)
  <2>1. request' = [request EXCEPT ![r] = [request[r] EXCEPT !.pc = pc]]
    BY <1>2, <1>4 DEF rest, Request
  <2> QED
    BY <1>2, <2>1
<1> QED
  BY <1>3, <1>4

\* A request that has just read the row.
LEMMA RequestReads ==
    ASSUME ReviewTypeOK, NEW r \in Requests, NEW row \in Review,
           NEW pc \in {"prepare", "failing", "saving"}, reads(r, pc, row)
    PROVE  /\ request' \in [Requests -> Request]
           /\ request'[r].pc = pc /\ request'[r].version = row.version
           /\ \A s \in Requests \ {r} : request'[s] = request[s]
<1> DEFINE new == [request[r] EXCEPT !.pc = pc, !.version = row.version]
<1>1. request \in [Requests -> Request] /\ request[r] \in Request /\ row.version \in Nat
  BY DEF ReviewTypeOK, Review
<1>2. /\ new \in Request /\ new.pc = pc /\ new.version = row.version
  BY <1>1 DEF Request
<1>3. request' = [request EXCEPT ![r] = new]
  BY <1>1 DEF reads, Request
<1> HIDE DEF new
<1> QED
  BY <1>1, <1>2, <1>3

----------------------------------------------------------------------------
(* Each step keeps both invariants *)

MinutesStand == MinutesInv' /\ (~KeyMayChange /\ BillingInv => BillingInv')

\* A step after which the row and the payment are as before and no request
\* has come closer to the provider.
LEMMA QuietStep ==
    ASSUME MinutesInv, UNCHANGED <<review, paid, overtaken>>, configured' \in BOOLEAN,
           ~KeyMayChange => configured' = configured,
           request' \in [Requests -> Request], CopiesMove,
           \A s \in Requests : \/ request'[s] = request[s]
                               \/ request'[s].pc \in {"idle", "retry", "prepare"}
                               \/ request'[s].pc = "failing" /\ ~configured
                               \/ request'[s].pc \in {"drafting", "saving"} /\ reviewable
    PROVE  MinutesStand
<1>1. ReviewTypeOK'
  BY DEF MinutesInv, ReviewTypeOK
<1>2. MinutesInv'
  BY <1>1, MinutesMove DEF RowMoves
<1>3. ASSUME ~KeyMayChange, BillingInv PROVE BillingInv'
  <2>1. Billing'
    BY <1>3 DEF BillingInv, Billing
  <2>2. NoProvider'
    BY <1>3 DEF BillingInv, NoProvider, reviewable
  <2>3. RequestsFit'
    BY <1>3 DEF BillingInv, RequestsFit, Submitting
  <2> QED
    BY <2>1, <2>2, <2>3 DEF BillingInv
<1> QED
  BY <1>2, <1>3 DEF MinutesStand

\* The same for a request that leaves.
LEMMA LeaveStep ==
    ASSUME MinutesInv, UNCHANGED <<review, paid, configured, overtaken>>,
           NEW r \in Requests, NEW pc \in {"idle", "retry"},
           (leave(r) /\ pc = "idle") \/ rest(r, pc)
    PROVE  MinutesStand
<1>1. /\ request' \in [Requests -> Request] /\ request'[r].pc = pc
      /\ \A s \in Requests \ {r} : request'[s] = request[s]
  BY RequestMoves DEF MinutesInv
<1>2. CopiesMove
  BY <1>1 DEF CopiesMove, Copying
<1> QED
  BY <1>1, <1>2, QuietStep DEF MinutesInv, ReviewTypeOK

LEMMA StartKeeps ==
    ASSUME MinutesInv, start
    PROVE  MinutesStand
<1>1. /\ review' \in Review /\ review'.status = "QUEUED" /\ review'.job = 0
      /\ review'.version = 1 /\ review'.labels = {} /\ review'.candidates = 0
  BY DEF start, NoReview, Review, NameMap, NoNames
<1>2. review.status = "NONE" /\ UNCHANGED <<request, paid, configured, overtaken>>
  BY DEF start
<1>3. MinutesInv'
  <2>1. ReviewTypeOK'
    BY <1>1, <1>2 DEF MinutesInv, ReviewTypeOK
  <2>2. review.version = 0
    BY <1>2 DEF MinutesInv, NoRowYet, NoReview
  <2>3. RowMoves /\ CopiesMove
    BY <1>1, <1>2, <2>2 DEF RowMoves, CopiesMove, ResultIsKept, DraftUsesStoredNames
  <2> QED
    BY <2>1, <2>3, MinutesMove
<1>4. ASSUME BillingInv PROVE BillingInv'
  BY <1>1, <1>2, <1>4 DEF BillingInv, Billing, NoProvider, RequestsFit, Submitting
<1> QED
  BY <1>3, <1>4 DEF MinutesStand

LEMMA SubmitKeeps ==
    ASSUME MinutesInv, NEW r \in Requests, submit_review_diarization(r)
    PROVE  MinutesStand
<1>1. UNCHANGED <<review, paid, configured, overtaken>> /\ review \in Review
  BY DEF submit_review_diarization, MinutesInv, ReviewTypeOK
<1>2. CASE rest(r, "retry")
  BY <1>1, <1>2, LeaveStep
<1>3. CASE review.status = "QUEUED" /\ reads(r, "prepare", review)
  <2>1. /\ request' \in [Requests -> Request]
        /\ request'[r].pc = "prepare" /\ request'[r].version = review.version
        /\ \A s \in Requests \ {r} : request'[s] = request[s]
    BY <1>1, <1>3, RequestReads DEF MinutesInv
  <2>2. review.labels = {}
    BY <1>3 DEF MinutesInv, ResultIsKept
  <2>3. CopiesMove
    BY <1>1, <1>3, <2>1, <2>2 DEF CopiesMove
  <2> QED
    BY <1>1, <2>1, <2>3, QuietStep DEF MinutesInv, ReviewTypeOK
<1> QED
  BY <1>2, <1>3 DEF submit_review_diarization

LEMMA RetryKeeps ==
    ASSUME MinutesInv, NEW r \in Requests, retry_diarization(r)
    PROVE  MinutesStand
<1>1. /\ UNCHANGED <<paid, configured, overtaken>> /\ review \in Review
      /\ request[r].pc = "retry"
      /\ IF review'.status = "QUEUED" THEN reads(r, "prepare", review') ELSE leave(r)
  BY DEF retry_diarization, MinutesInv, ReviewTypeOK
<1>2. review' \in Review
  BY <1>1, RetriedRow DEF retry_diarization
<1>3. /\ request' \in [Requests -> Request]
      /\ \A s \in Requests \ {r} : request'[s] = request[s]
      /\ \/ request'[r].pc = "idle"
         \/ /\ request'[r].pc = "prepare" /\ review'.status = "QUEUED"
            /\ request'[r].version = review'.version
  <2>1. CASE leave(r)
    BY <2>1, RequestMoves DEF MinutesInv
  <2>2. CASE review'.status = "QUEUED" /\ reads(r, "prepare", review')
    BY <1>2, <2>2, RequestReads DEF MinutesInv
  <2> QED
    BY <1>1, <2>1, <2>2
<1>4. CASE review.status # "FAILED"
  <2>1. review' = review
    BY <1>4 DEF retry_diarization
  <2>2. review'.status = "QUEUED" => review'.labels = {}
    BY <2>1 DEF MinutesInv, ResultIsKept
  <2>3. CopiesMove
    BY <1>3, <2>2 DEF CopiesMove, Copying
  <2> QED
    BY <1>1, <1>3, <2>1, <2>3, QuietStep DEF MinutesInv, ReviewTypeOK
<1>5. CASE review.status = "FAILED"
  <2>1. review' = retried(review)
    BY <1>5 DEF retry_diarization
  <2>2. /\ review'.labels = review.labels /\ review'.job = review.job
        /\ review'.version > review.version
        /\ review'.status = IF review.job # 0 THEN "PROCESSING" ELSE "QUEUED"
        /\ review'.candidates = review.candidates
    BY <1>1, <2>1, RetriedRow DEF Review
  <2>3. review.labels # {} => review.job # 0 /\ overtaken
    BY <1>5 DEF MinutesInv, ResultIsKept
  <2>4. MinutesInv'
    <3>1. ReviewTypeOK'
      BY <1>1, <1>2, <1>3 DEF MinutesInv, ReviewTypeOK
    <3>2. RowMoves
      BY <1>1, <1>2, <2>2, <2>3
         DEF RowMoves, ResultIsKept, DraftUsesStoredNames, MinutesInv
    <3>3. CopiesMove
      BY <1>3, <2>2, <2>3 DEF CopiesMove, Copying
    <3> QED
      BY <3>1, <3>2, <3>3, MinutesMove
  <2>5. ASSUME ~KeyMayChange, BillingInv PROVE BillingInv'
    <3>1. \A s \in Requests : ~Submitting(s)
      BY <2>5, <1>5 DEF BillingInv, RequestsFit
    <3>2. paid \in Nat /\ review.job \in Nat
      BY DEF MinutesInv, ReviewTypeOK, Review
    <3> QED
      BY <1>1, <1>3, <1>5, <2>2, <2>5, <3>1, <3>2
         DEF BillingInv, Billing, NoProvider, RequestsFit, Submitting
  <2> QED
    BY <2>4, <2>5 DEF MinutesStand
<1> QED
  BY <1>4, <1>5

\* A session fails its copy of the row when the provider did not answer a poll
\* of a known job, or when there is no provider to have taken one.
LEMMA FailKeeps ==
    ASSUME MinutesInv, NEW r \in Requests, fail_diarization(r),
           UNCHANGED <<paid, configured>>,
           \/ request[r].pc = "prepare" /\ ~configured
           \/ request[r].pc \in {"polling", "failing"}
    PROVE  MinutesStand
<1>1. /\ review \in Review /\ review.version \in Nat /\ request[r].version \in Nat
      /\ request[r].version + 1 \in Nat /\ overtaken \in BOOLEAN
  BY DEF MinutesInv, ReviewTypeOK, Review, Request
<1>2. /\ request' \in [Requests -> Request] /\ request'[r].pc = "idle"
      /\ \A s \in Requests \ {r} : request'[s] = request[s]
  BY RequestMoves DEF fail_diarization, MinutesInv
<1>3. /\ review' \in Review /\ review'.status = "FAILED"
      /\ review'.job = review.job /\ review'.labels = review.labels
      /\ review'.version = request[r].version + 1
      /\ review'.candidates = review.candidates
  BY <1>1 DEF fail_diarization, Review
<1>4. overtaken' \in BOOLEAN /\ overtaken' = (overtaken \/ request[r].version # review.version)
  BY <1>1 DEF fail_diarization
<1>5. ASSUME ~overtaken' PROVE review'.version > review.version /\ review.labels = {}
  <2>1. ~overtaken /\ request[r].version = review.version
    BY <1>4, <1>5
  <2>2. CopyFits(request[r], review)
    BY <2>1 DEF MinutesInv, CopiesFit
  <2> QED
    BY <1>1, <1>3, <2>1, <2>2 DEF CopyFits, Copying
<1>6. MinutesInv'
  <2>1. ReviewTypeOK'
    BY <1>2, <1>3, <1>4 DEF MinutesInv, ReviewTypeOK
  <2>2. ResultIsKept'
    BY <1>3, <1>5 DEF ResultIsKept, MinutesInv
  <2>3. DraftUsesStoredNames'
    BY <1>3, <1>4 DEF DraftUsesStoredNames, MinutesInv
  <2>4. RowMoves /\ CopiesMove
    BY <1>2, <1>3, <1>4, <1>5, <2>2, <2>3 DEF RowMoves, CopiesMove, Copying
  <2> QED
    BY <2>1, <2>4, MinutesMove
<1>7. ASSUME ~KeyMayChange, BillingInv PROVE BillingInv'
  <2>1. CASE ~configured
    BY <1>2, <1>3, <1>7, <2>1 DEF BillingInv, Billing, NoProvider, RequestsFit, Submitting
  <2>2. CASE configured
    <3>1. request[r].pc = "polling" /\ review.job # 0 /\ review'.job # 0
      BY <1>3, <1>7, <2>2 DEF BillingInv, RequestsFit
    <3>2. /\ paid = 1
          /\ review.status \in {"PROCESSING", "FAILED", "NEEDS_REVIEW", "DRAFT_READY"}
      BY <1>3, <1>7, <3>1 DEF BillingInv, Billing
    <3>3. \A s \in Requests : ~Submitting(s)
      BY <1>7, <3>2 DEF BillingInv, RequestsFit
    <3>4. Billing'
      BY <1>3, <1>7, <3>1, <3>2 DEF Billing
    <3>5. NoProvider'
      BY <2>2 DEF NoProvider
    <3>6. RequestsFit'
      BY <1>2, <1>3, <1>7, <3>1, <3>3 DEF BillingInv, RequestsFit, Submitting
    <3> QED
      BY <3>4, <3>5, <3>6 DEF BillingInv
  <2> QED
    BY <2>1, <2>2
<1> QED
  BY <1>6, <1>7 DEF MinutesStand

\* The row, read again under its lock, is failed if it may be.
LEMMA FailReadKeeps ==
    ASSUME MinutesInv, NEW r \in Requests, leave(r), review' = failed(review),
           UNCHANGED <<paid, configured, overtaken>>,
           \/ request[r].pc = "polling"
           \/ Submitting(r) /\ review.status # "SUBMITTING"
    PROVE  MinutesStand
<1>1. review \in Review /\ overtaken \in BOOLEAN
  BY DEF MinutesInv, ReviewTypeOK
<1>2. /\ request' \in [Requests -> Request] /\ request'[r].pc = "idle"
      /\ \A s \in Requests \ {r} : request'[s] = request[s]
  BY RequestMoves DEF MinutesInv
<1>3. /\ review' \in Review /\ review'.job = review.job /\ review'.labels = review.labels
      /\ review'.candidates = review.candidates
      /\ \/ review' = review
         \/ /\ review.status \in {"QUEUED", "PROCESSING", "SUBMITTING"}
            /\ review'.status = "FAILED" /\ review'.version = review.version + 1
  BY <1>1, FailedRow
<1>4. CASE review' = review
  BY <1>4, LeaveStep
<1>5. CASE /\ review.status \in {"QUEUED", "PROCESSING", "SUBMITTING"}
           /\ review'.status = "FAILED" /\ review'.version = review.version + 1
  <2>1. review.labels # {} => review.job # 0 /\ overtaken
    BY <1>5 DEF MinutesInv, ResultIsKept
  <2>2. review.version \in Nat
    BY <1>1 DEF Review
  <2>3. ReviewTypeOK'
    BY <1>2, <1>3 DEF MinutesInv, ReviewTypeOK
  <2>4. RowMoves /\ CopiesMove
    BY <1>2, <1>3, <1>5, <2>1, <2>2
       DEF RowMoves, CopiesMove, Copying, ResultIsKept, DraftUsesStoredNames, MinutesInv
  <2>5. MinutesInv'
    BY <2>3, <2>4, MinutesMove
  <2>6. ASSUME ~KeyMayChange, BillingInv PROVE BillingInv'
    <3>1. configured /\ review.job # 0
      BY <2>6 DEF BillingInv, NoProvider, RequestsFit, Submitting
    <3>2. paid = 1 /\ review.status = "PROCESSING"
      BY <1>5, <2>6, <3>1 DEF BillingInv, Billing
    <3> QED
      BY <1>2, <1>3, <1>5, <2>6, <3>1, <3>2
         DEF BillingInv, Billing, NoProvider, RequestsFit, Submitting
  <2> QED
    BY <2>5, <2>6 DEF MinutesStand
<1> QED
  BY <1>3, <1>4, <1>5

\* Submission begins only on a row that is still queued, so a second request
\* that had read it queued as well leaves.
LEMMA BeginKeeps ==
    ASSUME MinutesInv, NEW r \in Requests, begin_submission(r)
    PROVE  MinutesStand
<1>1. /\ UNCHANGED <<paid, configured>> /\ review \in Review /\ configured \in BOOLEAN
      /\ request[r].pc = "prepare"
  BY DEF begin_submission, MinutesInv, ReviewTypeOK
<1>2. CASE leave(r) /\ UNCHANGED <<review, overtaken>>
  BY <1>1, <1>2, LeaveStep
<1>3. CASE ~configured /\ fail_diarization(r)
  BY <1>1, <1>3, FailKeeps
<1>4. CASE /\ configured /\ still_queued /\ rest(r, "submitting") /\ UNCHANGED overtaken
           /\ review' = [review EXCEPT !.status = "SUBMITTING", !.version = @ + 1]
  <2>1. /\ request' \in [Requests -> Request] /\ request'[r].pc = "submitting"
        /\ \A s \in Requests \ {r} : request'[s] = request[s]
    BY <1>4, RequestMoves DEF MinutesInv
  <2>2. /\ review' \in Review /\ review'.status = "SUBMITTING" /\ review'.job = review.job
        /\ review'.version > review.version /\ review'.labels = review.labels
        /\ review'.candidates = review.candidates
    <3>1. /\ review.job \in Nat
          /\ review' = Stepped(review, "SUBMITTING", review.job)
      BY <1>1, <1>4 DEF Review, Stepped
    <3> QED
      BY <1>1, <3>1, SteppedRow
  <2>3. review.labels = {} /\ review.job = 0 /\ review.status = "QUEUED"
    BY <1>4 DEF still_queued, MinutesInv, ResultIsKept
  <2>4. MinutesInv'
    <3>1. ReviewTypeOK'
      BY <1>1, <1>4, <2>1, <2>2 DEF MinutesInv, ReviewTypeOK
    <3>2. RowMoves /\ CopiesMove
      BY <1>4, <2>1, <2>2, <2>3
         DEF RowMoves, CopiesMove, Copying, ResultIsKept, DraftUsesStoredNames, MinutesInv
    <3> QED
      BY <3>1, <3>2, MinutesMove
  <2>5. ASSUME ~KeyMayChange, BillingInv PROVE BillingInv'
    <3>1. paid = 0 /\ \A s \in Requests : ~Submitting(s)
      BY <2>3, <2>5 DEF BillingInv, Billing, RequestsFit
    <3> QED
      BY <1>1, <1>4, <2>1, <2>2, <2>3, <2>5, <3>1
         DEF BillingInv, Billing, NoProvider, RequestsFit, Submitting
  <2> QED
    BY <2>4, <2>5 DEF MinutesStand
<1> QED
  BY <1>2, <1>3, <1>4 DEF begin_submission

LEMMA AcceptKeeps ==
    ASSUME MinutesInv, NEW r \in Requests, ProviderAccepts(r)
    PROVE  MinutesStand
<1>1. /\ UNCHANGED <<review, configured, overtaken>> /\ paid \in Nat /\ paid' = paid + 1
      /\ request[r].pc = "submitting"
  BY DEF ProviderAccepts, MinutesInv, ReviewTypeOK
<1>2. /\ request' \in [Requests -> Request] /\ request'[r].pc = "accepted"
      /\ request'[r].job = paid + 1
      /\ \A s \in Requests \ {r} : request'[s] = request[s]
  <2> DEFINE new == [request[r] EXCEPT !.pc = "accepted", !.job = paid + 1]
  <2>1. request \in [Requests -> Request] /\ request[r] \in Request /\ paid + 1 \in Nat
    BY <1>1 DEF MinutesInv, ReviewTypeOK
  <2>2. new \in Request /\ new.pc = "accepted" /\ new.job = paid + 1
    BY <2>1 DEF Request
  <2>3. request' = [request EXCEPT ![r] = new]
    BY <2>1 DEF ProviderAccepts, Request
  <2> HIDE DEF new
  <2> QED
    BY <2>1, <2>2, <2>3
<1>3. MinutesInv'
  <2>1. ReviewTypeOK'
    BY <1>1, <1>2 DEF MinutesInv, ReviewTypeOK
  <2>2. RowMoves /\ CopiesMove
    BY <1>1, <1>2 DEF RowMoves, CopiesMove, Copying
  <2> QED
    BY <2>1, <2>2, MinutesMove
<1>4. ASSUME ~KeyMayChange, BillingInv PROVE BillingInv'
  <2>1. paid = 0 /\ review.status = "SUBMITTING" /\ review.job = 0 /\ configured
    BY <1>1, <1>4 DEF BillingInv, Billing, NoProvider, RequestsFit, Submitting
  <2>2. \A s \in Requests \ {r} :
           ~Submitting(s) /\ request[s].pc # "polling"
    BY <1>1, <1>4, <2>1 DEF BillingInv, RequestsFit, Submitting
  <2>3. Billing' /\ NoProvider'
    BY <1>1, <1>4, <2>1 DEF BillingInv, Billing, NoProvider
  <2>4. RequestsFit'
    BY <1>1, <1>2, <1>4, <2>1, <2>2 DEF BillingInv, RequestsFit, Submitting
  <2> QED
    BY <2>3, <2>4 DEF BillingInv
<1> QED
  BY <1>3, <1>4 DEF MinutesStand

LEMMA AnswerKeeps ==
    ASSUME MinutesInv, NEW r \in Requests, submit_diarization(r)
    PROVE  MinutesStand
<1>1. /\ UNCHANGED <<paid, configured, overtaken>> /\ review \in Review
      /\ configured \in BOOLEAN
      /\ leave(r) /\ request[r].pc \in {"submitting", "accepted"}
  BY DEF submit_diarization, MinutesInv, ReviewTypeOK
<1>2. /\ request' \in [Requests -> Request] /\ request'[r].pc = "idle"
      /\ \A s \in Requests \ {r} : request'[s] = request[s]
  BY <1>1, RequestMoves DEF MinutesInv
<1>3. CASE review' = review
  BY <1>1, <1>3, LeaveStep
<1>4. ASSUME review.status = "SUBMITTING", NEW st \in {"PROCESSING", "SUBMISSION_UNKNOWN"},
             NEW job \in Nat,
             review' = Stepped(review, st, job),
             \/ st = "PROCESSING" /\ request[r].pc = "accepted" /\ job = request[r].job
             \/ st = "SUBMISSION_UNKNOWN" /\ job = review.job
      PROVE  MinutesStand
  <2>1. /\ review' \in Review /\ review'.status = st /\ review'.job = job
        /\ review'.version > review.version /\ review'.labels = review.labels
        /\ review'.candidates = review.candidates
    <3>1. st \in {"SUBMITTING", "PROCESSING", "SUBMISSION_UNKNOWN"}
      BY <1>4, Zenon
    <3>2. LET new == Stepped(review, st, job)
          IN  /\ new \in Review /\ new.status = st /\ new.job = job
              /\ new.version > review.version /\ new.labels = review.labels
              /\ new.candidates = review.candidates
      BY <1>1, <3>1, SteppedRow, Zenon
    <3> QED
      BY <1>4, <3>2, Zenon
  <2>2. MinutesInv'
    <3>1. ReviewTypeOK'
      BY <1>1, <1>2, <2>1 DEF MinutesInv, ReviewTypeOK
    <3>2. RowMoves /\ CopiesMove
      BY <1>1, <1>2, <1>4, <2>1
         DEF RowMoves, CopiesMove, Copying, MinutesInv, ResultIsKept, DraftUsesStoredNames
    <3> QED
      BY <3>1, <3>2, MinutesMove
  <2>3. ASSUME ~KeyMayChange, BillingInv PROVE BillingInv'
    <3>1. review.job = 0 /\ configured /\ paid <= 1
      BY <1>1, <1>4, <2>3 DEF BillingInv, Billing, NoProvider
    <3>2. \A s \in Requests \ {r} :
             ~Submitting(s) /\ request[s].pc # "polling"
      BY <1>1, <2>3, <3>1 DEF BillingInv, RequestsFit, Submitting
    <3>3. st = "PROCESSING" => job # 0 /\ paid = 1
      BY <1>4, <2>3 DEF BillingInv, RequestsFit
    <3>4. Billing' /\ NoProvider'
      BY <1>1, <1>4, <2>1, <2>3, <3>1, <3>3 DEF BillingInv, Billing, NoProvider
    <3>5. RequestsFit'
      BY <1>1, <1>2, <2>3, <3>2 DEF BillingInv, RequestsFit, Submitting
    <3> QED
      BY <3>4, <3>5 DEF BillingInv
  <2> QED
    BY <2>2, <2>3 DEF MinutesStand
<1>5. CASE /\ review.status = "SUBMITTING" /\ request[r].pc = "accepted"
           /\ review' = [review EXCEPT !.status = "PROCESSING",
                             !.job = request[r].job, !.version = @ + 1]
  <2>1. request[r].job \in Nat
    BY DEF MinutesInv, ReviewTypeOK, Request
  <2>2. review' = Stepped(review, "PROCESSING", request[r].job)
    BY <1>5 DEF Stepped
  <2> QED
    BY <1>4, <1>5, <2>1, <2>2
<1>6. CASE /\ review.status = "SUBMITTING"
           /\ review' = [review EXCEPT !.status = "SUBMISSION_UNKNOWN", !.version = @ + 1]
  <2>1. /\ review.job \in Nat
        /\ review' = Stepped(review, "SUBMISSION_UNKNOWN", review.job)
    BY <1>1, <1>6 DEF Review, Stepped
  <2> QED
    BY <1>4, <1>6, <2>1
<1>7. CASE review.status # "SUBMITTING" /\ review' = failed(review)
  BY <1>1, <1>7, FailReadKeeps DEF Submitting
<1> QED
  BY <1>3, <1>5, <1>6, <1>7 DEF submit_diarization

\* Steps of the members and of the models once the diarization is there: the
\* row stays in review and the provider is not asked.
LEMMA ReviewingKeeps ==
    ASSUME MinutesInv, MinutesInv', UNCHANGED <<paid, configured>>,
           review'.job = review.job, review'.status \in {"NEEDS_REVIEW", "DRAFT_READY"},
           \/ review.status \in {"NEEDS_REVIEW", "DRAFT_READY"}
           \/ review.status = "PROCESSING",
           \A s \in Requests : request'[s] = request[s] \/ request'[s].pc = "idle"
    PROVE  MinutesStand
<1> SUFFICES ASSUME ~KeyMayChange, BillingInv PROVE BillingInv'
  BY DEF MinutesStand
<1>1. configured /\ \A s \in Requests : ~Submitting(s)
  BY DEF BillingInv, NoProvider, RequestsFit
<1>2. Billing' /\ NoProvider'
  BY <1>1 DEF BillingInv, Billing, NoProvider
<1>3. RequestsFit'
  BY <1>1 DEF BillingInv, RequestsFit, Submitting
<1> QED
  BY <1>2, <1>3 DEF BillingInv

LEMMA BeginPollKeeps ==
    ASSUME MinutesInv, NEW r \in Requests, poll_review_diarization(r)
    PROVE  MinutesStand
<1>1. UNCHANGED <<review, paid, configured, overtaken>> /\ review \in Review
  BY DEF poll_review_diarization, MinutesInv, ReviewTypeOK
<1>2. CASE /\ ~configured /\ reads(r, "failing", review)
           /\ review.status \in {"QUEUED", "PROCESSING", "SUBMITTING"}
  <2>1. /\ request' \in [Requests -> Request]
        /\ request'[r].pc = "failing" /\ request'[r].version = review.version
        /\ \A s \in Requests \ {r} : request'[s] = request[s]
    BY <1>1, <1>2, RequestReads DEF MinutesInv
  <2>2. overtaken \/ review.labels = {}
    BY <1>2 DEF MinutesInv, ResultIsKept
  <2>3. overtaken' \/ CopyFits(request'[r], review)
    <3>1. review.version <= review.version
      BY <1>1 DEF Review
    <3> QED
      BY <1>1, <2>1, <2>2, <3>1 DEF CopyFits
  <2>4. CopiesMove
    BY <1>1, <1>2, <2>1, <2>3 DEF CopiesMove
  <2> QED
    BY <1>1, <1>2, <2>1, <2>4, QuietStep DEF MinutesInv, ReviewTypeOK
<1>3. CASE /\ configured /\ review.status = "PROCESSING" /\ review.job # 0
           /\ request' = [request EXCEPT ![r].pc = "polling",
                            ![r].job = review.job, ![r].version = review.version]
  <2> DEFINE new == [request[r] EXCEPT !.pc = "polling", !.job = review.job,
                                       !.version = review.version]
  <2>1. /\ request \in [Requests -> Request] /\ request[r] \in Request
        /\ review.job \in Nat /\ review.version \in Nat
    BY <1>1 DEF MinutesInv, ReviewTypeOK, Review
  <2>2. /\ new \in Request /\ new.pc = "polling" /\ new.job = review.job
        /\ new.version = review.version
    BY <2>1 DEF Request
  <2>3. request' = [request EXCEPT ![r] = new]
    BY <1>3, <2>1 DEF Request
  <2> HIDE DEF new
  <2>4. /\ request' \in [Requests -> Request] /\ request'[r] = new
        /\ \A s \in Requests \ {r} : request'[s] = request[s]
    BY <2>1, <2>2, <2>3
  <2>5. MinutesInv'
    <3>1. ReviewTypeOK'
      BY <1>1, <1>3, <2>4 DEF MinutesInv, ReviewTypeOK
    <3>2. overtaken \/ review.labels = {}
      BY <1>3 DEF MinutesInv, ResultIsKept
    <3>3. overtaken' \/ CopyFits(request'[r], review)
      BY <1>1, <2>1, <2>2, <2>4, <3>2 DEF CopyFits
    <3>4. RowMoves /\ CopiesMove
      BY <1>1, <1>3, <2>2, <2>4, <3>3 DEF RowMoves, CopiesMove
    <3> QED
      BY <3>1, <3>4, MinutesMove
  <2>6. ASSUME BillingInv PROVE BillingInv'
    <3>1. \A s \in Requests : ~Submitting(s)
      BY <1>3, <2>6 DEF BillingInv, RequestsFit
    <3> QED
      BY <1>1, <1>3, <2>2, <2>4, <2>6, <3>1
         DEF BillingInv, Billing, NoProvider, RequestsFit, Submitting
  <2> QED
    BY <2>5, <2>6 DEF MinutesStand
<1> QED
  BY <1>2, <1>3 DEF poll_review_diarization

LEMMA PollKeeps ==
    ASSUME MinutesInv, NEW r \in Requests, poll_diarization(r)
    PROVE  MinutesStand
<1>1. /\ UNCHANGED <<paid, configured>> /\ review \in Review
      /\ request[r].pc = "polling" /\ request[r].job # 0
  BY DEF poll_diarization, MinutesInv, ReviewTypeOK, CopiesFit
<1>2. CASE leave(r) /\ UNCHANGED <<review, overtaken>>
  BY <1>1, <1>2, LeaveStep
<1>3. ASSUME NEW labels \in SUBSET Labels, apply_diarization(r, labels), UNCHANGED overtaken
      PROVE  MinutesStand
  <2>1. /\ request' \in [Requests -> Request] /\ request'[r].pc = "idle"
        /\ \A s \in Requests \ {r} : request'[s] = request[s]
    BY <1>3, RequestMoves DEF apply_diarization, MinutesInv
  <2>2. /\ review.status = "PROCESSING" /\ review.job # 0
        /\ review.version \in Nat /\ review.version + 1 \in Nat
        /\ review' = [review EXCEPT !.labels = labels, !.status = "NEEDS_REVIEW",
                                    !.version = review.version + 1]
    BY <1>1, <1>3 DEF apply_diarization, Review
  <2>3. /\ review' \in Review /\ review'.status = "NEEDS_REVIEW"
        /\ review'.job = review.job /\ review'.version = review.version + 1
        /\ review'.candidates = review.candidates
    BY <1>1, <2>2 DEF Review
  <2>4. ReviewTypeOK'
    BY <1>1, <1>3, <2>1, <2>3 DEF MinutesInv, ReviewTypeOK
  <2>5. RowMoves /\ CopiesMove
    BY <1>3, <2>1, <2>2, <2>3
       DEF RowMoves, CopiesMove, Copying, ResultIsKept, DraftUsesStoredNames, MinutesInv
  <2> QED
    BY <1>1, <2>1, <2>2, <2>3, <2>4, <2>5, MinutesMove, ReviewingKeeps
<1>4. CASE leave(r) /\ review' = failed(review) /\ UNCHANGED overtaken
  BY <1>1, <1>4, FailReadKeeps
<1>5. CASE fail_diarization(r)
  BY <1>1, <1>5, FailKeeps
<1> QED
  BY <1>2, <1>3, <1>4, <1>5 DEF poll_diarization

LEMMA NamesKeep ==
    ASSUME MinutesInv, NEW v \in 1 .. MaxReview, NEW names \in NameMap,
           NEW confirmed \in SUBSET Labels, set_names(v, names, confirmed)
    PROVE  MinutesStand
<1>1. /\ UNCHANGED <<request, paid, configured, overtaken>> /\ review \in Review
      /\ review.status \in {"NEEDS_REVIEW", "DRAFT_READY"}
      /\ request \in [Requests -> Request]
  BY DEF set_names, reviewable, MinutesInv, ReviewTypeOK
<1>2. /\ review.version \in Nat /\ review.version + 1 \in Nat
      /\ review' = [review EXCEPT !.names = names, !.confirmed = confirmed,
             !.draft = NoName, !.status = "NEEDS_REVIEW", !.version = review.version + 1]
  BY <1>1 DEF set_names, Review
<1>3. /\ review' \in Review /\ review'.status = "NEEDS_REVIEW"
      /\ review'.job = review.job /\ review'.version = review.version + 1
      /\ review'.labels = review.labels /\ review'.candidates = review.candidates
  BY <1>1, <1>2 DEF Review
<1>4. ReviewTypeOK'
  BY <1>1, <1>3 DEF MinutesInv, ReviewTypeOK
<1>5. RowMoves /\ CopiesMove
  BY <1>1, <1>2, <1>3
     DEF RowMoves, CopiesMove, ResultIsKept, DraftUsesStoredNames, MinutesInv
<1> QED
  BY <1>1, <1>3, <1>4, <1>5, MinutesMove, ReviewingKeeps

LEMMA BeginDraftKeeps ==
    ASSUME MinutesInv, NEW r \in Requests, NEW v \in 1 .. MaxReview,
           create_review_draft(r, v)
    PROVE  MinutesStand
<1> DEFINE new == [request[r] EXCEPT !.pc = "drafting", !.version = v,
                                     !.names = review.names]
<1>1. /\ UNCHANGED <<review, paid, configured, overtaken>>
      /\ review.status = "NEEDS_REVIEW"
      /\ request \in [Requests -> Request] /\ request[r] \in Request
      /\ review.names \in NameMap /\ review.version = v /\ v \in Nat
  BY DEF create_review_draft, MinutesInv, ReviewTypeOK, Review
<1>2. /\ new \in Request /\ new.pc = "drafting" /\ new.version = review.version
      /\ new.names = review.names
  BY <1>1 DEF Request
<1>3. request' = [request EXCEPT ![r] = new]
  BY <1>1 DEF create_review_draft, Request
<1> HIDE DEF new
<1>4. /\ request' \in [Requests -> Request] /\ request'[r] = new
      /\ \A s \in Requests \ {r} : request'[s] = request[s]
  BY <1>1, <1>2, <1>3
<1>5. CopiesMove
  <2>1. CopyFits(request'[r], review)
    BY <1>1, <1>2, <1>4 DEF CopyFits
  <2> QED
    BY <1>1, <1>2, <1>4, <2>1 DEF CopiesMove
<1> QED
  BY <1>1, <1>2, <1>4, <1>5, QuietStep DEF reviewable, MinutesInv, ReviewTypeOK

\* The draft is stored only on the version it was begun on, whose names the
\* request holds.
LEMMA DraftKeeps ==
    ASSUME MinutesInv, NEW r \in Requests, generate_draft(r)
    PROVE  MinutesStand
<1>1. /\ UNCHANGED <<paid, configured, overtaken>> /\ review \in Review
      /\ leave(r) /\ request[r].pc = "drafting" /\ request[r].names \in NameMap
  BY DEF generate_draft, MinutesInv, ReviewTypeOK, Request
<1>2. /\ request' \in [Requests -> Request] /\ request'[r].pc = "idle"
      /\ \A s \in Requests \ {r} : request'[s] = request[s]
  BY <1>1, RequestMoves DEF MinutesInv
<1>3. CASE UNCHANGED review
  BY <1>1, <1>3, LeaveStep
<1>4. CASE /\ draft_is_current(r)
           /\ review' = [review EXCEPT !.draft = request[r].names,
                             !.status = "DRAFT_READY", !.version = @ + 1]
  <2>1. /\ review.status = "NEEDS_REVIEW"
        /\ ~overtaken => request[r].names = review.names
    BY <1>1, <1>4 DEF draft_is_current, MinutesInv, CopiesFit, CopyFits, Copying
  <2>2. /\ review.version \in Nat /\ review.version + 1 \in Nat
        /\ review' = [review EXCEPT !.draft = request[r].names,
                          !.status = "DRAFT_READY", !.version = review.version + 1]
    BY <1>1, <1>4 DEF Review
  <2>3. /\ review' \in Review /\ review'.status = "DRAFT_READY"
        /\ review'.job = review.job /\ review'.version = review.version + 1
        /\ review'.draft = request[r].names /\ review'.names = review.names
        /\ review'.labels = review.labels /\ review'.candidates = review.candidates
    BY <1>1, <2>2 DEF Review
  <2>4. ReviewTypeOK'
    BY <1>1, <1>2, <2>3 DEF MinutesInv, ReviewTypeOK
  <2>5. RowMoves /\ CopiesMove
    BY <1>1, <1>2, <2>1, <2>2, <2>3
       DEF RowMoves, CopiesMove, Copying, ResultIsKept, DraftUsesStoredNames, MinutesInv
  <2> QED
    BY <1>1, <1>2, <2>1, <2>3, <2>4, <2>5, MinutesMove, ReviewingKeeps
<1> QED
  BY <1>3, <1>4 DEF generate_draft

LEMMA BeginSavingKeeps ==
    ASSUME MinutesInv, NEW r \in Requests, NEW v \in 1 .. MaxReview,
           save_review_candidates(r, v)
    PROVE  MinutesStand
<1>1. /\ UNCHANGED <<review, paid, configured, overtaken>> /\ review \in Review
      /\ reviewable /\ review.candidates = 0
      /\ reads(r, "saving", review)
  BY DEF save_review_candidates, MinutesInv, ReviewTypeOK
<1>2. /\ request' \in [Requests -> Request]
      /\ request'[r].pc = "saving" /\ request'[r].version = review.version
      /\ \A s \in Requests \ {r} : request'[s] = request[s]
  BY <1>1, RequestReads DEF MinutesInv
<1>3. CopiesMove
  <2>1. review.version <= review.version /\ review.status # "NONE"
    BY <1>1 DEF Review, reviewable
  <2>2. CopyFits(request'[r], review)
    BY <1>1, <1>2, <2>1 DEF CopyFits
  <2> QED
    BY <1>1, <1>2, <2>1, <2>2 DEF CopiesMove
<1> QED
  BY <1>1, <1>2, <1>3, QuietStep DEF MinutesInv, ReviewTypeOK

LEMMA CandidatesKeep ==
    ASSUME MinutesInv, NEW r \in Requests, save_candidates(r)
    PROVE  MinutesStand
<1>1. /\ UNCHANGED <<paid, configured>> /\ review \in Review
      /\ request[r].pc = "saving" /\ leave(r)
      /\ review.version \in Nat /\ request[r].version \in Nat
      /\ request[r].version + 1 \in Nat /\ overtaken \in BOOLEAN
      /\ review.candidates \in Nat /\ review.candidates + 1 \in Nat
  BY DEF save_candidates, MinutesInv, ReviewTypeOK, Review, Request
<1>2. /\ request' \in [Requests -> Request] /\ request'[r].pc = "idle"
      /\ \A s \in Requests \ {r} : request'[s] = request[s]
  BY <1>1, RequestMoves DEF MinutesInv
<1>3. /\ review' \in Review /\ review'.status = review.status
      /\ review'.job = review.job /\ review'.labels = review.labels
      /\ review'.version = request[r].version + 1
      /\ review'.candidates = review.candidates + 1
      /\ review'.draft = review.draft /\ review'.names = review.names
  <2>1. review' = [review EXCEPT !.candidates = review.candidates + 1,
                                 !.version = request[r].version + 1]
    BY <1>1 DEF save_candidates, Review
  <2> QED
    BY <1>1, <2>1 DEF Review
<1>4. /\ overtaken' \in BOOLEAN
      /\ overtaken' = (overtaken \/ request[r].version # review.version)
  BY <1>1 DEF save_candidates
<1>5. ASSUME ~overtaken' PROVE review'.version > review.version /\ review.candidates = 0
  <2>1. ~overtaken /\ request[r].version = review.version
    BY <1>4, <1>5
  <2>2. CopyFits(request[r], review)
    BY <2>1 DEF MinutesInv, CopiesFit
  <2> QED
    BY <1>1, <1>3, <2>1, <2>2 DEF CopyFits, Copying
<1>6. MinutesInv'
  <2>1. ReviewTypeOK'
    BY <1>1, <1>2, <1>3, <1>4 DEF MinutesInv, ReviewTypeOK
  <2>2. review.status # "NONE"
    BY <1>1 DEF MinutesInv, CopiesFit, Copying
  <2>3. ResultIsKept' /\ DraftUsesStoredNames'
    BY <1>1, <1>3, <1>4, <1>5 DEF ResultIsKept, DraftUsesStoredNames, MinutesInv
  <2>4. RowMoves /\ CopiesMove
    BY <1>2, <1>3, <1>4, <1>5, <2>2, <2>3 DEF RowMoves, CopiesMove, Copying
  <2> QED
    BY <2>1, <2>4, MinutesMove
<1>7. ASSUME BillingInv PROVE BillingInv'
  BY <1>1, <1>2, <1>3, <1>7 DEF BillingInv, Billing, NoProvider, RequestsFit, Submitting
<1> QED
  BY <1>6, <1>7 DEF MinutesStand

LEMMA NextMinutes ==
    MinutesInv /\ [ReviewNext]_reviewVars =>
        MinutesInv' /\ (~KeyMayChange /\ BillingInv => BillingInv')
<1> SUFFICES ASSUME MinutesInv, [ReviewNext]_reviewVars PROVE MinutesStand
  BY DEF MinutesStand
<1>1. ASSUME NEW r \in Requests, FailUnconfigured(r) PROVE MinutesStand
  BY <1>1, FailKeeps DEF FailUnconfigured
<1>2. CASE RestartReview
  <2>1. request' = [r \in Requests |-> IdleRequest] /\ IdleRequest \in Request
        /\ IdleRequest.pc = "idle"
    BY <1>2 DEF RestartReview, IdleRequest, Request, NameMap, NoNames
  <2>2. /\ configured' \in BOOLEAN
        /\ ~KeyMayChange => configured' = configured
        /\ UNCHANGED <<review, paid, overtaken>>
    BY <1>2 DEF RestartReview, MinutesInv, ReviewTypeOK
  <2>3. /\ request' \in [Requests -> Request]
        /\ \A s \in Requests : request'[s].pc = "idle"
    BY <2>1
  <2>4. CopiesMove
    BY <2>3 DEF CopiesMove, Copying
  <2> QED
    BY <2>2, <2>3, <2>4, QuietStep
<1>3. CASE UNCHANGED reviewVars
  <2>1. CopiesMove
    BY <1>3 DEF reviewVars, CopiesMove
  <2> QED
    BY <1>3, <2>1, QuietStep DEF reviewVars, MinutesInv, ReviewTypeOK
<1> QED
  BY <1>1, <1>2, <1>3, StartKeeps, SubmitKeeps, RetryKeeps, BeginKeeps, AcceptKeeps,
     AnswerKeeps, BeginPollKeeps, PollKeeps, NamesKeep, BeginDraftKeeps, DraftKeeps,
     BeginSavingKeeps, CandidatesKeep
     DEF ReviewNext

\* meeting_review_service, also when the provider's key comes and goes: a
\* diarization that was stored is lost from review only after a session wrote a
\* copy of the row that had been overtaken, and its job stays known; as long as
\* no session did, minutes that are shown were written from the stored names and
\* candidates are saved once.
THEOREM MinutesAreKept ==
    ReviewInit /\ [][ReviewNext]_reviewVars => [](ResultIsKept /\ DraftUsesStoredNames)
<1>1. MinutesInv => ResultIsKept /\ DraftUsesStoredNames
  BY DEF MinutesInv
<1>2. MinutesInv /\ [ReviewNext]_reviewVars => MinutesInv'
  BY NextMinutes
<1> QED
  BY <1>1, <1>2, InitMinutes, PTL

\* "a retry cannot silently create a second billable job" (submit_diarization):
\* the provider is paid at most once for a meeting, over errors, lost answers,
\* restarts and retries, as long as its key stays set or unset.
THEOREM DiarizationIsPaidOnce ==
    ~KeyMayChange => (ReviewInit /\ [][ReviewNext]_reviewVars => []PaidOnce)
<1> SUFFICES ASSUME ~KeyMayChange
             PROVE  ReviewInit /\ [][ReviewNext]_reviewVars => []PaidOnce
  OBVIOUS
<1> DEFINE Inv == MinutesInv /\ BillingInv
<1>1. ReviewInit => Inv
  BY InitMinutes
<1>2. Inv /\ [ReviewNext]_reviewVars => Inv'
  BY NextMinutes
<1>3. Inv => PaidOnce
  BY DEF BillingInv, Billing, PaidOnce
<1> QED
  BY <1>1, <1>2, <1>3, PTL

----------------------------------------------------------------------------
(* Sequences of rows *)

LEMMA ReplacedRow ==
    ASSUME NEW S, NEW rows \in Seq(S), NEW i \in 1 .. Len(rows), NEW x \in S
    PROVE  LET new == [rows EXCEPT ![i] = x]
           IN  /\ new \in Seq(S) /\ Len(new) = Len(rows) /\ new[i] = x
               /\ \A k \in 1 .. Len(rows) : k # i => new[k] = rows[k]
OBVIOUS

LEMMA AppendedRow ==
    ASSUME NEW S, NEW rows \in Seq(S), NEW x \in S
    PROVE  LET new == Append(rows, x)
           IN  /\ new \in Seq(S) /\ Len(new) = Len(rows) + 1 /\ new[Len(rows) + 1] = x
               /\ \A k \in 1 .. Len(rows) : new[k] = rows[k]
OBVIOUS

LEMMA MappedRows ==
    ASSUME NEW S, NEW n \in Nat, NEW new, DOMAIN new = 1 .. n,
           new = [k \in 1 .. n |-> new[k]], \A k \in 1 .. n : new[k] \in S
    PROVE  new \in Seq(S) /\ Len(new) = n
OBVIOUS

----------------------------------------------------------------------------
(* The judgement *)

\* What a job's row may be while its segment has version `now`: nothing is
\* decided before the models have answered, what they answered may only be
\* overtaken, and what stands is of that version.
RowFits(row, now) ==
    /\ row.pc \in {"ready", "loaded", "judging"} => row.decision = "NONE"
    /\ row.pc # "done" => row.job \in {"QUEUED", "RUNNING"}
    /\ row.pc = "judged" => row.decision \in {JudgedStatus(row.lookup, row.event), "STALE"}
    /\ row.job = "SUCCEEDED" => row.decision \in {"SUCCEEDED", "STALE"}
    /\ row.job = "FAILED" => row.decision \in {"PARTIAL", "FAILED", "STALE"}
    /\ row.decision \in {"SUCCEEDED", "PARTIAL"} => row.version = now
    /\ row.pc # "done" => row.suggested = 0
    /\ row.suggested # 0 => /\ row.suggested = row.version
                            /\ row.decision \in {"SUCCEEDED", "PARTIAL", "STALE"}

JudgementInv ==
    /\ MeetingTypeOK /\ JudgementTypeOK
    /\ \A j \in 1 .. Len(judgement) :
           RowFits(judgement[j], segment[judgement[j].segment].version)

LEMMA InitJudgement == create_meeting /\ JudgementInit => JudgementInv
BY DEF create_meeting, JudgementInit, JudgementInv, MeetingTypeOK, JudgementTypeOK,
       MeetingRow

\* One job's row moves on and no segment's version changes.
LEMMA OneJobMoves ==
    ASSUME JudgementInv, MeetingTypeOK', NEW j \in 1 .. Len(judgement),
           NEW row \in Judgement, judgement' = [judgement EXCEPT ![j] = row],
           row.segment = judgement[j].segment, Len(segment') = Len(segment),
           \A g \in 1 .. Len(segment) : segment'[g].version = segment[g].version,
           RowFits(row, segment[row.segment].version)
    PROVE  JudgementInv'
<1>1. judgement \in Seq(Judgement)
      /\ \A k \in 1 .. Len(judgement) : judgement[k].segment \in 1 .. Len(segment)
  BY DEF JudgementInv, JudgementTypeOK
<1>2. /\ judgement' \in Seq(Judgement) /\ Len(judgement') = Len(judgement)
      /\ judgement'[j] = row
      /\ \A k \in 1 .. Len(judgement) : k # j => judgement'[k] = judgement[k]
  BY <1>1, ReplacedRow
<1>3. \A k \in 1 .. Len(judgement') :
         /\ judgement'[k].segment \in 1 .. Len(segment')
         /\ RowFits(judgement'[k], segment[judgement'[k].segment].version)
  BY <1>1, <1>2 DEF JudgementInv
<1>4. \A k \in 1 .. Len(judgement') :
         segment'[judgement'[k].segment].version = segment[judgement'[k].segment].version
  BY <1>1, <1>2
<1> QED
  BY <1>2, <1>3, <1>4 DEF JudgementInv, JudgementTypeOK

\* The fields of a job's row, and of the segment it is about.
LEMMA JobTypes ==
    ASSUME JudgementInv, NEW j \in 1 .. Len(judgement)
    PROVE  /\ judgement[j] \in Judgement
           /\ judgement[j].segment \in 1 .. Len(segment)
           /\ segment \in Seq(Segment) /\ segment[judgement[j].segment] \in Segment
           /\ segment[judgement[j].segment].version \in Nat
           /\ RowFits(judgement[j], segment[judgement[j].segment].version)
<1>1. /\ judgement[j] \in Judgement /\ judgement[j].segment \in 1 .. Len(segment)
      /\ segment \in Seq(Segment)
  BY DEF JudgementInv, JudgementTypeOK, MeetingTypeOK
<1>2. segment[judgement[j].segment] \in Segment
  BY <1>1
<1>3. segment[judgement[j].segment].version \in Nat
  BY <1>2 DEF Segment
<1> QED
  BY <1>1, <1>2, <1>3 DEF JudgementInv

\* The segment that points to a job keeps its version.
LEMMA PointedSegment ==
    ASSUME JudgementInv, NEW j \in 1 .. Len(judgement), UNCHANGED <<meeting, chunk>>,
           segment' = [segment EXCEPT ![judgement[j].segment].job = j]
    PROVE  /\ MeetingTypeOK' /\ Len(segment') = Len(segment)
           /\ \A g \in 1 .. Len(segment) : segment'[g].version = segment[g].version
<1> DEFINE g == judgement[j].segment
           new == [segment[g] EXCEPT !.job = j]
<1>1. /\ g \in 1 .. Len(segment) /\ segment \in Seq(Segment) /\ segment[g] \in Segment
      /\ j \in Nat
  BY JobTypes
<1>2. new \in Segment /\ new.version = segment[g].version
  BY <1>1 DEF Segment
<1>3. segment' = [segment EXCEPT ![g] = new]
  BY <1>1
<1> HIDE DEF new, g
<1>4. /\ segment' \in Seq(Segment) /\ Len(segment') = Len(segment) /\ segment'[g] = new
      /\ \A k \in 1 .. Len(segment) : k # g => segment'[k] = segment[k]
  <2> DEFINE rows == segment
             after == [rows EXCEPT ![g] = new]
  <2>1. /\ after \in Seq(Segment) /\ Len(after) = Len(rows) /\ after[g] = new
        /\ \A k \in 1 .. Len(rows) : k # g => after[k] = rows[k]
    BY <1>1, <1>2
  <2> QED
    BY <1>3, <2>1
<1> QED
  BY <1>2, <1>4 DEF JudgementInv, MeetingTypeOK

LEMMA LoadKeeps ==
    ASSUME JudgementInv, NEW j \in 1 .. Len(judgement), LoadSegment(j)
    PROVE  JudgementInv'
<1> DEFINE row == [judgement[j] EXCEPT !.pc = "loaded",
                       !.version = segment[judgement[j].segment].version]
<1>1. row \in Judgement /\ row.segment = judgement[j].segment
  BY JobTypes DEF Judgement
<1>2. judgement' = [judgement EXCEPT ![j] = row]
  BY JobTypes DEF LoadSegment, JudgementInv, JudgementTypeOK
<1>3. RowFits(row, segment[row.segment].version)
  BY JobTypes DEF LoadSegment, RowFits, Judgement
<1>4. MeetingTypeOK' /\ segment' = segment
  BY DEF LoadSegment, JudgementInv, MeetingTypeOK
<1> QED
  BY <1>1, <1>2, <1>3, <1>4, OneJobMoves

LEMMA BeginJudgingKeeps ==
    ASSUME JudgementInv, NEW j \in 1 .. Len(judgement), BeginJudging(j)
    PROVE  JudgementInv'
<1> DEFINE row == [judgement[j] EXCEPT !.pc = "judging", !.job = "RUNNING"]
<1>1. row \in Judgement /\ row.segment = judgement[j].segment
  BY JobTypes DEF Judgement
<1>2. judgement' = [judgement EXCEPT ![j] = row]
  BY JobTypes DEF BeginJudging, JudgementInv, JudgementTypeOK
<1>3. RowFits(row, segment[row.segment].version)
  BY JobTypes DEF BeginJudging, RowFits, Judgement
<1>4. /\ MeetingTypeOK' /\ Len(segment') = Len(segment)
      /\ \A g \in 1 .. Len(segment) : segment'[g].version = segment[g].version
  BY PointedSegment DEF BeginJudging
<1> HIDE DEF row
<1> QED
  BY <1>1, <1>2, <1>3, <1>4, OneJobMoves

\* The models' answer is stored as it is if the segment is still the one they
\* read, and as STALE otherwise.
LEMMA JudgeKeeps ==
    ASSUME JudgementInv, NEW j \in 1 .. Len(judgement), NEW lookup \in BOOLEAN,
           NEW event \in {"none", "answer", "failed"},
           judge_live_meeting_segment(j, lookup, event)
    PROVE  JudgementInv'
<1> DEFINE status == IF current(j) THEN JudgedStatus(lookup, event) ELSE "STALE"
           row == [judgement[j] EXCEPT !.pc = "judged", !.lookup = lookup,
                                       !.event = event, !.decision = status]
<1>1. status \in {"SUCCEEDED", "PARTIAL", "FAILED", "STALE"}
  BY DEF JudgedStatus
<1>2. current(j) <=> segment[judgement[j].segment].version = judgement[j].version
  BY DEF current
<1>3. judgement' = [judgement EXCEPT ![j] = row]
  BY JobTypes DEF judge_live_meeting_segment, JudgementInv, JudgementTypeOK
<1>4. /\ MeetingTypeOK' /\ Len(segment') = Len(segment)
      /\ \A g \in 1 .. Len(segment) : segment'[g].version = segment[g].version
  <2>1. CASE segment' = segment
    BY <2>1 DEF judge_live_meeting_segment, JudgementInv, MeetingTypeOK
  <2>2. CASE segment' = [segment EXCEPT ![judgement[j].segment].job = j]
    BY <2>2, PointedSegment DEF judge_live_meeting_segment
  <2> QED
    BY <2>1, <2>2 DEF judge_live_meeting_segment
<1>5. /\ status \in {JudgedStatus(lookup, event), "STALE"}
      /\ status = "STALE" \/ current(j)
  OBVIOUS
<1> HIDE DEF status
<1>6. /\ row \in Judgement /\ row.segment = judgement[j].segment /\ row.pc = "judged"
      /\ row.version = judgement[j].version /\ row.job = judgement[j].job
      /\ row.lookup = lookup /\ row.event = event /\ row.decision = status
      /\ row.suggested = judgement[j].suggested
  BY <1>1, JobTypes DEF Judgement
<1> HIDE DEF row
<1>7. judgement[j].job \in {"QUEUED", "RUNNING"} /\ judgement[j].suggested = 0
  BY JobTypes DEF RowFits, judge_live_meeting_segment
<1>8. RowFits(row, segment[row.segment].version)
  BY <1>1, <1>2, <1>5, <1>6, <1>7 DEF RowFits
<1> QED
  BY <1>3, <1>4, <1>6, <1>8, OneJobMoves

LEMMA FinishKeeps ==
    ASSUME JudgementInv, NEW j \in 1 .. Len(judgement), NEW extracted \in BOOLEAN,
           finish_live_meeting_extraction(j, extracted)
    PROVE  JudgementInv'
<1> DEFINE old == judgement[j]
           fails == failures(j, extracted)
           status == CASE ~current(j) -> "STALE"
                       [] current(j) /\ fails ->
                              IF old.lookup \/ extracted THEN "PARTIAL" ELSE "FAILED"
                       [] OTHER -> old.decision
           job == IF fails THEN "FAILED" ELSE "SUCCEEDED"
           suggested == IF keeps_suggestions(extracted, status)
                        THEN segment[old.segment].version ELSE 0
           row == [old EXCEPT !.pc = "done", !.decision = status,
                       !.suggested = suggested, !.job = job]
<1>1. judgement' = [judgement EXCEPT ![j] = row] /\ old.pc = "judged"
  BY JobTypes DEF finish_live_meeting_extraction, JudgementInv, JudgementTypeOK
<1>2. /\ old \in Judgement /\ old.decision \in {JudgedStatus(old.lookup, old.event), "STALE"}
      /\ old.decision \in {"SUCCEEDED", "PARTIAL"} => current(j)
  BY <1>1, JobTypes DEF RowFits, current
<1>3. fails = (~old.lookup \/ old.event = "failed" \/ ~extracted)
  BY DEF failures
<1>4. ~fails => old.decision \in {"SUCCEEDED", "STALE"}
  BY <1>2, <1>3 DEF JudgedStatus, Judgement
<1> HIDE DEF fails
<1>5. /\ status \in {"SUCCEEDED", "PARTIAL", "FAILED", "STALE"}
      /\ status = "STALE" \/ current(j)
      /\ fails => status \in {"PARTIAL", "FAILED", "STALE"}
      /\ ~fails => status \in {"SUCCEEDED", "STALE"}
  BY <1>4
<1>6. job \in {"FAILED", "SUCCEEDED"} /\ (job = "FAILED" <=> fails)
  OBVIOUS
<1>10. /\ suggested \in Nat
       /\ suggested # 0 => status # "STALE" /\ suggested = segment[old.segment].version
       /\ suggested # 0 => extracted
  BY JobTypes DEF keeps_suggestions
<1>11. extracted => status # "FAILED"
  BY <1>5, <1>4
<1> HIDE DEF status, job, suggested
<1>7. /\ row \in Judgement /\ row.segment = old.segment /\ row.pc = "done"
      /\ row.version = old.version /\ row.job = job /\ row.decision = status
      /\ row.suggested = suggested
  BY <1>2, <1>5, <1>6, <1>10 DEF Judgement
<1> HIDE DEF row
<1>8. RowFits(row, segment[row.segment].version)
  BY <1>5, <1>6, <1>7, <1>10, <1>11 DEF RowFits, current
<1>9. MeetingTypeOK' /\ segment' = segment
  BY DEF finish_live_meeting_extraction, JudgementInv, MeetingTypeOK
<1> QED
  BY <1>1, <1>7, <1>8, <1>9, OneJobMoves

\* A correction of segment `g` ends the decisions that stood on it.
LEMMA StaleRows ==
    ASSUME JudgementInv, NEW g \in Nat
    PROVE  LET before == mark_segment_decisions_stale(g)
           IN  /\ before \in Seq(Judgement) /\ Len(before) = Len(judgement)
               /\ \A j \in 1 .. Len(judgement) :
                    /\ before[j].segment = judgement[j].segment
                    /\ before[j].segment # g => before[j] = judgement[j]
                    /\ before[j].segment = g => \A now \in Nat : RowFits(before[j], now)
<1> DEFINE before == mark_segment_decisions_stale(g)
           n == Len(judgement)
<1>1. n \in Nat /\ \A j \in 1 .. n : judgement[j] \in Judgement
  BY DEF JudgementInv, JudgementTypeOK
<1>2. /\ DOMAIN before = 1 .. n /\ before = [j \in 1 .. n |-> before[j]]
      /\ \A j \in 1 .. n : before[j] =
           IF judgement[j].segment = g /\ judgement[j].decision \in {"SUCCEEDED", "PARTIAL"}
           THEN [judgement[j] EXCEPT !.decision = "STALE"] ELSE judgement[j]
  BY DEF mark_segment_decisions_stale
<1> HIDE DEF before
<1>3. ASSUME NEW j \in 1 .. n
      PROVE  /\ before[j] \in Judgement /\ before[j].segment = judgement[j].segment
             /\ before[j].segment # g => before[j] = judgement[j]
             /\ before[j].segment = g => \A now \in Nat : RowFits(before[j], now)
  <2>1. judgement[j] \in Judgement
        /\ RowFits(judgement[j], segment[judgement[j].segment].version)
    BY <1>1, JobTypes
  <2>2. CASE /\ judgement[j].segment = g
             /\ judgement[j].decision \in {"SUCCEEDED", "PARTIAL"}
    <3> DEFINE row == [judgement[j] EXCEPT !.decision = "STALE"]
    <3>1. before[j] = row
      BY <1>2, <2>2
    <3>2. /\ row \in Judgement /\ row.segment = g /\ row.decision = "STALE"
          /\ row.pc = judgement[j].pc /\ row.job = judgement[j].job
          /\ row.suggested = judgement[j].suggested /\ row.version = judgement[j].version
      BY <2>1, <2>2 DEF Judgement
    <3>3. row.pc \notin {"ready", "loaded", "judging"}
      BY <2>1, <2>2, <3>2 DEF RowFits
    <3> HIDE DEF row
    <3>4. \A now \in Nat : RowFits(row, now)
      BY <2>1, <3>2, <3>3 DEF RowFits
    <3> QED
      BY <2>2, <3>1, <3>2, <3>4
  <2>3. CASE ~ /\ judgement[j].segment = g
               /\ judgement[j].decision \in {"SUCCEEDED", "PARTIAL"}
    <3>1. before[j] = judgement[j]
      BY <1>2, <2>3
    <3>2. judgement[j].segment = g => \A now \in Nat : RowFits(judgement[j], now)
      BY <2>1, <2>3 DEF RowFits
    <3> QED
      BY <2>1, <3>1, <3>2
  <2> QED
    BY <2>2, <2>3
<1>4. before \in Seq(Judgement) /\ Len(before) = n
  BY <1>1, <1>2, <1>3, MappedRows
<1> QED
  BY <1>3, <1>4 DEF before

\* A new job for segment `g`, and the segment's version.
LEMMA NewJobs ==
    ASSUME NEW g \in Nat, NEW v \in Nat
    PROVE  /\ create_job(g) \in Judgement /\ create_job(g).segment = g
           /\ \A now \in Nat : RowFits(create_job(g), now)
           /\ decide_meeting_segment(g, v) \in Judgement
           /\ decide_meeting_segment(g, v).segment = g
           /\ RowFits(decide_meeting_segment(g, v), v)
<1>1. create_job(g) \in Judgement /\ create_job(g).segment = g
  BY DEF create_job, Judgement
<1>2. \A now \in Nat : RowFits(create_job(g), now)
  BY DEF create_job, RowFits
<1> DEFINE new == decide_meeting_segment(g, v)
<1>3. /\ new \in Judgement /\ new.segment = g /\ new.version = v /\ new.pc = "done"
      /\ new.job = "SUCCEEDED" /\ new.decision = "SUCCEEDED" /\ new.suggested = 0
  BY <1>1 DEF decide_meeting_segment, create_job, Judgement
<1> HIDE DEF new
<1>4. RowFits(new, v)
  BY <1>3 DEF RowFits
<1> QED
  BY <1>1, <1>2, <1>3, <1>4 DEF new

\* The rows stay right when those of `g` are STALE or new and `g` alone moved.
LEMMA CorrectionKeeps ==
    ASSUME JudgementInv, NEW g \in 1 .. Len(segment) + 1, NEW final \in BOOLEAN,
           save_segment(g, final), meeting' \in MeetingRow, chunk' \in Seq(Chunk)
    PROVE  JudgementInv'
<1> DEFINE v == IF g > Len(segment) THEN 1 ELSE segment[g].version + 1
           row == [utterance |-> 0, version |-> v, final |-> final,
                   job |-> IF final THEN Len(judgement) + 1 ELSE 0]
           before == mark_segment_decisions_stale(g)
           n == Len(judgement)
<1>1. /\ segment \in Seq(Segment) /\ judgement \in Seq(Judgement)
      /\ n \in Nat /\ Len(segment) \in Nat /\ g \in Nat
      /\ \A j \in 1 .. n : judgement[j].segment \in 1 .. Len(segment)
  <2>1. segment \in Seq(Segment) /\ judgement \in Seq(Judgement)
    BY DEF JudgementInv, MeetingTypeOK, JudgementTypeOK
  <2>2. n \in Nat /\ Len(segment) \in Nat
    BY <2>1
  <2> QED
    BY <2>1, <2>2 DEF JudgementInv, JudgementTypeOK
<1>2. v \in Nat
  <2>1. g <= Len(segment) => segment[g] \in Segment
    BY <1>1
  <2> QED
    BY <2>1 DEF Segment
<1>3. /\ segment' = IF g > Len(segment) THEN Append(segment, row)
                    ELSE [segment EXCEPT ![g] = row]
      /\ judgement' = IF final THEN Append(before, decide_meeting_segment(g, v)) ELSE before
  BY DEF save_segment
<1> HIDE DEF v
<1>4. row \in Segment /\ row.version = v
  BY <1>1, <1>2 DEF Segment
<1> HIDE DEF row
<1>5. /\ segment' \in Seq(Segment) /\ segment'[g].version = v
      /\ Len(segment') >= Len(segment) /\ g \in 1 .. Len(segment') /\ Len(segment') \in Nat
      /\ \A k \in 1 .. Len(segment) : k # g => segment'[k] = segment[k]
  <2>1. CASE g > Len(segment)
    <3>1. g = Len(segment) + 1 /\ segment' = Append(segment, row)
      BY <1>1, <1>3, <2>1
    <3> QED
      BY <1>1, <1>4, <3>1
  <2>2. CASE ~(g > Len(segment))
    <3>1. g \in 1 .. Len(segment) /\ segment' = [segment EXCEPT ![g] = row]
      BY <1>1, <1>3, <2>2
    <3> QED
      BY <1>1, <1>4, <3>1
  <2> QED
    BY <2>1, <2>2
<1>6. /\ before \in Seq(Judgement) /\ Len(before) = n
      /\ \A j \in 1 .. n :
           /\ before[j].segment = judgement[j].segment
           /\ before[j].segment # g => before[j] = judgement[j]
           /\ before[j].segment = g => \A now \in Nat : RowFits(before[j], now)
  BY <1>1, StaleRows
<1> HIDE DEF before
<1>7. ASSUME NEW j \in 1 .. n
      PROVE  /\ before[j].segment \in 1 .. Len(segment')
             /\ RowFits(before[j], segment'[before[j].segment].version)
  <2>1. before[j].segment \in 1 .. Len(segment) /\ before[j].segment \in 1 .. Len(segment')
    BY <1>1, <1>5, <1>6
  <2>2. CASE before[j].segment = g
    BY <1>2, <1>5, <1>6, <2>1, <2>2
  <2>3. CASE before[j].segment # g
    BY <1>5, <1>6, <2>1, <2>3, JobTypes
  <2> QED
    BY <2>1, <2>2, <2>3
<1>8. MeetingTypeOK'
  BY <1>5 DEF MeetingTypeOK
<1>9. CASE ~final
  BY <1>3, <1>6, <1>7, <1>8, <1>9 DEF JudgementInv, JudgementTypeOK
<1>10. CASE final
  <2> DEFINE job == decide_meeting_segment(g, v)
  <2>1. job \in Judgement /\ job.segment = g /\ RowFits(job, segment'[job.segment].version)
    BY <1>1, <1>2, <1>5, NewJobs
  <2>2. judgement' = Append(before, job)
    BY <1>3, <1>10
  <2> HIDE DEF job
  <2>3. /\ judgement' \in Seq(Judgement) /\ Len(judgement') = n + 1
        /\ judgement'[n + 1] = job
        /\ \A j \in 1 .. n : judgement'[j] = before[j]
    BY <1>1, <1>6, <2>1, <2>2
  <2>4. \A j \in 1 .. Len(judgement') :
           /\ judgement'[j].segment \in 1 .. Len(segment')
           /\ RowFits(judgement'[j], segment'[judgement'[j].segment].version)
    <3> SUFFICES ASSUME NEW j \in 1 .. n + 1
                 PROVE  /\ judgement'[j].segment \in 1 .. Len(segment')
                        /\ RowFits(judgement'[j], segment'[judgement'[j].segment].version)
      BY <2>3
    <3>1. CASE j = n + 1
      BY <1>5, <2>1, <2>3, <3>1
    <3>2. CASE j \in 1 .. n
      BY <1>7, <2>3, <3>2
    <3> QED
      BY <1>1, <3>1, <3>2
  <2> QED
    BY <1>8, <2>3, <2>4 DEF JudgementInv, JudgementTypeOK
<1> QED
  BY <1>9, <1>10

LEMMA StartDecisionKeeps ==
    ASSUME JudgementInv, start_decision
    PROVE  JudgementInv'
<1> DEFINE seg == [utterance |-> Len(chunk) + 1, version |-> 1, final |-> TRUE, job |-> 0]
           cut == [stt |-> "SUCCEEDED", utterance |-> Len(chunk) + 1]
           job == create_job(Len(segment) + 1)
           n == Len(judgement)
           m == Len(segment)
<1>1. /\ segment \in Seq(Segment) /\ judgement \in Seq(Judgement) /\ chunk \in Seq(Chunk)
      /\ n \in Nat /\ m \in Nat /\ meeting \in MeetingRow
      /\ \A j \in 1 .. n : judgement[j].segment \in 1 .. m
  BY DEF JudgementInv, MeetingTypeOK, JudgementTypeOK
<1>2. seg \in Segment /\ cut \in Chunk /\ seg.version = 1
  BY <1>1 DEF Segment, Chunk
<1>3. job \in Judgement /\ job.segment = m + 1 /\ RowFits(job, 1)
  <2>1. m + 1 \in Nat /\ 1 \in Nat
    BY <1>1
  <2> QED
    BY <2>1, NewJobs, Zenon
<1>4. /\ chunk' = Append(chunk, cut) /\ segment' = Append(segment, seg)
      /\ judgement' = Append(judgement, job) /\ meeting' = meeting
  BY DEF start_decision
<1> HIDE DEF seg, cut, job
<1>5. /\ segment' \in Seq(Segment) /\ Len(segment') = m + 1 /\ segment'[m + 1] = seg
      /\ \A k \in 1 .. m : segment'[k] = segment[k]
  BY <1>1, <1>2, <1>4
<1>6. /\ judgement' \in Seq(Judgement) /\ Len(judgement') = n + 1 /\ judgement'[n + 1] = job
      /\ \A k \in 1 .. n : judgement'[k] = judgement[k]
  BY <1>1, <1>3, <1>4
<1>7. MeetingTypeOK'
  BY <1>1, <1>2, <1>4, <1>5 DEF MeetingTypeOK
<1>8. ASSUME NEW j \in 1 .. Len(judgement')
      PROVE  /\ judgement'[j].segment \in 1 .. Len(segment')
             /\ RowFits(judgement'[j], segment'[judgement'[j].segment].version)
  <2>1. CASE j = n + 1
    <3>1. judgement'[j] = job /\ segment'[job.segment].version = 1
      BY <1>2, <1>3, <1>5, <1>6, <2>1
    <3> QED
      BY <1>1, <1>3, <1>5, <3>1
  <2>2. CASE j \in 1 .. n
    <3>1. judgement'[j] = judgement[j] /\ judgement[j].segment \in 1 .. m
      BY <1>1, <1>6, <2>2
    <3>2. segment'[judgement[j].segment] = segment[judgement[j].segment]
      BY <1>5, <3>1
    <3>3. RowFits(judgement[j], segment[judgement[j].segment].version)
      BY <2>2, JobTypes
    <3> QED
      BY <1>1, <1>5, <3>1, <3>2, <3>3
  <2> QED
    BY <1>1, <1>6, <2>1, <2>2
<1> QED
  BY <1>6, <1>7, <1>8 DEF JudgementInv, JudgementTypeOK

judgementVars == <<meeting, chunk, segment, judgement>>

\* The end of the meeting is a step of its own (Services.FinishRequest).
LEMMA EndKeeps ==
    ASSUME JudgementInv, NEW busy \in BOOLEAN, finish_meeting(busy), UNCHANGED judgement
    PROVE  JudgementInv'
<1>1. meeting' \in MeetingRow /\ UNCHANGED <<chunk, segment>>
  BY DEF finish_meeting, JudgementInv, MeetingTypeOK, MeetingRow
<1> QED
  BY <1>1 DEF JudgementInv, MeetingTypeOK, JudgementTypeOK

JudgedMeetingNext ==
    JudgementNext \/ (finish_meeting(FALSE) /\ UNCHANGED judgement)

LEMMA NextJudgement ==
    JudgementInv /\ [JudgedMeetingNext]_judgementVars => JudgementInv'
<1> SUFFICES ASSUME JudgementInv, [JudgedMeetingNext]_judgementVars PROVE JudgementInv'
  OBVIOUS
<1>1. ASSUME NEW g \in 1 .. MaxSegments, NEW v \in 1 .. MaxVersion, NEW f \in BOOLEAN,
             submit_transcript(g, v, f)
      PROVE  JudgementInv'
  <2>1. segment \in Seq(Segment)
    BY DEF JudgementInv, MeetingTypeOK
  <2>2. g \in 1 .. Len(segment) + 1
    <3>1. Len(segment) \in Nat /\ (g = Len(segment) + 1 \/ g \in 1 .. Len(segment))
      BY <1>1, <2>1 DEF submit_transcript
    <3> QED
      BY <3>1
  <2>3. save_segment(g, f) /\ meeting' \in MeetingRow /\ chunk' \in Seq(Chunk)
    BY <1>1 DEF submit_transcript, JudgementInv, MeetingTypeOK
  <2> QED
    BY <2>2, <2>3, CorrectionKeeps
<1>2. CASE add_audio_chunk
  <2>1. segment \in Seq(Segment) /\ chunk \in Seq(Chunk) /\ meeting \in MeetingRow
    BY DEF JudgementInv, MeetingTypeOK
  <2>2. Len(segment) + 1 \in 1 .. Len(segment) + 1
    BY <2>1
  <2>3. [stt |-> "SUCCEEDED", utterance |-> 0] \in Chunk
    BY DEF Chunk
  <2>4. /\ save_segment(Len(segment) + 1, TRUE)
        /\ meeting' \in MeetingRow /\ chunk' \in Seq(Chunk)
    <3>1. /\ save_segment(Len(segment) + 1, TRUE) /\ meeting' = meeting
          /\ chunk' = Append(chunk, [stt |-> "SUCCEEDED", utterance |-> 0])
      BY <1>2 DEF add_audio_chunk
    <3> QED
      BY <2>1, <2>3, <3>1, AppendedRow
  <2> QED
    BY <2>2, <2>4, CorrectionKeeps
<1>3. CASE UNCHANGED judgementVars
  BY <1>3 DEF judgementVars, JudgementInv, MeetingTypeOK, JudgementTypeOK
<1>4. CASE finish_meeting(FALSE) /\ UNCHANGED judgement
  BY <1>4, EndKeeps
<1> QED
  BY <1>1, <1>2, <1>3, <1>4, StartDecisionKeeps, LoadKeeps, BeginJudgingKeeps, JudgeKeeps,
     FinishKeeps
     DEF JudgedMeetingNext, JudgementNext

LEMMA JudgementInvSuffices ==
    JudgementInv =>
        /\ MeetingTypeOK /\ JudgementTypeOK
        /\ StandingDecisionsAreCurrent /\ SuggestionsAreFromTheirWords
        /\ JobTellsTheDecision
BY DEF JudgementInv, RowFits, StandingDecisionsAreCurrent, SuggestionsAreFromTheirWords,
       JobTellsTheDecision

\* context_service: however late the models answer and however often a segment
\* is corrected in between, a decision that stands is of the words as they are
\* now, tasks are suggested only from the words they were extracted from, and a
\* settled job tells the decision that was stored.
THEOREM MeetingsAreJudgedAsSaid ==
    create_meeting /\ JudgementInit /\ [][JudgedMeetingNext]_judgementVars =>
        [](StandingDecisionsAreCurrent /\ SuggestionsAreFromTheirWords /\ JobTellsTheDecision)
<1>1. JudgementInv => /\ StandingDecisionsAreCurrent /\ SuggestionsAreFromTheirWords
                      /\ JobTellsTheDecision
  BY JudgementInvSuffices
<1> QED
  BY <1>1, InitJudgement, NextJudgement, PTL

----------------------------------------------------------------------------
(* The utterances of a stream *)

VadFields == {"open", "stream", "pending", "offset", "pre", "active", "start", "voice", "silence", "out"}

LEMMA VadFieldsHave ==
    /\ "open" \in VadFields /\ "stream" \in VadFields /\ "pending" \in VadFields /\ "offset" \in VadFields
    /\ "pre" \in VadFields /\ "active" \in VadFields /\ "start" \in VadFields /\ "voice" \in VadFields
    /\ "silence" \in VadFields /\ "out" \in VadFields
BY DEF VadFields

PreBlocks == [at : Nat, length : Nat]
Utterances == [start_ms : Nat, end_ms : Nat, length : Nat]

\* The blocks before the speech: without a gap, up to now, and no more than kept.
PreGood(pre, now) ==
    /\ pre \in Seq(PreBlocks) /\ Len(pre) <= PreRoll
    /\ \A i \in 1..Len(pre) :
          /\ pre[i].length <= BLOCK
          /\ pre[i].at + pre[i].length = IF i = Len(pre) THEN now ELSE pre[i + 1].at

\* Utterances in order after a time, each as long as its times say.
OutGood(out, floor) ==
    /\ out \in Seq(Utterances)
    /\ \A i \in 1..Len(out) :
          /\ (IF i = 1 THEN floor ELSE out[i - 1].end_ms) <= out[i].start_ms
          /\ out[i].start_ms < out[i].end_ms
          /\ out[i].length = out[i].end_ms - out[i].start_ms
          /\ out[i].length >= MinVoice /\ out[i].length < MaxUtterance + BLOCK

LastEnd(out, floor) == IF out = <<>> THEN floor ELSE out[Len(out)].end_ms

VadTyped(v) ==
    /\ IsRec(v, VadFields)
    /\ v.open \in BOOLEAN /\ v.stream \in Nat /\ v.pending \in Nat /\ v.offset \in Nat /\ v.active \in Nat
    /\ v.start \in Nat /\ v.voice \in Nat /\ v.silence \in Nat

\* The stream between two blocks: what was said before does not come again.
VadInv(v, floor) ==
    /\ VadTyped(v) /\ v.pending < BLOCK
    /\ OutGood(v.out, floor) /\ LastEnd(v.out, floor) <= v.offset
    /\ PreGood(v.pre, v.offset) /\ (v.pre # <<>> => LastEnd(v.out, floor) <= v.pre[1].at)
    /\ v.active = 0 => v.voice = 0
    /\ v.active # 0 => /\ v.pre = <<>> /\ v.start + v.active = v.offset /\ LastEnd(v.out, floor) <= v.start
                       /\ v.voice <= v.active /\ v.active < MaxUtterance

\* The stream in the middle of an utterance, whether it ends here or not.
Growing(v, floor) ==
    /\ VadTyped(v) /\ v.pending < BLOCK
    /\ OutGood(v.out, floor) /\ LastEnd(v.out, floor) <= v.start
    /\ v.pre = <<>> /\ v.active # 0 /\ v.start + v.active = v.offset
    /\ v.voice <= v.active /\ v.active < MaxUtterance + BLOCK

SameStream(w, v) == w.open = v.open /\ w.stream = v.stream

LEMMA SpeechNumbers ==
    /\ PreRoll \in Nat /\ SilenceEnd \in Nat /\ MaxUtterance \in Nat /\ MinVoice \in Nat /\ MinVoice > 0
    /\ MaxStart \in Nat /\ MaxTime \in Nat /\ PreRoll * 2 < MaxUtterance /\ BLOCK = 2
<1>1. BLOCK = 2
  BY DEF BLOCK
<1> QED
  BY <1>1, SpeechAssumption

LEMMA LastEndTyped ==
    ASSUME NEW floor \in Nat, NEW out, OutGood(out, floor)
    PROVE  LastEnd(out, floor) \in Nat /\ floor <= LastEnd(out, floor)
<1>1. CASE out = <<>>
  BY <1>1 DEF LastEnd
<1>2. CASE out # <<>>
  <2>1. out \in Seq(Utterances)
    BY Zenon DEF OutGood
  <2>2. PICK n \in Nat : n = Len(out) /\ n >= 1
    BY <1>2, <2>1
  <2>3. \A i \in 1..n : out[i].start_ms \in Nat /\ out[i].end_ms \in Nat
    <3>1. \A i \in 1..n : out[i] \in Utterances
      BY <2>1, <2>2
    <3>2. \A u \in Utterances : u.start_ms \in Nat /\ u.end_ms \in Nat
      BY DEF Utterances
    <3> QED
      BY <3>1, <3>2, Zenon
  <2>4. \A i \in 1..n : (IF i = 1 THEN floor ELSE out[i - 1].end_ms) <= out[i].start_ms /\ out[i].start_ms < out[i].end_ms
    BY <2>2, Zenon DEF OutGood
  <2> DEFINE T == {i \in 0..n : i = 0 \/ floor <= out[i].end_ms}
  <2>5. 0 \in T
    OBVIOUS
  <2>6. ASSUME NEW i \in 0..n, i < n, i \in T PROVE i + 1 \in T
    <3>1. i + 1 \in 1..n /\ i + 1 \in 0..n
      BY <2>2, <2>6
    <3>2. CASE i = 0
      BY <2>3, <2>4, <3>1, <3>2
    <3>3. CASE i # 0
      <4>1. i \in 1..n /\ (i + 1) - 1 = i /\ i + 1 # 1
        BY <2>2, <2>6, <3>3
      <4>2. out[i].end_ms <= out[i + 1].start_ms
        BY <2>4, <3>1, <4>1
      <4> QED
        BY <2>3, <2>4, <2>6, <3>1, <4>1, <4>2
    <3> QED
      BY <3>2, <3>3
  <2> HIDE DEF T
  <2>7. \A i \in 0..n : i \in T
    BY <2>2, <2>5, <2>6, UpTo
  <2>8. n \in T /\ n \in 1..n /\ n # 0
    BY <2>2, <2>7
  <2> QED
    BY <1>2, <2>2, <2>3, <2>8 DEF T, LastEnd
<1> QED
  BY <1>1, <1>2

\* One more utterance after the others.
LEMMA OutMore ==
    ASSUME NEW floor \in Nat, NEW out, OutGood(out, floor), NEW u \in Utterances,
           LastEnd(out, floor) <= u.start_ms, u.length > 0, u.start_ms + u.length = u.end_ms,
           u.length >= MinVoice, u.length < MaxUtterance + BLOCK
    PROVE  OutGood(Append(out, u), floor) /\ LastEnd(Append(out, u), floor) = u.end_ms
<1>1. out \in Seq(Utterances) /\ u \in Utterances
  BY Zenon DEF OutGood
<1>2. PICK n \in Nat : n = Len(out)
  BY <1>1
<1>3. PICK o : o = Append(out, u)
  OBVIOUS
<1>4. o \in Seq(Utterances) /\ Len(o) = n + 1 /\ o[n + 1] = u /\ \A i \in 1..n : o[i] = out[i]
  BY <1>1, <1>2, <1>3
<1>5. (IF n = 0 THEN floor ELSE out[n].end_ms) <= u.start_ms
  <2>1. out = <<>> <=> n = 0
    BY <1>1, <1>2
  <2> QED
    BY <1>2, <2>1, Zenon DEF LastEnd
<1>6. u.start_ms \in Nat /\ u.end_ms \in Nat /\ u.length \in Nat
  BY DEF Utterances
<1>7. ASSUME NEW i \in 1..Len(o)
      PROVE  /\ (IF i = 1 THEN floor ELSE o[i - 1].end_ms) <= o[i].start_ms
             /\ o[i].start_ms < o[i].end_ms
             /\ o[i].length = o[i].end_ms - o[i].start_ms
             /\ o[i].length >= MinVoice /\ o[i].length < MaxUtterance + BLOCK
  <2>1. CASE i \in 1..n
    <3>1. o[i] = out[i] /\ (i # 1 => i - 1 \in 1..n)
      BY <1>2, <1>4, <2>1
    <3>2. i # 1 => o[i - 1] = out[i - 1]
      BY <1>4, <3>1
    <3>3. /\ (IF i = 1 THEN floor ELSE out[i - 1].end_ms) <= out[i].start_ms
          /\ out[i].start_ms < out[i].end_ms
          /\ out[i].length = out[i].end_ms - out[i].start_ms
          /\ out[i].length >= MinVoice /\ out[i].length < MaxUtterance + BLOCK
      BY <1>2, <2>1, Zenon DEF OutGood
    <3> QED
      BY <3>1, <3>2, <3>3, Zenon
  <2>2. CASE i = n + 1
    <3>1. o[i] = u /\ (i = 1 <=> n = 0) /\ i - 1 = n /\ (n # 0 => n \in 1..n)
      BY <1>2, <1>4, <2>2
    <3>2. (IF i = 1 THEN floor ELSE o[i - 1].end_ms) <= u.start_ms
      BY <1>4, <1>5, <3>1, Zenon
    <3> QED
      BY <1>6, <3>1, <3>2
  <2> QED
    BY <1>2, <1>4, <2>1, <2>2
<1>8. OutGood(o, floor)
  BY <1>4, <1>7, Zenon DEF OutGood
<1>9. LastEnd(o, floor) = u.end_ms
  BY <1>2, <1>4, <1>6 DEF LastEnd
<1> QED
  BY <1>3, <1>8, <1>9

\* What an utterance adds when it ends, if enough of it is voice.
LEMMA TakeInv ==
    ASSUME NEW floor \in Nat, NEW v, Growing(v, floor)
    PROVE  VadInv(_take(v), floor) /\ SameStream(_take(v), v)
<1>1. IsRec(v, VadFields) /\ v.open \in BOOLEAN /\ v.stream \in Nat /\ v.pending \in Nat /\ v.offset \in Nat
      /\ v.active \in Nat /\ v.start \in Nat /\ v.voice \in Nat /\ v.silence \in Nat
      /\ OutGood(v.out, floor) /\ LastEnd(v.out, floor) <= v.start /\ v.pending < BLOCK
      /\ v.pre = <<>> /\ v.active # 0 /\ v.start + v.active = v.offset
      /\ v.voice <= v.active /\ v.active < MaxUtterance + BLOCK
  BY Zenon DEF Growing, VadTyped
<1>2. PICK out, none : none = 0 /\ out = IF v.voice >= MinVoice
                       THEN Append(v.out, [start_ms |-> v.start, end_ms |-> v.offset, length |-> v.active])
                       ELSE v.out
  OBVIOUS
<1>3. PICK u, w : u = [v EXCEPT !.active = none, !.voice = none] /\ w = [u EXCEPT !.silence = none, !.out = out]
  OBVIOUS
<1>4. _take(v) = w
  BY <1>2, <1>3, Zenon DEF _take
<1>5. u = Put(Put(v, "active", none), "voice", none)
  BY <1>3, Zenon DEF Put
<1>6. /\ IsRec(u, VadFields) /\ u.active = none /\ u.voice = none
      /\ \A j \in VadFields : j # "active" /\ j # "voice" => u[j] = v[j]
  BY <1>5, <1>1, VadFieldsHave, Put2
<1>7. /\ u.open = v.open /\ u.stream = v.stream /\ u.pending = v.pending /\ u.offset = v.offset
      /\ u.pre = v.pre /\ u.start = v.start /\ u.silence = v.silence /\ u.out = v.out
  BY <1>6, VadFieldsHave
<1>8. w = Put(Put(u, "silence", none), "out", out)
  BY <1>3, Zenon DEF Put
<1>9. /\ IsRec(w, VadFields) /\ w.silence = none /\ w.out = out
      /\ \A j \in VadFields : j # "silence" /\ j # "out" => w[j] = u[j]
  BY <1>8, <1>6, VadFieldsHave, Put2
<1>10. /\ w.open = u.open /\ w.stream = u.stream /\ w.pending = u.pending /\ w.offset = u.offset
      /\ w.pre = u.pre /\ w.active = u.active /\ w.start = u.start /\ w.voice = u.voice
  BY <1>9, VadFieldsHave
<1>11. PICK since, offset, active, voice : since = v.start /\ offset = v.offset /\ active = v.active /\ voice = v.voice
  OBVIOUS
<1>12. since \in Nat /\ offset \in Nat /\ active \in Nat /\ active > 0 /\ since + active = offset /\ voice \in Nat
       /\ voice <= active /\ LastEnd(v.out, floor) <= since /\ active < MaxUtterance + BLOCK
  BY <1>1, <1>11
<1>13. OutGood(out, floor) /\ LastEnd(out, floor) <= offset
  <2>1. CASE voice >= MinVoice
    <3>1. active >= MinVoice
      BY <1>12, <2>1, SpeechNumbers
    <3>2. PICK r : r = [start_ms |-> since, end_ms |-> offset, length |-> active]
      OBVIOUS
    <3>5. PICK old : old = v.out
      OBVIOUS
    <3>3. out = Append(old, r)
      BY <1>2, <1>11, <2>1, <3>2, <3>5, Zenon
    <3>6. OutGood(old, floor) /\ LastEnd(old, floor) <= since
      BY <1>1, <1>12, <3>5, Zenon
    <3>8. active >= MinVoice /\ active < MaxUtterance + BLOCK /\ active > 0 /\ since + active = offset
      BY <1>12, <3>1, Zenon
    <3>9. since \in Nat /\ offset \in Nat /\ active \in Nat
      BY <1>12, Zenon
    <3>10. r \in Utterances /\ r.start_ms = since /\ r.end_ms = offset /\ r.length = active
      BY <3>2, <3>9 DEF Utterances
    <3>7. OutGood(Append(old, r), floor) /\ LastEnd(Append(old, r), floor) = offset
      BY <3>6, <3>8, <3>10, OutMore
    <3>4. OutGood(out, floor) /\ LastEnd(out, floor) = offset
      BY <3>3, <3>7
    <3> QED
      BY <1>12, <3>4
  <2>2. CASE ~(voice >= MinVoice)
    <3>1. out = v.out
      BY <1>2, <1>11, <2>2, Zenon
    <3>2. LastEnd(v.out, floor) \in Nat
      BY <1>1, LastEndTyped
    <3> QED
      BY <1>1, <1>12, <3>1, <3>2
  <2> QED
    BY <2>1, <2>2
<1>14. PreGood(<<>>, offset)
  BY SpeechNumbers DEF PreGood
<1>15. /\ w.open \in BOOLEAN /\ w.stream \in Nat /\ w.pending \in Nat /\ w.offset = offset /\ w.pre = <<>>
       /\ w.active = none /\ w.start \in Nat /\ w.voice = none /\ w.silence = none /\ w.out = out /\ w.pending < BLOCK
  BY <1>1, <1>6, <1>7, <1>9, <1>10, <1>11, Zenon
<1>16. none \in Nat /\ none = 0
  BY <1>2
<1>17. VadTyped(w)
  BY <1>9, <1>12, <1>15, <1>16, Zenon DEF VadTyped
<1>18. VadInv(w, floor)
  BY <1>13, <1>14, <1>15, <1>16, <1>17, Zenon DEF VadInv
<1>19. SameStream(w, v)
  BY <1>7, <1>10 DEF SameStream
<1> QED
  BY <1>4, <1>18, <1>19

\* The pre-roll drops its oldest block when it is full.
LEMMA KeepPreRoll ==
    ASSUME NEW now \in Nat, NEW d \in Nat, d <= BLOCK, NEW pre, PreGood(pre, now), NEW b, b = [at |-> now, length |-> d],
           NEW f \in Nat, f <= now, pre # <<>> => f <= pre[1].at
    PROVE  /\ PreGood(keep_pre_roll(pre, b), now + d)
           /\ keep_pre_roll(pre, b) # <<>> => f <= keep_pre_roll(pre, b)[1].at
<1>1. PICK n \in Nat : n = Len(pre) /\ n <= PreRoll /\ pre \in Seq(PreBlocks)
  BY DEF PreGood
<1>2. b \in PreBlocks /\ b.at = now /\ b.length = d
  BY DEF PreBlocks
<1>3. PICK all : all = Append(pre, b)
  OBVIOUS
<1>4. all \in Seq(PreBlocks) /\ Len(all) = n + 1 /\ all[n + 1] = b /\ \A i \in 1..n : all[i] = pre[i]
  BY <1>1, <1>2, <1>3
<1>5. \A i \in 1..n + 1 : all[i].at \in Nat /\ all[i].length \in Nat
  <2>1. \A i \in 1..n + 1 : all[i] \in PreBlocks
    BY <1>4
  <2>2. \A k \in PreBlocks : k.at \in Nat /\ k.length \in Nat
    BY DEF PreBlocks
  <2> QED
    BY <2>1, <2>2, Zenon
<1>6. \A i \in 1..n : /\ pre[i].length <= BLOCK
                      /\ pre[i].at + pre[i].length = IF i = n THEN now ELSE pre[i + 1].at
  BY <1>1, Zenon DEF PreGood
<1>7. ASSUME NEW i \in 1..n + 1
      PROVE  all[i].length <= BLOCK /\ all[i].at + all[i].length = IF i = n + 1 THEN now + d ELSE all[i + 1].at
  <2>1. CASE i = n + 1
    BY <1>2, <1>4, <2>1
  <2>2. CASE i # n + 1 /\ i = n
    <3>1. i \in 1..n /\ all[i] = pre[i] /\ all[i + 1].at = now
      BY <1>2, <1>4, <1>7, <2>2
    <3> QED
      BY <1>6, <2>2, <3>1
  <2>3. CASE i # n + 1 /\ i # n
    <3>1. i \in 1..n /\ i + 1 \in 1..n
      BY <1>7, <2>3
    <3>2. all[i] = pre[i] /\ all[i + 1] = pre[i + 1]
      BY <1>4, <3>1
    <3> QED
      BY <1>6, <2>3, <3>1, <3>2
  <2> QED
    BY <2>1, <2>2, <2>3
<1>8. f <= all[1].at
  <2>1. CASE n = 0
    BY <1>2, <1>4, <2>1
  <2>2. CASE n # 0
    <3>1. pre # <<>> /\ 1 \in 1..n
      BY <1>1, <2>2
    <3> QED
      BY <1>4, <3>1
  <2> QED
    BY <2>1, <2>2
<1>9. CASE n + 1 <= PreRoll
  <2>1. keep_pre_roll(pre, b) = all
    <3>1. ~(Len(all) > PreRoll)
      BY <1>4, <1>9, SpeechNumbers
    <3> QED
      BY <1>3, <3>1, Zenon DEF keep_pre_roll
  <2>2. PreGood(all, now + d)
    BY <1>4, <1>7, <1>9, Zenon DEF PreGood
  <2> QED
    BY <1>8, <2>1, <2>2
<1>10. CASE n = PreRoll
  <2>1. PICK t : t = Tail(all)
    OBVIOUS
  <2>2. keep_pre_roll(pre, b) = t
    <3>1. Len(all) > PreRoll
      BY <1>4, <1>10
    <3> QED
      BY <1>3, <2>1, <3>1, Zenon DEF keep_pre_roll
  <2>3. t \in Seq(PreBlocks) /\ Len(t) = n /\ \A i \in 1..n : t[i] = all[i + 1]
    BY <1>4, <2>1
  <2>4. ASSUME NEW i \in 1..n
        PROVE  t[i].length <= BLOCK /\ t[i].at + t[i].length = IF i = n THEN now + d ELSE t[i + 1].at
    <3>1. i + 1 \in 1..n + 1 /\ t[i] = all[i + 1] /\ (i # n => i + 1 \in 1..n) /\ (i = n <=> i + 1 = n + 1)
      BY <2>3
    <3>2. i # n => t[i + 1] = all[(i + 1) + 1]
      BY <2>3, <3>1
    <3>3. /\ all[i + 1].length <= BLOCK
          /\ all[i + 1].at + all[i + 1].length = IF i + 1 = n + 1 THEN now + d ELSE all[(i + 1) + 1].at
      BY <1>7, <3>1
    <3>4. CASE i = n
      BY <3>1, <3>3, <3>4, Zenon
    <3>5. CASE i # n
      BY <3>1, <3>2, <3>3, <3>5, Zenon
    <3> QED
      BY <3>4, <3>5
  <2>5. PreGood(t, now + d)
    BY <1>10, <2>3, <2>4, SpeechNumbers DEF PreGood
  <2>6. t # <<>> => f <= t[1].at
    <3>1. SUFFICES ASSUME t # <<>> PROVE f <= t[1].at
      OBVIOUS
    <3>2. n >= 1 /\ 1 \in 1..n /\ 1 \in 1..n + 1 /\ 2 \in 1..n + 1 /\ 1 + 1 = 2 /\ 1 # n + 1
      BY <2>3, <3>1
    <3>3. t[1] = all[2] /\ all[1].at + all[1].length = all[2].at
      BY <1>7, <2>3, <3>2
    <3> QED
      BY <1>5, <1>8, <3>2, <3>3
  <2> QED
    BY <2>2, <2>5, <2>6
<1> QED
  BY <1>1, <1>9, <1>10, SpeechNumbers

LEMMA SumReaches ==
    ASSUME NEW pre \in Seq(PreBlocks),
           NEW I, 0 \in I[0],
           \A i \in 0..Len(pre) : i < Len(pre) =>
               \A x \in I[i] \cap Nat : x + pre[i + 1].length \in I[i + 1]
    PROVE  FoldLeft(LAMBDA sum, b : sum + b.length, 0, pre) \in I[Len(pre)] \cap Nat
<1> DEFINE n == Len(pre)
           step == [p \in (1..n) \X Nat |-> p[2] + pre[p[1]].length]
           is(it) == it = [s \in SUBSET (DOMAIN pre) |->
                        IF s = {} THEN 0 ELSE it[s \ {Max(s)}] + pre[Max(s)].length]
           c == CHOOSE it : is(it)
<1>1. n \in Nat /\ DOMAIN pre = 1..n
  OBVIOUS
<1>2. FoldLeft(LAMBDA sum, b : sum + b.length, 0, pre) = c[DOMAIN pre]
  BY Zenon DEF FoldLeft, MapThenFoldSet
<1>3. \A i \in 1..n, x \in Nat : x + pre[i].length \in Nat
  <2>1. \A i \in 1..n : pre[i] \in PreBlocks
    BY <1>1
  <2>2. \A k \in PreBlocks, x \in Nat : x + k.length \in Nat
    BY DEF PreBlocks
  <2> QED
    BY <2>1, <2>2, Zenon
<1>4. step \in [(1..n) \X Nat -> Nat]
  BY <1>3
<1>5. \A i \in 1..n, x \in Nat : step[i, x] = x + pre[i].length
  OBVIOUS
<1> HIDE DEF n, step
<1>17. 0 \in Nat
  OBVIOUS
<1>6. FoldOn(n, Nat, 0, step)
  BY <1>1, <1>4, <1>17, FoldExists
<1>7. PICK it \in [SUBSET (1..n) -> Nat] :
         /\ it[{}] = 0
         /\ \A s \in SUBSET (1..n) : s # {} => Max(s) \in s /\ it[s] = step[Max(s), it[s \ {Max(s)}]]
  BY <1>6 DEF FoldOn
<1>8. ASSUME NEW s \in SUBSET (1..n), s # {}
      PROVE  it[s] = it[s \ {Max(s)}] + pre[Max(s)].length
  <2>1. Max(s) \in 1..n /\ it[s \ {Max(s)}] \in Nat
    BY <1>7, <1>8
  <2> QED
    BY <1>5, <1>7, <1>8, <2>1
<1>9. is(it)
  <2>1. it = [s \in SUBSET (1..n) |-> it[s]]
    OBVIOUS
  <2>2. \A s \in SUBSET (1..n) :
           it[s] = IF s = {} THEN 0 ELSE it[s \ {Max(s)}] + pre[Max(s)].length
    BY <1>7, <1>8
  <2> QED
    BY <1>1, <2>1, <2>2
<1>10. is(c)
  <2> HIDE DEF is
  <2> QED
    BY <1>9
<1> HIDE DEF c
<1>11. c = [s \in SUBSET (1..n) |->
              IF s = {} THEN 0 ELSE c[s \ {Max(s)}] + pre[Max(s)].length]
  BY <1>1, <1>10
<1> HIDE DEF is
<1>12. /\ c[{}] = 0
       /\ \A s \in SUBSET (1..n) : s # {} => c[s] = c[s \ {Max(s)}] + pre[Max(s)].length
  BY <1>11
<1>13. Folds(c, n, Nat, 0, step)
  <2> SUFFICES ASSUME NEW s \in SUBSET (1..n), s # {}, c[s \ {Max(s)}] \in Nat
               PROVE  c[s] = step[Max(s), c[s \ {Max(s)}]]
    BY <1>12 DEF Folds
  <2>1. Max(s) \in 1..n
    BY <1>7
  <2> QED
    BY <1>5, <1>12, <2>1
<1>14. ASSUME NEW i \in 0..n, i < n, NEW x \in I[i] \cap Nat
       PROVE  step[i + 1, x] \in I[i + 1]
  <2>1. i + 1 \in 1..n
    BY <1>1, <1>14
  <2>2. x + pre[i + 1].length \in I[i + 1]
    BY <1>14 DEF n
  <2> QED
    BY <1>5, <1>14, <2>1, <2>2
<1>15. Leads(I, n, Nat, 0, step)
  BY <1>14 DEF Leads
<1>16. c[1..n] \in I[n] \cap Nat
  BY <1>1, <1>17, <1>4, <1>13, <1>15, FoldReaches
<1> QED
  BY <1>1, <1>2, <1>16 DEF n

\* The length of the pre-roll is the time since its first block began.
LEMMA PreRollLength ==
    ASSUME NEW now \in Nat, NEW pre, PreGood(pre, now), pre # <<>>
    PROVE  LET sum == FoldLeft(LAMBDA total, b : total + b.length, 0, pre)
           IN  sum \in Nat /\ pre[1].at \in Nat /\ pre[1].at + sum = now /\ sum <= PreRoll * 2
<1>1. PICK n \in Nat : n = Len(pre) /\ n <= PreRoll /\ n >= 1 /\ pre \in Seq(PreBlocks)
  BY DEF PreGood
<1>2. \A i \in 1..n : pre[i].at \in Nat /\ pre[i].length \in Nat
  <2>1. \A i \in 1..n : pre[i] \in PreBlocks
    BY <1>1
  <2>2. \A k \in PreBlocks : k.at \in Nat /\ k.length \in Nat
    BY DEF PreBlocks
  <2> QED
    BY <2>1, <2>2, Zenon
<1>3. \A i \in 1..n : /\ pre[i].length <= 2
                      /\ pre[i].at + pre[i].length = IF i = n THEN now ELSE pre[i + 1].at
  BY <1>1, SpeechNumbers DEF PreGood
<1> DEFINE I == [i \in 0..n |-> {x \in Nat : x <= 2 * i /\ pre[1].at + x = IF i = n THEN now ELSE pre[i + 1].at}]
<1>4. 0 \in I[0] /\ 0 \in 0..n /\ n \in 0..n
  BY <1>1, <1>2
<1>5. ASSUME NEW i \in 0..n, i < n, NEW x \in I[i] \cap Nat
      PROVE  x + pre[i + 1].length \in I[i + 1]
  <2>1. i + 1 \in 1..n /\ i + 1 \in 0..n /\ i # n
    BY <1>1, <1>5
  <2>2. x \in Nat /\ x <= 2 * i /\ pre[1].at + x = pre[i + 1].at
    BY <1>5, <2>1
  <2>3. PICK a, y, z : a = pre[1].at /\ y = pre[i + 1].length /\ z = pre[i + 1].at
    OBVIOUS
  <2>4. a \in Nat /\ y \in Nat /\ z \in Nat /\ y <= 2 /\ a + x = z
        /\ z + y = IF i + 1 = n THEN now ELSE pre[(i + 1) + 1].at
    <3>1. 1 \in 1..n
      BY <1>1
    <3>2. /\ pre[i + 1].length <= 2
          /\ pre[i + 1].at + pre[i + 1].length = IF i + 1 = n THEN now ELSE pre[(i + 1) + 1].at
      BY <1>3, <2>1
    <3>3. a \in Nat /\ y \in Nat /\ z \in Nat
      BY <1>2, <2>1, <2>3, <3>1
    <3> QED
      BY <2>2, <2>3, <3>2, <3>3
  <2>6. i \in Nat /\ x \in Nat /\ x <= 2 * i
    BY <1>1, <1>5, <2>2
  <2>7. x + y \in Nat /\ a + (x + y) = z + y
    BY <2>4, <2>6
  <2>8. x + y <= 2 * (i + 1)
    BY <2>4, <2>6
  <2>5. x + y \in Nat /\ x + y <= 2 * (i + 1) /\ a + (x + y) = z + y
    BY <2>7, <2>8
  <2> QED
    BY <2>1, <2>3, <2>4, <2>5
<1> HIDE DEF I
<1>6. \A i \in 0..Len(pre) : i < Len(pre) => \A x \in I[i] \cap Nat : x + pre[i + 1].length \in I[i + 1]
  BY <1>1, <1>5
<1>7. PICK sum : sum = FoldLeft(LAMBDA total, b : total + b.length, 0, pre)
  OBVIOUS
<1>8. sum \in I[n]
  BY <1>1, <1>4, <1>6, <1>7, SumReaches
<1>9. sum \in Nat /\ sum <= 2 * n /\ pre[1].at + sum = now
  BY <1>4, <1>8 DEF I
<1>10. sum <= PreRoll * 2
  BY <1>1, <1>9, SpeechNumbers
<1>11. pre[1].at \in Nat
  BY <1>1, <1>2
<1> QED
  BY <1>7, <1>9, <1>10, <1>11

LEMMA SumOfNone == FoldLeft(LAMBDA sum, b : sum + b.length, 0, <<>>) = 0
<1> DEFINE I == [i \in {0} |-> {0}]
<1>1. <<>> \in Seq(PreBlocks) /\ Len(<<>>) = 0 /\ 0 \in I[0] /\ I[0] = {0}
  OBVIOUS
<1> HIDE DEF I
<1>2. \A i \in 0..Len(<<>>) : i < Len(<<>>) => \A x \in I[i] \cap Nat : x + <<>>[i + 1].length \in I[i + 1]
  BY <1>1
<1>3. PICK none : none = <<>>
  OBVIOUS
<1>4. FoldLeft(LAMBDA sum, b : sum + b.length, 0, none) \in I[Len(none)]
  BY <1>1, <1>2, <1>3, SumReaches
<1> QED
  BY <1>1, <1>3, <1>4

PreLength(pre) == FoldLeft(LAMBDA sum, b : sum + b.length, 0, pre)

Start(pre, at) == IF pre = <<>> THEN at ELSE Head(pre).at

LEMMA OpenIs ==
    ASSUME NEW v, NEW at
    PROVE  open_utterance(v, at) = [v EXCEPT !.start = Start(v.pre, at), !.active = PreLength(v.pre), !.pre = <<>>]
BY DEF open_utterance, Start, PreLength

Longer(o, d, voiced) ==
    [o EXCEPT !.active = o.active + d, !.voice = IF voiced THEN o.voice + d ELSE o.voice,
              !.silence = IF voiced THEN 0 ELSE o.silence + d]

Opened(v, moved) == IF v.active = 0 THEN open_utterance(moved, v.offset) ELSE moved

Ends(w) == w.silence >= SilenceEnd \/ w.offset - w.start >= MaxUtterance

LEMMA BlockIs ==
    ASSUME NEW v, NEW d, NEW voiced, NEW moved, moved = [v EXCEPT !.offset = v.offset + d],
           NEW w, w = Longer(Opened(v, moved), d, voiced)
    PROVE  _block(v, d, voiced) =
               IF v.active = 0 /\ ~voiced
               THEN [moved EXCEPT !.pre = keep_pre_roll(moved.pre, [at |-> v.offset, length |-> d])]
               ELSE IF Ends(w) THEN _take(w) ELSE w
BY DEF _block, Longer, Opened, Ends

\* An utterance opens with the blocks before it, or goes on.
LEMMA OpenedInv ==
    ASSUME NEW floor \in Nat, NEW v, VadInv(v, floor), NEW now \in Nat, NEW o, NEW moved,
           moved = [v EXCEPT !.offset = now],
           o = Opened(v, moved)
    PROVE  /\ IsRec(o, VadFields) /\ SameStream(o, v) /\ o.pending = v.pending /\ o.offset = now
           /\ o.out = v.out /\ o.silence \in Nat /\ o.voice \in Nat /\ o.start \in Nat /\ o.active \in Nat
           /\ o.pre = <<>> /\ o.start + o.active = v.offset /\ LastEnd(v.out, floor) <= o.start
           /\ o.voice <= o.active /\ o.active < MaxUtterance
<1>1. IsRec(v, VadFields) /\ v.open \in BOOLEAN /\ v.stream \in Nat /\ v.pending \in Nat /\ v.offset \in Nat
      /\ v.active \in Nat /\ v.start \in Nat /\ v.voice \in Nat /\ v.silence \in Nat
      /\ OutGood(v.out, floor) /\ LastEnd(v.out, floor) <= v.offset
      /\ PreGood(v.pre, v.offset) /\ (v.pre # <<>> => LastEnd(v.out, floor) <= v.pre[1].at)
      /\ (v.active = 0 => v.voice = 0)
      /\ (v.active # 0 => /\ v.pre = <<>> /\ v.start + v.active = v.offset /\ LastEnd(v.out, floor) <= v.start
                          /\ v.voice <= v.active /\ v.active < MaxUtterance)
  BY Zenon DEF VadInv, VadTyped
<1>2. moved = Put(v, "offset", now)
  BY Zenon DEF Put
<1>3. /\ IsRec(moved, VadFields) /\ moved.offset = now
      /\ \A j \in VadFields : j # "offset" => moved[j] = v[j]
  BY <1>2, <1>1, VadFieldsHave, Put1
<1>4. /\ moved.open = v.open /\ moved.stream = v.stream /\ moved.pending = v.pending
      /\ moved.pre = v.pre /\ moved.active = v.active /\ moved.start = v.start /\ moved.voice = v.voice
      /\ moved.silence = v.silence /\ moved.out = v.out
  BY <1>3, VadFieldsHave
<1>5. CASE v.active # 0
  <2>1. o = moved
    BY <1>5, Zenon DEF Opened
  <2> QED
    BY <1>1, <1>3, <1>4, <1>5, <2>1, Zenon DEF SameStream
<1>6. CASE v.active = 0
  <2>1. PICK since, active, nothing : nothing = <<>> /\ since = Start(moved.pre, v.offset) /\ active = PreLength(moved.pre)
    OBVIOUS
  <2>10. Opened(v, moved) = open_utterance(moved, v.offset)
    BY <1>6, Zenon DEF Opened
  <2>2. o = [moved EXCEPT !.start = since, !.active = active, !.pre = nothing]
    BY <2>1, <2>10, OpenIs, Zenon
  <2>11. PICK u : u = [moved EXCEPT !.start = since, !.active = active]
    OBVIOUS
  <2>12. o = [u EXCEPT !.pre = nothing]
    BY <2>2, <2>11, Zenon
  <2>13. u = Put(Put(moved, "start", since), "active", active)
    BY <2>11, Zenon DEF Put
  <2>14. /\ IsRec(u, VadFields) /\ u.start = since /\ u.active = active
        /\ \A j \in VadFields : j # "start" /\ j # "active" => u[j] = moved[j]
    BY <2>13, <1>3, VadFieldsHave, Put2
  <2>15. /\ u.open = moved.open /\ u.stream = moved.stream /\ u.pending = moved.pending
        /\ u.offset = moved.offset /\ u.pre = moved.pre /\ u.voice = moved.voice
        /\ u.silence = moved.silence /\ u.out = moved.out
    BY <2>14, VadFieldsHave
  <2>16. o = Put(u, "pre", nothing)
    BY <2>12, Zenon DEF Put
  <2>17. IsRec(o, VadFields) /\ o.pre = nothing /\ \A j \in VadFields : j # "pre" => o[j] = u[j]
    <3>1. PICK t : t = Put(u, "pre", nothing)
      OBVIOUS
    <3>2. IsRec(t, VadFields) /\ t.pre = nothing /\ \A j \in VadFields : j # "pre" => t[j] = u[j]
      BY ONLY <2>14, <3>1, VadFieldsHave, Put1
    <3> QED
      BY <2>16, <3>1, <3>2, Zenon
  <2>18. /\ o.open = u.open /\ o.stream = u.stream /\ o.pending = u.pending /\ o.offset = u.offset
         /\ o.active = u.active /\ o.start = u.start /\ o.voice = u.voice /\ o.silence = u.silence /\ o.out = u.out
    BY <2>17, VadFieldsHave
  <2>4. IsRec(o, VadFields) /\ o.start = since /\ o.active = active /\ o.pre = nothing
    BY <2>14, <2>17, <2>18, Zenon
  <2>5. /\ o.open = moved.open /\ o.stream = moved.stream /\ o.pending = moved.pending /\ o.offset = moved.offset
        /\ o.voice = moved.voice /\ o.silence = moved.silence /\ o.out = moved.out
    BY <2>15, <2>18, Zenon
  <2>6. /\ since \in Nat /\ active \in Nat /\ since + active = v.offset /\ LastEnd(v.out, floor) <= since
        /\ active < MaxUtterance
    <3>1. CASE v.pre = <<>>
      <4>1. since = v.offset
        BY <1>4, <2>1, <3>1, Zenon DEF Start
      <4>2. active = 0
        BY <1>4, <2>1, <3>1, SumOfNone, Zenon DEF PreLength
      <4> QED
        BY <1>1, <4>1, <4>2, SpeechNumbers
    <3>2. CASE v.pre # <<>>
      <4>1. v.pre \in Seq(PreBlocks)
        BY <1>1, Zenon DEF PreGood
      <4>5. Head(v.pre) = v.pre[1]
        BY <4>1
      <4>2. since = v.pre[1].at
        BY <1>4, <2>1, <3>2, <4>5, Zenon DEF Start
      <4>3. active = FoldLeft(LAMBDA sum, b : sum + b.length, 0, v.pre)
        BY <1>4, <2>1, Zenon DEF PreLength
      <4>4. active \in Nat /\ v.pre[1].at \in Nat /\ v.pre[1].at + active = v.offset /\ active <= PreRoll * 2
        BY <1>1, <3>2, <4>3, PreRollLength
      <4> QED
        BY <1>1, <3>2, <4>2, <4>4, SpeechNumbers
    <3> QED
      BY <3>1, <3>2
  <2>7. o.voice = 0
    BY <1>1, <1>4, <1>6, <2>5
  <2>8. o.voice <= o.active
    BY <2>4, <2>6, <2>7
  <2>9. /\ SameStream(o, v) /\ o.pending = v.pending /\ o.offset = now /\ o.out = v.out /\ o.silence \in Nat
        /\ o.voice \in Nat
    BY <1>1, <1>3, <1>4, <2>5, Zenon DEF SameStream
  <2> QED
    BY <2>1, <2>4, <2>6, <2>8, <2>9, Zenon
<1> QED
  BY <1>5, <1>6

\* One block, voiced or not.
LEMMA BlockInv ==
    ASSUME NEW floor \in Nat, NEW v, VadInv(v, floor), NEW d \in Nat, d > 0, d <= BLOCK, NEW voiced \in BOOLEAN
    PROVE  VadInv(_block(v, d, voiced), floor) /\ SameStream(_block(v, d, voiced), v)
<1>1. IsRec(v, VadFields) /\ v.open \in BOOLEAN /\ v.stream \in Nat /\ v.pending \in Nat /\ v.offset \in Nat
      /\ v.active \in Nat /\ v.start \in Nat /\ v.voice \in Nat /\ v.silence \in Nat /\ v.pending < BLOCK
      /\ OutGood(v.out, floor) /\ LastEnd(v.out, floor) <= v.offset
      /\ PreGood(v.pre, v.offset) /\ (v.pre # <<>> => LastEnd(v.out, floor) <= v.pre[1].at)
      /\ (v.active = 0 => v.voice = 0)
  BY Zenon DEF VadInv, VadTyped
<1>2. PICK now, moved : now = v.offset + d /\ moved = [v EXCEPT !.offset = now]
  OBVIOUS
<1>3. now \in Nat /\ v.offset <= now
  BY <1>1, <1>2
<1>4. LastEnd(v.out, floor) \in Nat
  BY <1>1, LastEndTyped
<1>5. CASE v.active = 0 /\ ~voiced
  <2>1. moved = Put(v, "offset", now)
    BY <1>2, Zenon DEF Put
  <2>2. /\ IsRec(moved, VadFields) /\ moved.offset = now
        /\ \A j \in VadFields : j # "offset" => moved[j] = v[j]
    BY <2>1, <1>1, VadFieldsHave, Put1
  <2>3. /\ moved.open = v.open /\ moved.stream = v.stream /\ moved.pending = v.pending
        /\ moved.pre = v.pre /\ moved.active = v.active /\ moved.start = v.start
        /\ moved.voice = v.voice /\ moved.silence = v.silence /\ moved.out = v.out
    BY <2>2, VadFieldsHave
  <2>4. PICK pre, w : pre = keep_pre_roll(v.pre, [at |-> v.offset, length |-> d]) /\ w = [moved EXCEPT !.pre = pre]
    OBVIOUS
  <2>5. _block(v, d, voiced) = w
    <3>1. PICK g : g = Longer(Opened(v, moved), d, voiced)
      OBVIOUS
    <3>2. moved = [v EXCEPT !.offset = v.offset + d]
      BY <1>2, Zenon
    <3>3. _block(v, d, voiced) = [moved EXCEPT !.pre = keep_pre_roll(moved.pre, [at |-> v.offset, length |-> d])]
      BY <1>5, <3>1, <3>2, BlockIs, Zenon
    <3> QED
      BY <2>3, <2>4, <3>3, Zenon
  <2>6. w = Put(moved, "pre", pre)
    BY <2>4, Zenon DEF Put
  <2>7. /\ IsRec(w, VadFields) /\ w.pre = pre
        /\ \A j \in VadFields : j # "pre" => w[j] = moved[j]
    BY <2>6, <2>2, VadFieldsHave, Put1
  <2>8. /\ w.open = moved.open /\ w.stream = moved.stream /\ w.pending = moved.pending
        /\ w.offset = moved.offset /\ w.active = moved.active /\ w.start = moved.start
        /\ w.voice = moved.voice /\ w.silence = moved.silence /\ w.out = moved.out
    BY <2>7, VadFieldsHave
  <2>9. PICK b, f, at : b = [at |-> at, length |-> d] /\ f = LastEnd(v.out, floor) /\ at = v.offset
    OBVIOUS
  <2>10. PreGood(keep_pre_roll(v.pre, b), at + d) /\ (keep_pre_roll(v.pre, b) # <<>> => f <= keep_pre_roll(v.pre, b)[1].at)
    BY <1>1, <1>4, <2>9, KeepPreRoll
  <2>11. PreGood(pre, now) /\ (pre # <<>> => LastEnd(v.out, floor) <= pre[1].at)
    BY <1>2, <2>4, <2>9, <2>10, Zenon
  <2>12. LastEnd(v.out, floor) <= now
    BY <1>1, <1>3, <1>4
  <2>13. /\ w.open \in BOOLEAN /\ w.stream \in Nat /\ w.pending \in Nat /\ w.offset = now /\ w.pre = pre
         /\ w.active = 0 /\ w.active \in Nat /\ w.start \in Nat /\ w.voice = 0 /\ w.voice \in Nat
         /\ w.silence \in Nat /\ w.out = v.out /\ w.pending < BLOCK
    BY <1>1, <1>5, <2>2, <2>3, <2>7, <2>8, Zenon
  <2>14. VadTyped(w)
    BY <1>3, <2>7, <2>13, Zenon DEF VadTyped
  <2>15. VadInv(w, floor)
    BY <1>1, <2>11, <2>12, <2>13, <2>14, Zenon DEF VadInv
  <2>16. SameStream(w, v)
    BY <2>3, <2>8 DEF SameStream
  <2> QED
    BY <2>5, <2>15, <2>16, Zenon
<1>6. CASE ~(v.active = 0 /\ ~voiced)
  <2>1. PICK o : o = Opened(v, moved)
    OBVIOUS
  <2>2. /\ IsRec(o, VadFields) /\ SameStream(o, v) /\ o.pending = v.pending /\ o.offset = now
        /\ o.out = v.out /\ o.silence \in Nat /\ o.voice \in Nat /\ o.start \in Nat /\ o.active \in Nat
        /\ o.pre = <<>> /\ o.start + o.active = v.offset /\ LastEnd(v.out, floor) <= o.start
        /\ o.voice <= o.active /\ o.active < MaxUtterance
    BY <1>2, <1>3, <2>1, OpenedInv
  <2>3. PICK active, voice, silence, w :
           /\ active = o.active + d /\ voice = (IF voiced THEN o.voice + d ELSE o.voice)
           /\ silence = (IF voiced THEN 0 ELSE o.silence + d)
           /\ w = [o EXCEPT !.active = active, !.voice = voice, !.silence = silence]
    OBVIOUS
  <2>4. _block(v, d, voiced) = IF Ends(w) THEN _take(w) ELSE w
    <3>1. w = Longer(Opened(v, moved), d, voiced)
      BY <2>1, <2>3, Zenon DEF Longer
    <3> QED
      BY <1>2, <1>6, <3>1, BlockIs, Zenon
  <2>5. w = Put(Put(Put(o, "active", active), "voice", voice), "silence", silence)
    BY <2>3, Zenon DEF Put
  <2>6. /\ IsRec(w, VadFields) /\ w.active = active /\ w.voice = voice /\ w.silence = silence
        /\ \A j \in VadFields : j # "active" /\ j # "voice" /\ j # "silence" => w[j] = o[j]
    BY <2>5, <2>2, VadFieldsHave, Put3
  <2>7. /\ w.open = o.open /\ w.stream = o.stream /\ w.pending = o.pending /\ w.offset = o.offset
        /\ w.pre = o.pre /\ w.start = o.start /\ w.out = o.out
    BY <2>6, VadFieldsHave
  <2>8. PICK oa, ov, os, st, of : oa = o.active /\ ov = o.voice /\ os = o.silence /\ st = o.start /\ of = v.offset
    OBVIOUS
  <2>9. oa \in Nat /\ ov \in Nat /\ os \in Nat /\ st \in Nat /\ of \in Nat /\ st + oa = of /\ ov <= oa /\ oa < MaxUtterance
    BY <1>1, <2>2, <2>8, Zenon
  <2>10. active = oa + d /\ (voice = ov + d \/ voice = ov) /\ (silence = os + d \/ silence = 0) /\ now = of + d
    BY <1>2, <2>3, <2>8
  <2>11. active \in Nat /\ voice \in Nat /\ silence \in Nat /\ active # 0 /\ st + active = now /\ voice <= active
         /\ active < MaxUtterance + BLOCK
    BY <2>9, <2>10, SpeechNumbers
  <2>12. /\ w.open \in BOOLEAN /\ w.stream \in Nat /\ w.pending \in Nat /\ w.offset = now /\ w.pre = <<>>
         /\ w.active = active /\ w.start = st /\ w.voice = voice /\ w.silence = silence /\ w.out = v.out
         /\ w.pending < BLOCK /\ SameStream(w, v)
    BY <1>1, <2>2, <2>6, <2>7, <2>8, Zenon DEF SameStream
  <2>13. VadTyped(w)
    BY <1>3, <2>6, <2>9, <2>11, <2>12, Zenon DEF VadTyped
  <2>14. LastEnd(v.out, floor) <= st
    BY <2>2, <2>8
  <2>15. CASE Ends(w)
    <3>1. Growing(w, floor)
      BY <1>1, <2>11, <2>12, <2>13, <2>14, Zenon DEF Growing
    <3>2. VadInv(_take(w), floor) /\ SameStream(_take(w), w)
      BY <3>1, TakeInv
    <3>3. SameStream(_take(w), v)
      BY <2>12, <3>2, Zenon DEF SameStream
    <3>4. _block(v, d, voiced) = _take(w)
      BY <2>4, <2>15, Zenon
    <3> QED
      BY <3>2, <3>3, <3>4, Zenon
  <2>16. CASE ~Ends(w)
    <3>1. ~(now - st >= MaxUtterance)
      BY <2>12, <2>16, Zenon DEF Ends
    <3>2. active < MaxUtterance
      BY <1>3, <2>9, <2>11, <3>1, SpeechNumbers
    <3>3. PreGood(<<>>, now)
      BY SpeechNumbers DEF PreGood
    <3>4. LastEnd(v.out, floor) <= now
      BY <1>1, <1>3, <1>4
    <3>5. VadInv(w, floor)
      BY <1>1, <2>11, <2>12, <2>13, <2>14, <3>2, <3>3, <3>4, Zenon DEF VadInv
    <3>6. _block(v, d, voiced) = w
      BY <2>4, <2>16, Zenon
    <3> QED
      BY <2>12, <3>5, <3>6, Zenon
  <2> QED
    BY <2>15, <2>16
<1> QED
  BY <1>5, <1>6

----------------------------------------------------------------------------
(* What a stream's bytes do *)

Fed(base, voiced, seq) == FoldLeft(LAMBDA w, i : _block(w, BLOCK, voiced[i]), base, seq)

LEMMA FeedReaches ==
    ASSUME NEW S, NEW base \in S, NEW voiced, NEW seq \in Seq(Nat), \A i \in 1..Len(seq), x \in S : _block(x, BLOCK, voiced[seq[i]]) \in S,
           NEW I, base \in I[0],
           \A i \in 0..Len(seq) : i < Len(seq) =>
               \A x \in I[i] \cap S : _block(x, BLOCK, voiced[seq[i + 1]]) \in I[i + 1]
    PROVE  Fed(base, voiced, seq) \in I[Len(seq)] \cap S
<1> DEFINE n == Len(seq)
           step == [p \in (1..n) \X S |-> _block(p[2], BLOCK, voiced[seq[p[1]]])]
           is(it) == it = [s \in SUBSET (DOMAIN seq) |->
                        IF s = {} THEN base ELSE _block(it[s \ {Max(s)}], BLOCK, voiced[seq[Max(s)]])]
           c == CHOOSE it : is(it)
<1>1. n \in Nat /\ DOMAIN seq = 1..n
  OBVIOUS
<1>2. Fed(base, voiced, seq) = c[DOMAIN seq]
  BY Zenon DEF Fed, FoldLeft, MapThenFoldSet
<1>3. \A i \in 1..n, x \in S : _block(x, BLOCK, voiced[seq[i]]) \in S
  BY Zenon
<1>4. step \in [(1..n) \X S -> S]
  BY <1>3
<1>5. \A i \in 1..n, x \in S : step[i, x] = _block(x, BLOCK, voiced[seq[i]])
  OBVIOUS
<1> HIDE DEF n, step
<1>17. base \in S
  OBVIOUS
<1>6. FoldOn(n, S, base, step)
  BY <1>1, <1>4, <1>17, FoldExists
<1>7. PICK it \in [SUBSET (1..n) -> S] :
         /\ it[{}] = base
         /\ \A s \in SUBSET (1..n) : s # {} => Max(s) \in s /\ it[s] = step[Max(s), it[s \ {Max(s)}]]
  BY <1>6 DEF FoldOn
<1>8. ASSUME NEW s \in SUBSET (1..n), s # {}
      PROVE  it[s] = _block(it[s \ {Max(s)}], BLOCK, voiced[seq[Max(s)]])
  <2>1. Max(s) \in 1..n /\ it[s \ {Max(s)}] \in S
    BY <1>7, <1>8
  <2> QED
    BY <1>5, <1>7, <1>8, <2>1
<1>9. is(it)
  <2>1. it = [s \in SUBSET (1..n) |-> it[s]]
    OBVIOUS
  <2>2. \A s \in SUBSET (1..n) :
           it[s] = IF s = {} THEN base ELSE _block(it[s \ {Max(s)}], BLOCK, voiced[seq[Max(s)]])
    BY <1>7, <1>8
  <2> QED
    BY <1>1, <2>1, <2>2
<1>10. is(c)
  <2> HIDE DEF is
  <2> QED
    BY <1>9
<1> HIDE DEF c
<1>11. c = [s \in SUBSET (1..n) |->
              IF s = {} THEN base ELSE _block(c[s \ {Max(s)}], BLOCK, voiced[seq[Max(s)]])]
  BY <1>1, <1>10
<1> HIDE DEF is
<1>12. /\ c[{}] = base
       /\ \A s \in SUBSET (1..n) : s # {} => c[s] = _block(c[s \ {Max(s)}], BLOCK, voiced[seq[Max(s)]])
  BY <1>11
<1>13. Folds(c, n, S, base, step)
  <2> SUFFICES ASSUME NEW s \in SUBSET (1..n), s # {}, c[s \ {Max(s)}] \in S
               PROVE  c[s] = step[Max(s), c[s \ {Max(s)}]]
    BY <1>12 DEF Folds
  <2>1. Max(s) \in 1..n
    BY <1>7
  <2> QED
    BY <1>5, <1>12, <2>1
<1>14. ASSUME NEW i \in 0..n, i < n, NEW x \in I[i] \cap S
       PROVE  step[i + 1, x] \in I[i + 1]
  <2>1. i + 1 \in 1..n
    BY <1>1, <1>14
  <2>2. _block(x, BLOCK, voiced[seq[i + 1]]) \in I[i + 1]
    BY <1>14 DEF n
  <2> QED
    BY <1>5, <1>14, <2>1, <2>2
<1>15. Leads(I, n, S, base, step)
  BY <1>14 DEF Leads
<1>16. c[1..n] \in I[n] \cap S
  BY <1>1, <1>17, <1>4, <1>13, <1>15, FoldReaches
<1> QED
  BY <1>1, <1>2, <1>16 DEF n

VadValues == BOOLEAN \cup Nat \cup Seq(PreBlocks) \cup Seq(Utterances)

\* The streams that can come after v in one call.
Heard(floor, v) == {w \in [VadFields -> VadValues] : VadInv(w, floor) /\ SameStream(w, v)}

LEMMA HeardHas ==
    ASSUME NEW floor \in Nat, NEW v, NEW w, VadInv(w, floor), SameStream(w, v)
    PROVE  w \in Heard(floor, v)
<1>1. IsRec(w, VadFields) /\ w.open \in BOOLEAN /\ w.stream \in Nat /\ w.pending \in Nat /\ w.offset \in Nat
      /\ w.active \in Nat /\ w.start \in Nat /\ w.voice \in Nat /\ w.silence \in Nat
      /\ w.out \in Seq(Utterances) /\ w.pre \in Seq(PreBlocks)
  BY Zenon DEF VadInv, VadTyped, OutGood, PreGood
<1>2. \A j \in VadFields : w[j] \in VadValues
  <2>1. /\ w.open \in VadValues /\ w.stream \in VadValues /\ w.pending \in VadValues /\ w.offset \in VadValues
        /\ w.active \in VadValues /\ w.start \in VadValues /\ w.voice \in VadValues /\ w.silence \in VadValues
        /\ w.out \in VadValues /\ w.pre \in VadValues
    BY <1>1, Zenon DEF VadValues
  <2> QED
    BY <2>1 DEF VadFields
<1>3. w \in [VadFields -> VadValues]
  BY <1>1, <1>2 DEF IsRec
<1> QED
  BY <1>3 DEF Heard

LEMMA StartInv ==
    ASSUME NEW floor \in Nat, NEW v, VadInv(v, floor), NEW left \in Nat, left < BLOCK
    PROVE  VadInv([v EXCEPT !.pending = left], floor) /\ SameStream([v EXCEPT !.pending = left], v)
<1>1. IsRec(v, VadFields) /\ v.open \in BOOLEAN /\ v.stream \in Nat /\ v.pending \in Nat /\ v.offset \in Nat
      /\ v.active \in Nat /\ v.start \in Nat /\ v.voice \in Nat /\ v.silence \in Nat
  BY Zenon DEF VadInv, VadTyped
<1>2. PICK w : w = [v EXCEPT !.pending = left]
  OBVIOUS
<1>3. w = Put(v, "pending", left)
  BY <1>2, Zenon DEF Put
<1>4. /\ IsRec(w, VadFields) /\ w.pending = left
      /\ \A j \in VadFields : j # "pending" => w[j] = v[j]
  BY <1>3, <1>1, VadFieldsHave, Put1
<1>5. /\ w.open = v.open /\ w.stream = v.stream /\ w.offset = v.offset /\ w.pre = v.pre
      /\ w.active = v.active /\ w.start = v.start /\ w.voice = v.voice /\ w.silence = v.silence
      /\ w.out = v.out
  BY <1>4, VadFieldsHave
<1>6. VadTyped(w)
  BY <1>1, <1>4, <1>5, Zenon DEF VadTyped
<1>7. VadInv(w, floor)
  BY <1>4, <1>5, <1>6, Zenon DEF VadInv
<1>8. SameStream(w, v)
  BY <1>5 DEF SameStream
<1> QED
  BY <1>2, <1>7, <1>8

\* However many blocks a frame ends, and whichever are voiced.
LEMMA FeedInv ==
    ASSUME NEW floor \in Nat, NEW v, VadInv(v, floor), NEW n \in Nat,
           NEW voiced \in [1..((v.pending + n) \div BLOCK) -> BOOLEAN]
    PROVE  VadInv(after_feed(v, n, voiced), floor) /\ SameStream(after_feed(v, n, voiced), v)
<1>1. v.pending \in Nat
  BY Zenon DEF VadInv, VadTyped
<1>2. PICK blocks, left : blocks = (v.pending + n) \div BLOCK /\ left = (v.pending + n) % BLOCK
  OBVIOUS
<1>3. blocks \in Nat /\ left \in Nat /\ left < BLOCK /\ 2 \in Nat /\ BLOCK = 2
  <2>1. PICK m : m = v.pending + n
    OBVIOUS
  <2>2. m \in Nat /\ blocks = m \div 2 /\ left = m % 2
    BY <1>1, <1>2, <2>1, SpeechNumbers
  <2> QED
    BY <2>2, SpeechNumbers
<1>4. PICK since, seq : since = [v EXCEPT !.pending = left] /\ seq = [i \in 1..blocks |-> i]
  OBVIOUS
<1>5. VadInv(since, floor) /\ SameStream(since, v)
  BY <1>3, <1>4, StartInv
<1>6. since \in Heard(floor, v)
  BY <1>5, HeardHas
<1>7. seq \in Seq(Nat) /\ Len(seq) = blocks /\ \A i \in 1..blocks : seq[i] = i
  BY <1>3, <1>4
<1>8. ASSUME NEW i \in 1..Len(seq), NEW x \in Heard(floor, v)
      PROVE  _block(x, BLOCK, voiced[seq[i]]) \in Heard(floor, v)
  <2>1. VadInv(x, floor) /\ SameStream(x, v)
    BY <1>8 DEF Heard
  <2>2. voiced[seq[i]] \in BOOLEAN
    BY <1>2, <1>7, <1>8
  <2>3. PICK yes \in BOOLEAN : yes = voiced[seq[i]]
    BY <2>2
  <2>4. VadInv(_block(x, BLOCK, yes), floor) /\ SameStream(_block(x, BLOCK, yes), x)
    BY <1>3, <2>1, BlockInv
  <2>5. SameStream(_block(x, BLOCK, yes), v)
    BY <2>1, <2>4, Zenon DEF SameStream
  <2>6. _block(x, BLOCK, yes) \in Heard(floor, v)
    BY <2>4, <2>5, HeardHas
  <2> QED
    BY <2>3, <2>6, Zenon
<1> DEFINE I == [i \in 0..blocks |-> Heard(floor, v)]
<1>9. since \in I[0] /\ I[blocks] = Heard(floor, v)
  BY <1>3, <1>6
<1>10. ASSUME NEW i \in 0..Len(seq), i < Len(seq), NEW x \in I[i] \cap Heard(floor, v)
       PROVE  _block(x, BLOCK, voiced[seq[i + 1]]) \in I[i + 1]
  <2>1. i + 1 \in 1..Len(seq) /\ i + 1 \in 0..blocks
    BY <1>3, <1>7, <1>10
  <2> QED
    BY <1>8, <2>1
<1> HIDE DEF I
<1>11. PICK end : end = Fed(since, voiced, seq)
  OBVIOUS
<1>12. end \in Heard(floor, v)
  <2>1. end \in I[Len(seq)] \cap Heard(floor, v)
    <3>1. PICK S : S = Heard(floor, v)
      OBVIOUS
    <3>2. \A i \in 1..Len(seq), x \in S : _block(x, BLOCK, voiced[seq[i]]) \in S
      BY <1>8, <3>1
    <3>3. \A i \in 0..Len(seq) : i < Len(seq) => \A x \in I[i] \cap S : _block(x, BLOCK, voiced[seq[i + 1]]) \in I[i + 1]
      BY <1>10, <3>1
    <3>4. since \in S /\ seq \in Seq(Nat) /\ since \in I[0]
      BY <1>6, <1>7, <1>9, <3>1
    <3>5. Fed(since, voiced, seq) \in I[Len(seq)] \cap S
      BY ONLY <3>2, <3>3, <3>4, FeedReaches
    <3> QED
      BY <1>11, <3>1, <3>5, Zenon
  <2> QED
    BY <2>1
<1>13. after_feed(v, n, voiced) = end
  BY <1>2, <1>4, <1>11 DEF after_feed, Fed
<1> QED
  BY <1>12, <1>13 DEF Heard

\* Taking what is open when a stream ends.
LEMMA TakeAnyway ==
    ASSUME NEW floor \in Nat, NEW v, VadInv(v, floor)
    PROVE  OutGood(_take(v).out, floor) /\ _take(v).stream = v.stream
<1>1. VadTyped(v) /\ v.pending < BLOCK /\ OutGood(v.out, floor)
      /\ (v.active = 0 => v.voice = 0)
      /\ (v.active # 0 => /\ v.pre = <<>> /\ v.start + v.active = v.offset /\ LastEnd(v.out, floor) <= v.start
                          /\ v.voice <= v.active /\ v.active < MaxUtterance)
  BY Zenon DEF VadInv
<1>2. IsRec(v, VadFields) /\ v.active \in Nat
  BY <1>1, Zenon DEF VadTyped
<1>3. CASE v.active # 0
  <2>1. v.active < MaxUtterance + BLOCK
    BY <1>1, <1>2, <1>3, SpeechNumbers
  <2>2. Growing(v, floor)
    BY <1>1, <1>3, <2>1, Zenon DEF Growing
  <2>3. VadInv(_take(v), floor) /\ SameStream(_take(v), v)
    BY <2>2, TakeInv
  <2> QED
    BY <2>3, Zenon DEF VadInv, SameStream
<1>4. CASE v.active = 0
  <2>1. ~(v.voice >= MinVoice)
    BY <1>1, <1>4, SpeechNumbers
  <2>2. PICK out, none, u, w :
           none = 0 /\ out = v.out /\ u = [v EXCEPT !.active = none, !.voice = none] /\ w = [u EXCEPT !.silence = none, !.out = out]
    OBVIOUS
  <2>3. _take(v) = w
    BY <2>1, <2>2, Zenon DEF _take
  <2>4. u = Put(Put(v, "active", none), "voice", none)
    BY <2>2, Zenon DEF Put
  <2>5. /\ IsRec(u, VadFields) /\ u.active = none /\ u.voice = none
        /\ \A j \in VadFields : j # "active" /\ j # "voice" => u[j] = v[j]
    BY <2>4, <1>2, VadFieldsHave, Put2
  <2>6. /\ u.open = v.open /\ u.stream = v.stream /\ u.pending = v.pending /\ u.offset = v.offset
        /\ u.pre = v.pre /\ u.start = v.start /\ u.silence = v.silence /\ u.out = v.out
    BY <2>5, VadFieldsHave
  <2>7. w = Put(Put(u, "silence", none), "out", out)
    BY <2>2, Zenon DEF Put
  <2>8. /\ IsRec(w, VadFields) /\ w.silence = none /\ w.out = out
        /\ \A j \in VadFields : j # "silence" /\ j # "out" => w[j] = u[j]
    BY <2>7, <2>5, VadFieldsHave, Put2
  <2>9. /\ w.open = u.open /\ w.stream = u.stream /\ w.pending = u.pending /\ w.offset = u.offset
        /\ w.pre = u.pre /\ w.active = u.active /\ w.start = u.start /\ w.voice = u.voice
    BY <2>8, VadFieldsHave
  <2> QED
    BY <1>1, <2>2, <2>3, <2>6, <2>8, <2>9, Zenon
<1> QED
  BY <1>3, <1>4

\* The rest of the bytes is a short block, and the open utterance ends.
LEMMA FlushInv ==
    ASSUME NEW floor \in Nat, NEW v, VadInv(v, floor), NEW voiced \in BOOLEAN
    PROVE  OutGood(after_flush(v, voiced).out, floor) /\ after_flush(v, voiced).stream = v.stream
<1>1. v.pending \in Nat /\ v.pending < BLOCK
  BY Zenon DEF VadInv, VadTyped
<1>2. PICK none, emptied, tail :
         /\ none = 0 /\ emptied = [v EXCEPT !.pending = none]
         /\ tail = IF v.pending = 0 THEN v ELSE _block(emptied, v.pending, voiced)
  OBVIOUS
<1>3. none \in Nat /\ none < BLOCK
  BY <1>2, SpeechNumbers
<1>4. VadInv(emptied, floor) /\ SameStream(emptied, v)
  BY <1>2, <1>3, StartInv
<1>5. VadInv(tail, floor) /\ tail.stream = v.stream
  <2>1. CASE v.pending = 0
    BY <1>2, <2>1, Zenon
  <2>2. CASE v.pending # 0
    <3>1. v.pending > 0 /\ v.pending <= BLOCK
      BY <1>1, <2>2, SpeechNumbers
    <3>2. VadInv(_block(emptied, v.pending, voiced), floor) /\ SameStream(_block(emptied, v.pending, voiced), emptied)
      BY <1>1, <1>4, <3>1, BlockInv
    <3>3. tail = _block(emptied, v.pending, voiced)
      BY <1>2, <2>2, Zenon
    <3> QED
      BY <1>4, <3>2, <3>3, Zenon DEF SameStream
  <2> QED
    BY <2>1, <2>2
<1>6. after_flush(v, voiced) = tail \/ after_flush(v, voiced) = _take(tail)
  BY <1>2, Zenon DEF after_flush
<1>7. OutGood(tail.out, floor)
  BY <1>5, Zenon DEF VadInv
<1>8. OutGood(_take(tail).out, floor) /\ _take(tail).stream = tail.stream
  BY <1>5, TakeAnyway
<1> QED
  BY <1>5, <1>6, <1>7, <1>8, Zenon

----------------------------------------------------------------------------
(* What is saved of a stream *)

\* A stream's utterances, at the times of the meeting.
LEMMA ShiftGood ==
    ASSUME NEW floor \in Nat, NEW v, v.stream \in Nat, OutGood(v.out, floor)
    PROVE  /\ OutGood(on_timeline(v), v.stream + floor)
           /\ LastEnd(on_timeline(v), v.stream + floor) = v.stream + LastEnd(v.out, floor)
<1>1. PICK s, out, all : s = v.stream /\ out = v.out /\ all = on_timeline(v)
  OBVIOUS
<1>2. s \in Nat /\ out \in Seq(Utterances)
  BY <1>1, Zenon DEF OutGood
<1>3. PICK n \in Nat : n = Len(out)
  BY <1>2
<1>4. \A i \in 1..n : out[i].start_ms \in Nat /\ out[i].end_ms \in Nat /\ out[i].length \in Nat
  <2>1. \A i \in 1..n : out[i] \in Utterances
    BY <1>2, <1>3
  <2>2. \A u \in Utterances : u.start_ms \in Nat /\ u.end_ms \in Nat /\ u.length \in Nat
    BY DEF Utterances
  <2> QED
    BY <2>1, <2>2, Zenon
<1>5. \A i \in 1..n :
        /\ (IF i = 1 THEN floor ELSE out[i - 1].end_ms) <= out[i].start_ms
        /\ out[i].start_ms < out[i].end_ms
        /\ out[i].length = out[i].end_ms - out[i].start_ms
        /\ out[i].length >= MinVoice /\ out[i].length < MaxUtterance + BLOCK
  BY <1>1, <1>3, Zenon DEF OutGood
<1>6. all = [i \in 1..n |-> [start_ms |-> s + out[i].start_ms, end_ms |-> s + out[i].end_ms, length |-> out[i].length]]
  BY <1>1, <1>3, Zenon DEF on_timeline
<1>7. \A i \in 1..n : /\ all[i] \in Utterances /\ all[i].start_ms = s + out[i].start_ms
                      /\ all[i].end_ms = s + out[i].end_ms /\ all[i].length = out[i].length
  <2> SUFFICES ASSUME NEW i \in 1..n
               PROVE  /\ all[i] \in Utterances /\ all[i].start_ms = s + out[i].start_ms
                      /\ all[i].end_ms = s + out[i].end_ms /\ all[i].length = out[i].length
    OBVIOUS
  <2>5. PICK x \in Nat, y \in Nat, c \in Nat : x = out[i].start_ms /\ y = out[i].end_ms /\ c = out[i].length
    BY <1>4
  <2>6. PICK a, b : a = s + x /\ b = s + y
    OBVIOUS
  <2>2. a \in Nat /\ b \in Nat /\ c \in Nat
    BY <1>2, <2>6
  <2>1. a = s + out[i].start_ms /\ b = s + out[i].end_ms /\ c = out[i].length
    BY <2>5, <2>6, Zenon
  <2>3. all[i] = [start_ms |-> a, end_ms |-> b, length |-> c]
    BY <1>6, <2>1
  <2>4. all[i] \in Utterances /\ all[i].start_ms = a /\ all[i].end_ms = b /\ all[i].length = c
    BY <2>2, <2>3 DEF Utterances
  <2> QED
    BY <2>1, <2>4, Zenon
<1>8. all \in Seq(Utterances) /\ Len(all) = n
  BY <1>3, <1>6, <1>7
<1>9. PICK f : f = s + floor
  OBVIOUS
<1>10. ASSUME NEW i \in 1..n
       PROVE  /\ (IF i = 1 THEN f ELSE all[i - 1].end_ms) <= all[i].start_ms
              /\ all[i].start_ms < all[i].end_ms
              /\ all[i].length = all[i].end_ms - all[i].start_ms
              /\ all[i].length >= MinVoice /\ all[i].length < MaxUtterance + BLOCK
  <2>1. i # 1 => i - 1 \in 1..n
    BY <1>3, <1>10
  <2>2. PICK a, b, c, p : /\ a = out[i].start_ms /\ b = out[i].end_ms /\ c = out[i].length
                          /\ p = IF i = 1 THEN floor ELSE out[i - 1].end_ms
    OBVIOUS
  <2>3. a \in Nat /\ b \in Nat /\ c \in Nat /\ p \in Nat
    BY <1>4, <1>10, <2>1, <2>2
  <2>4. p <= a /\ a < b /\ c = b - a /\ c >= MinVoice /\ c < MaxUtterance + BLOCK
    BY <1>5, <1>10, <2>2, Zenon
  <2>5. (IF i = 1 THEN f ELSE all[i - 1].end_ms) = s + p
    BY <1>7, <1>9, <2>1, <2>2, Zenon
  <2>6. all[i].start_ms = s + a /\ all[i].end_ms = s + b /\ all[i].length = c
    BY <1>7, <1>10, <2>2, Zenon
  <2>7. s + p <= s + a /\ s + a < s + b /\ c = (s + b) - (s + a)
    BY <1>2, <2>3, <2>4
  <2> QED
    BY <2>4, <2>5, <2>6, <2>7, Zenon
<1>11. OutGood(all, f)
  BY <1>8, <1>10, Zenon DEF OutGood
<1>12. LastEnd(all, f) = s + LastEnd(out, floor)
  <2>1. CASE n = 0
    <3>1. out = <<>>
      BY <1>2, <1>3, <2>1, EmptySeq
    <3>2. all = <<>>
      BY <1>8, <2>1, EmptySeq
    <3> QED
      BY <1>9, <3>1, <3>2, Zenon DEF LastEnd
  <2>2. CASE n # 0
    <3>1. out # <<>> /\ all # <<>> /\ n \in 1..n
      BY <1>2, <1>3, <1>8, <2>2
    <3> QED
      BY <1>3, <1>7, <1>8, <3>1, Zenon DEF LastEnd
  <2> QED
    BY <2>1, <2>2
<1> QED
  BY <1>1, <1>9, <1>11, <1>12, Zenon

\* Later utterances after the earlier ones.
LEMMA ConcatGood ==
    ASSUME NEW a, OutGood(a, 0), NEW f \in Nat, NEW b, OutGood(b, f), LastEnd(a, 0) <= f
    PROVE  OutGood(a \o b, 0) /\ LastEnd(a \o b, 0) <= LastEnd(b, f)
<1>1. a \in Seq(Utterances) /\ b \in Seq(Utterances)
  BY Zenon DEF OutGood
<1>2. PICK m, n, all : m = Len(a) /\ n = Len(b) /\ all = a \o b
  OBVIOUS
<1>8. m \in Nat /\ n \in Nat
  BY <1>1, <1>2
<1>3. /\ all \in Seq(Utterances) /\ Len(all) = m + n
      /\ \A i \in 1..m : all[i] = a[i]
      /\ \A i \in m + 1..m + n : all[i] = b[i - m]
  BY <1>1, <1>2, <1>8
<1>4. LastEnd(a, 0) \in Nat /\ LastEnd(b, f) \in Nat /\ f <= LastEnd(b, f)
  BY LastEndTyped
<1>5. ASSUME NEW i \in 1..Len(all)
      PROVE  /\ (IF i = 1 THEN 0 ELSE all[i - 1].end_ms) <= all[i].start_ms
             /\ all[i].start_ms < all[i].end_ms
             /\ all[i].length = all[i].end_ms - all[i].start_ms
             /\ all[i].length >= MinVoice /\ all[i].length < MaxUtterance + BLOCK
  <2>1. CASE i \in 1..m
    <3>1. all[i] = a[i] /\ (i # 1 => i - 1 \in 1..m)
      BY <1>2, <1>3, <2>1
    <3>2. i # 1 => all[i - 1] = a[i - 1]
      BY <1>3, <3>1
    <3>3. /\ (IF i = 1 THEN 0 ELSE a[i - 1].end_ms) <= a[i].start_ms
          /\ a[i].start_ms < a[i].end_ms
          /\ a[i].length = a[i].end_ms - a[i].start_ms
          /\ a[i].length >= MinVoice /\ a[i].length < MaxUtterance + BLOCK
      BY <1>2, <2>1, Zenon DEF OutGood
    <3> QED
      BY <3>1, <3>2, <3>3, Zenon
  <2>2. CASE i \notin 1..m
    <3>1. PICK j : j = i - m
      OBVIOUS
    <3>2. j \in 1..n /\ i \in m + 1..m + n /\ (j # 1 => i - 1 \in m + 1..m + n /\ (i - 1) - m = j - 1 /\ i # 1)
      BY <1>3, <1>5, <1>8, <2>2, <3>1
    <3>3. all[i] = b[j] /\ (j # 1 => all[i - 1] = b[j - 1])
      BY <1>3, <3>1, <3>2
    <3>4. /\ (IF j = 1 THEN f ELSE b[j - 1].end_ms) <= b[j].start_ms
          /\ b[j].start_ms < b[j].end_ms
          /\ b[j].length = b[j].end_ms - b[j].start_ms
          /\ b[j].length >= MinVoice /\ b[j].length < MaxUtterance + BLOCK
      BY <1>2, <3>2, Zenon DEF OutGood
    <3>5. (IF i = 1 THEN 0 ELSE all[i - 1].end_ms) <= b[j].start_ms
      <4>1. CASE j # 1
        BY <3>2, <3>3, <3>4, <4>1, Zenon
      <4>2. CASE j = 1
        <5>1. PICK c : c = b[j].start_ms
          OBVIOUS
        <5>2. f <= c /\ c \in Nat
          <6>1. b[j] \in Utterances
            BY <1>1, <1>2, <3>2
          <6>2. b[j].start_ms \in Nat
            BY <6>1 DEF Utterances
          <6> QED
            BY <3>4, <4>2, <5>1, <6>2, Zenon
        <5>3. LastEnd(a, 0) <= c
          BY <1>4, <5>2
        <5>4. CASE m = 0
          <6>2. a = <<>>
            BY <1>1, <1>2, <5>4, EmptySeq
          <6>1. a = <<>> /\ i = 1
            BY <1>3, <1>5, <1>8, <3>1, <4>2, <5>4, <6>2
          <6> QED
            BY <5>1, <5>3, <6>1, Zenon DEF LastEnd
        <5>5. CASE m # 0
          <6>1. a # <<>> /\ i # 1 /\ i - 1 = m /\ m \in 1..m
            BY <1>1, <1>2, <1>3, <1>5, <1>8, <3>1, <3>2, <4>2, <5>5
          <6> QED
            BY <1>2, <1>3, <5>1, <5>3, <6>1, Zenon DEF LastEnd
        <5> QED
          BY <5>4, <5>5
      <4> QED
        BY <4>1, <4>2
    <3> QED
      BY <3>3, <3>4, <3>5, Zenon
  <2> QED
    BY <2>1, <2>2
<1>6. OutGood(all, 0)
  BY <1>3, <1>5, Zenon DEF OutGood
<1>9. LastEnd(a, 0) <= f
  OBVIOUS
<1>7. LastEnd(all, 0) <= LastEnd(b, f)
  <2>1. CASE n = 0
    <3>1. b = <<>>
      BY <1>1, <1>2, <2>1, EmptySeq
    <3>2. all = a
      BY <1>1, <1>2, <3>1, ConcatEmptySeq
    <3> QED
      BY <1>1, <1>9, <3>1, <3>2, Zenon DEF LastEnd
  <2>2. CASE n # 0
    <3>1. b # <<>> /\ all # <<>> /\ m + n \in m + 1..m + n /\ (m + n) - m = n /\ Len(all) = m + n
      BY <1>1, <1>2, <1>3, <2>2
    <3>2. LastEnd(all, 0) = LastEnd(b, f)
      BY <1>2, <1>3, <3>1, Zenon DEF LastEnd
    <3> QED
      BY <1>4, <3>2
  <2> QED
    BY <2>1, <2>2
<1> QED
  BY <1>2, <1>6, <1>7

\* What is stored leaves the stream, and the next one comes after it.
LEMMA StoredInv ==
    ASSUME NEW floor \in Nat, NEW v, VadInv(v, floor)
    PROVE  /\ LastEnd(v.out, floor) \in Nat
           /\ VadInv(stored(v), LastEnd(v.out, floor)) /\ SameStream(stored(v), v) /\ stored(v).out = <<>>
<1>1. IsRec(v, VadFields) /\ v.open \in BOOLEAN /\ v.stream \in Nat /\ v.pending \in Nat /\ v.offset \in Nat
      /\ v.active \in Nat /\ v.start \in Nat /\ v.voice \in Nat /\ v.silence \in Nat /\ v.pending < BLOCK
      /\ OutGood(v.out, floor) /\ LastEnd(v.out, floor) <= v.offset
      /\ PreGood(v.pre, v.offset) /\ (v.pre # <<>> => LastEnd(v.out, floor) <= v.pre[1].at)
      /\ (v.active = 0 => v.voice = 0)
      /\ (v.active # 0 => /\ v.pre = <<>> /\ v.start + v.active = v.offset /\ LastEnd(v.out, floor) <= v.start
                          /\ v.voice <= v.active /\ v.active < MaxUtterance)
  BY Zenon DEF VadInv, VadTyped
<1>2. PICK none, w, f : none = <<>> /\ w = [v EXCEPT !.out = none] /\ f = LastEnd(v.out, floor)
  OBVIOUS
<1>3. f \in Nat
  BY <1>1, <1>2, LastEndTyped
<1>4. stored(v) = w
  BY <1>2, Zenon DEF stored
<1>5. w = Put(v, "out", none)
  BY <1>2, Zenon DEF Put
<1>6. /\ IsRec(w, VadFields) /\ w.out = none
      /\ \A j \in VadFields : j # "out" => w[j] = v[j]
  BY <1>5, <1>1, VadFieldsHave, Put1
<1>7. /\ w.open = v.open /\ w.stream = v.stream /\ w.pending = v.pending /\ w.offset = v.offset
      /\ w.pre = v.pre /\ w.active = v.active /\ w.start = v.start /\ w.voice = v.voice
      /\ w.silence = v.silence
  BY <1>6, VadFieldsHave
<1>8. OutGood(none, f) /\ LastEnd(none, f) = f
  <2>1. OutGood(<<>>, f)
    BY DEF OutGood
  <2> QED
    BY <1>2, <2>1, Zenon DEF LastEnd
<1>9. VadTyped(w)
  BY <1>1, <1>6, <1>7, Zenon DEF VadTyped
<1>10. VadInv(w, f)
  BY <1>1, <1>2, <1>6, <1>7, <1>8, <1>9, Zenon DEF VadInv
<1>11. SameStream(w, v)
  BY <1>7 DEF SameStream
<1> QED
  BY <1>2, <1>3, <1>4, <1>6, <1>10, <1>11, Zenon

----------------------------------------------------------------------------
(* Saved speech *)

Untold == [NewVad(0) EXCEPT !.open = FALSE]

\* What is saved is in order, and the open stream continues it.
SavedInv ==
    /\ vad.out = <<>> /\ OutGood(saved, 0)
    /\ ~vad.open => vad.active = 0
    /\ vad.open => \E floor \in Nat : VadInv(vad, floor) /\ LastEnd(saved, 0) <= vad.stream + floor

LEMMA UntoldIs == Untold.out = <<>> /\ ~Untold.open /\ Untold.active = 0
BY DEF Untold, NewVad

LEMMA NoneGood == OutGood(<<>>, 0) /\ LastEnd(<<>>, 0) = 0 /\ PreGood(<<>>, 0)
<1>1. OutGood(<<>>, 0)
  BY DEF OutGood
<1>2. LastEnd(<<>>, 0) = 0
  BY DEF LastEnd
<1>3. PreGood(<<>>, 0)
  BY SpeechNumbers DEF PreGood
<1> QED
  BY <1>1, <1>2, <1>3

LEMMA NewInv ==
    ASSUME NEW offset \in Nat
    PROVE  VadInv(NewVad(offset), 0) /\ NewVad(offset).out = <<>> /\ NewVad(offset).open /\ NewVad(offset).stream = offset
<1>1. PICK v, yes, no, nothing : /\ yes = TRUE /\ no = 0 /\ nothing = <<>>
         /\ v = [open |-> yes, stream |-> offset, pending |-> no, offset |-> no, pre |-> nothing, active |-> no,
                 start |-> no, voice |-> no, silence |-> no, out |-> nothing]
  OBVIOUS
<1>2. NewVad(offset) = v
  BY <1>1, Zenon DEF NewVad
<1>3. /\ v.open = yes /\ v.stream = offset /\ v.pending = no /\ v.offset = no /\ v.pre = nothing /\ v.active = no
      /\ v.start = no /\ v.voice = no /\ v.silence = no /\ v.out = nothing
  BY <1>1
<1>4. IsRec(v, VadFields)
  <2>1. v = [f \in VadFields |-> v[f]]
    BY <1>1 DEF VadFields
  <2> QED
    BY <2>1 DEF IsRec
<1>5. VadTyped(v)
  <2>1. yes \in BOOLEAN /\ no \in Nat
    BY <1>1
  <2> QED
    BY <1>3, <1>4, <2>1, Zenon DEF VadTyped
<1>6. no < BLOCK /\ 0 <= no /\ no = 0
  BY <1>1, SpeechNumbers
<1>7. VadInv(v, 0)
  BY <1>1, <1>3, <1>5, <1>6, NoneGood, Zenon DEF VadInv
<1> QED
  BY <1>1, <1>2, <1>3, <1>7, Zenon

LEMMA SavedInvInit == SpeechInit => SavedInv
<1> SUFFICES ASSUME SpeechInit PROVE SavedInv
  OBVIOUS
<1>1. vad = Untold /\ saved = <<>>
  BY Zenon DEF SpeechInit, Untold
<1> QED
  BY <1>1, UntoldIs, NoneGood, Zenon DEF SavedInv

LEMMA StreamStarts ==
    ASSUME NEW offset \in Nat, SavedInv, start_stream(offset)
    PROVE  SavedInv'
<1>1. saved = <<>> /\ vad' = NewVad(offset) /\ saved' = saved
  BY Zenon DEF start_stream
<1>2. 0 <= offset + 0 /\ 0 \in Nat
  OBVIOUS
<1>3. LastEnd(saved, 0) <= NewVad(offset).stream + 0
  BY <1>1, <1>2, NoneGood, NewInv, Zenon
<1>4. /\ NewVad(offset).out = <<>> /\ OutGood(saved, 0) /\ NewVad(offset).open
      /\ \E floor \in Nat : VadInv(NewVad(offset), floor) /\ LastEnd(saved, 0) <= NewVad(offset).stream + floor
  BY <1>1, <1>2, <1>3, NoneGood, NewInv, Zenon
<1> QED
  BY <1>1, <1>4, Zenon DEF SavedInv

\* A stream's utterances, saved behind the others.
LEMMA SavingKeeps ==
    ASSUME NEW floor \in Nat, NEW v, OutGood(v.out, floor), v.stream \in Nat, OutGood(saved, 0),
           LastEnd(saved, 0) <= v.stream + floor
    PROVE  /\ OutGood(saved \o on_timeline(v), 0)
           /\ LastEnd(saved \o on_timeline(v), 0) <= v.stream + LastEnd(v.out, floor)
<1>1. PICK f : f = v.stream + floor
  OBVIOUS
<1>2. f \in Nat
  BY <1>1
<1>3. OutGood(on_timeline(v), f) /\ LastEnd(on_timeline(v), f) = v.stream + LastEnd(v.out, floor)
  BY <1>1, ShiftGood
<1>4. PICK later : later = on_timeline(v)
  OBVIOUS
<1>5. OutGood(later, f) /\ LastEnd(saved, 0) <= f
  BY <1>1, <1>3, <1>4
<1>6. OutGood(saved \o later, 0) /\ LastEnd(saved \o later, 0) <= LastEnd(later, f)
  BY <1>2, <1>5, ConcatGood
<1> QED
  BY <1>3, <1>4, <1>6, Zenon

LEMMA ReceiveKeeps ==
    ASSUME NEW n \in Nat, NEW voiced \in [1..((vad.pending + n) \div BLOCK) -> BOOLEAN], SavedInv, receive_audio(n, voiced)
    PROVE  SavedInv'
<1>1. PICK v : v = after_feed(vad, n, voiced)
  OBVIOUS
<1>2. vad.open /\ vad' = stored(v) /\ saved' = saved \o on_timeline(v)
  BY <1>1, Zenon DEF receive_audio
<1>3. PICK floor \in Nat : VadInv(vad, floor) /\ LastEnd(saved, 0) <= vad.stream + floor
  BY <1>2, Zenon DEF SavedInv
<1>4. VadInv(v, floor) /\ SameStream(v, vad)
  BY <1>1, <1>3, FeedInv
<1>5. PICK f : f = LastEnd(v.out, floor)
  OBVIOUS
<1>6. f \in Nat /\ VadInv(stored(v), f) /\ SameStream(stored(v), v) /\ stored(v).out = <<>>
  BY <1>4, <1>5, StoredInv, Zenon
<1>7. v.stream = vad.stream /\ v.open = vad.open /\ stored(v).stream = v.stream /\ stored(v).open = v.open
  BY <1>4, <1>6, Zenon DEF SameStream
<1>8. OutGood(v.out, floor) /\ v.stream \in Nat
  BY <1>4, Zenon DEF VadInv, VadTyped
<1>9. LastEnd(saved, 0) <= v.stream + floor /\ OutGood(saved, 0)
  BY <1>3, <1>7, Zenon DEF SavedInv
<1>10. OutGood(saved \o on_timeline(v), 0) /\ LastEnd(saved \o on_timeline(v), 0) <= v.stream + f
  BY <1>5, <1>8, <1>9, SavingKeeps
<1>11. /\ stored(v).out = <<>> /\ OutGood(saved \o on_timeline(v), 0) /\ stored(v).open
       /\ \E g \in Nat : VadInv(stored(v), g) /\ LastEnd(saved \o on_timeline(v), 0) <= stored(v).stream + g
  BY <1>2, <1>6, <1>7, <1>10, Zenon
<1> QED
  BY <1>2, <1>11, Zenon DEF SavedInv

LEMMA StreamEnds ==
    ASSUME NEW voiced \in BOOLEAN, SavedInv, end_stream(voiced)
    PROVE  SavedInv'
<1>1. PICK v : v = after_flush(vad, voiced)
  OBVIOUS
<1>2. vad.open /\ vad' = Untold /\ saved' = saved \o on_timeline(v)
  BY <1>1, Zenon DEF end_stream, Untold
<1>3. PICK floor \in Nat : VadInv(vad, floor) /\ LastEnd(saved, 0) <= vad.stream + floor
  BY <1>2, Zenon DEF SavedInv
<1>4. OutGood(v.out, floor) /\ v.stream = vad.stream
  BY <1>1, <1>3, FlushInv
<1>5. v.stream \in Nat /\ LastEnd(saved, 0) <= v.stream + floor /\ OutGood(saved, 0)
  BY <1>3, <1>4, Zenon DEF SavedInv, VadInv, VadTyped
<1>6. OutGood(saved \o on_timeline(v), 0)
  BY <1>4, <1>5, SavingKeeps
<1> QED
  BY <1>2, <1>6, UntoldIs, Zenon DEF SavedInv

LEMMA SavedInvNext == SavedInv /\ [SpeechNext]_speechVars => SavedInv'
<1> SUFFICES ASSUME SavedInv, [SpeechNext]_speechVars PROVE SavedInv'
  OBVIOUS
<1>1. CASE \E offset \in 0..MaxStart : start_stream(offset)
  <2>1. PICK offset \in 0..MaxStart : start_stream(offset)
    BY <1>1
  <2>2. offset \in Nat
    BY SpeechNumbers
  <2> QED
    BY <2>1, <2>2, StreamStarts
<1>2. CASE \E n \in 1..2 * BLOCK + 1 : \E voiced \in [1..(vad.pending + n) \div BLOCK -> BOOLEAN] : receive_audio(n, voiced)
  <2>1. PICK n \in 1..2 * BLOCK + 1 : \E voiced \in [1..(vad.pending + n) \div BLOCK -> BOOLEAN] : receive_audio(n, voiced)
    BY <1>2
  <2>2. PICK voiced \in [1..(vad.pending + n) \div BLOCK -> BOOLEAN] : receive_audio(n, voiced)
    BY <2>1
  <2>3. n \in Nat
    BY SpeechNumbers
  <2> QED
    BY <2>2, <2>3, ReceiveKeeps
<1>3. CASE \E voiced \in BOOLEAN : end_stream(voiced)
  BY <1>3, StreamEnds
<1>4. CASE UNCHANGED <<vad, saved>>
  BY <1>4, Zenon DEF SavedInv
<1>5. CASE UNCHANGED speechVars
  <2>1. UNCHANGED <<vad, saved>>
    BY <1>5 DEF speechVars
  <2> QED
    BY <1>4, <2>1
<1>6. \/ \E offset \in 0..MaxStart : start_stream(offset)
      \/ \E n \in 1..2 * BLOCK + 1 : \E voiced \in [1..(vad.pending + n) \div BLOCK -> BOOLEAN] : receive_audio(n, voiced)
      \/ \E voiced \in BOOLEAN : end_stream(voiced)
      \/ UNCHANGED <<vad, saved>>
      \/ UNCHANGED speechVars
  BY Zenon DEF SpeechNext
<1> QED
  BY <1>1, <1>2, <1>3, <1>4, <1>5, <1>6

LEMMA SavedInvAssembles == SavedInv => SavedSpeechAssembles
<1> SUFFICES ASSUME SavedInv PROVE SavedSpeechAssembles
  OBVIOUS
<1>1. OutGood(saved, 0) /\ vad.out = <<>> /\ (~vad.open => vad.active = 0)
  BY Zenon DEF SavedInv
<1>2. saved \in Seq(Utterances)
  BY <1>1, Zenon DEF OutGood
<1>3. DOMAIN saved = 1..Len(saved)
  BY <1>2
<1>4. assembles(saved) <=> saved # <<>> /\ \A i \in DOMAIN saved : saved[i].end_ms <= MAX_MEETING_MS
  BY <1>1, <1>3, Zenon DEF OutGood, assembles
<1>5. \A i \in DOMAIN saved : saved[i].length >= MinVoice /\ saved[i].length < MaxUtterance + BLOCK
  BY <1>1, <1>3, Zenon DEF OutGood
<1>6. ASSUME vad.active # 0
      PROVE  /\ vad.active = vad.offset - vad.start
             /\ saved # <<>> => vad.stream + vad.start >= Last(saved).end_ms
  <2>1. vad.open
    BY <1>1, <1>6, Zenon
  <2>2. PICK floor \in Nat : VadInv(vad, floor) /\ LastEnd(saved, 0) <= vad.stream + floor
    BY <2>1, Zenon DEF SavedInv
  <2>3. /\ vad.stream \in Nat /\ vad.offset \in Nat /\ vad.active \in Nat /\ vad.start \in Nat
        /\ vad.start + vad.active = vad.offset /\ LastEnd(vad.out, floor) <= vad.start
    BY <1>6, <2>2, Zenon DEF VadInv, VadTyped
  <2>4. floor <= vad.start
    BY <1>1, <2>3, Zenon DEF LastEnd
  <2>5. LastEnd(saved, 0) \in Nat
    BY <1>1, LastEndTyped
  <2>6. LastEnd(saved, 0) <= vad.stream + vad.start
    BY <2>2, <2>3, <2>4, <2>5
  <2>7. saved # <<>> => LastEnd(saved, 0) = Last(saved).end_ms
    BY Zenon DEF LastEnd, Last
  <2>8. ASSUME saved # <<>> PROVE vad.stream + vad.start >= Last(saved).end_ms
    BY <2>3, <2>5, <2>6, <2>7, <2>8
  <2> QED
    BY <2>3, <2>8
<1> QED
  BY <1>4, <1>5, <1>6, Zenon DEF SavedSpeechAssembles

----------------------------------------------------------------------------
(* What is heard *)

HearFields == {"at", "posts", "voiced", "result", "text"}

LEMMA HearFieldsHave ==
    "at" \in HearFields /\ "posts" \in HearFields /\ "voiced" \in HearFields /\ "result" \in HearFields /\ "text" \in HearFields
BY DEF HearFields

\* Text only comes out of voice, and never a phrase the provider repeats.
HearInv ==
    /\ IsRec(hear, HearFields) /\ hear.posts \in 0..2
    /\ hear.at # "done" => hear.text = <<>>
    /\ hear.at = "posted" => hear.voiced
    /\ hear.text # <<>> => hear.voiced /\ hear.result = "text" /\ ~_is_repeated_short_phrase(hear.text)

LEMMA WordsReach ==
    ASSUME NEW unit \in Seq(Nat),
           NEW I, 0 \in I[0],
           \A i \in 0..Len(unit) : i < Len(unit) =>
               \A x \in I[i] \cap Nat : x + unit[i + 1] \in I[i + 1]
    PROVE  FoldLeft(LAMBDA sum, w : sum + w, 0, unit) \in I[Len(unit)] \cap Nat
<1> DEFINE n == Len(unit)
           step == [p \in (1..n) \X Nat |-> p[2] + unit[p[1]]]
           is(it) == it = [s \in SUBSET (DOMAIN unit) |->
                        IF s = {} THEN 0 ELSE it[s \ {Max(s)}] + unit[Max(s)]]
           c == CHOOSE it : is(it)
<1>1. n \in Nat /\ DOMAIN unit = 1..n
  OBVIOUS
<1>2. FoldLeft(LAMBDA sum, w : sum + w, 0, unit) = c[DOMAIN unit]
  BY Zenon DEF FoldLeft, MapThenFoldSet
<1>3. \A i \in 1..n, x \in Nat : x + unit[i] \in Nat
  OBVIOUS
<1>4. step \in [(1..n) \X Nat -> Nat]
  BY <1>3
<1>5. \A i \in 1..n, x \in Nat : step[i, x] = x + unit[i]
  OBVIOUS
<1> HIDE DEF n, step
<1>17. 0 \in Nat
  OBVIOUS
<1>6. FoldOn(n, Nat, 0, step)
  BY <1>1, <1>4, <1>17, FoldExists
<1>7. PICK it \in [SUBSET (1..n) -> Nat] :
         /\ it[{}] = 0
         /\ \A s \in SUBSET (1..n) : s # {} => Max(s) \in s /\ it[s] = step[Max(s), it[s \ {Max(s)}]]
  BY <1>6 DEF FoldOn
<1>8. ASSUME NEW s \in SUBSET (1..n), s # {}
      PROVE  it[s] = it[s \ {Max(s)}] + unit[Max(s)]
  <2>1. Max(s) \in 1..n /\ it[s \ {Max(s)}] \in Nat
    BY <1>7, <1>8
  <2> QED
    BY <1>5, <1>7, <1>8, <2>1
<1>9. is(it)
  <2>1. it = [s \in SUBSET (1..n) |-> it[s]]
    OBVIOUS
  <2>2. \A s \in SUBSET (1..n) :
           it[s] = IF s = {} THEN 0 ELSE it[s \ {Max(s)}] + unit[Max(s)]
    BY <1>7, <1>8
  <2> QED
    BY <1>1, <2>1, <2>2
<1>10. is(c)
  <2> HIDE DEF is
  <2> QED
    BY <1>9
<1> HIDE DEF c
<1>11. c = [s \in SUBSET (1..n) |->
              IF s = {} THEN 0 ELSE c[s \ {Max(s)}] + unit[Max(s)]]
  BY <1>1, <1>10
<1> HIDE DEF is
<1>12. /\ c[{}] = 0
       /\ \A s \in SUBSET (1..n) : s # {} => c[s] = c[s \ {Max(s)}] + unit[Max(s)]
  BY <1>11
<1>13. Folds(c, n, Nat, 0, step)
  <2> SUFFICES ASSUME NEW s \in SUBSET (1..n), s # {}, c[s \ {Max(s)}] \in Nat
               PROVE  c[s] = step[Max(s), c[s \ {Max(s)}]]
    BY <1>12 DEF Folds
  <2>1. Max(s) \in 1..n
    BY <1>7
  <2> QED
    BY <1>5, <1>12, <2>1
<1>14. ASSUME NEW i \in 0..n, i < n, NEW x \in I[i] \cap Nat
       PROVE  step[i + 1, x] \in I[i + 1]
  <2>1. i + 1 \in 1..n
    BY <1>1, <1>14
  <2>2. x + unit[i + 1] \in I[i + 1]
    BY <1>14 DEF n
  <2> QED
    BY <1>5, <1>14, <2>1, <2>2
<1>15. Leads(I, n, Nat, 0, step)
  BY <1>14 DEF Leads
<1>16. c[1..n] \in I[n] \cap Nat
  BY <1>1, <1>17, <1>4, <1>13, <1>15, FoldReaches
<1> QED
  BY <1>1, <1>2, <1>16 DEF n

\* The provider's way out of silence: a word said twice or three times.
LEMMA SaidAgain ==
    ASSUME NEW n \in 3..12
    PROVE  _is_repeated_short_phrase(<<n, n>>) /\ _is_repeated_short_phrase(<<n, n, n>>)
<1>1. PICK unit : unit = <<n>>
  OBVIOUS
<1>0. \A sum \in Nat, m \in 2..3 : sum <= 36 => sum + m - 1 <= 48
  OBVIOUS
<1>2. unit \in Seq(Nat) /\ Len(unit) = 1 /\ unit[1] = n
  BY <1>1
<1>3. letters(unit) >= 3
  <2> DEFINE I == [i \in 0..1 |-> {IF i = 0 THEN 0 ELSE n}]
  <2>1. 0 \in I[0] /\ I[1] = {n} /\ I[0] = {0}
    OBVIOUS
  <2> HIDE DEF I
  <2>2. \A i \in 0..Len(unit) : i < Len(unit) => \A x \in I[i] \cap Nat : x + unit[i + 1] \in I[i + 1]
    BY <1>2, <2>1
  <2>3. PICK total : total = FoldLeft(LAMBDA sum, w : sum + w, 0, unit)
    OBVIOUS
  <2>4. total \in I[Len(unit)]
    BY <1>2, <2>1, <2>2, <2>3, WordsReach
  <2>5. total = n
    BY <1>2, <2>1, <2>4
  <2>6. letters(unit) = total + 1 - 1
    BY <1>2, <2>3, Zenon DEF letters
  <2> QED
    BY <2>5, <2>6
<1>4. ASSUME NEW text \in Seq(Nat), NEW repeats \in {2, 3}, Len(text) = repeats, \A i \in 1..repeats : text[i] = n
      PROVE  _is_repeated_short_phrase(text)
  <2>1. \A i \in 1..repeats : SubSeq(text, i, i) = unit
    <3> SUFFICES ASSUME NEW i \in 1..repeats PROVE SubSeq(text, i, i) = unit
      OBVIOUS
    <3>1. PICK s : s = SubSeq(text, i, i)
      OBVIOUS
    <3>2. s \in Seq(Nat) /\ Len(s) = 1 /\ s[1] = text[i]
      BY <1>4, <3>1
    <3>3. s = unit
      BY <1>2, <1>4, <3>2, SeqEqual
    <3> QED
      BY <3>1, <3>3
  <2>2. PICK size : size = Len(text) \div repeats
    OBVIOUS
  <2>3. size = 1 /\ Len(text) >= 2 /\ Len(text) % repeats = 0 /\ size <= 4 /\ size - 1 = 0
    BY <1>4, <2>2
  <2>4. SubSeq(text, 1, size) = unit
    BY <2>1, <2>3
  <2>5. \A k \in 0..repeats - 1 : SubSeq(text, k * size + 1, (k + 1) * size) = unit
    <3> SUFFICES ASSUME NEW k \in 0..repeats - 1 PROVE SubSeq(text, k * size + 1, (k + 1) * size) = unit
      OBVIOUS
    <3>1. k * size + 1 = k + 1 /\ (k + 1) * size = k + 1 /\ k + 1 \in 1..repeats
      BY <2>3
    <3> QED
      BY <2>1, <3>1
  <2>6. letters(text) <= 48
    <3> DEFINE I == [i \in 0..Len(text) |-> {x \in Nat : x <= 12 * i}]
    <3>1. Len(text) \in 2..3 /\ 0 \in I[0] /\ I[Len(text)] = {x \in Nat : x <= 12 * Len(text)}
      BY <1>4
    <3>2. \A i \in 0..Len(text) : i < Len(text) => \A x \in I[i] \cap Nat : x + text[i + 1] \in I[i + 1]
      BY <1>4
    <3> HIDE DEF I
    <3>3. PICK total : total = FoldLeft(LAMBDA sum, w : sum + w, 0, text)
      OBVIOUS
    <3>4. total \in I[Len(text)]
      BY <3>1, <3>2, <3>3, WordsReach
    <3>5. letters(text) = total + Len(text) - 1
      BY <3>3, Zenon DEF letters
    <3>6. PICK m \in 2..3 : m = Len(text)
      BY <3>1
    <3>7. total \in {x \in Nat : x <= 12 * m}
      BY <3>1, <3>4, <3>6
    <3>8. total \in Nat /\ total <= 36
      BY <3>6, <3>7
    <3>9. PICK l : l = letters(text)
      OBVIOUS
    <3>10. l = total + m - 1
      BY <3>5, <3>6, <3>9
    <3>11. l <= 48
      BY <1>0, <3>6, <3>8, <3>10
    <3> QED
      BY <3>9, <3>11
  <2> QED
    BY <1>3, <2>2, <2>3, <2>4, <2>5, <2>6, Zenon DEF _is_repeated_short_phrase
<1>5. _is_repeated_short_phrase(<<n, n>>)
  <2>1. PICK text : text = <<n, n>>
    OBVIOUS
  <2>2. text \in Seq(Nat) /\ Len(text) = 2 /\ \A i \in 1..2 : text[i] = n
    BY <2>1
  <2> QED
    BY <1>4, <2>1, <2>2
<1>6. _is_repeated_short_phrase(<<n, n, n>>)
  <2>1. PICK text : text = <<n, n, n>>
    OBVIOUS
  <2>2. text \in Seq(Nat) /\ Len(text) = 3 /\ \A i \in 1..3 : text[i] = n
    BY <2>1
  <2> QED
    BY <1>4, <2>1, <2>2
<1> QED
  BY <1>5, <1>6

LEMMA QuietInv ==
    ASSUME NEW at, at \in {"idle", "saved"}, NEW h, h = [Quiet EXCEPT !.at = at]
    PROVE  /\ IsRec(h, HearFields) /\ h.posts \in 0..2 /\ h.text = <<>> /\ h.at = at
<1>1. PICK no : no = FALSE
  OBVIOUS
<1>2. PICK nothing : nothing = <<>>
  OBVIOUS
<1>3. h = [at |-> at, posts |-> 0, voiced |-> no, result |-> "none", text |-> nothing]
  BY <1>1, <1>2 DEF Quiet
<1>4. h.posts = 0 /\ h.text = nothing /\ h.at = at
  BY <1>3
<1>5. h = [f \in HearFields |-> h[f]]
  BY <1>3 DEF HearFields
<1>6. IsRec(h, HearFields)
  BY <1>5, Zenon DEF IsRec
<1>7. h.posts \in 0..2
  BY <1>4
<1> QED
  BY <1>2, <1>4, <1>6, <1>7, Zenon

LEMMA HearInvInit == SpeechInit => HearInv
<1> SUFFICES ASSUME SpeechInit PROVE HearInv
  OBVIOUS
<1>1. hear = Quiet
  BY Zenon DEF SpeechInit
<1>2. Quiet = [Quiet EXCEPT !.at = "idle"]
  BY DEF Quiet
<1>3. IsRec(Quiet, HearFields) /\ Quiet.posts \in 0..2 /\ Quiet.text = <<>> /\ Quiet.at = "idle"
  BY <1>2, QuietInv
<1>4. "idle" # "posted"
  OBVIOUS
<1> QED
  BY <1>1, <1>3, <1>4, Zenon DEF HearInv

\* A call that begins has heard nothing.
LEMMA QuietKeeps ==
    ASSUME hear' = Quiet \/ hear' = [Quiet EXCEPT !.at = "saved"]
    PROVE  HearInv'
<1>1. Quiet = [Quiet EXCEPT !.at = "idle"]
  BY DEF Quiet
<1>2. PICK at, h : at \in {"idle", "saved"} /\ h = [Quiet EXCEPT !.at = at] /\ hear' = h
  BY <1>1
<1>3. IsRec(h, HearFields) /\ h.posts \in 0..2 /\ h.text = <<>> /\ h.at = at
  BY <1>2, QuietInv
<1>4. h.at # "posted"
  BY <1>2, <1>3
<1> QED
  BY <1>2, <1>3, <1>4, Zenon DEF HearInv

LEMMA TranscribeKeeps ==
    ASSUME HearInv, NEW voiced \in BOOLEAN, transcribe(voiced)
    PROVE  HearInv'
<1>1. IsRec(hear, HearFields) /\ hear.posts \in 0..2 /\ hear.at = "saved"
  BY Zenon DEF HearInv, transcribe
<1>2. "saved" # "done" /\ "posted" # "done" /\ "done" # "posted" /\ 1 \in 0..2
  OBVIOUS
<1>3. hear.text = <<>>
  BY <1>1, <1>2, Zenon DEF HearInv
<1>4. CASE voiced
  <2>1. PICK at, posts, yes : at = "posted" /\ posts = 1 /\ yes = TRUE
    OBVIOUS
  <2>2. hear' = [hear EXCEPT !.at = at, !.posts = posts, !.voiced = yes]
    BY <1>4, <2>1, Zenon DEF transcribe
  <2>3. hear' = Put(Put(Put(hear, "at", at), "posts", posts), "voiced", yes)
    BY <2>2, Zenon DEF Put
  <2>4. /\ IsRec(hear', HearFields) /\ hear'.at = at /\ hear'.posts = posts /\ hear'.voiced = yes
        /\ \A j \in HearFields : j # "at" /\ j # "posts" /\ j # "voiced" => hear'[j] = hear[j]
    BY <2>3, <1>1, HearFieldsHave, Put3
  <2>5. /\ hear'.result = hear.result /\ hear'.text = hear.text
    BY <2>4, HearFieldsHave
  <2> QED
    BY <1>2, <1>3, <2>1, <2>4, <2>5, Zenon DEF HearInv
<1>5. CASE ~voiced
  <2>1. PICK at, result, text : at = "done" /\ result = "text" /\ text = <<>>
    OBVIOUS
  <2>2. hear' = [hear EXCEPT !.at = at, !.result = result, !.text = text]
    BY <1>5, <2>1, Zenon DEF transcribe
  <2>3. hear' = Put(Put(Put(hear, "at", at), "result", result), "text", text)
    BY <2>2, Zenon DEF Put
  <2>4. /\ IsRec(hear', HearFields) /\ hear'.at = at /\ hear'.result = result /\ hear'.text = text
        /\ \A j \in HearFields : j # "at" /\ j # "result" /\ j # "text" => hear'[j] = hear[j]
    BY <2>3, <1>1, HearFieldsHave, Put3
  <2>5. /\ hear'.posts = hear.posts /\ hear'.voiced = hear.voiced
    BY <2>4, HearFieldsHave
  <2> QED
    BY <1>1, <1>2, <2>1, <2>4, <2>5, Zenon DEF HearInv
<1> QED
  BY <1>4, <1>5

LEMMA PlainlyKeeps ==
    ASSUME HearInv, post_plainly
    PROVE  HearInv'
<1>1. IsRec(hear, HearFields) /\ hear.at = "posted"
  BY Zenon DEF HearInv, post_plainly
<1>2. PICK posts : posts = 2
  OBVIOUS
<1>3. hear' = [hear EXCEPT !.posts = posts]
  BY <1>2, Zenon DEF post_plainly
<1>4. hear' = Put(hear, "posts", posts)
  BY <1>3, Zenon DEF Put
<1>5. /\ IsRec(hear', HearFields) /\ hear'.posts = posts
      /\ \A j \in HearFields : j # "posts" => hear'[j] = hear[j]
  BY <1>4, <1>1, HearFieldsHave, Put1
<1>6. /\ hear'.at = hear.at /\ hear'.voiced = hear.voiced /\ hear'.result = hear.result
      /\ hear'.text = hear.text
  BY <1>5, HearFieldsHave
<1>7. posts \in 0..2
  BY <1>2
<1> QED
  BY <1>5, <1>6, <1>7, Zenon DEF HearInv

LEMMA ResponseKeeps ==
    ASSUME HearInv, NEW whole, NEW segments, NEW low, NEW un, NEW t, response_arrives(whole, segments, low, un, t)
    PROVE  HearInv'
<1>1. IsRec(hear, HearFields) /\ hear.posts \in 0..2 /\ hear.at = "posted" /\ hear.voiced
  BY Zenon DEF HearInv, response_arrives
<1>2. PICK at, result, text : at = "done" /\ result = "text" /\ text = heard_text(whole, segments, low, un, t)
  OBVIOUS
<1>3. hear' = [hear EXCEPT !.at = at, !.result = result, !.text = text]
  BY <1>2, Zenon DEF response_arrives
<1>4. hear' = Put(Put(Put(hear, "at", at), "result", result), "text", text)
  BY <1>3, Zenon DEF Put
<1>5. /\ IsRec(hear', HearFields) /\ hear'.at = at /\ hear'.result = result /\ hear'.text = text
      /\ \A j \in HearFields : j # "at" /\ j # "result" /\ j # "text" => hear'[j] = hear[j]
  BY <1>4, <1>1, HearFieldsHave, Put3
<1>6. /\ hear'.posts = hear.posts /\ hear'.voiced = hear.voiced
  BY <1>5, HearFieldsHave
<1>7. text = <<>> \/ (text = t /\ ~_is_repeated_short_phrase(t))
  BY <1>2, Zenon DEF heard_text
<1>8. "done" # "posted"
  OBVIOUS
<1>9. text # <<>> => ~_is_repeated_short_phrase(text)
  BY <1>7, Zenon
<1> QED
  BY <1>1, <1>2, <1>5, <1>6, <1>8, <1>9, Zenon DEF HearInv

LEMMA FailsKeeps ==
    ASSUME HearInv, NEW code, stt_fails(code)
    PROVE  HearInv'
<1>1. IsRec(hear, HearFields) /\ hear.posts \in 0..2 /\ hear.at = "posted"
  BY Zenon DEF HearInv, stt_fails
<1>2. PICK at : at = "done"
  OBVIOUS
<1>3. hear' = [hear EXCEPT !.at = at, !.result = code]
  BY <1>2, Zenon DEF stt_fails
<1>4. hear' = Put(Put(hear, "at", at), "result", code)
  BY <1>3, Zenon DEF Put
<1>5. /\ IsRec(hear', HearFields) /\ hear'.at = at /\ hear'.result = code
      /\ \A j \in HearFields : j # "at" /\ j # "result" => hear'[j] = hear[j]
  BY <1>4, <1>1, HearFieldsHave, Put2
<1>6. /\ hear'.posts = hear.posts /\ hear'.voiced = hear.voiced /\ hear'.text = hear.text
  BY <1>5, HearFieldsHave
<1>7. "done" # "posted" /\ "posted" # "done"
  OBVIOUS
<1>8. hear.text = <<>>
  BY <1>1, <1>7, Zenon DEF HearInv
<1> QED
  BY <1>1, <1>2, <1>5, <1>6, <1>7, <1>8, Zenon DEF HearInv

LEMMA HearInvNext == HearInv /\ [SpeechNext]_speechVars => HearInv'
<1> SUFFICES ASSUME HearInv, [SpeechNext]_speechVars PROVE HearInv'
  OBVIOUS
<1>1. CASE hear' = hear
  BY <1>1, Zenon DEF HearInv
<1>2. CASE \E offset : start_stream(offset)
  BY <1>1, <1>2, Zenon DEF start_stream
<1>3. CASE \E n : \E voiced : receive_audio(n, voiced)
  BY <1>3, QuietKeeps, Zenon DEF receive_audio
<1>4. CASE \E voiced : end_stream(voiced)
  BY <1>4, QuietKeeps, Zenon DEF end_stream
<1>5. CASE \E voiced \in BOOLEAN : transcribe(voiced)
  BY <1>5, TranscribeKeeps, Zenon
<1>6. CASE post_plainly
  BY <1>6, PlainlyKeeps, Zenon
<1>7. CASE \E whole, s, low, un, t : response_arrives(whole, s, low, un, t)
  <2>1. PICK whole, s, low, un, t : response_arrives(whole, s, low, un, t)
    BY <1>7, Zenon
  <2> QED
    BY <2>1, ResponseKeeps, Zenon
<1>8. CASE \E code : stt_fails(code)
  BY <1>8, FailsKeeps, Zenon
<1>9. CASE UNCHANGED speechVars
  BY <1>1, <1>9, Zenon DEF speechVars
<1>10. \/ \E offset : start_stream(offset)
       \/ \E n : \E voiced : receive_audio(n, voiced)
       \/ \E voiced : end_stream(voiced)
       \/ \E voiced \in BOOLEAN : transcribe(voiced)
       \/ post_plainly
       \/ \E whole, s, low, un, t : response_arrives(whole, s, low, un, t)
       \/ \E code : stt_fails(code)
       \/ UNCHANGED speechVars
  BY Zenon DEF SpeechNext
<1> QED
  BY <1>2, <1>3, <1>4, <1>5, <1>6, <1>7, <1>8, <1>9, <1>10, Zenon

LEMMA HearInvSilence == HearInv => NoTextFromSilence
<1> SUFFICES ASSUME HearInv PROVE NoTextFromSilence
  OBVIOUS
<1>1. hear.posts <= 2
  <2>1. PICK p : p = hear.posts
    OBVIOUS
  <2>2. p \in 0..2
    BY <2>1, Zenon DEF HearInv
  <2> QED
    BY <2>1, <2>2
<1>2. \A n \in 3..12 : _is_repeated_short_phrase(<<n, n>>) /\ _is_repeated_short_phrase(<<n, n, n>>)
  BY SaidAgain
<1>3. PICK text : text = hear.text
  OBVIOUS
<1>4. text # <<>> => hear.voiced /\ hear.result = "text" /\ ~_is_repeated_short_phrase(text)
  BY <1>3, Zenon DEF HearInv
<1>5. ~_is_repeated_short_phrase(text) => \A n \in 3..12 : text # <<n, n>> /\ text # <<n, n, n>>
  BY <1>2
<1> QED
  BY <1>1, <1>3, <1>4, <1>5, Zenon DEF NoTextFromSilence

\* PcmVad, the saving of utterances and WhisperStt, for any sizes of frames,
\* any voice in them and any lengths of the limits: the saved speech can be
\* put together, and no text comes out of silence.
THEOREM SpeechIsWhole == SpeechInit /\ [][SpeechNext]_speechVars => [](SavedSpeechAssembles /\ NoTextFromSilence)
<1> DEFINE Inv == SavedInv /\ HearInv
<1>1. SpeechInit => Inv
  BY SavedInvInit, HearInvInit
<1>2. Inv /\ [SpeechNext]_speechVars => Inv'
  BY SavedInvNext, HearInvNext
<1>3. Inv => SavedSpeechAssembles /\ NoTextFromSilence
  BY SavedInvAssembles, HearInvSilence
<1> QED
  BY <1>1, <1>2, <1>3, PTL

----------------------------------------------------------------------------
(* The reader of a streamed plan: what it has found is only added to *)

Chars == Words \cup Signs

LEMMA WordsAreNoSigns == \A w \in Words : w \notin Signs
BY GenerationAssumption DEF Words, Signs

\* What is found is only added to.
Extends(more, some) == Len(some) <= Len(more) /\ \A i \in 1..Len(some) : more[i] = some[i]

\* The states of a reader over a text: g[i] is the one after i characters.
ReaderRun(g, p) ==
    /\ g = [i \in 0..Len(p) |-> g[i]]
    /\ \A i \in 0..Len(p) : /\ g[i].found \in Seq([index : Nat, code : Seq(Chars)])
                            /\ i < Len(p) => /\ g[i + 1] = feed(g[i], p[i + 1])
                                             /\ Extends(g[i + 1].found, g[i].found)

RunBetween(p, r, s) == \E g : ReaderRun(g, p) /\ g[0] = r /\ g[Len(p)] = s

\* A text leads from each of the states of one set to a state of another.
Reads(p, Z, W) == p \in Seq(Chars) /\ \A z \in Z : \E w \in W : RunBetween(p, z, w)

LEMMA RunNone ==
    ASSUME NEW r, r.found \in Seq([index : Nat, code : Seq(Chars)])
    PROVE  RunBetween(<<>>, r, r)
<1> DEFINE g == [i \in 0..0 |-> r]
<1>1. Len(<<>>) = 0 /\ 0 \in 0..0 /\ \A i \in 0..0 : i = 0 /\ ~(i < 0)
  OBVIOUS
<1>2. g[0] = r /\ g = [i \in 0..0 |-> g[i]]
  BY <1>1
<1> HIDE DEF g
<1>3. ReaderRun(g, <<>>)
  BY <1>1, <1>2 DEF ReaderRun
<1> QED
  BY <1>1, <1>2, <1>3 DEF RunBetween

LEMMA RunOne ==
    ASSUME NEW r, NEW c, r.found \in Seq([index : Nat, code : Seq(Chars)]),
           feed(r, c).found \in Seq([index : Nat, code : Seq(Chars)]),
           Extends(feed(r, c).found, r.found)
    PROVE  RunBetween(<<c>>, r, feed(r, c))
<1> DEFINE g == [i \in 0..1 |-> IF i = 0 THEN r ELSE feed(r, c)]
           p == <<c>>
<1>1. Len(p) = 1 /\ p[1] = c /\ 0 \in 0..1 /\ 1 \in 0..1 /\ 0 + 1 = 1
      /\ \A i \in 0..1 : (i = 0 \/ i = 1) /\ (i < 1 => i = 0)
  OBVIOUS
<1>2. g[0] = r /\ g[1] = feed(r, c) /\ g = [i \in 0..1 |-> g[i]]
  BY <1>1
<1> HIDE DEF g, p
<1>3. ASSUME NEW i \in 0..1
      PROVE  /\ g[i].found \in Seq([index : Nat, code : Seq(Chars)])
             /\ i < 1 => g[i + 1] = feed(g[i], p[i + 1]) /\ Extends(g[i + 1].found, g[i].found)
  BY <1>1, <1>2
<1>4. ReaderRun(g, p)
  BY <1>1, <1>2, <1>3 DEF ReaderRun
<1> QED
  BY <1>1, <1>2, <1>4 DEF RunBetween, p

LEMMA RunJoin ==
    ASSUME NEW p \in Seq(Chars), NEW q \in Seq(Chars), NEW r, NEW s, NEW t,
           RunBetween(p, r, s), RunBetween(q, s, t)
    PROVE  RunBetween(p \o q, r, t)
<1>1. PICK g : ReaderRun(g, p) /\ g[0] = r /\ g[Len(p)] = s
  BY DEF RunBetween
<1>2. PICK h : ReaderRun(h, q) /\ h[0] = s /\ h[Len(q)] = t
  BY DEF RunBetween
<1> DEFINE a == p \o q
           m == Len(p)
           n == Len(q)
           k == [i \in 0..m + n |-> IF i <= m THEN g[i] ELSE h[i - m]]
<1>3. /\ m \in Nat /\ n \in Nat /\ Len(a) = m + n
      /\ \A i \in 1..m : a[i] = p[i]
      /\ \A i \in 1..n : a[m + i] = q[i]
  OBVIOUS
<1>4. /\ \A i \in 0..m : g[i].found \in Seq([index : Nat, code : Seq(Chars)])
      /\ \A i \in 0..m : i < m => g[i + 1] = feed(g[i], p[i + 1]) /\ Extends(g[i + 1].found, g[i].found)
  BY <1>1 DEF ReaderRun
<1>5. /\ \A i \in 0..n : h[i].found \in Seq([index : Nat, code : Seq(Chars)])
      /\ \A i \in 0..n : i < n => h[i + 1] = feed(h[i], q[i + 1]) /\ Extends(h[i + 1].found, h[i].found)
  BY <1>2 DEF ReaderRun
<1> HIDE DEF a, m, n
<1>6. /\ \A i \in 0..m : k[i] = g[i]
      /\ \A i \in 0..n : k[m + i] = h[i]
  <2>1. \A i \in 0..m : i \in 0..m + n /\ i <= m
    BY <1>3
  <2>2. ASSUME NEW i \in 0..n PROVE k[m + i] = h[i]
    <3>1. m + i \in 0..m + n /\ m + i - m = i
      BY <1>3
    <3>2. CASE i = 0
      BY <1>1, <1>2, <1>3, <3>1, <3>2 DEF m
    <3>3. CASE i # 0
      <4> DEFINE j == m + i
      <4>1. ~(j <= m) /\ j \in 0..m + n /\ j - m = i
        BY <1>3, <3>1, <3>3
      <4> HIDE DEF j
      <4>2. k[j] = h[j - m]
        BY <4>1
      <4> QED
        BY <4>1, <4>2 DEF j
    <3> QED
      BY <3>2, <3>3
  <2> QED
    BY <2>1, <2>2
<1>7. k = [i \in 0..m + n |-> k[i]]
  OBVIOUS
<1> HIDE DEF k
<1>8. \A i \in 0..m + n : i \in 0..m \/ \E j \in 0..n : i = m + j
  <2> SUFFICES ASSUME NEW i \in 0..m + n, i \notin 0..m PROVE i - m \in 0..n /\ i = m + (i - m)
    OBVIOUS
  <2> QED
    BY <1>3
<1>9. ASSUME NEW i \in 0..m + n PROVE k[i].found \in Seq([index : Nat, code : Seq(Chars)])
  BY <1>4, <1>5, <1>6, <1>8
<1>10. ASSUME NEW i \in 0..m + n, i < m + n
       PROVE  k[i + 1] = feed(k[i], a[i + 1]) /\ Extends(k[i + 1].found, k[i].found)
  <2>1. CASE i < m
    <3>1. i \in 0..m /\ i + 1 \in 0..m /\ i + 1 \in 1..m
      BY <1>3, <2>1
    <3>2. g[i + 1] = feed(g[i], p[i + 1]) /\ Extends(g[i + 1].found, g[i].found)
      BY <1>4, <2>1, <3>1
    <3>3. k[i] = g[i] /\ k[i + 1] = g[i + 1] /\ a[i + 1] = p[i + 1]
      BY <1>3, <1>6, <3>1
    <3> QED
      BY <3>2, <3>3
  <2>2. CASE ~(i < m)
    <3>4. m \in Nat /\ n \in Nat /\ i \in Nat /\ m <= i /\ i < m + n
      BY <1>3, <1>10, <2>2
    <3>5. PICK j \in Nat : i = m + j /\ j < n
      <4>1. i - m \in Nat /\ i = m + (i - m) /\ i - m < n
        BY <3>4
      <4> QED
        BY <4>1
    <3>1. j \in 0..n /\ j < n /\ i = m + j /\ i + 1 = m + (j + 1) /\ j + 1 \in 0..n /\ j + 1 \in 1..n
      BY <3>4, <3>5
    <3>2. h[j + 1] = feed(h[j], q[j + 1]) /\ Extends(h[j + 1].found, h[j].found)
      BY <1>5, <3>1
    <3>3. k[m + j] = h[j] /\ k[m + (j + 1)] = h[j + 1] /\ a[m + (j + 1)] = q[j + 1]
      BY <1>3, <1>6, <3>1
    <3> QED
      BY <3>1, <3>2, <3>3
  <2> QED
    BY <2>1, <2>2
<1>11. ReaderRun(k, a)
  BY <1>3, <1>7, <1>9, <1>10 DEF ReaderRun
<1>12. k[0] = r /\ k[Len(a)] = t
  <2>1. 0 \in 0..m /\ n \in 0..n
    BY <1>3
  <2>2. k[0] = g[0] /\ k[m + n] = h[n]
    BY <1>6, <2>1
  <2> QED
    BY <1>1, <1>2, <1>3, <2>2 DEF n
<1> QED
  BY <1>11, <1>12 DEF RunBetween, a

\* Along a run, what was found stays.
LEMMA RunExtends ==
    ASSUME NEW p \in Seq(Chars), NEW g, ReaderRun(g, p)
    PROVE  \A i \in 0..Len(p) : Extends(g[Len(p)].found, g[i].found)
<1> DEFINE n == Len(p)
           T == {k \in 0..n : \A i \in 0..k : Extends(g[k].found, g[i].found)}
           f(i) == g[i].found
<1>1. /\ n \in Nat
      /\ \A i \in 0..n : f(i) \in Seq([index : Nat, code : Seq(Chars)])
      /\ \A i \in 0..n : i < n => Extends(f(i + 1), f(i))
  BY DEF ReaderRun
<1> HIDE DEF n, f
<1>2. \A i \in 0..n : Extends(f(i), f(i)) /\ Len(f(i)) \in Nat
  BY <1>1 DEF Extends
<1>3. 0 \in T
  <2>1. 0 \in 0..n /\ \A i \in 0..0 : i = 0
    BY <1>1
  <2> QED
    BY <1>2, <2>1 DEF f
<1>4. ASSUME NEW k \in 0..n, k < n, k \in T PROVE k + 1 \in T
  <2>1. k \in Nat /\ k + 1 \in 0..n /\ \A i \in 0..k + 1 : i \in 0..k \/ i = k + 1
    BY <1>1, <1>4
  <2>2. \A i \in 0..k : Extends(f(k), f(i)) /\ i \in 0..n
    BY <1>1, <1>4 DEF f
  <2>3. Extends(f(k + 1), f(k))
    BY <1>1, <1>4
  <2>4. ASSUME NEW i \in 0..k PROVE Extends(f(k + 1), f(i))
    <3>1. /\ Extends(f(k), f(i)) /\ Len(f(k)) \in Nat /\ Len(f(i)) \in Nat /\ Len(f(k + 1)) \in Nat
      BY <1>2, <1>4, <2>1, <2>2
    <3> QED
      BY <2>3, <3>1 DEF Extends
  <2>5. Extends(f(k + 1), f(k + 1))
    BY <1>2, <2>1
  <2>6. \A i \in 0..k + 1 : Extends(f(k + 1), f(i))
    BY <2>1, <2>4, <2>5
  <2> QED
    BY <2>1, <2>6 DEF f
<1> HIDE DEF T
<1>5. \A i \in 0..n : i \in T
  BY <1>1, <1>3, <1>4, UpTo
<1>6. n \in T
  BY <1>1, <1>5
<1> QED
  BY <1>6 DEF T, n

LEMMA ReadsJoin ==
    ASSUME NEW p, NEW q, NEW Z, NEW Y, NEW W, Reads(p, Z, Y), Reads(q, Y, W)
    PROVE  Reads(p \o q, Z, W)
<1>1. p \in Seq(Chars) /\ q \in Seq(Chars)
  BY DEF Reads
<1>2. p \o q \in Seq(Chars)
  BY <1>1
<1>3. ASSUME NEW z \in Z PROVE \E w \in W : RunBetween(p \o q, z, w)
  <2>1. PICK y \in Y : RunBetween(p, z, y)
    BY DEF Reads
  <2>2. PICK w \in W : RunBetween(q, y, w)
    BY DEF Reads
  <2> QED
    BY <1>1, <2>1, <2>2, RunJoin
<1> QED
  BY <1>2, <1>3 DEF Reads

----------------------------------------------------------------------------
(* The reader's states between the tokens of a text *)

Frame == [kind : {"object", "array"}, key : Seq(Chars), value : BOOLEAN]
InObject(key, value) == [kind |-> "object", key |-> key, value |-> value]

\* The steps opened so far, the last one whose code was found, and the codes.
Counts == [opened : Nat, last_found : Nat, found : Seq([index : Nat, code : Seq(Chars)])]

\* Between two tokens, and inside a string.
Between(fs, key, c) ==
    [frames |-> fs, in_string |-> FALSE, escape |-> FALSE, is_key |-> key, chars |-> <<>>,
     keep |-> FALSE, opened |-> c.opened, last_found |-> c.last_found, found |-> c.found]
Within(fs, esc, key, chars, keep, c) ==
    [frames |-> fs, in_string |-> TRUE, escape |-> esc, is_key |-> key, chars |-> chars,
     keep |-> keep, opened |-> c.opened, last_found |-> c.last_found, found |-> c.found]

At(fs, c) == {Between(fs, key, c) : key \in BOOLEAN}
Inside(fs, value, c) == UNION {At(Append(fs, InObject(key, value)), c) : key \in Seq(Chars)}

Under(fs) == fs[1].kind = "object" /\ fs[1].key = <<"steps">> /\ fs[2].kind = "array"
InSteps(fs) == Len(fs) = 2 /\ Under(fs)
StepOpened(fs, c) == IF InSteps(fs) THEN [c EXCEPT !.opened = @ + 1] ELSE c

LEMMA ExtendsSelf == ASSUME NEW s PROVE s \in Seq([index : Nat, code : Seq(Chars)]) => Extends(s, s)
BY DEF Extends

LEMMA SignsAreChars == Signs \subseteq Chars /\ Words \subseteq Chars
BY DEF Chars

\* One character that finds nothing.
LEMMA ReadsOne ==
    ASSUME NEW c \in Chars, NEW Z, NEW W,
           \A z \in Z : /\ z.found \in Seq([index : Nat, code : Seq(Chars)])
                        /\ feed(z, c) \in W /\ feed(z, c).found = z.found
    PROVE  Reads(<<c>>, Z, W)
<1>1. <<c>> \in Seq(Chars)
  OBVIOUS
<1>2. ASSUME NEW z \in Z PROVE RunBetween(<<c>>, z, feed(z, c))
  BY ExtendsSelf, RunOne
<1> QED
  BY <1>1, <1>2 DEF Reads

LEMMA PushIs ==
    ASSUME NEW fs \in Seq(Frame), NEW x \in Frame
    PROVE  /\ Append(fs, x) \in Seq(Frame) /\ Append(fs, x) # <<>>
           /\ Len(Append(fs, x)) = Len(fs) + 1
           /\ Last(Append(fs, x)) = x /\ Append(fs, x)[Len(Append(fs, x))] = x
           /\ Front(Append(fs, x)) = fs
           /\ \A y \in Frame : [Append(fs, x) EXCEPT ![Len(Append(fs, x))] = y] = Append(fs, y)
<1> DEFINE a == Append(fs, x)
           n == Len(fs)
<1>1. /\ a \in Seq(Frame) /\ Len(a) = n + 1 /\ n \in Nat /\ DOMAIN a = 1..n + 1
      /\ a[n + 1] = x /\ \A i \in 1..n : a[i] = fs[i]
  OBVIOUS
<1>2. a # <<>>
  BY <1>1
<1>3. Last(a) = x /\ a[Len(a)] = x
  BY <1>1 DEF Last
<1>4. Front(a) = fs
  <2>1. Front(a) = SubSeq(a, 1, n)
    BY <1>1 DEF Front
  <2>2. SubSeq(a, 1, n) = fs
    OBVIOUS
  <2> QED
    BY <2>1, <2>2
<1>5. ASSUME NEW y \in Frame PROVE [a EXCEPT ![Len(a)] = y] = Append(fs, y)
  <2> DEFINE b == Append(fs, y)
             d == [a EXCEPT ![n + 1] = y]
  <2>1. b \in Seq(Frame) /\ Len(b) = n + 1 /\ b[n + 1] = y /\ \A i \in 1..n : b[i] = fs[i]
    OBVIOUS
  <2> HIDE DEF b, a, n
  <2>2. d \in Seq(Frame) /\ Len(d) = n + 1 /\ d[n + 1] = y /\ \A i \in 1..n : d[i] = fs[i]
    <3>1. d \in [1..n + 1 -> Frame]
      BY <1>1
    <3>2. d \in Seq(Frame) /\ Len(d) = n + 1
      <4> HIDE DEF d
      <4> QED
        BY <1>1, <3>1
    <3> QED
      BY <1>1, <3>2
  <2> HIDE DEF d
  <2>3. \A i \in 1..n + 1 : i \in 1..n \/ i = n + 1
    BY <1>1
  <2>4. \A i \in 1..n + 1 : b[i] = d[i]
    BY <2>1, <2>2, <2>3
  <2>5. b = d
    BY <2>1, <2>2, <2>4
  <2> QED
    BY <1>1, <2>5 DEF a, b, d, n
<1> QED
  BY <1>1, <1>2, <1>3, <1>4, <1>5

LEMMA FramesTyped ==
    /\ Object \in Frame /\ Array \in Frame /\ Object = InObject(<<>>, FALSE)
    /\ <<>> \in Seq(Chars)
    /\ \A key \in Seq(Chars), v \in BOOLEAN : InObject(key, v) \in Frame
BY DEF Object, Array, InObject, Frame

LEMMA BetweenFound ==
    ASSUME NEW fs, NEW key, NEW c \in Counts
    PROVE  /\ Between(fs, key, c).found = c.found
           /\ c.found \in Seq([index : Nat, code : Seq(Chars)])
BY DEF Between, Counts

\* What a set of states between tokens has.
LEMMA AtIs ==
    ASSUME NEW fs, NEW c \in Counts, NEW z \in At(fs, c)
    PROVE  \E key \in BOOLEAN : z = Between(fs, key, c)
BY DEF At

LEMMA InsideIs ==
    ASSUME NEW fs, NEW v, NEW c, NEW z \in Inside(fs, v, c)
    PROVE  \E key \in Seq(Chars) : z \in At(Append(fs, InObject(key, v)), c)
BY DEF Inside

LEMMA CountsAre ==
    ASSUME NEW fs, NEW c \in Counts
    PROVE  StepOpened(fs, c) \in Counts /\ StepOpened(fs, c).found = c.found
BY DEF StepOpened, Counts

LEMMA ReadsObject ==
    ASSUME NEW fs \in Seq(Frame), NEW c \in Counts
    PROVE  Reads(<<"ObjectStart">>, At(fs, c), Inside(fs, FALSE, StepOpened(fs, c)))
<1> SUFFICES ASSUME NEW z \in At(fs, c)
             PROVE  /\ z.found \in Seq([index : Nat, code : Seq(Chars)])
                    /\ feed(z, "ObjectStart") \in Inside(fs, FALSE, StepOpened(fs, c)) /\ feed(z, "ObjectStart").found = z.found
  <2>1. "ObjectStart" \in Chars
    BY SignsAreChars DEF Signs
  <2> QED
    BY <2>1, ReadsOne
<1>1. PICK key \in BOOLEAN : z = Between(fs, key, c)
  BY AtIs
<1>2. feed(z, "ObjectStart") = [z EXCEPT !.frames = Append(@, Object),
                               !.opened = IF _in_steps_array(z) THEN @ + 1 ELSE @]
  BY <1>1 DEF feed, Between
<1>3. _in_steps_array(z) <=> InSteps(fs)
  BY <1>1 DEF _in_steps_array, UnderSteps, InSteps, Under, Between
<1> DEFINE d == StepOpened(fs, c)
<1>4. /\ d.found = c.found /\ d.last_found = c.last_found
      /\ d.opened = IF InSteps(fs) THEN c.opened + 1 ELSE c.opened
  BY DEF StepOpened, Counts
<1>5. feed(z, "ObjectStart") = Between(Append(fs, Object), key, d)
  BY <1>1, <1>2, <1>3, <1>4 DEF Between
<1> HIDE DEF d
<1>6. Between(Append(fs, Object), key, d) \in At(Append(fs, InObject(<<>>, FALSE)), d)
  BY FramesTyped DEF At
<1>7. feed(z, "ObjectStart") \in Inside(fs, FALSE, d)
  BY <1>5, <1>6, FramesTyped DEF Inside
<1> QED
  <2>1. z.found = c.found /\ c.found \in Seq([index : Nat, code : Seq(Chars)])
    BY <1>1, BetweenFound
  <2>2. d \in Counts
    BY CountsAre DEF d
  <2>3. feed(z, "ObjectStart").found = d.found
    BY <1>5, <2>2, BetweenFound
  <2> QED
    BY <1>4, <1>7, <2>1, <2>3 DEF d

LEMMA ReadsArray ==
    ASSUME NEW fs \in Seq(Frame), NEW c \in Counts
    PROVE  Reads(<<"ArrayStart">>, At(fs, c), At(Append(fs, Array), c))
<1> SUFFICES ASSUME NEW z \in At(fs, c)
             PROVE  /\ z.found \in Seq([index : Nat, code : Seq(Chars)])
                    /\ feed(z, "ArrayStart") \in At(Append(fs, Array), c) /\ feed(z, "ArrayStart").found = z.found
  <2>1. "ArrayStart" \in Chars
    BY SignsAreChars DEF Signs
  <2> QED
    BY <2>1, ReadsOne
<1>1. PICK key \in BOOLEAN : z = Between(fs, key, c)
  BY AtIs
<1>2. feed(z, "ArrayStart") = [z EXCEPT !.frames = Append(@, Array)]
  BY <1>1 DEF feed, Between
<1>3. feed(z, "ArrayStart") = Between(Append(fs, Array), key, c)
  BY <1>1, <1>2 DEF Between
<1>4. Between(Append(fs, Array), key, c) \in At(Append(fs, Array), c)
  BY DEF At
<1> QED
  <2>1. z.found = c.found /\ c.found \in Seq([index : Nat, code : Seq(Chars)])
    BY <1>1, BetweenFound
  <2>2. feed(z, "ArrayStart").found = c.found
    BY <1>3, BetweenFound
  <2> QED
    BY <1>3, <1>4, <2>1, <2>2

\* The end of an object or of an array.
LEMMA ReadsEnd ==
    ASSUME NEW fs \in Seq(Frame), NEW x \in Frame, NEW c \in Counts, NEW sign \in {"ObjectEnd", "ArrayEnd"}
    PROVE  Reads(<<sign>>, At(Append(fs, x), c), At(fs, c))
<1> SUFFICES ASSUME NEW z \in At(Append(fs, x), c)
             PROVE  /\ z.found \in Seq([index : Nat, code : Seq(Chars)])
                    /\ feed(z, sign) \in At(fs, c) /\ feed(z, sign).found = z.found
  <2>1. sign \in Chars
    BY SignsAreChars DEF Signs
  <2> QED
    BY <2>1, ReadsOne
<1> DEFINE a == Append(fs, x)
<1>1. PICK key \in BOOLEAN : z = Between(a, key, c)
  BY AtIs
<1>2. a # <<>> /\ Front(a) = fs
  BY PushIs
<1> HIDE DEF a
<1>3. feed(z, sign) = [z EXCEPT !.frames = IF @ = <<>> THEN @ ELSE Front(@)]
  BY <1>1 DEF feed, Between
<1>4. feed(z, sign) = Between(fs, key, c)
  BY <1>1, <1>2, <1>3 DEF Between
<1>5. Between(fs, key, c) \in At(fs, c)
  BY DEF At
<1> QED
  <2>1. z.found = c.found /\ c.found \in Seq([index : Nat, code : Seq(Chars)])
    BY <1>1, BetweenFound
  <2>2. feed(z, sign).found = c.found
    BY <1>4, BetweenFound
  <2> QED
    BY <1>4, <1>5, <2>1, <2>2

LEMMA ReadsObjectEnd ==
    ASSUME NEW fs \in Seq(Frame), NEW v \in BOOLEAN, NEW c \in Counts
    PROVE  Reads(<<"ObjectEnd">>, Inside(fs, v, c), At(fs, c))
<1>1. <<"ObjectEnd">> \in Seq(Chars)
  <2>1. "ObjectEnd" \in Chars
    BY SignsAreChars DEF Signs
  <2> QED
    BY <2>1
<1>2. ASSUME NEW z \in Inside(fs, v, c) PROVE \E w \in At(fs, c) : RunBetween(<<"ObjectEnd">>, z, w)
  <2>1. PICK key \in Seq(Chars) : z \in At(Append(fs, InObject(key, v)), c)
    BY InsideIs
  <2>2. InObject(key, v) \in Frame
    BY FramesTyped
  <2>3. Reads(<<"ObjectEnd">>, At(Append(fs, InObject(key, v)), c), At(fs, c))
    BY <2>2, ReadsEnd
  <2> QED
    BY <2>1, <2>3 DEF Reads
<1> QED
  BY <1>1, <1>2 DEF Reads

\* A colon and a comma in an object say whether a value comes next.
LEMMA ReadsTurn ==
    ASSUME NEW fs \in Seq(Frame), NEW key \in Seq(Chars), NEW v \in BOOLEAN, NEW c \in Counts
    PROVE  /\ Reads(<<"Colon">>, At(Append(fs, InObject(key, v)), c), At(Append(fs, InObject(key, TRUE)), c))
           /\ Reads(<<"Comma">>, At(Append(fs, InObject(key, v)), c), At(Append(fs, InObject(key, FALSE)), c))
<1> DEFINE x == InObject(key, v)
           a == Append(fs, x)
<1>1. x \in Frame /\ x.kind = "object" /\ InObject(key, TRUE) \in Frame /\ InObject(key, FALSE) \in Frame
      /\ \A b \in BOOLEAN : [x EXCEPT !.value = b] = InObject(key, b)
  <2>1. InObject(key, v) \in Frame /\ InObject(key, TRUE) \in Frame /\ InObject(key, FALSE) \in Frame
    BY FramesTyped
  <2> QED
    BY <2>1 DEF InObject
<1>2. /\ a # <<>> /\ Last(a) = x /\ a[Len(a)] = x
      /\ \A y \in Frame : [a EXCEPT ![Len(a)] = y] = Append(fs, y)
  BY <1>1, PushIs
<1>3. Len(a) \in DOMAIN a
  BY <1>1
<1> HIDE DEF a, x
<1>4. ASSUME NEW z \in At(a, c), NEW b \in BOOLEAN, NEW sign \in {"Colon", "Comma"}, b = (sign = "Colon")
      PROVE  /\ z.found \in Seq([index : Nat, code : Seq(Chars)])
             /\ feed(z, sign) \in At(Append(fs, InObject(key, b)), c) /\ feed(z, sign).found = z.found
  <2>1. PICK k \in BOOLEAN : z = Between(a, k, c)
    BY AtIs
  <2>2. _top_object(z) /\ z.frames = a /\ z.in_string = FALSE
    BY <1>1, <1>2, <2>1 DEF _top_object, Top, Between
  <2>3. feed(z, sign) = [z EXCEPT !.frames[Len(z.frames)].value = b]
    <3>1. CASE sign = "Colon"
      BY <1>4, <2>2, <3>1 DEF feed
    <3>2. CASE sign = "Comma"
      BY <1>4, <2>2, <3>2 DEF feed
    <3> QED
      BY <3>1, <3>2
  <2>4. feed(z, sign) = [z EXCEPT !.frames = [a EXCEPT ![Len(a)] = [a[Len(a)] EXCEPT !.value = b]]]
    BY <2>2, <2>3
  <2>5. [a EXCEPT ![Len(a)] = [a[Len(a)] EXCEPT !.value = b]] = Append(fs, InObject(key, b))
    BY <1>1, <1>2
  <2>6. feed(z, sign) = Between(Append(fs, InObject(key, b)), k, c)
    BY <2>1, <2>4, <2>5 DEF Between
  <2>7. Between(Append(fs, InObject(key, b)), k, c) \in At(Append(fs, InObject(key, b)), c)
    BY DEF At
  <2> QED
    <3>1. z.found = c.found /\ c.found \in Seq([index : Nat, code : Seq(Chars)])
      BY <2>1, BetweenFound
    <3>2. feed(z, sign).found = c.found
      BY <2>6, BetweenFound
    <3> QED
      BY <2>6, <2>7, <3>1, <3>2
<1>5. "Colon" \in Chars /\ "Comma" \in Chars
  BY SignsAreChars DEF Signs
<1>6. Reads(<<"Colon">>, At(a, c), At(Append(fs, InObject(key, TRUE)), c))
  BY <1>4, <1>5, ReadsOne
<1>7. Reads(<<"Comma">>, At(a, c), At(Append(fs, InObject(key, FALSE)), c))
  BY <1>4, <1>5, ReadsOne
<1> QED
  BY <1>6, <1>7 DEF a, x

----------------------------------------------------------------------------
(* Strings *)

KeyNext(fs) == fs # <<>> /\ Last(fs).kind = "object" /\ ~Last(fs).value
StepCode(fs) ==
    /\ Len(fs) = 3 /\ Under(fs)
    /\ Last(fs).kind = "object" /\ Last(fs).key = <<"code">> /\ Last(fs).value

LEMMA WithinFound ==
    ASSUME NEW fs, NEW esc, NEW key, NEW chars, NEW keep, NEW c \in Counts
    PROVE  /\ Within(fs, esc, key, chars, keep, c).found = c.found
           /\ c.found \in Seq([index : Nat, code : Seq(Chars)])
BY DEF Within, Counts

LEMMA StringStarts ==
    ASSUME NEW fs, NEW k \in BOOLEAN, NEW c, NEW key \in BOOLEAN, NEW keep \in BOOLEAN,
           key <=> KeyNext(fs), keep <=> (key \/ StepCode(fs))
    PROVE  feed(Between(fs, k, c), "Quote") = Within(fs, FALSE, key, <<>>, keep, c)
<1> DEFINE z == Between(fs, k, c)
<1>1. feed(z, "Quote") = _start_string(z)
  BY DEF feed, Between
<1>2. (_top_object(z) /\ ~Top(z).value) = key
  BY DEF Between, _top_object, Top, KeyNext
<1>3. _at_step_code(z) <=> StepCode(fs)
  BY DEF Between, _at_step_code, StepCode, UnderSteps, Under, Top
<1>4. (key \/ _at_step_code(z)) = keep
  BY <1>3
<1>5. _start_string(z) = [z EXCEPT !.in_string = TRUE, !.is_key = key, !.chars = <<>>, !.keep = keep]
  BY <1>2, <1>4 DEF _start_string
<1> QED
  BY <1>1, <1>5 DEF Between, Within

LEMMA StringGoesOn ==
    ASSUME NEW fs, NEW key, NEW chars, NEW keep \in BOOLEAN, NEW c, NEW w, w \notin {"Quote", "Escape"}
    PROVE  feed(Within(fs, FALSE, key, chars, keep, c), w) =
             Within(fs, FALSE, key, IF keep THEN Append(chars, w) ELSE chars, keep, c)
BY DEF feed, Within, _read_string_char

LEMMA StringEscapes ==
    ASSUME NEW fs, NEW key, NEW chars, NEW c, NEW w
    PROVE  /\ feed(Within(fs, FALSE, key, chars, FALSE, c), "Escape") = Within(fs, TRUE, key, chars, FALSE, c)
           /\ feed(Within(fs, TRUE, key, chars, FALSE, c), w) = Within(fs, FALSE, key, chars, FALSE, c)
BY DEF feed, Within, _read_string_char

LEMMA StringEnds ==
    ASSUME NEW fs, NEW key \in BOOLEAN, NEW chars, NEW keep \in BOOLEAN, NEW c
    PROVE  feed(Within(fs, FALSE, key, chars, keep, c), "Quote") =
             _end_string(Within(fs, FALSE, key, chars, keep, c))
BY DEF feed, Within, _read_string_char

\* A word in three characters.
LEMMA RunWord ==
    ASSUME NEW w \in Words, NEW z, NEW a, NEW b, NEW d,
           feed(z, "Quote") = a, feed(a, w) = b, feed(b, "Quote") = d,
           {z.found, a.found, b.found, d.found} \subseteq Seq([index : Nat, code : Seq(Chars)]),
           a.found = z.found, b.found = z.found, Extends(d.found, z.found)
    PROVE  Word(w) \in Seq(Chars) /\ RunBetween(Word(w), z, d)
<1>1. "Quote" \in Chars /\ w \in Chars
  BY SignsAreChars DEF Signs
<1>2. <<"Quote">> \in Seq(Chars) /\ <<w>> \in Seq(Chars) /\ <<"Quote">> \o <<w>> \in Seq(Chars)
  BY <1>1
<1>3. Extends(a.found, z.found) /\ Extends(b.found, a.found) /\ Extends(d.found, b.found)
  BY ExtendsSelf
<1>4. RunBetween(<<"Quote">>, z, a) /\ RunBetween(<<w>>, a, b) /\ RunBetween(<<"Quote">>, b, d)
  BY <1>3, RunOne
<1>5. RunBetween(<<"Quote">> \o <<w>>, z, b)
  BY <1>2, <1>4, RunJoin
<1>6. RunBetween((<<"Quote">> \o <<w>>) \o <<"Quote">>, z, d)
  BY <1>2, <1>4, <1>5, RunJoin
<1>7. Word(w) = (<<"Quote">> \o <<w>>) \o <<"Quote">>
  BY DEF Word
<1> QED
  BY <1>2, <1>6, <1>7

LEMMA WordIsText ==
    ASSUME NEW w \in Words
    PROVE  w \notin {"Quote", "Escape"} /\ w \in Chars /\ <<w>> \in Seq(Chars)
BY WordsAreNoSigns, SignsAreChars DEF Signs

LEMMA KeyChanges ==
    ASSUME NEW key, NEW k, NEW v
    PROVE  [InObject(key, v) EXCEPT !.key = k] = InObject(k, v)
BY DEF InObject

\* A string before the colon is its object's key.
LEMMA ReadsKey ==
    ASSUME NEW fs \in Seq(Frame), NEW c \in Counts, NEW w \in Words
    PROVE  Reads(Word(w), Inside(fs, FALSE, c), At(Append(fs, InObject(<<w>>, FALSE)), c))
<1>1. ASSUME NEW z \in Inside(fs, FALSE, c)
      PROVE  /\ Word(w) \in Seq(Chars)
             /\ \E y \in At(Append(fs, InObject(<<w>>, FALSE)), c) : RunBetween(Word(w), z, y)
  <2>1. PICK key \in Seq(Chars) : z \in At(Append(fs, InObject(key, FALSE)), c)
    BY InsideIs
  <2> DEFINE x == InObject(key, FALSE)
             f == Append(fs, x)
  <2>2. PICK k \in BOOLEAN : z = Between(f, k, c)
    BY <2>1, AtIs
  <2>3. x \in Frame /\ x.kind = "object" /\ x.value = FALSE /\ [x EXCEPT !.key = <<w>>] = InObject(<<w>>, FALSE)
        /\ InObject(<<w>>, FALSE) \in Frame
    <3>1. <<w>> \in Seq(Chars)
      BY WordIsText
    <3>2. x \in Frame /\ InObject(<<w>>, FALSE) \in Frame
      <4>1. ASSUME NEW k2 \in Seq(Chars) PROVE InObject(k2, FALSE) \in Frame
        BY FramesTyped
      <4>2. x \in Frame
        BY <4>1
      <4> QED
        BY <3>1, <4>1, <4>2, Zenon
    <3>3. [x EXCEPT !.key = <<w>>] = InObject(<<w>>, FALSE)
      <4>1. PICK wd, no : wd = <<w>> /\ no = FALSE
        OBVIOUS
      <4>2. [InObject(key, no) EXCEPT !.key = wd] = InObject(wd, no)
        BY KeyChanges
      <4> QED
        BY <4>1, <4>2
    <3>4. x.kind = "object" /\ x.value = FALSE
      BY DEF InObject
    <3> QED
      BY <3>2, <3>3, <3>4
  <2>4. /\ f # <<>> /\ Last(f) = x /\ f[Len(f)] = x
        /\ \A y \in Frame : [f EXCEPT ![Len(f)] = y] = Append(fs, y)
    BY <2>3, PushIs
  <2> HIDE DEF f, x
  <2>5. KeyNext(f)
    BY <2>3, <2>4 DEF KeyNext
  <2> DEFINE a == Within(f, FALSE, TRUE, <<>>, TRUE, c)
             b == Within(f, FALSE, TRUE, <<w>>, TRUE, c)
             d == Between(Append(fs, InObject(<<w>>, FALSE)), TRUE, c)
  <2>6. feed(z, "Quote") = a
    BY <2>2, <2>5, StringStarts
  <2>7. feed(a, w) = b
    <3>1. Append(<<>>, w) = <<w>>
      OBVIOUS
    <3>2. w # "Quote" /\ w # "Escape"
      BY WordIsText
    <3> QED
      BY <3>1, <3>2 DEF feed, Within, _read_string_char
  <2>8. feed(b, "Quote") = d
    <3>1. feed(b, "Quote") = _end_string(b)
      BY DEF feed, Within, _read_string_char
    <3>2. PICK y : y = [b EXCEPT !.in_string = FALSE, !.keep = FALSE, !.chars = <<>>]
      OBVIOUS
    <3> PICK yes \in BOOLEAN : yes = TRUE
      OBVIOUS
    <3> PICK wd : wd = <<w>>
      OBVIOUS
    <3>3. y = Between(f, yes, c)
      <4>1. b = Within(f, FALSE, yes, wd, yes, c)
        OBVIOUS
      <4> HIDE DEF b
      <4> QED
        BY <3>2, <4>1 DEF Within, Between
    <3>4. b.is_key = TRUE /\ b.frames = f /\ b.chars = <<w>> /\ y.frames = f
      BY <3>3 DEF Within, Between
    <3> HIDE DEF b
    <3>5. _end_string(b) = [y EXCEPT !.frames[Len(f)].key = <<w>>]
      BY <3>2, <3>4 DEF _end_string
    <3>6. [y EXCEPT !.frames[Len(f)].key = <<w>>] =
            [y EXCEPT !.frames = [f EXCEPT ![Len(f)] = [f[Len(f)] EXCEPT !.key = <<w>>]]]
      BY <3>4
    <3>7. [f EXCEPT ![Len(f)] = [f[Len(f)] EXCEPT !.key = <<w>>]] = Append(fs, InObject(<<w>>, FALSE))
      BY <2>3, <2>4
    <3>8. [y EXCEPT !.frames = Append(fs, InObject(<<w>>, FALSE))] = d
      <4>1. PICK u : u = [y EXCEPT !.frames = Append(fs, InObject(<<w>>, FALSE))]
        OBVIOUS
      <4>2. u = Between(Append(fs, InObject(<<w>>, FALSE)), yes, c)
        BY <3>3, <4>1 DEF Between
      <4> QED
        BY <4>1, <4>2
    <3> QED
      BY <3>1, <3>5, <3>6, <3>7, <3>8
  <2>9. /\ z.found = c.found /\ a.found = c.found /\ b.found = c.found /\ d.found = c.found
        /\ c.found \in Seq([index : Nat, code : Seq(Chars)])
    <3>1. z.found = c.found /\ d.found = c.found /\ c.found \in Seq([index : Nat, code : Seq(Chars)])
      BY <2>2, BetweenFound
    <3>2. a.found = c.found /\ b.found = c.found
      BY DEF Within
    <3> QED
      BY <3>1, <3>2
  <2>10. d \in At(Append(fs, InObject(<<w>>, FALSE)), c)
    BY DEF At
  <2> HIDE DEF a, b, d
  <2>11. Extends(d.found, z.found)
    BY <2>9, ExtendsSelf
  <2>12. Word(w) \in Seq(Chars) /\ RunBetween(Word(w), z, d)
    BY <2>6, <2>7, <2>8, <2>9, <2>11, RunWord
  <2> QED
    BY <2>10, <2>12
<1>2. Word(w) \in Seq(Chars)
  <2>1. "Quote" \in Chars /\ w \in Chars
    BY SignsAreChars DEF Signs
  <2> QED
    BY <2>1 DEF Word
<1> QED
  BY <1>1, <1>2 DEF Reads

\* A string that is no key and no step's code leaves everything as it was.
LEMMA ReadsValue ==
    ASSUME NEW f \in Seq(Frame), ~KeyNext(f), ~StepCode(f), NEW c \in Counts, NEW w \in Words
    PROVE  Reads(Word(w), At(f, c), At(f, c))
<1>1. ASSUME NEW z \in At(f, c) PROVE \E y \in At(f, c) : RunBetween(Word(w), z, y)
  <2>1. PICK k \in BOOLEAN : z = Between(f, k, c)
    BY AtIs
  <2> PICK no \in BOOLEAN : no = FALSE
    OBVIOUS
  <2> PICK nil : nil = <<>>
    OBVIOUS
  <2> DEFINE a == Within(f, FALSE, no, nil, no, c)
             d == Between(f, no, c)
  <2>2. feed(z, "Quote") = a
    <3>1. feed(z, "Quote") = Within(f, FALSE, no, <<>>, no, c)
      BY <2>1, StringStarts
    <3> QED
      BY <3>1, Zenon
  <2>3. feed(a, w) = a
    <3>1. w # "Quote" /\ w # "Escape"
      BY WordIsText
    <3> QED
      BY <3>1 DEF feed, Within, _read_string_char
  <2>4. feed(a, "Quote") = d
    <3>1. feed(a, "Quote") = _end_string(a)
      BY DEF feed, Within, _read_string_char
    <3>2. a.is_key = no /\ a.keep = no
      BY DEF Within
    <3>3. PICK y : y = [a EXCEPT !.in_string = FALSE, !.keep = FALSE, !.chars = <<>>]
      OBVIOUS
    <3>4. y = d
      BY <3>3 DEF Within, Between
    <3> HIDE DEF a, d
    <3>5. _end_string(a) = y
      BY <3>2, <3>3 DEF _end_string
    <3> QED
      BY <3>1, <3>4, <3>5
  <2>5. /\ z.found = c.found /\ a.found = c.found /\ d.found = c.found
        /\ c.found \in Seq([index : Nat, code : Seq(Chars)])
    <3>1. z.found = c.found /\ d.found = c.found /\ c.found \in Seq([index : Nat, code : Seq(Chars)])
      BY <2>1, BetweenFound
    <3>2. a.found = c.found
      BY DEF Within
    <3> QED
      BY <3>1, <3>2
  <2>6. d \in At(f, c)
    BY DEF At
  <2> HIDE DEF a, d
  <2>7. Extends(d.found, z.found)
    BY <2>5, ExtendsSelf
  <2>8. RunBetween(Word(w), z, d)
    BY <2>2, <2>3, <2>4, <2>5, <2>7, RunWord
  <2> QED
    BY <2>6, <2>8
<1>2. Word(w) \in Seq(Chars)
  <2>1. "Quote" \in Chars /\ w \in Chars
    BY SignsAreChars DEF Signs
  <2> QED
    BY <2>1 DEF Word
<1> QED
  BY <1>1, <1>2 DEF Reads

\* The counts after the code of a step, which is found once.
WithCode(c, w) ==
    IF c.opened > c.last_found
    THEN [opened |-> c.opened, last_found |-> c.opened,
          found |-> Append(c.found, [index |-> c.opened, code |-> <<w>>])]
    ELSE c

LEMMA WithCodeTyped ==
    ASSUME NEW c \in Counts, NEW w \in Words
    PROVE  WithCode(c, w) \in Counts /\ Extends(WithCode(c, w).found, c.found)
<1> DEFINE x == [index |-> c.opened, code |-> <<w>>]
           S == [index : Nat, code : Seq(Chars)]
<1>1. c.opened \in Nat /\ c.found \in Seq(S) /\ <<w>> \in Seq(Chars)
  BY WordIsText DEF Counts
<1>2. x \in S
  BY <1>1
<1> HIDE DEF x
<1>3. PICK fd : fd = Append(c.found, x)
  OBVIOUS
<1>4. fd \in Seq(S) /\ Extends(fd, c.found)
  BY <1>1, <1>2, <1>3 DEF Extends
<1>5. WithCode(c, w) = IF c.opened > c.last_found
                       THEN [opened |-> c.opened, last_found |-> c.opened, found |-> fd] ELSE c
  BY <1>3 DEF WithCode, x
<1>6. Extends(c.found, c.found)
  BY <1>1, ExtendsSelf
<1> QED
  BY <1>1, <1>4, <1>5, <1>6 DEF Counts

LEMMA CodeStarts ==
    ASSUME NEW f, ~KeyNext(f), StepCode(f), NEW k \in BOOLEAN, NEW c,
           NEW no \in BOOLEAN, NEW yes \in BOOLEAN, ~no, yes
    PROVE  feed(Between(f, k, c), "Quote") = Within(f, FALSE, no, <<>>, yes, c)
<1> DEFINE z == Between(f, k, c)
<1>1. feed(z, "Quote") = _start_string(z)
  BY DEF feed, Between
<1>2. (_top_object(z) /\ ~Top(z).value) = no
  BY DEF Between, _top_object, Top, KeyNext
<1>3. _at_step_code(z)
  BY DEF Between, _at_step_code, StepCode, UnderSteps, Under, Top
<1>4. (no \/ _at_step_code(z)) = yes
  BY <1>3
<1>5. _start_string(z) = [z EXCEPT !.in_string = TRUE, !.is_key = no, !.chars = <<>>, !.keep = yes]
  BY <1>2, <1>4 DEF _start_string
<1> QED
  BY <1>1, <1>5 DEF Between, Within

LEMMA ReadsCode ==
    ASSUME NEW f \in Seq(Frame), ~KeyNext(f), StepCode(f), NEW c \in Counts, NEW w \in Words
    PROVE  Reads(Word(w), At(f, c), At(f, WithCode(c, w)))
<1> DEFINE e == WithCode(c, w)
<1>0. e \in Counts /\ Extends(e.found, c.found)
  BY WithCodeTyped
<1>1. ASSUME NEW z \in At(f, c) PROVE \E y \in At(f, e) : RunBetween(Word(w), z, y)
  <2>1. PICK k \in BOOLEAN : z = Between(f, k, c)
    BY AtIs
  <2> PICK no \in BOOLEAN, yes \in BOOLEAN : no = FALSE /\ yes = TRUE
    OBVIOUS
  <2> PICK nil, wd : nil = <<>> /\ wd = <<w>>
    OBVIOUS
  <2> DEFINE a == Within(f, FALSE, no, nil, yes, c)
             b == Within(f, FALSE, no, wd, yes, c)
             d == Between(f, no, e)
  <2> HIDE DEF e
  <2>2. feed(z, "Quote") = a
    <3>1. ~no /\ yes
      OBVIOUS
    <3>2. feed(Between(f, k, c), "Quote") = Within(f, FALSE, no, <<>>, yes, c)
      BY <3>1, CodeStarts
    <3> QED
      BY <2>1, <3>2
  <2>3. feed(a, w) = b
    <3>1. w # "Quote" /\ w # "Escape"
      BY WordIsText
    <3>2. Append(<<>>, w) = <<w>>
      OBVIOUS
    <3> QED
      BY <3>1, <3>2 DEF feed, Within, _read_string_char
  <2>4. feed(b, "Quote") = d
    <3>1. feed(b, "Quote") = _end_string(b)
      BY DEF feed, Within, _read_string_char
    <3>2. /\ b.is_key = no /\ b.keep = yes /\ b.opened = c.opened /\ b.last_found = c.last_found
          /\ b.chars = wd
      BY DEF Within
    <3>3. PICK y : y = [b EXCEPT !.in_string = FALSE, !.keep = FALSE, !.chars = <<>>]
      OBVIOUS
    <3>4. y = Between(f, no, c)
      BY <3>3 DEF Within, Between
    <3> HIDE DEF b
    <3>5. CASE c.opened > c.last_found
      <4>1. PICK x : x = [index |-> c.opened, code |-> wd]
        OBVIOUS
      <4>2. _end_string(b) = [y EXCEPT !.last_found = c.opened, !.found = Append(@, x)]
        BY <3>2, <3>3, <3>5, <4>1 DEF _end_string
      <4>3. PICK u : u = [y EXCEPT !.last_found = c.opened, !.found = Append(@, x)]
        OBVIOUS
      <4>4. e.opened = c.opened /\ e.last_found = c.opened /\ e.found = Append(c.found, x)
        BY <3>5, <4>1 DEF e, WithCode
      <4>5. u = d
        BY <3>4, <4>3, <4>4 DEF Between
      <4> QED
        BY <3>1, <4>2, <4>3, <4>5
    <3>6. CASE ~(c.opened > c.last_found)
      <4>1. _end_string(b) = y
        BY <3>2, <3>3, <3>6 DEF _end_string
      <4>2. e = c
        BY <3>6 DEF e, WithCode
      <4> QED
        BY <3>1, <3>4, <4>1, <4>2
    <3> QED
      BY <3>5, <3>6
  <2>5. /\ z.found = c.found /\ a.found = c.found /\ b.found = c.found /\ d.found = e.found
        /\ c.found \in Seq([index : Nat, code : Seq(Chars)])
        /\ e.found \in Seq([index : Nat, code : Seq(Chars)])
    <3>1. z.found = c.found /\ c.found \in Seq([index : Nat, code : Seq(Chars)])
      BY <2>1, BetweenFound
    <3>2. d.found = e.found /\ e.found \in Seq([index : Nat, code : Seq(Chars)])
      BY <1>0, BetweenFound
    <3>3. a.found = c.found /\ b.found = c.found
      BY DEF Within
    <3> QED
      BY <3>1, <3>2, <3>3
  <2>6. d \in At(f, e)
    BY DEF At
  <2> HIDE DEF a, b, d
  <2>7. Extends(d.found, z.found)
    BY <1>0, <2>5
  <2>8. RunBetween(Word(w), z, d)
    BY <2>2, <2>3, <2>4, <2>5, <2>7, RunWord
  <2> QED
    BY <2>6, <2>8
<1>2. Word(w) \in Seq(Chars)
  <2>1. "Quote" \in Chars /\ w \in Chars
    BY SignsAreChars DEF Signs
  <2> QED
    BY <2>1 DEF Word
<1> QED
  BY <1>1, <1>2 DEF Reads


----------------------------------------------------------------------------
(* Strings that are skipped *)

Skipping(f, esc, c) == {Within(f, esc, no, <<>>, no, c) : no \in {FALSE}}

LEMMA SkippingIs ==
    ASSUME NEW f, NEW esc, NEW c, NEW z \in Skipping(f, esc, c)
    PROVE  \E no \in BOOLEAN : no = FALSE /\ z = Within(f, esc, no, <<>>, no, c)
BY Zenon DEF Skipping

LEMMA SkippingFound ==
    ASSUME NEW f, NEW esc, NEW c \in Counts, NEW z \in Skipping(f, esc, c)
    PROVE  z.found = c.found /\ c.found \in Seq([index : Nat, code : Seq(Chars)])
<1>1. PICK no : z = Within(f, esc, no, <<>>, no, c)
  BY SkippingIs
<1>2. z.found = c.found
  <2>1. Within(f, esc, no, <<>>, no, c).found = c.found
    BY WithinFound
  <2> QED
    BY <1>1, <2>1, Zenon
<1> QED
  BY <1>2 DEF Counts

LEMMA SkipStarts ==
    ASSUME NEW f \in Seq(Frame), ~KeyNext(f), ~StepCode(f), NEW c \in Counts
    PROVE  Reads(<<"Quote">>, At(f, c), Skipping(f, FALSE, c))
<1>1. ASSUME NEW z \in At(f, c)
      PROVE  /\ z.found \in Seq([index : Nat, code : Seq(Chars)])
             /\ feed(z, "Quote") \in Skipping(f, FALSE, c) /\ feed(z, "Quote").found = z.found
  <2>1. PICK k \in BOOLEAN : z = Between(f, k, c)
    BY AtIs
  <2>2. PICK no \in BOOLEAN : no = FALSE
    OBVIOUS
  <2>3. (no <=> KeyNext(f)) /\ (no <=> (no \/ StepCode(f)))
    BY <2>2, Zenon
  <2>4. feed(Between(f, k, c), "Quote") = Within(f, FALSE, no, <<>>, no, c)
    BY <2>3, StringStarts
  <2>5. feed(z, "Quote") \in Skipping(f, FALSE, c)
    <3>1. Within(f, FALSE, no, <<>>, no, c) \in Skipping(f, FALSE, c)
      BY <2>2, Zenon DEF Skipping
    <3> QED
      BY <2>1, <2>4, <3>1, Zenon
  <2> QED
    <3>1. z.found = c.found /\ c.found \in Seq([index : Nat, code : Seq(Chars)])
      BY <2>1, BetweenFound
    <3>2. feed(z, "Quote").found = c.found
      BY <2>5, SkippingFound
    <3> QED
      BY <2>5, <3>1, <3>2
<1>2. "Quote" \in Chars
  BY SignsAreChars DEF Signs
<1> QED
  BY <1>1, <1>2, ReadsOne

LEMMA SkipGoesOn ==
    ASSUME NEW f, NEW c \in Counts, NEW w \in Chars, w \notin {"Quote", "Escape"}
    PROVE  Reads(<<w>>, Skipping(f, FALSE, c), Skipping(f, FALSE, c))
<1>1. ASSUME NEW z \in Skipping(f, FALSE, c)
      PROVE  z.found \in Seq([index : Nat, code : Seq(Chars)]) /\ feed(z, w) = z
  <2>1. PICK no \in BOOLEAN : no = FALSE /\ z = Within(f, FALSE, no, <<>>, no, c)
    BY SkippingIs
  <2>2. feed(z, w) = z
    BY <2>1 DEF feed, Within, _read_string_char
  <2> QED
    BY <2>2, SkippingFound
<1> QED
  BY <1>1, ReadsOne

LEMMA SkipEscapes ==
    ASSUME NEW f, NEW c \in Counts, NEW w \in Chars
    PROVE  /\ Reads(<<"Escape">>, Skipping(f, FALSE, c), Skipping(f, TRUE, c))
           /\ Reads(<<w>>, Skipping(f, TRUE, c), Skipping(f, FALSE, c))
<1>1. ASSUME NEW z \in Skipping(f, FALSE, c)
      PROVE  /\ z.found \in Seq([index : Nat, code : Seq(Chars)])
             /\ feed(z, "Escape") \in Skipping(f, TRUE, c) /\ feed(z, "Escape").found = z.found
  <2>1. PICK no \in BOOLEAN : no = FALSE /\ z = Within(f, FALSE, no, <<>>, no, c)
    BY SkippingIs
  <2>2. feed(z, "Escape") = Within(f, TRUE, no, <<>>, no, c)
    BY <2>1 DEF feed, Within, _read_string_char
  <2>3. feed(z, "Escape") \in Skipping(f, TRUE, c)
    BY <2>1, <2>2 DEF Skipping
  <2>4. z.found = c.found /\ c.found \in Seq([index : Nat, code : Seq(Chars)])
    BY SkippingFound
  <2>5. feed(z, "Escape").found = c.found
    BY <2>3, SkippingFound
  <2> QED
    BY <2>3, <2>4, <2>5
<1>2. ASSUME NEW z \in Skipping(f, TRUE, c)
      PROVE  /\ z.found \in Seq([index : Nat, code : Seq(Chars)])
             /\ feed(z, w) \in Skipping(f, FALSE, c) /\ feed(z, w).found = z.found
  <2>1. PICK no \in BOOLEAN : no = FALSE /\ z = Within(f, TRUE, no, <<>>, no, c)
    BY SkippingIs
  <2>2. feed(z, w) = Within(f, FALSE, no, <<>>, no, c)
    BY <2>1 DEF feed, Within, _read_string_char
  <2>3. feed(z, w) \in Skipping(f, FALSE, c)
    BY <2>1, <2>2 DEF Skipping
  <2>4. z.found = c.found /\ c.found \in Seq([index : Nat, code : Seq(Chars)])
    BY SkippingFound
  <2>5. feed(z, w).found = c.found
    BY <2>3, SkippingFound
  <2> QED
    BY <2>3, <2>4, <2>5
<1>3. "Escape" \in Chars
  BY SignsAreChars DEF Signs
<1>4. Reads(<<"Escape">>, Skipping(f, FALSE, c), Skipping(f, TRUE, c))
  BY <1>1, <1>3, ReadsOne
<1>5. Reads(<<w>>, Skipping(f, TRUE, c), Skipping(f, FALSE, c))
  BY <1>2, ReadsOne
<1> QED
  BY <1>4, <1>5

LEMMA SkipEnds ==
    ASSUME NEW f, NEW c \in Counts
    PROVE  Reads(<<"Quote">>, Skipping(f, FALSE, c), At(f, c))
<1>1. ASSUME NEW z \in Skipping(f, FALSE, c)
      PROVE  /\ z.found \in Seq([index : Nat, code : Seq(Chars)])
             /\ feed(z, "Quote") \in At(f, c) /\ feed(z, "Quote").found = z.found
  <2>1. PICK no \in BOOLEAN : no = FALSE /\ z = Within(f, FALSE, no, <<>>, no, c)
    BY SkippingIs
  <2>2. feed(z, "Quote") = _end_string(z)
    BY <2>1 DEF feed, Within, _read_string_char
  <2>3. PICK y : y = [z EXCEPT !.in_string = FALSE, !.keep = FALSE, !.chars = <<>>]
    OBVIOUS
  <2>4. y = Between(f, no, c)
    BY <2>1, <2>3 DEF Within, Between
  <2>5. _end_string(z) = y
    BY <2>1, <2>3 DEF _end_string, Within
  <2>6. feed(z, "Quote") = Between(f, no, c)
    BY <2>2, <2>4, <2>5
  <2>7. Between(f, no, c) \in At(f, c)
    BY DEF At
  <2> QED
    <3>1. z.found = c.found /\ c.found \in Seq([index : Nat, code : Seq(Chars)])
      BY SkippingFound
    <3>2. feed(z, "Quote").found = c.found
      BY <2>6, BetweenFound
    <3> QED
      BY <2>6, <2>7, <3>1, <3>2
<1>2. "Quote" \in Chars
  BY SignsAreChars DEF Signs
<1> QED
  BY <1>1, <1>2, ReadsOne

\* Texts put together.
LEMMA JoinIs ==
    ASSUME NEW S, NEW p \in Seq(S), NEW q \in Seq(S), NEW r \in Seq(S), Len(r) = Len(p) + Len(q),
           \A i \in 1..Len(p) : r[i] = p[i],
           \A i \in 1..Len(q) : r[Len(p) + i] = q[i]
    PROVE  p \o q = r
<1>0. Len(p) \in Nat /\ Len(q) \in Nat
  OBVIOUS
<1>1. PICK t, m, n : t = p \o q /\ m = Len(p) /\ n = Len(q)
  OBVIOUS
<1> m \in Nat /\ n \in Nat
  BY <1>0, <1>1
<1>2. /\ t \in Seq(S) /\ Len(t) = m + n
      /\ \A i \in 1..m : t[i] = p[i]
      /\ \A i \in 1..n : t[m + i] = q[i]
  BY <1>1
<1>3. \A i \in 1..m + n : i \in 1..m \/ \E j \in 1..n : i = m + j
  <2> SUFFICES ASSUME NEW i \in 1..m + n, i \notin 1..m PROVE i - m \in 1..n /\ i = m + (i - m)
    OBVIOUS
  <2> QED
    OBVIOUS
<1>4. \A i \in 1..m : r[i] = p[i]
  BY <1>1
<1>5. \A i \in 1..n : r[m + i] = q[i]
  BY <1>1
<1>6. ASSUME NEW i \in 1..m + n PROVE t[i] = r[i]
  <2>1. CASE i \in 1..m
    BY <1>2, <1>4, <2>1
  <2>2. CASE \E j \in 1..n : i = m + j
    <3>1. PICK j \in 1..n : i = m + j
      BY <2>2
    <3>2. t[m + j] = q[j] /\ r[m + j] = q[j]
      BY <1>2, <1>5
    <3> QED
      BY <3>1, <3>2
  <2> QED
    BY <1>3, <2>1, <2>2
<1>7. t = r
  BY <1>1, <1>2, <1>6
<1> QED
  BY <1>1, <1>7

LEMMA TwoIs ==
    ASSUME NEW a, NEW b
    PROVE  <<a>> \o <<b>> = <<a, b>>
<1>1. PICK S, p, q, r : S = {a, b} /\ p = <<a>> /\ q = <<b>> /\ r = <<a, b>>
  OBVIOUS
<1>2. /\ p \in Seq(S) /\ q \in Seq(S) /\ r \in Seq(S)
      /\ Len(p) = 1 /\ Len(q) = 1 /\ Len(r) = 2
      /\ r[1] = p[1] /\ r[2] = q[1]
  BY <1>1
<1>3. 1 + 1 = 2 /\ \A i \in 1..1 : i = 1
  OBVIOUS
<1>4. /\ Len(r) = Len(p) + Len(q)
      /\ \A i \in 1..Len(p) : r[i] = p[i]
      /\ \A i \in 1..Len(q) : r[Len(p) + i] = q[i]
  BY <1>2, <1>3
<1>5. p \o q = r
  BY <1>2, <1>4, JoinIs
<1> QED
  BY <1>1, <1>5

LEMMA SixAre ==
    ASSUME NEW q, NEW w, NEW e, NEW o
    PROVE  <<q, w, e, q, o, q>> = ((<<q>> \o <<w>>) \o <<e>>) \o ((<<q>> \o <<o>>) \o <<q>>)
<1>1. <<q, w, e, q, o, q>> = <<q, w, e>> \o <<q, o, q>>
  OBVIOUS
<1>2. <<q, w, e>> = <<q, w>> \o <<e>>
  OBVIOUS
<1>3. <<q, o, q>> = <<q, o>> \o <<q>>
  OBVIOUS
<1> QED
  BY <1>1, <1>2, <1>3, TwoIs, Zenon

\* A string with an escaped quote and a brace in it.
LEMMA ReadsEscaped ==
    ASSUME NEW f \in Seq(Frame), ~KeyNext(f), ~StepCode(f), NEW c \in Counts
    PROVE  Reads(Escaped, At(f, c), At(f, c))
<1> DEFINE S == Skipping(f, FALSE, c)
           T == Skipping(f, TRUE, c)
           A == At(f, c)
           x == (<<"Quote">> \o <<"x">>) \o <<"Escape">>
           y == (<<"Quote">> \o <<"ObjectStart">>) \o <<"Quote">>
<1>1. "x" \in Chars /\ "x" \notin {"Quote", "Escape"}
  <2>1. "x" \in Words
    BY DEF Words
  <2> QED
    BY <2>1, SignsAreChars
<1>2. {"Quote", "Escape", "ObjectStart"} \subseteq Chars /\ "ObjectStart" \notin {"Quote", "Escape"}
  BY SignsAreChars DEF Signs
<1>3. Reads(<<"Quote">>, A, S)
  BY SkipStarts
<1>4. Reads(<<"x">>, S, S)
  BY <1>1, SkipGoesOn
<1>5. Reads(<<"Escape">>, S, T)
  BY <1>1, SkipEscapes
<1>6. Reads(<<"Quote">>, T, S)
  BY <1>2, SkipEscapes
<1>7. Reads(<<"ObjectStart">>, S, S)
  BY <1>2, SkipGoesOn
<1>8. Reads(<<"Quote">>, S, A)
  BY SkipEnds
<1> HIDE DEF A, S, T
<1>9. Reads(<<"Quote">> \o <<"x">>, A, S)
  BY <1>3, <1>4, ReadsJoin
<1>10. Reads(x, A, T)
  BY <1>5, <1>9, ReadsJoin
<1>11. Reads(<<"Quote">> \o <<"ObjectStart">>, T, S)
  BY <1>6, <1>7, ReadsJoin
<1>12. Reads(y, T, A)
  BY <1>8, <1>11, ReadsJoin
<1>13. Escaped = x \o y
  <2>1. <<"Quote", "x", "Escape", "Quote", "ObjectStart", "Quote">> = x \o y
    BY SixAre
  <2> QED
    BY <2>1, Zenon DEF Escaped
<1> HIDE DEF x, y
<1>14. Reads(x \o y, A, A)
  BY <1>10, <1>12, ReadsJoin
<1> QED
  BY <1>13, <1>14 DEF A

----------------------------------------------------------------------------
(* The members of an object *)

LEMMA ReadsCommaInArray ==
    ASSUME NEW fs \in Seq(Frame), NEW c \in Counts
    PROVE  Reads(<<"Comma">>, At(Append(fs, Array), c), At(Append(fs, Array), c))
<1> DEFINE a == Append(fs, Array)
<1>1. Last(a) = Array /\ Array.kind = "array"
  <2>1. Array \in Frame
    BY FramesTyped
  <2> QED
    BY <2>1, PushIs DEF Array
<1> HIDE DEF a
<1>2. ASSUME NEW z \in At(a, c)
      PROVE  z.found \in Seq([index : Nat, code : Seq(Chars)]) /\ feed(z, "Comma") = z
  <2>1. PICK k \in BOOLEAN : z = Between(a, k, c)
    BY AtIs
  <2>2. ~_top_object(z)
    BY <1>1, <2>1 DEF _top_object, Top, Between
  <2>3. feed(z, "Comma") = z
    BY <2>1, <2>2 DEF feed, Between
  <2> QED
    BY <2>1, <2>3, BetweenFound
<1>3. "Comma" \in Chars
  BY SignsAreChars DEF Signs
<1>4. Reads(<<"Comma">>, At(a, c), At(a, c))
  BY <1>2, <1>3, ReadsOne
<1> QED
  BY <1>4 DEF a

LEMMA ReadsCommaInObject ==
    ASSUME NEW fs \in Seq(Frame), NEW v \in BOOLEAN, NEW c \in Counts
    PROVE  Reads(<<"Comma">>, Inside(fs, v, c), Inside(fs, FALSE, c))
<1>1. <<"Comma">> \in Seq(Chars)
  <2>1. "Comma" \in Chars
    BY SignsAreChars DEF Signs
  <2> QED
    BY <2>1
<1>2. ASSUME NEW z \in Inside(fs, v, c) PROVE \E w \in Inside(fs, FALSE, c) : RunBetween(<<"Comma">>, z, w)
  <2>1. PICK key \in Seq(Chars) : z \in At(Append(fs, InObject(key, v)), c)
    BY InsideIs
  <2>2. Reads(<<"Comma">>, At(Append(fs, InObject(key, v)), c), At(Append(fs, InObject(key, FALSE)), c))
    BY ReadsTurn
  <2>3. PICK w \in At(Append(fs, InObject(key, FALSE)), c) : RunBetween(<<"Comma">>, z, w)
    BY <2>1, <2>2 DEF Reads
  <2>4. w \in Inside(fs, FALSE, c)
    BY DEF Inside
  <2> QED
    BY <2>3, <2>4
<1> QED
  BY <1>1, <1>2 DEF Reads

LEMMA ReadsMore ==
    ASSUME NEW p, NEW Z, NEW Y, NEW W, Reads(p, Z, Y), Y \subseteq W
    PROVE  Reads(p, Z, W)
BY DEF Reads

LEMMA ReadsEntry ==
    ASSUME NEW fs \in Seq(Frame), NEW w \in Words, NEW c \in Counts, NEW d \in Counts, NEW value,
           Reads(value, At(Append(fs, InObject(<<w>>, TRUE)), c), At(Append(fs, InObject(<<w>>, TRUE)), d))
    PROVE  Reads(Entry(w, value), Inside(fs, FALSE, c), Inside(fs, TRUE, d))
<1> DEFINE F(b) == Append(fs, InObject(<<w>>, b))
<1>1. <<w>> \in Seq(Chars)
  BY WordIsText
<1>2. Reads(Word(w), Inside(fs, FALSE, c), At(F(FALSE), c))
  BY ReadsKey
<1>3. Reads(<<"Colon">>, At(F(FALSE), c), At(F(TRUE), c))
  BY <1>1, ReadsTurn
<1>4. Reads(value, At(F(TRUE), c), At(F(TRUE), d))
  OBVIOUS
<1>5. At(F(TRUE), d) \subseteq Inside(fs, TRUE, d)
  BY <1>1 DEF Inside
<1> HIDE DEF F
<1>6. Reads(Word(w) \o <<"Colon">>, Inside(fs, FALSE, c), At(F(TRUE), c))
  BY <1>2, <1>3, ReadsJoin
<1>7. Reads((Word(w) \o <<"Colon">>) \o value, Inside(fs, FALSE, c), At(F(TRUE), d))
  BY <1>4, <1>6, ReadsJoin
<1>8. Entry(w, value) = (Word(w) \o <<"Colon">>) \o value
  BY DEF Entry
<1> QED
  BY <1>5, <1>7, <1>8, ReadsMore


LEMMA JoinNotEmpty ==
    ASSUME NEW p \in Seq(Chars), NEW q \in Seq(Chars), p # <<>>
    PROVE  p \o q # <<>> /\ p \o q \in Seq(Chars)
<1>1. PICK t : t = p \o q
  OBVIOUS
<1>2. t \in Seq(Chars) /\ Len(t) = Len(p) + Len(q) /\ Len(p) \in Nat /\ Len(q) \in Nat /\ Len(p) # 0
  BY <1>1
<1>3. Len(t) # 0
  BY <1>2
<1> QED
  BY <1>1, <1>2, <1>3

\* The first i members written one after the other.
MembersTo(i, Y, Z) ==
    IF i = 0 THEN {<<>>} ELSE {x \in Seq(Chars) : x # <<>> /\ Reads(x, Y[0], Z[i])}

LEMMA AddMember ==
    ASSUME NEW n \in Nat, NEW i \in 0..n, i < n, NEW Y, NEW Z, NEW x \in MembersTo(i, Y, Z),
           NEW m \in Seq(Chars), m # <<>>, Reads(m, Y[i], Z[i + 1]),
           i # 0 => Reads(<<"Comma">>, Z[i], Y[i])
    PROVE  add_member(x, m) \in MembersTo(i + 1, Y, Z)
<1>1. i + 1 # 0
  OBVIOUS
<1>2. CASE i = 0
  <2>1. x = <<>> /\ add_member(x, m) = m
    BY <1>2 DEF MembersTo, add_member
  <2> QED
    BY <1>1, <1>2, <2>1 DEF MembersTo
<1>3. CASE i # 0
  <2>1. x \in Seq(Chars) /\ x # <<>> /\ Reads(x, Y[0], Z[i])
    BY <1>3 DEF MembersTo
  <2>2. add_member(x, m) = (x \o <<"Comma">>) \o m
    BY <2>1 DEF add_member
  <2>3. Reads(x \o <<"Comma">>, Y[0], Y[i])
    BY <1>3, <2>1, ReadsJoin
  <2>4. Reads((x \o <<"Comma">>) \o m, Y[0], Z[i + 1])
    BY <2>3, ReadsJoin
  <2>5. <<"Comma">> \in Seq(Chars)
    BY <1>3 DEF Reads
  <2>6. x \o <<"Comma">> # <<>> /\ x \o <<"Comma">> \in Seq(Chars)
    BY <2>1, <2>5, JoinNotEmpty
  <2>7. (x \o <<"Comma">>) \o m # <<>> /\ (x \o <<"Comma">>) \o m \in Seq(Chars)
    BY <2>6, JoinNotEmpty
  <2> QED
    BY <1>1, <2>2, <2>4, <2>7 DEF MembersTo
<1> QED
  BY <1>2, <1>3

LEMMA MembersRead ==
    ASSUME NEW ms \in Seq(Seq(Chars)), \A i \in 1..Len(ms) : ms[i] # <<>>, NEW Y, NEW Z,
           \A i \in 0..Len(ms) : i < Len(ms) => Reads(ms[i + 1], Y[i], Z[i + 1]),
           \A i \in 0..Len(ms) : i # 0 /\ i < Len(ms) => Reads(<<"Comma">>, Z[i], Y[i])
    PROVE  Members(ms) \in MembersTo(Len(ms), Y, Z) /\ Members(ms) \in Seq(Chars)
<1> DEFINE n == Len(ms)
           S == Seq(Chars)
           step == [p \in (1..n) \X S |-> add_member(p[2], ms[p[1]])]
           is(it) == it = [s \in SUBSET (DOMAIN ms) |->
                        IF s = {} THEN <<>> ELSE add_member(it[s \ {Max(s)}], ms[Max(s)])]
           f == CHOOSE it : is(it)
           I == [i \in 0..n |-> MembersTo(i, Y, Z)]
<1>1. n \in Nat /\ DOMAIN ms = 1..n
  OBVIOUS
<1>2. Members(ms) = f[DOMAIN ms]
  BY Zenon DEF Members, FoldLeft, MapThenFoldSet
<1>3. ASSUME NEW i \in 1..n, NEW x \in S PROVE add_member(x, ms[i]) \in S
  <2>1. ms[i] \in S /\ <<"Comma">> \in S
    <3>1. "Comma" \in Chars
      BY SignsAreChars DEF Signs
    <3> QED
      BY <3>1
  <2>2. x \o <<"Comma">> \in S
    BY <2>1
  <2>3. (x \o <<"Comma">>) \o ms[i] \in S
    BY <2>1, <2>2
  <2> QED
    BY <2>1, <2>3 DEF add_member
<1>4. <<>> \in S
  OBVIOUS
<1> HIDE DEF S
<1>5. step \in [(1..n) \X S -> S]
  BY <1>3
<1>6. \A i \in 1..n, x \in S : step[i, x] = add_member(x, ms[i])
  OBVIOUS
<1> HIDE DEF n, step
<1>7. FoldOn(n, S, <<>>, step)
  BY <1>1, <1>4, <1>5, FoldExists
<1>8. PICK it \in [SUBSET (1..n) -> S] :
         /\ it[{}] = <<>>
         /\ \A s \in SUBSET (1..n) : s # {} => Max(s) \in s /\ it[s] = step[Max(s), it[s \ {Max(s)}]]
  BY <1>7 DEF FoldOn
<1>9. ASSUME NEW s \in SUBSET (1..n), s # {}
      PROVE  it[s] = add_member(it[s \ {Max(s)}], ms[Max(s)])
  <2>1. Max(s) \in 1..n /\ it[s \ {Max(s)}] \in S
    BY <1>8, <1>9
  <2> QED
    BY <1>6, <1>8, <1>9, <2>1
<1>10. is(it)
  <2>1. it = [s \in SUBSET (1..n) |-> it[s]]
    OBVIOUS
  <2>2. \A s \in SUBSET (1..n) :
           it[s] = IF s = {} THEN <<>> ELSE add_member(it[s \ {Max(s)}], ms[Max(s)])
    BY <1>8, <1>9
  <2> QED
    BY <1>1, <2>1, <2>2
<1>11. is(f)
  <2> HIDE DEF is
  <2> QED
    BY <1>10
<1> HIDE DEF f
<1>12. f = [s \in SUBSET (1..n) |->
              IF s = {} THEN <<>> ELSE add_member(f[s \ {Max(s)}], ms[Max(s)])]
  BY <1>1, <1>11
<1> HIDE DEF is
<1>13. /\ f[{}] = <<>>
       /\ \A s \in SUBSET (1..n) : s # {} => f[s] = add_member(f[s \ {Max(s)}], ms[Max(s)])
  BY <1>12
<1>14. Folds(f, n, S, <<>>, step)
  <2> SUFFICES ASSUME NEW s \in SUBSET (1..n), s # {}, f[s \ {Max(s)}] \in S
               PROVE  f[s] = step[Max(s), f[s \ {Max(s)}]]
    BY <1>13 DEF Folds
  <2>1. Max(s) \in 1..n
    BY <1>8
  <2> QED
    BY <1>6, <1>13, <2>1
<1>15. Leads(I, n, S, <<>>, step)
  <2>1. <<>> \in I[0]
    <3>1. <<>> \in MembersTo(0, Y, Z)
      BY DEF MembersTo
    <3> QED
      BY <1>1, <3>1
  <2>2. ASSUME NEW i \in 0..n, i < n, NEW x \in I[i] \cap S
        PROVE  step[i + 1, x] \in I[i + 1]
    <3>1. i + 1 \in 1..n /\ i + 1 \in 0..n /\ i \in 0..Len(ms) /\ i < Len(ms) /\ i + 1 \in 1..Len(ms)
      BY <1>1, <2>2 DEF n
    <3>2. x \in MembersTo(i, Y, Z) /\ x \in S
      OBVIOUS
    <3>3. ms[i + 1] \in Seq(Chars) /\ ms[i + 1] # <<>> /\ Reads(ms[i + 1], Y[i], Z[i + 1])
      BY <3>1
    <3>4. i # 0 => Reads(<<"Comma">>, Z[i], Y[i])
      BY <3>1
    <3>5. add_member(x, ms[i + 1]) \in MembersTo(i + 1, Y, Z)
      BY <1>1, <2>2, <3>2, <3>3, <3>4, AddMember
    <3>6. step[i + 1, x] = add_member(x, ms[i + 1])
      BY <1>6, <3>1, <3>2
    <3> QED
      BY <3>1, <3>5, <3>6
  <2> HIDE DEF I
  <2> QED
    BY <2>1, <2>2 DEF Leads
<1> HIDE DEF I
<1>16. f[1..n] \in I[n] \cap S
  BY <1>1, <1>4, <1>5, <1>14, <1>15, FoldReaches
<1>17. n \in 0..n
  BY <1>1
<1> QED
  BY <1>1, <1>2, <1>16, <1>17 DEF I, n, S

----------------------------------------------------------------------------
(* Objects and arrays *)

LEMMA ObjReads ==
    ASSUME NEW fs \in Seq(Frame), NEW c \in Counts,
           NEW ms \in Seq(Seq(Chars)), Len(ms) # 0, \A i \in 1..Len(ms) : ms[i] # <<>>,
           NEW cs \in [0..Len(ms) -> Counts], cs[0] = StepOpened(fs, c),
           \A i \in 0..Len(ms) : i < Len(ms) =>
              Reads(ms[i + 1], Inside(fs, FALSE, cs[i]), Inside(fs, TRUE, cs[i + 1]))
    PROVE  Reads(Obj(ms), At(fs, c), At(fs, cs[Len(ms)])) /\ Obj(ms) # <<>>
<1> DEFINE n == Len(ms)
           Y == [i \in 0..n |-> Inside(fs, FALSE, cs[i])]
           Z == [i \in 0..n |-> Inside(fs, TRUE, cs[i])]
<1>1. n \in Nat /\ n # 0 /\ 0 \in 0..n /\ n \in 0..n
  OBVIOUS
<1>2. /\ \A i \in 0..n : i < n => i + 1 \in 0..n
      /\ \A i \in 0..n : Y[i] = Inside(fs, FALSE, cs[i]) /\ Z[i] = Inside(fs, TRUE, cs[i])
  OBVIOUS
<1> HIDE DEF Y, Z
<1>3. \A i \in 0..n : i < n => Reads(ms[i + 1], Y[i], Z[i + 1])
  BY <1>2
<1>4. ASSUME NEW i \in 0..n PROVE Reads(<<"Comma">>, Z[i], Y[i])
  <2>1. cs[i] \in Counts /\ TRUE \in BOOLEAN
    OBVIOUS
  <2>2. Reads(<<"Comma">>, Inside(fs, TRUE, cs[i]), Inside(fs, FALSE, cs[i]))
    BY <2>1, ReadsCommaInObject
  <2> QED
    BY <1>2, <2>2
<1>5. Members(ms) \in MembersTo(n, Y, Z) /\ Members(ms) \in Seq(Chars)
  BY <1>3, <1>4, MembersRead
<1>6. Reads(Members(ms), Y[0], Z[n])
  BY <1>1, <1>5 DEF MembersTo
<1>7. Reads(<<"ObjectStart">>, At(fs, c), Y[0])
  BY <1>1, <1>2, ReadsObject
<1>8. Reads(<<"ObjectEnd">>, Z[n], At(fs, cs[n]))
  <2>1. cs[n] \in Counts /\ TRUE \in BOOLEAN
    BY <1>1
  <2>2. Reads(<<"ObjectEnd">>, Inside(fs, TRUE, cs[n]), At(fs, cs[n]))
    BY <2>1, ReadsObjectEnd
  <2> QED
    BY <1>1, <1>2, <2>2
<1> HIDE DEF n
<1>9. Reads(<<"ObjectStart">> \o Members(ms), At(fs, c), Z[n])
  BY <1>6, <1>7, ReadsJoin
<1>10. Reads((<<"ObjectStart">> \o Members(ms)) \o <<"ObjectEnd">>, At(fs, c), At(fs, cs[n]))
  BY <1>8, <1>9, ReadsJoin
<1>11. Obj(ms) = (<<"ObjectStart">> \o Members(ms)) \o <<"ObjectEnd">>
  BY DEF Obj
<1>12. Obj(ms) # <<>>
  <2>1. <<"ObjectStart">> \in Seq(Chars) /\ <<"ObjectEnd">> \in Seq(Chars) /\ <<"ObjectStart">> # <<>>
    BY <1>7, <1>8 DEF Reads
  <2>2. <<"ObjectStart">> \o Members(ms) # <<>> /\ <<"ObjectStart">> \o Members(ms) \in Seq(Chars)
    BY <1>5, <2>1, JoinNotEmpty
  <2> QED
    BY <1>11, <2>1, <2>2, JoinNotEmpty
<1> QED
  BY <1>10, <1>11, <1>12 DEF n

LEMMA ArrReads ==
    ASSUME NEW fs \in Seq(Frame), NEW c \in Counts,
           NEW ms \in Seq(Seq(Chars)), \A i \in 1..Len(ms) : ms[i] # <<>>,
           NEW cs \in [0..Len(ms) -> Counts], cs[0] = c,
           \A i \in 0..Len(ms) : i < Len(ms) =>
              Reads(ms[i + 1], At(Append(fs, Array), cs[i]), At(Append(fs, Array), cs[i + 1]))
    PROVE  Reads(Arr(ms), At(fs, c), At(fs, cs[Len(ms)]))
<1> DEFINE n == Len(ms)
           a == Append(fs, Array)
           Y == [i \in 0..n |-> At(a, cs[i])]
<1>1. n \in Nat /\ 0 \in 0..n /\ n \in 0..n
  OBVIOUS
<1>2. /\ \A i \in 0..n : i < n => i + 1 \in 0..n
      /\ \A i \in 0..n : Y[i] = At(a, cs[i])
  OBVIOUS
<1> HIDE DEF Y
<1>3. \A i \in 0..n : i < n => Reads(ms[i + 1], Y[i], Y[i + 1])
  BY <1>2
<1>4. ASSUME NEW i \in 0..n PROVE Reads(<<"Comma">>, Y[i], Y[i])
  <2>1. cs[i] \in Counts
    OBVIOUS
  <2>2. Reads(<<"Comma">>, At(a, cs[i]), At(a, cs[i]))
    BY <2>1, ReadsCommaInArray
  <2> QED
    BY <1>2, <2>2
<1>5. Members(ms) \in MembersTo(n, Y, Y) /\ Members(ms) \in Seq(Chars)
  BY <1>3, <1>4, MembersRead
<1>6. Reads(<<"ArrayStart">>, At(fs, c), Y[0])
  BY <1>1, <1>2, ReadsArray
<1>7. Reads(<<"ArrayEnd">>, Y[n], At(fs, cs[n]))
  <2>1. cs[n] \in Counts /\ Array \in Frame
    BY <1>1, FramesTyped
  <2>2. Reads(<<"ArrayEnd">>, At(a, cs[n]), At(fs, cs[n]))
    BY <2>1, ReadsEnd
  <2> QED
    BY <1>1, <1>2, <2>2
<1> HIDE DEF n, a
<1>8. Reads(<<"ArrayStart">> \o Members(ms), At(fs, c), Y[n])
  <2>1. CASE n = 0
    <3>1. Members(ms) = <<>>
      BY <1>5, <2>1 DEF MembersTo
    <3>2. <<"ArrayStart">> \in Seq(Chars)
      BY <1>6 DEF Reads
    <3>3. <<"ArrayStart">> \o Members(ms) = <<"ArrayStart">>
      BY <3>1, <3>2
    <3> QED
      BY <1>6, <2>1, <3>3
  <2>2. CASE n # 0
    <3>1. Reads(Members(ms), Y[0], Y[n])
      BY <1>5, <2>2 DEF MembersTo
    <3> QED
      BY <1>6, <3>1, ReadsJoin
  <2> QED
    BY <2>1, <2>2
<1>9. Reads((<<"ArrayStart">> \o Members(ms)) \o <<"ArrayEnd">>, At(fs, c), At(fs, cs[n]))
  BY <1>7, <1>8, ReadsJoin
<1>10. Arr(ms) = (<<"ArrayStart">> \o Members(ms)) \o <<"ArrayEnd">>
  BY DEF Arr
<1> QED
  BY <1>9, <1>10 DEF n


LEMMA OneMember ==
    ASSUME NEW fs \in Seq(Frame), NEW c \in Counts, NEW d \in Counts,
           NEW m \in Seq(Chars), m # <<>>,
           Reads(m, Inside(fs, FALSE, StepOpened(fs, c)), Inside(fs, TRUE, d))
    PROVE  Reads(Obj(<<m>>), At(fs, c), At(fs, d)) /\ Obj(<<m>>) # <<>>
<1>1. PICK ms : ms = <<m>>
  OBVIOUS
<1>2. ms \in Seq(Seq(Chars)) /\ Len(ms) = 1 /\ ms[1] = m
  BY <1>1
<1>3. PICK o \in Counts : o = StepOpened(fs, c)
  BY CountsAre
<1> DEFINE cs == [i \in 0..1 |-> IF i = 0 THEN o ELSE d]
<1>4. cs \in [0..1 -> Counts] /\ cs[0] = o /\ cs[1] = d
  OBVIOUS
<1> HIDE DEF cs
<1>5. \A i \in 0..1 : i < 1 => i = 0 /\ i + 1 = 1
  OBVIOUS
<1>6. ASSUME NEW i \in 0..Len(ms), i < Len(ms)
      PROVE  Reads(ms[i + 1], Inside(fs, FALSE, cs[i]), Inside(fs, TRUE, cs[i + 1]))
  <2>1. i = 0 /\ i + 1 = 1
    BY <1>2, <1>5, <1>6
  <2>2. Reads(ms[1], Inside(fs, FALSE, cs[0]), Inside(fs, TRUE, cs[1]))
    BY <1>2, <1>3, <1>4
  <2> QED
    BY <2>1, <2>2
<1>7. \A i \in 1..Len(ms) : ms[i] # <<>>
  <2>1. \A i \in 1..1 : i = 1
    OBVIOUS
  <2> QED
    BY <1>2, <2>1
<1>8. Len(ms) # 0 /\ cs \in [0..Len(ms) -> Counts] /\ cs[0] = StepOpened(fs, c)
  BY <1>2, <1>3, <1>4
<1>9. Reads(Obj(ms), At(fs, c), At(fs, cs[Len(ms)])) /\ Obj(ms) # <<>>
  BY <1>2, <1>6, <1>7, <1>8, ObjReads
<1> QED
  BY <1>1, <1>2, <1>4, <1>9

LEMMA TwoMembers ==
    ASSUME NEW fs \in Seq(Frame), NEW c \in Counts, NEW d \in Counts, NEW e \in Counts,
           NEW m \in Seq(Chars), m # <<>>, NEW k \in Seq(Chars), k # <<>>,
           Reads(m, Inside(fs, FALSE, StepOpened(fs, c)), Inside(fs, TRUE, d)),
           Reads(k, Inside(fs, FALSE, d), Inside(fs, TRUE, e))
    PROVE  Reads(Obj(<<m, k>>), At(fs, c), At(fs, e)) /\ Obj(<<m, k>>) # <<>>
<1>1. PICK ms : ms = <<m, k>>
  OBVIOUS
<1>2. ms \in Seq(Seq(Chars)) /\ Len(ms) = 2 /\ ms[1] = m /\ ms[2] = k
  BY <1>1
<1>3. PICK o \in Counts : o = StepOpened(fs, c)
  BY CountsAre
<1> DEFINE cs == [i \in 0..2 |-> IF i = 0 THEN o ELSE IF i = 1 THEN d ELSE e]
<1>4. cs \in [0..2 -> Counts] /\ cs[0] = o /\ cs[1] = d /\ cs[2] = e
  OBVIOUS
<1> HIDE DEF cs
<1>5. \A i \in 0..2 : i < 2 => (i = 0 /\ i + 1 = 1) \/ (i = 1 /\ i + 1 = 2)
  OBVIOUS
<1>6. \A i \in 0..Len(ms) : i < Len(ms) => Reads(ms[i + 1], Inside(fs, FALSE, cs[i]), Inside(fs, TRUE, cs[i + 1]))
  BY <1>2, <1>3, <1>4, <1>5
<1>7. \A i \in 1..Len(ms) : ms[i] # <<>>
  <2>1. \A i \in 1..2 : i = 1 \/ i = 2
    OBVIOUS
  <2> QED
    BY <1>2, <2>1
<1>8. Len(ms) # 0 /\ cs \in [0..Len(ms) -> Counts] /\ cs[0] = StepOpened(fs, c)
  BY <1>2, <1>3, <1>4
<1>9. Reads(Obj(ms), At(fs, c), At(fs, cs[Len(ms)])) /\ Obj(ms) # <<>>
  BY <1>2, <1>6, <1>7, <1>8, ObjReads
<1> QED
  BY <1>1, <1>2, <1>4, <1>9

LEMMA ThreeMembers ==
    ASSUME NEW fs \in Seq(Frame), NEW c \in Counts, NEW d \in Counts, NEW e \in Counts, NEW g \in Counts,
           NEW m \in Seq(Chars), m # <<>>, NEW k \in Seq(Chars), k # <<>>, NEW l \in Seq(Chars), l # <<>>,
           Reads(m, Inside(fs, FALSE, StepOpened(fs, c)), Inside(fs, TRUE, d)),
           Reads(k, Inside(fs, FALSE, d), Inside(fs, TRUE, e)),
           Reads(l, Inside(fs, FALSE, e), Inside(fs, TRUE, g))
    PROVE  Reads(Obj(<<m, k, l>>), At(fs, c), At(fs, g)) /\ Obj(<<m, k, l>>) # <<>>
<1>1. PICK ms : ms = <<m, k, l>>
  OBVIOUS
<1>2. ms \in Seq(Seq(Chars)) /\ Len(ms) = 3 /\ ms[1] = m /\ ms[2] = k /\ ms[3] = l
  BY <1>1
<1>3. PICK o \in Counts : o = StepOpened(fs, c)
  BY CountsAre
<1> DEFINE cs == [i \in 0..3 |-> IF i = 0 THEN o ELSE IF i = 1 THEN d ELSE IF i = 2 THEN e ELSE g]
<1>4. cs \in [0..3 -> Counts] /\ cs[0] = o /\ cs[1] = d /\ cs[2] = e /\ cs[3] = g
  OBVIOUS
<1> HIDE DEF cs
<1>5. \A i \in 0..3 : i < 3 => (i = 0 /\ i + 1 = 1) \/ (i = 1 /\ i + 1 = 2) \/ (i = 2 /\ i + 1 = 3)
  OBVIOUS
<1>6. \A i \in 0..Len(ms) : i < Len(ms) => Reads(ms[i + 1], Inside(fs, FALSE, cs[i]), Inside(fs, TRUE, cs[i + 1]))
  BY <1>2, <1>3, <1>4, <1>5
<1>7. \A i \in 1..Len(ms) : ms[i] # <<>>
  <2>1. \A i \in 1..3 : i = 1 \/ i = 2 \/ i = 3
    OBVIOUS
  <2> QED
    BY <1>2, <2>1
<1>8. Len(ms) # 0 /\ cs \in [0..Len(ms) -> Counts] /\ cs[0] = StepOpened(fs, c)
  BY <1>2, <1>3, <1>4
<1>9. Reads(Obj(ms), At(fs, c), At(fs, cs[Len(ms)])) /\ Obj(ms) # <<>>
  BY <1>2, <1>6, <1>7, <1>8, ObjReads
<1> QED
  BY <1>1, <1>2, <1>4, <1>9

LEMMA OneInArray ==
    ASSUME NEW fs \in Seq(Frame), NEW c \in Counts, NEW m \in Seq(Chars), m # <<>>,
           Reads(m, At(Append(fs, Array), c), At(Append(fs, Array), c))
    PROVE  Reads(Arr(<<m>>), At(fs, c), At(fs, c))
<1>1. PICK ms : ms = <<m>>
  OBVIOUS
<1>2. ms \in Seq(Seq(Chars)) /\ Len(ms) = 1 /\ ms[1] = m
  BY <1>1
<1> DEFINE cs == [i \in 0..1 |-> c]
<1>4. cs \in [0..1 -> Counts] /\ cs[0] = c /\ cs[1] = c
  OBVIOUS
<1> HIDE DEF cs
<1>5. \A i \in 0..1 : i < 1 => i = 0 /\ i + 1 = 1
  OBVIOUS
<1>6. \A i \in 0..Len(ms) : i < Len(ms) => Reads(ms[i + 1], At(Append(fs, Array), cs[i]), At(Append(fs, Array), cs[i + 1]))
  BY <1>2, <1>4, <1>5
<1>7. \A i \in 1..Len(ms) : ms[i] # <<>>
  <2>1. \A i \in 1..1 : i = 1
    OBVIOUS
  <2> QED
    BY <1>2, <2>1
<1>8. cs \in [0..Len(ms) -> Counts]
  BY <1>2, <1>4
<1>9. Reads(Arr(ms), At(fs, c), At(fs, cs[Len(ms)]))
  BY <1>2, <1>4, <1>6, <1>7, <1>8, ArrReads
<1> QED
  BY <1>1, <1>2, <1>4, <1>9

LEMMA WordsTyped ==
    ASSUME NEW w \in Words
    PROVE  Word(w) \in Seq(Chars) /\ Word(w) # <<>>
<1>1. "Quote" \in Chars /\ w \in Chars
  BY SignsAreChars DEF Signs
<1>2. PICK t : t = <<"Quote", w, "Quote">>
  OBVIOUS
<1>3. t \in Seq(Chars) /\ Len(t) = 3
  BY <1>1, <1>2
<1>4. t # <<>>
  BY <1>3
<1> QED
  BY <1>2, <1>3, <1>4 DEF Word

LEMMA EntryTyped ==
    ASSUME NEW w \in Words, NEW value \in Seq(Chars)
    PROVE  Entry(w, value) \in Seq(Chars) /\ Entry(w, value) # <<>>
<1>1. <<"Colon">> \in Seq(Chars)
  <2>1. "Colon" \in Chars
    BY SignsAreChars DEF Signs
  <2> QED
    BY <2>1
<1>2. Word(w) \o <<"Colon">> # <<>> /\ Word(w) \o <<"Colon">> \in Seq(Chars)
  BY <1>1, WordsTyped, JoinNotEmpty
<1>3. Entry(w, value) = (Word(w) \o <<"Colon">>) \o value
  BY DEF Entry
<1> QED
  BY <1>2, <1>3, JoinNotEmpty

LEMMA KnownWords == "code" \in Words /\ "x" \in Words /\ "steps" \in Words
BY DEF Words

\* In a value position of an object.
LEMMA AfterKey ==
    ASSUME NEW fs \in Seq(Frame), NEW w \in Words
    PROVE  LET a == Append(fs, InObject(<<w>>, TRUE))
           IN /\ a \in Seq(Frame) /\ ~KeyNext(a) /\ Len(a) = Len(fs) + 1
              /\ Last(a) = InObject(<<w>>, TRUE)
              /\ \A i \in 1..Len(fs) : a[i] = fs[i]
<1> DEFINE x == InObject(<<w>>, TRUE)
           a == Append(fs, x)
<1>1. x \in Frame /\ x.value = TRUE
  <2>1. <<w>> \in Seq(Chars)
    BY WordIsText
  <2>2. x \in Frame
    BY <2>1, FramesTyped
  <2> QED
    BY <2>2 DEF InObject
<1> HIDE DEF x
<1>2. a \in Seq(Frame) /\ Len(a) = Len(fs) + 1 /\ Last(a) = x
  BY <1>1, PushIs
<1>3. \A i \in 1..Len(fs) : a[i] = fs[i]
  BY <1>1
<1>4. ~KeyNext(a)
  BY <1>1, <1>2 DEF KeyNext
<1> QED
  BY <1>2, <1>3, <1>4 DEF x

LEMMA WordsDiffer == <<"x">> # <<"steps">> /\ <<"x">> # <<"code">> /\ <<"code">> # <<"steps">>
<1>1. ASSUME NEW a, NEW b, a # b PROVE <<a>> # <<b>>
  <2>1. PICK p, q : p = <<a>> /\ q = <<b>>
    OBVIOUS
  <2>2. p[1] = a /\ q[1] = b
    BY <2>1
  <2> QED
    BY <1>1, <2>1, <2>2
<1>2. "x" # "steps" /\ "x" # "code" /\ "code" # "steps"
  OBVIOUS
<1> QED
  BY <1>1, <1>2

\* Frames that are not those of the steps of the plan.
Aside(fs) == Len(fs) = 1 => fs[1].key # <<"steps">>

\* An array with an object that has a key "code" is not a step of the plan.
LEMMA InnerReads ==
    ASSUME NEW fs \in Seq(Frame), fs # <<>>, Aside(fs), NEW c \in Counts
    PROVE  Reads(Inner, At(fs, c), At(fs, c)) /\ Inner \in Seq(Chars)
<1> DEFINE a == Append(fs, Array)
           o == Append(a, InObject(<<"code">>, TRUE))
<1>1. /\ a \in Seq(Frame) /\ Len(a) = Len(fs) + 1 /\ \A i \in 1..Len(fs) : a[i] = fs[i]
  <2>1. Array \in Frame
    BY FramesTyped
  <2> QED
    BY <2>1
<1>2. /\ o \in Seq(Frame) /\ ~KeyNext(o) /\ Len(o) = Len(a) + 1 /\ \A i \in 1..Len(a) : o[i] = a[i]
  BY <1>1, KnownWords, AfterKey
<1>3. Len(fs) \in Nat /\ Len(fs) # 0
  OBVIOUS
<1> HIDE DEF a, o
<1>0. Len(fs) = 1 <=> Len(a) = 2
  <2>1. PICK n, m : n = Len(fs) /\ m = Len(a)
    OBVIOUS
  <2>2. n \in Nat /\ m = n + 1
    BY <1>1, <1>3, <2>1
  <2> QED
    BY <2>1, <2>2
<1>00. Len(a) = 2 <=> Len(o) = 3
  <2>1. PICK n, m : n = Len(a) /\ m = Len(o)
    OBVIOUS
  <2>2. n \in Nat /\ m = n + 1
    BY <1>1, <1>2, <2>1
  <2>3. n = 2 <=> m = 3
    BY <2>2
  <2> QED
    BY <2>1, <2>3
<1>4. ~InSteps(a)
  <2> SUFFICES ASSUME InSteps(a) PROVE FALSE
    OBVIOUS
  <2>1. Len(fs) = 1 /\ a[1] = fs[1]
    <3>1. Len(fs) = 1
      BY <1>0 DEF InSteps
    <3> QED
      BY <1>1, <3>1
  <2> QED
    BY <2>1 DEF InSteps, Under, Aside
<1>5. ~StepCode(o)
  <2> SUFFICES ASSUME StepCode(o) PROVE FALSE
    OBVIOUS
  <2>1. Len(o) = 3 /\ o[1].key = <<"steps">>
    BY DEF StepCode, Under
  <2>2. Len(fs) = 1 /\ Len(a) = 2
    BY <1>0, <1>00, <2>1
  <2>3. o[1] = a[1] /\ a[1] = fs[1]
    BY <1>1, <1>2, <2>2
  <2> QED
    BY <2>1, <2>2, <2>3 DEF Aside
<1>6. Reads(Word("x"), At(o, c), At(o, c))
  BY <1>2, <1>5, KnownWords, ReadsValue
<1> DEFINE code == Entry("code", Word("x"))
<1>7. Reads(code, Inside(a, FALSE, c), Inside(a, TRUE, c))
  BY <1>1, <1>6, KnownWords, ReadsEntry DEF o
<1>8. code \in Seq(Chars) /\ code # <<>>
  BY KnownWords, WordsTyped, EntryTyped
<1>9. StepOpened(a, c) = c
  BY <1>4 DEF StepOpened
<1> HIDE DEF code
<1>10. Reads(Obj(<<code>>), At(a, c), At(a, c)) /\ Obj(<<code>>) # <<>>
  BY <1>1, <1>7, <1>8, <1>9, OneMember
<1>11. Obj(<<code>>) \in Seq(Chars)
  BY <1>10 DEF Reads
<1>12. Reads(Arr(<<Obj(<<code>>)>>), At(fs, c), At(fs, c))
  BY <1>10, <1>11, OneInArray DEF a
<1> QED
  BY <1>12 DEF Inner, code, Reads


----------------------------------------------------------------------------
(* The steps of a plan: each is announced with its code *)

InPlan == Append(<<>>, InObject(<<"steps">>, TRUE))
StepFrames == Append(InPlan, Array)
StepRecords == [code : DOMAIN Catalog, shape : Shapes]

LEMMA StepFramesAre ==
    /\ InPlan \in Seq(Frame) /\ StepFrames \in Seq(Frame) /\ Len(StepFrames) = 2 /\ InSteps(StepFrames)
    /\ Under(StepFrames)
<1> DEFINE x == InObject(<<"steps">>, TRUE)
<1>1. x \in Frame /\ x.kind = "object" /\ x.key = <<"steps">>
  <2>1. <<"steps">> \in Seq(Chars)
    BY KnownWords, WordIsText
  <2>2. x \in Frame
    BY <2>1, FramesTyped
  <2> QED
    BY <2>2 DEF InObject
<1>2. Array \in Frame /\ Array.kind = "array"
  BY FramesTyped DEF Array
<1> HIDE DEF x
<1>3. PICK p, s : p = Append(<<>>, x) /\ s = Append(p, Array)
  OBVIOUS
<1>4. p \in Seq(Frame) /\ Len(p) = 1 /\ p[1] = x
  <2>1. <<>> \in Seq(Frame) /\ Len(<<>>) = 0
    OBVIOUS
  <2> QED
    BY <1>1, <1>3, <2>1
<1>5. s \in Seq(Frame) /\ Len(s) = 2 /\ s[1] = x /\ s[2] = Array
  <2>1. s \in Seq(Frame) /\ Len(s) = Len(p) + 1 /\ s[Len(p) + 1] = Array /\ \A i \in 1..Len(p) : s[i] = p[i]
    BY <1>2, <1>3, <1>4
  <2> QED
    BY <1>4, <2>1
<1>6. InPlan = p /\ StepFrames = s
  BY <1>3 DEF InPlan, StepFrames, x
<1>7. Under(s)
  BY <1>1, <1>2, <1>5 DEF Under
<1> QED
  BY <1>4, <1>5, <1>6, <1>7 DEF InSteps

\* The place of a value in a step.
LEMMA InStep ==
    ASSUME NEW w \in Words
    PROVE  LET f == Append(StepFrames, InObject(<<w>>, TRUE))
           IN /\ f \in Seq(Frame) /\ ~KeyNext(f) /\ f # <<>> /\ Aside(f)
              /\ StepCode(f) <=> w = "code"
<1>1. PICK f : f = Append(StepFrames, InObject(<<w>>, TRUE))
  OBVIOUS
<1>2. /\ f \in Seq(Frame) /\ ~KeyNext(f) /\ Len(f) = 3 /\ Last(f) = InObject(<<w>>, TRUE)
      /\ f[1] = StepFrames[1] /\ f[2] = StepFrames[2]
  <2>1. /\ f \in Seq(Frame) /\ ~KeyNext(f) /\ Len(f) = Len(StepFrames) + 1
        /\ Last(f) = InObject(<<w>>, TRUE)
        /\ \A i \in 1..Len(StepFrames) : f[i] = StepFrames[i]
    BY <1>1, StepFramesAre, AfterKey
  <2>2. Len(StepFrames) = 2 /\ 1 \in 1..2 /\ 2 \in 1..2 /\ 2 + 1 = 3
    BY StepFramesAre
  <2> QED
    BY <2>1, <2>2
<1>3. f # <<>> /\ Aside(f)
  BY <1>2 DEF Aside
<1>4. <<w>> = <<"code">> <=> w = "code"
  <2>1. PICK p, q : p = <<w>> /\ q = <<"code">>
    OBVIOUS
  <2>2. p[1] = w /\ q[1] = "code"
    BY <2>1
  <2> QED
    BY <2>1, <2>2
<1>5. /\ InObject(<<w>>, TRUE).kind = "object" /\ InObject(<<w>>, TRUE).key = <<w>>
      /\ InObject(<<w>>, TRUE).value
  BY DEF InObject
<1>6. Under(f)
  BY <1>2, StepFramesAre DEF Under
<1>7. StepCode(f) <=> w = "code"
  BY <1>2, <1>4, <1>5, <1>6 DEF StepCode
<1> QED
  BY <1>1, <1>2, <1>3, <1>7

LEMMA CodeEntry ==
    ASSUME NEW c \in Counts, NEW w \in Words
    PROVE  /\ Reads(Entry("code", Word(w)), Inside(StepFrames, FALSE, c), Inside(StepFrames, TRUE, WithCode(c, w)))
           /\ Entry("code", Word(w)) \in Seq(Chars) /\ Entry("code", Word(w)) # <<>>
<1> DEFINE f == Append(StepFrames, InObject(<<"code">>, TRUE))
<1>1. f \in Seq(Frame) /\ ~KeyNext(f) /\ StepCode(f)
  BY KnownWords, InStep
<1>2. WithCode(c, w) \in Counts
  BY WithCodeTyped
<1>3. Reads(Word(w), At(f, c), At(f, WithCode(c, w)))
  BY <1>1, ReadsCode
<1>4. Reads(Entry("code", Word(w)), Inside(StepFrames, FALSE, c), Inside(StepFrames, TRUE, WithCode(c, w)))
  BY <1>2, <1>3, StepFramesAre, KnownWords, ReadsEntry
<1> QED
  BY <1>4, KnownWords, WordsTyped, EntryTyped

LEMMA OtherEntries ==
    ASSUME NEW c \in Counts
    PROVE  /\ Reads(Entry("x", Inner), Inside(StepFrames, FALSE, c), Inside(StepFrames, TRUE, c))
           /\ Reads(Entry("x", Escaped), Inside(StepFrames, FALSE, c), Inside(StepFrames, TRUE, c))
           /\ Entry("x", Inner) \in Seq(Chars) /\ Entry("x", Inner) # <<>>
           /\ Entry("x", Escaped) \in Seq(Chars) /\ Entry("x", Escaped) # <<>>
<1> DEFINE f == Append(StepFrames, InObject(<<"x">>, TRUE))
<1>1. f \in Seq(Frame) /\ ~KeyNext(f) /\ ~StepCode(f) /\ f # <<>> /\ Aside(f)
  <2>1. "x" # "code"
    OBVIOUS
  <2> QED
    BY <2>1, KnownWords, InStep
<1>2. Reads(Inner, At(f, c), At(f, c)) /\ Inner \in Seq(Chars)
  BY <1>1, InnerReads
<1>3. Reads(Escaped, At(f, c), At(f, c)) /\ Escaped \in Seq(Chars)
  BY <1>1, ReadsEscaped DEF Reads
<1>4. Reads(Entry("x", Inner), Inside(StepFrames, FALSE, c), Inside(StepFrames, TRUE, c))
  BY <1>2, StepFramesAre, KnownWords, ReadsEntry
<1>5. Reads(Entry("x", Escaped), Inside(StepFrames, FALSE, c), Inside(StepFrames, TRUE, c))
  BY <1>3, StepFramesAre, KnownWords, ReadsEntry
<1> QED
  BY <1>2, <1>3, <1>4, <1>5, KnownWords, EntryTyped

\* A step opens once more and its code is found once, in each of its shapes.
LEMMA StepReads ==
    ASSUME NEW step \in StepRecords, NEW c \in Counts,
           WithCode(WithCode(StepOpened(StepFrames, c), step.code), step.code)
              = WithCode(StepOpened(StepFrames, c), step.code)
    PROVE  /\ Reads(StepText(step), At(StepFrames, c),
                    At(StepFrames, WithCode(StepOpened(StepFrames, c), step.code)))
           /\ StepText(step) # <<>> /\ StepText(step) \in Seq(Chars)
<1> DEFINE w == step.code
           fs == StepFrames
<1>1. w \in Words /\ step.shape \in Shapes
  BY DEF StepRecords, Words
<1>2. PICK o \in Counts : o = StepOpened(fs, c)
  BY CountsAre
<1>3. PICK d \in Counts : d = WithCode(o, w)
  BY <1>1, WithCodeTyped
<1>4. WithCode(d, w) = d
  BY <1>2, <1>3
<1> DEFINE code == Entry("code", Word(w))
           inner == Entry("x", Inner)
           escaped == Entry("x", Escaped)
<1>5. /\ Reads(code, Inside(fs, FALSE, o), Inside(fs, TRUE, d))
      /\ Reads(code, Inside(fs, FALSE, d), Inside(fs, TRUE, d))
      /\ code \in Seq(Chars) /\ code # <<>>
  <2>1. /\ Reads(code, Inside(fs, FALSE, o), Inside(fs, TRUE, WithCode(o, w)))
        /\ Reads(code, Inside(fs, FALSE, d), Inside(fs, TRUE, WithCode(d, w)))
        /\ code \in Seq(Chars) /\ code # <<>>
    BY <1>1, CodeEntry
  <2> QED
    BY <1>3, <1>4, <2>1
<1>6. /\ Reads(inner, Inside(fs, FALSE, o), Inside(fs, TRUE, o))
      /\ Reads(inner, Inside(fs, FALSE, d), Inside(fs, TRUE, d))
      /\ Reads(escaped, Inside(fs, FALSE, d), Inside(fs, TRUE, d))
      /\ inner \in Seq(Chars) /\ inner # <<>>
      /\ escaped \in Seq(Chars) /\ escaped # <<>>
  BY OtherEntries
<1>7. fs \in Seq(Frame)
  BY StepFramesAre
<1> HIDE DEF code, inner, escaped, fs, w
<1>8. Reads(Obj(<<code>>), At(fs, c), At(fs, d)) /\ Obj(<<code>>) # <<>>
  BY <1>2, <1>5, <1>7, OneMember
<1>9. Reads(Obj(<<inner, code>>), At(fs, c), At(fs, d)) /\ Obj(<<inner, code>>) # <<>>
  BY <1>2, <1>5, <1>6, <1>7, TwoMembers
<1>10. Reads(Obj(<<code, escaped, inner>>), At(fs, c), At(fs, d)) /\ Obj(<<code, escaped, inner>>) # <<>>
  BY <1>2, <1>5, <1>6, <1>7, ThreeMembers
<1>11. Reads(Obj(<<code, code>>), At(fs, c), At(fs, d)) /\ Obj(<<code, code>>) # <<>>
  BY <1>2, <1>5, <1>7, TwoMembers
<1>12. StepText(step) = Obj(CASE step.shape = "plain"  -> <<code>>
                              [] step.shape = "before" -> <<inner, code>>
                              [] step.shape = "after"  -> <<code, escaped, inner>>
                              [] step.shape = "twice"  -> <<code, code>>)
  BY DEF StepText, code, inner, escaped, w
<1>13. Reads(StepText(step), At(fs, c), At(fs, d)) /\ StepText(step) # <<>>
  <2>1. CASE step.shape = "plain"
    BY <1>8, <1>12, <2>1
  <2>2. CASE step.shape = "before"
    BY <1>9, <1>12, <2>2
  <2>3. CASE step.shape = "after"
    BY <1>10, <1>12, <2>3
  <2>4. CASE step.shape = "twice"
    BY <1>11, <1>12, <2>4
  <2> QED
    BY <1>1, <2>1, <2>2, <2>3, <2>4 DEF Shapes
<1> QED
  BY <1>2, <1>3, <1>13 DEF fs, w, Reads


\* What is announced of the first i steps of a plan.
Announced(steps, i) == [j \in 1..i |-> [index |-> j, code |-> <<steps[j].code>>]]
Told(steps, i) == [opened |-> i, last_found |-> i, found |-> Announced(steps, i)]

LEMMA AnnouncedMore ==
    ASSUME NEW steps \in Seq(StepRecords), NEW i \in Nat, i <= Len(steps)
    PROVE  /\ Announced(steps, i) \in Seq([index : Nat, code : Seq(Chars)]) /\ Len(Announced(steps, i)) = i
           /\ i < Len(steps) =>
                Announced(steps, i + 1) = Append(Announced(steps, i), [index |-> i + 1, code |-> <<steps[i + 1].code>>])
<1> DEFINE S == [index : Nat, code : Seq(Chars)]
           T(j) == [index |-> j, code |-> <<steps[j].code>>]
<1>1. \A j \in 1..Len(steps) : T(j) \in S
  <2> SUFFICES ASSUME NEW j \in 1..Len(steps) PROVE T(j) \in S
    OBVIOUS
  <2>1. steps[j] \in StepRecords
    OBVIOUS
  <2>2. steps[j].code \in Words
    BY <2>1 DEF StepRecords, Words
  <2>3. PICK t : t = <<steps[j].code>>
    OBVIOUS
  <2>4. t \in Seq(Chars) /\ j \in Nat
    BY <2>2, <2>3, WordIsText
  <2> QED
    BY <2>3, <2>4
<1>2. /\ \A k \in Nat : Announced(steps, k) = [j \in 1..k |-> T(j)]
      /\ Len(steps) \in Nat
  BY DEF Announced
<1>3. T(i + 1) = [index |-> i + 1, code |-> <<steps[i + 1].code>>]
  OBVIOUS
<1> HIDE DEF T, S
<1>4. \A k \in Nat : k <= Len(steps) => [j \in 1..k |-> T(j)] \in Seq(S) /\ Len([j \in 1..k |-> T(j)]) = k
  <2> SUFFICES ASSUME NEW k \in Nat, k <= Len(steps)
               PROVE  [j \in 1..k |-> T(j)] \in Seq(S) /\ Len([j \in 1..k |-> T(j)]) = k
    OBVIOUS
  <2>1. \A j \in 1..k : T(j) \in S
    BY <1>1, <1>2
  <2>2. PICK g : g = [j \in 1..k |-> T(j)]
    OBVIOUS
  <2>3. g \in [1..k -> S]
    BY <2>1, <2>2
  <2>4. g \in Seq(S) /\ Len(g) = k
    BY <2>3
  <2> QED
    BY <2>2, <2>4
<1>5. ASSUME i < Len(steps) PROVE Announced(steps, i + 1) = Append(Announced(steps, i), T(i + 1))
  <2>1. PICK a, b, r : a = Announced(steps, i) /\ b = Announced(steps, i + 1) /\ r = Append(a, T(i + 1))
    OBVIOUS
  <2>2. i + 1 \in Nat /\ i + 1 <= Len(steps) /\ T(i + 1) \in S
    BY <1>1, <1>2, <1>5
  <2>3. /\ a \in Seq(S) /\ Len(a) = i /\ \A j \in 1..i : a[j] = T(j)
        /\ b \in Seq(S) /\ Len(b) = i + 1 /\ \A j \in 1..i + 1 : b[j] = T(j)
    <3>1. a = [j \in 1..i |-> T(j)] /\ b = [j \in 1..i + 1 |-> T(j)]
      BY <1>2, <2>1, <2>2
    <3>2. a \in Seq(S) /\ Len(a) = i /\ b \in Seq(S) /\ Len(b) = i + 1
      BY <1>4, <2>2, <3>1
    <3> QED
      BY <3>1, <3>2
  <2>4. r \in Seq(S) /\ Len(r) = i + 1 /\ r[i + 1] = T(i + 1) /\ \A j \in 1..i : r[j] = a[j]
    <3>1. r \in Seq(S) /\ Len(r) = Len(a) + 1 /\ r[Len(a) + 1] = T(i + 1) /\ \A j \in 1..Len(a) : r[j] = a[j]
      BY <2>1, <2>2, <2>3
    <3> QED
      BY <2>3, <3>1
  <2>5. \A j \in 1..i + 1 : j \in 1..i \/ j = i + 1
    OBVIOUS
  <2>6. \A j \in 1..i + 1 : b[j] = r[j]
    BY <2>3, <2>4, <2>5
  <2>7. b = r
    BY <2>3, <2>4, <2>6
  <2> QED
    BY <2>1, <2>7
<1>6. Announced(steps, i) \in Seq(S) /\ Len(Announced(steps, i)) = i
  BY <1>2, <1>4
<1> QED
  BY <1>3, <1>5, <1>6 DEF S

LEMMA ToldTyped ==
    ASSUME NEW steps \in Seq(StepRecords), NEW i \in 0..Len(steps)
    PROVE  Told(steps, i) \in Counts
<1>1. PICK fd : fd = Announced(steps, i)
  OBVIOUS
<1>2. fd \in Seq([index : Nat, code : Seq(Chars)]) /\ i \in Nat
  <2>1. i \in Nat /\ i <= Len(steps)
    OBVIOUS
  <2> QED
    BY <1>1, <2>1, AnnouncedMore
<1> QED
  BY <1>1, <1>2 DEF Told, Counts

LEMMA ToldNext ==
    ASSUME NEW steps \in Seq(StepRecords), NEW i \in 0..Len(steps), i < Len(steps)
    PROVE  /\ WithCode(StepOpened(StepFrames, Told(steps, i)), steps[i + 1].code) = Told(steps, i + 1)
           /\ WithCode(Told(steps, i + 1), steps[i + 1].code) = Told(steps, i + 1)
<1> DEFINE w == steps[i + 1].code
<1>1. PICK fd, gd, x : fd = Announced(steps, i) /\ gd = Announced(steps, i + 1) /\ x = [index |-> i + 1, code |-> <<w>>]
  OBVIOUS
<1>2. gd = Append(fd, x) /\ i \in Nat
  BY <1>1, AnnouncedMore
<1>3. Told(steps, i) = [opened |-> i, last_found |-> i, found |-> fd]
  BY <1>1 DEF Told
<1>4. Told(steps, i + 1) = [opened |-> i + 1, last_found |-> i + 1, found |-> gd]
  BY <1>1 DEF Told
<1>5. PICK o : o = StepOpened(StepFrames, Told(steps, i))
  OBVIOUS
<1>6. o = [opened |-> i + 1, last_found |-> i, found |-> fd]
  <2>1. o = [Told(steps, i) EXCEPT !.opened = @ + 1]
    BY <1>5, StepFramesAre DEF StepOpened
  <2> QED
    BY <1>3, <2>1
<1> HIDE DEF w
<1>7. o.opened > o.last_found /\ o.opened = i + 1 /\ o.found = fd
  BY <1>2, <1>6
<1>8. WithCode(o, w) = [opened |-> i + 1, last_found |-> i + 1, found |-> Append(fd, x)]
  BY <1>1, <1>7 DEF WithCode
<1>9. WithCode(o, w) = Told(steps, i + 1)
  BY <1>2, <1>4, <1>8
<1>10. PICK d : d = Told(steps, i + 1)
  OBVIOUS
<1>11. ~(d.opened > d.last_found)
  BY <1>2, <1>4, <1>10
<1>12. WithCode(d, w) = d
  BY <1>11 DEF WithCode
<1> QED
  BY <1>5, <1>9, <1>10, <1>12 DEF w

StepTexts(steps) == [i \in DOMAIN steps |-> StepText(steps[i])]

\* The steps of a plan are found one after the other.
LEMMA StepsRead ==
    ASSUME NEW steps \in Seq(StepRecords)
    PROVE  /\ Reads(Entry("steps", Arr(StepTexts(steps))),
                    Inside(<<>>, FALSE, Told(steps, 0)), Inside(<<>>, TRUE, Told(steps, Len(steps))))
           /\ Entry("steps", Arr(StepTexts(steps))) \in Seq(Chars) /\ Entry("steps", Arr(StepTexts(steps))) # <<>>
<1>1. PICK n, ms : n = Len(steps) /\ ms = StepTexts(steps)
  OBVIOUS
<1>2. n \in Nat /\ DOMAIN steps = 1..n
  BY <1>1
<1> DEFINE cs == [i \in 0..n |-> Told(steps, i)]
<1>3. cs \in [0..n -> Counts]
  BY <1>1, ToldTyped
<1>4. ASSUME NEW i \in 0..n, i < n
      PROVE  /\ Reads(StepText(steps[i + 1]), At(StepFrames, Told(steps, i)), At(StepFrames, Told(steps, i + 1)))
             /\ StepText(steps[i + 1]) # <<>> /\ StepText(steps[i + 1]) \in Seq(Chars)
  <2>1. PICK step : step = steps[i + 1]
    OBVIOUS
  <2>2. step \in StepRecords
    BY <1>1, <1>2, <1>4, <2>1
  <2>3. PICK c, d : c = Told(steps, i) /\ d = Told(steps, i + 1)
    OBVIOUS
  <2>4. c \in Counts
    BY <1>1, <2>3, ToldTyped
  <2>5. WithCode(StepOpened(StepFrames, c), step.code) = d /\ WithCode(d, step.code) = d
    BY <1>1, <1>4, <2>1, <2>3, ToldNext
  <2>6. /\ Reads(StepText(step), At(StepFrames, c), At(StepFrames, d))
        /\ StepText(step) # <<>> /\ StepText(step) \in Seq(Chars)
    BY <2>2, <2>4, <2>5, StepReads
  <2> QED
    BY <2>1, <2>3, <2>6
<1>5. \A i \in 1..n : i - 1 \in 0..n /\ i - 1 < n /\ i - 1 + 1 = i
  BY <1>2
<1>6. \A i \in 1..n : StepText(steps[i]) # <<>> /\ StepText(steps[i]) \in Seq(Chars)
  BY <1>4, <1>5
<1>7. /\ ms \in Seq(Seq(Chars)) /\ Len(ms) = n /\ \A i \in 1..n : ms[i] # <<>>
      /\ \A i \in 1..n : ms[i] = StepText(steps[i])
  <2>1. ms = [i \in 1..n |-> StepText(steps[i])]
    BY <1>1, <1>2 DEF StepTexts
  <2>2. ms \in [1..n -> Seq(Chars)]
    BY <1>6, <2>1
  <2>3. ms \in Seq(Seq(Chars)) /\ Len(ms) = n
    BY <1>2, <2>2
  <2> QED
    BY <1>6, <2>1, <2>3
<1>8. \A i \in 0..n : i < n => i + 1 \in 0..n /\ i + 1 \in 1..n
  BY <1>2
<1>9. ASSUME NEW i \in 0..n, i < n
      PROVE  Reads(ms[i + 1], At(Append(InPlan, Array), cs[i]), At(Append(InPlan, Array), cs[i + 1]))
  <2>1. cs[i] = Told(steps, i) /\ cs[i + 1] = Told(steps, i + 1) /\ ms[i + 1] = StepText(steps[i + 1])
    BY <1>7, <1>8, <1>9
  <2>2. Reads(StepText(steps[i + 1]), At(StepFrames, Told(steps, i)), At(StepFrames, Told(steps, i + 1)))
    BY <1>4, <1>9
  <2> QED
    BY <2>1, <2>2 DEF StepFrames
<1>10. cs[0] = Told(steps, 0) /\ cs[n] = Told(steps, n) /\ 0 \in 0..n /\ n \in 0..n
  BY <1>2
<1>11. Told(steps, 0) \in Counts /\ Told(steps, n) \in Counts
  BY <1>3, <1>10
<1> HIDE DEF cs
<1>12. Reads(Arr(ms), At(InPlan, Told(steps, 0)), At(InPlan, cs[Len(ms)]))
  <2>1. \A i \in 1..Len(ms) : ms[i] # <<>>
    BY <1>7
  <2>2. cs \in [0..Len(ms) -> Counts]
    BY <1>3, <1>7
  <2>3. \A i \in 0..Len(ms) : i < Len(ms) =>
            Reads(ms[i + 1], At(Append(InPlan, Array), cs[i]), At(Append(InPlan, Array), cs[i + 1]))
    BY <1>7, <1>9
  <2> QED
    BY <1>7, <1>10, <1>11, <2>1, <2>2, <2>3, StepFramesAre, ArrReads
<1>13. Reads(Arr(ms), At(InPlan, Told(steps, 0)), At(InPlan, Told(steps, n)))
  BY <1>7, <1>10, <1>12
<1>14. <<>> \in Seq(Frame)
  OBVIOUS
<1>15. Reads(Entry("steps", Arr(ms)), Inside(<<>>, FALSE, Told(steps, 0)), Inside(<<>>, TRUE, Told(steps, n)))
  BY <1>11, <1>13, <1>14, KnownWords, ReadsEntry DEF InPlan
<1>16. Arr(ms) \in Seq(Chars)
  BY <1>13 DEF Reads
<1>17. Entry("steps", Arr(ms)) \in Seq(Chars) /\ Entry("steps", Arr(ms)) # <<>>
  BY <1>16, KnownWords, EntryTyped
<1> QED
  BY <1>1, <1>15, <1>17

LEMMA OtherRead ==
    ASSUME NEW c \in Counts
    PROVE  /\ Reads(Entry("x", Inner), Inside(<<>>, FALSE, c), Inside(<<>>, TRUE, c))
           /\ Entry("x", Inner) \in Seq(Chars) /\ Entry("x", Inner) # <<>>
<1>1. PICK f : f = Append(<<>>, InObject(<<"x">>, TRUE))
  OBVIOUS
<1>2. <<>> \in Seq(Frame) /\ Len(<<>>) = 0
  OBVIOUS
<1>3. f \in Seq(Frame) /\ Last(f) = InObject(<<"x">>, TRUE) /\ Len(f) = 1
  <2>1. f \in Seq(Frame) /\ Last(f) = InObject(<<"x">>, TRUE) /\ Len(f) = Len(<<>>) + 1
    BY <1>1, <1>2, KnownWords, AfterKey
  <2>2. Len(<<>>) + 1 = 1
    BY <1>2
  <2> QED
    BY <2>1, <2>2
<1>4. f # <<>> /\ f[1].key = <<"x">>
  <2>1. f # <<>> /\ f[1] = InObject(<<"x">>, TRUE)
    <3>1. f # <<>>
      BY <1>3
    <3>2. Last(f) = f[Len(f)]
      BY Zenon DEF Last
    <3> QED
      BY <1>3, <3>1, <3>2
  <2> QED
    BY <2>1 DEF InObject
<1>5. Aside(f)
  BY <1>4, WordsDiffer DEF Aside
<1>6. Reads(Inner, At(f, c), At(f, c)) /\ Inner \in Seq(Chars)
  BY <1>3, <1>4, <1>5, InnerReads
<1>7. Reads(Entry("x", Inner), Inside(<<>>, FALSE, c), Inside(<<>>, TRUE, c))
  BY <1>1, <1>2, <1>6, KnownWords, ReadsEntry
<1> QED
  BY <1>6, <1>7, KnownWords, EntryTyped

\* The text of a plan is read to its end, and every step is then found once.
LEMMA PlanRead ==
    ASSUME NEW plan, plan.steps \in Seq(StepRecords)
    PROVE  Reads(PlanText(plan), At(<<>>, Told(plan.steps, 0)), At(<<>>, Told(plan.steps, Len(plan.steps))))
<1>1. PICK sq : sq = plan.steps
  OBVIOUS
<1> DEFINE steps == Entry("steps", Arr(StepTexts(sq)))
           other == Entry("x", Inner)
           c == Told(sq, 0)
           d == Told(sq, Len(sq))
<1>2. sq \in Seq(StepRecords) /\ 0 \in 0..Len(sq) /\ Len(sq) \in 0..Len(sq)
  <2>1. sq \in Seq(StepRecords)
    BY <1>1
  <2>2. Len(sq) \in Nat
    BY <2>1
  <2> QED
    BY <2>1, <2>2
<1>3. c \in Counts /\ d \in Counts
  BY <1>2, ToldTyped
<1>4. /\ Reads(steps, Inside(<<>>, FALSE, c), Inside(<<>>, TRUE, d))
      /\ steps \in Seq(Chars) /\ steps # <<>>
  BY <1>2, StepsRead
<1>5. /\ Reads(other, Inside(<<>>, FALSE, c), Inside(<<>>, TRUE, c))
      /\ Reads(other, Inside(<<>>, FALSE, d), Inside(<<>>, TRUE, d))
      /\ other \in Seq(Chars) /\ other # <<>>
  BY <1>3, OtherRead
<1>6. PlanText(plan) = Obj(IF plan.steps_first THEN <<steps, other>> ELSE <<other, steps>>)
  BY <1>1 DEF PlanText, StepTexts, Inner
<1>7. StepOpened(<<>>, c) = c /\ <<>> \in Seq(Frame)
  <2>1. Len(<<>>) # 2
    OBVIOUS
  <2> QED
    BY <2>1 DEF StepOpened, InSteps
<1> HIDE DEF steps, other, c, d
<1>8. Reads(Obj(<<steps, other>>), At(<<>>, c), At(<<>>, d))
  BY <1>3, <1>4, <1>5, <1>7, TwoMembers
<1>9. Reads(Obj(<<other, steps>>), At(<<>>, c), At(<<>>, d))
  BY <1>3, <1>4, <1>5, <1>7, TwoMembers
<1>10. Reads(PlanText(plan), At(<<>>, c), At(<<>>, d))
  <2>1. CASE plan.steps_first
    BY <1>6, <1>8, <2>1
  <2>2. CASE ~plan.steps_first
    BY <1>6, <1>9, <2>2
  <2> QED
    BY <2>1, <2>2
<1> QED
  BY <1>1, <1>10 DEF c, d

\* The reader of a streamed plan, from its start: at every moment what it has
\* announced are the first steps of the plan.
LEMMA ReaderAnnounces ==
    ASSUME NEW plan, plan.steps \in Seq(StepRecords)
    PROVE  \E g : /\ ReaderRun(g, PlanText(plan)) /\ g[0] = Reader /\ PlanText(plan) \in Seq(Chars)
                  /\ g[Len(PlanText(plan))].found = Announced(plan.steps, Len(plan.steps))
<1>1. PICK c, d : c = Told(plan.steps, 0) /\ d = Told(plan.steps, Len(plan.steps))
  OBVIOUS
<1>2. Reads(PlanText(plan), At(<<>>, c), At(<<>>, d))
  BY <1>1, PlanRead
<1>3. Reader \in At(<<>>, c)
  <2>0. PICK nil : nil = <<>>
    OBVIOUS
  <2>1. PICK no \in BOOLEAN : no = FALSE
    OBVIOUS
  <2>2. Announced(plan.steps, 0) = nil
    <3>1. PICK a : a = Announced(plan.steps, 0)
      OBVIOUS
    <3>2. a = [j \in 1..0 |-> [index |-> j, code |-> <<plan.steps[j].code>>]]
      BY <3>1 DEF Announced
    <3>3. a \in [1..0 -> {}]
      BY <3>2
    <3>4. a \in Seq({}) /\ Len(a) = 0
      BY <3>3
    <3>5. a = <<>>
      BY <3>4
    <3> QED
      BY <2>0, <3>1, <3>5
  <2>3. c.opened = 0 /\ c.last_found = 0 /\ c.found = nil
    BY <1>1, <2>2 DEF Told
  <2>4. Reader = Between(nil, no, c)
    BY <2>0, <2>1, <2>3 DEF Reader, Between
  <2> QED
    BY <2>0, <2>4 DEF At
<1>4. PICK w \in At(<<>>, d) : RunBetween(PlanText(plan), Reader, w)
  BY <1>2, <1>3 DEF Reads
<1>5. w.found = Announced(plan.steps, Len(plan.steps))
  <2>1. d.found = Announced(plan.steps, Len(plan.steps))
    BY <1>1 DEF Told
  <2>2. PICK k \in BOOLEAN : w = Between(<<>>, k, d)
    BY DEF At
  <2>3. w.found = d.found
    BY <2>2 DEF Between
  <2> QED
    BY <2>1, <2>3
<1>6. PlanText(plan) \in Seq(Chars)
  BY <1>2 DEF Reads
<1> QED
  BY <1>4, <1>5, <1>6 DEF RunBetween


----------------------------------------------------------------------------
(* The plan that is shown *)

\* A reader after n characters of a text that tells the steps v.
Following(t, v, n, r) ==
    /\ t \in Seq(Chars) /\ v \in Seq(StepRecords) /\ n \in 0..Len(t)
    /\ \E g : ReaderRun(g, t) /\ g[Len(t)].found = Announced(v, Len(v)) /\ r = g[n]

LEMMA FollowingStarts ==
    /\ Following(<<>>, <<>>, 0, Reader)
    /\ \A plan \in PlanTexts : Following(PlanText(plan), plan.steps, 0, Reader)
<1>1. Following(<<>>, <<>>, 0, Reader)
  <2>1. PICK nil : nil = <<>>
    OBVIOUS
  <2>2. nil \in Seq(Chars) /\ nil \in Seq(StepRecords) /\ Len(nil) = 0 /\ 0 \in 0..0
        /\ nil \in Seq([index : Nat, code : Seq(Chars)])
    BY <2>1
  <2>3. Reader.found = nil
    BY <2>1 DEF Reader
  <2>4. RunBetween(nil, Reader, Reader)
    BY <2>1, <2>2, <2>3, RunNone
  <2>5. Announced(nil, 0) = nil
    <3>1. Announced(nil, 0) \in Seq([index : Nat, code : Seq(Chars)]) /\ Len(Announced(nil, 0)) = 0
      <4>1. 0 \in Nat /\ 0 <= Len(nil)
        BY <2>2
      <4> QED
        BY <2>2, <4>1, AnnouncedMore
    <3> QED
      BY <2>1, <3>1
  <2>6. Following(nil, nil, 0, Reader)
    BY <2>2, <2>3, <2>4, <2>5 DEF Following, RunBetween
  <2> QED
    BY <2>1, <2>6
<1>2. ASSUME NEW plan \in PlanTexts PROVE Following(PlanText(plan), plan.steps, 0, Reader)
  <2>1. plan.steps \in Seq(StepRecords)
    BY GenerationAssumption DEF StepRecords
  <2>2. PICK g : /\ ReaderRun(g, PlanText(plan)) /\ g[0] = Reader /\ PlanText(plan) \in Seq(Chars)
                 /\ g[Len(PlanText(plan))].found = Announced(plan.steps, Len(plan.steps))
    BY <2>1, ReaderAnnounces
  <2>3. 0 \in 0..Len(PlanText(plan))
    BY <2>2
  <2> QED
    BY <2>1, <2>2, <2>3 DEF Following
<1> QED
  BY <1>1, <1>2

LEMMA FollowingOn ==
    ASSUME NEW t, NEW v, NEW n, NEW r, Following(t, v, n, r), n < Len(t)
    PROVE  Following(t, v, n + 1, feed(r, t[n + 1]))
<1>1. PICK g : ReaderRun(g, t) /\ g[Len(t)].found = Announced(v, Len(v)) /\ r = g[n]
  BY DEF Following
<1>2. t \in Seq(Chars) /\ v \in Seq(StepRecords) /\ n \in 0..Len(t) /\ n + 1 \in 0..Len(t)
  BY DEF Following
<1>3. g[n + 1] = feed(g[n], t[n + 1])
  BY <1>1, <1>2 DEF ReaderRun
<1> QED
  BY <1>1, <1>2, <1>3 DEF Following

LEMMA FollowingShows ==
    ASSUME NEW t, NEW v, NEW n, NEW r, Following(t, v, n, r)
    PROVE  /\ Len(r.found) <= Len(v)
           /\ \A i \in DOMAIN r.found : r.found[i] = [index |-> i, code |-> <<v[i].code>>]
           /\ n = Len(t) => Len(r.found) = Len(v)
<1>1. PICK g : ReaderRun(g, t) /\ g[Len(t)].found = Announced(v, Len(v)) /\ r = g[n]
  BY DEF Following
<1>2. t \in Seq(Chars) /\ v \in Seq(StepRecords) /\ n \in 0..Len(t) /\ Len(v) \in Nat
  BY DEF Following
<1>3. Extends(Announced(v, Len(v)), r.found)
  BY <1>1, <1>2, RunExtends
<1>4. Len(Announced(v, Len(v))) = Len(v)
  <2>1. Len(v) \in Nat /\ Len(v) <= Len(v)
    BY <1>2
  <2> QED
    BY <1>2, <2>1, AnnouncedMore
<1>5. r.found \in Seq([index : Nat, code : Seq(Chars)])
  BY <1>1, <1>2 DEF ReaderRun
<1>6. Len(r.found) <= Len(v) /\ DOMAIN r.found = 1..Len(r.found) /\ Len(r.found) \in Nat
  BY <1>3, <1>4, <1>5 DEF Extends
<1>7. ASSUME NEW i \in DOMAIN r.found PROVE r.found[i] = [index |-> i, code |-> <<v[i].code>>]
  <2>1. i \in 1..Len(r.found) /\ i \in 1..Len(v)
    BY <1>2, <1>6
  <2>2. Announced(v, Len(v))[i] = r.found[i]
    BY <1>3, <2>1 DEF Extends
  <2>3. Announced(v, Len(v))[i] = [index |-> i, code |-> <<v[i].code>>]
    BY <2>1 DEF Announced
  <2> QED
    BY <2>2, <2>3
<1>8. n = Len(t) => Len(r.found) = Len(v)
  BY <1>1, <1>4
<1> QED
  BY <1>6, <1>7, <1>8

\* The reader follows the text that tells the plan, and a plan that is shown
\* passed validation, for the dates it was made for.
GenInv ==
    /\ GenTypeOK
    /\ DOMAIN generation = {"at", "text", "value", "read", "reader", "preview", "outcome"}
    /\ generation.at # "ended" => generation.outcome = "none"
    /\ generation.at = "idle" => generation.read = 0 /\ generation.reader = Reader
    /\ Following(generation.text, generation.value, generation.read, generation.reader)
    /\ generation.outcome = "generated" =>
         \E c \in Compositions, base \in Bases :
            /\ validate_plan(c, base)
            /\ generation.preview = [composition |-> c, base |-> base, questions |-> open_questions(c, base)]

LEMMA GenStarts == GenInit => GenInv
<1> SUFFICES ASSUME GenInit PROVE GenInv
  OBVIOUS
<1>1. PICK nil, rd : nil = <<>> /\ rd = Reader
  OBVIOUS
<1>2. generation = [at |-> "idle", text |-> nil, value |-> nil, read |-> 0,
                    reader |-> rd, preview |-> nil, outcome |-> "none"]
  BY <1>1, Zenon DEF GenInit
<1>3. Following(nil, nil, 0, rd)
  BY <1>1, FollowingStarts
<1> QED
  BY <1>1, <1>2, <1>3 DEF GenInv, GenTypeOK

LEMMA GenKept == GenInv /\ [GenNext]_genVars => GenInv'
<1> SUFFICES ASSUME GenInv, [GenNext]_genVars PROVE GenInv'
  OBVIOUS
<1>0. DOMAIN generation = {"at", "text", "value", "read", "reader", "preview", "outcome"}
  BY DEF GenInv
<1>1. CASE start_generation
  <2>1. /\ generation.at = "idle" /\ generation.outcome = "none"
        /\ generation.read = 0 /\ generation.reader = Reader
    BY <1>1 DEF start_generation, GenInv
  <2>2. CASE generation' = [generation EXCEPT !.at = "ended", !.outcome = "needs_clarification"]
    BY <1>0, <2>2 DEF GenInv, GenTypeOK
  <2>3. ASSUME NEW plan \in PlanTexts,
               generation' = [generation EXCEPT !.at = "writing", !.text = PlanText(plan), !.value = plan.steps]
        PROVE  GenInv'
    <3>1. PICK t, v : t = PlanText(plan) /\ v = plan.steps
      OBVIOUS
    <3>2. generation' = [generation EXCEPT !.at = "writing", !.text = t, !.value = v]
      BY <2>3, <3>1
    <3>3. Following(t, v, 0, Reader)
      BY <3>1, FollowingStarts
    <3> QED
      BY <1>0, <2>1, <3>2, <3>3 DEF GenInv, GenTypeOK
  <2> QED
    BY <1>1, <2>2, <2>3 DEF start_generation
<1>2. CASE text_arrives
  <2>1. PICK n, rd : /\ n = generation.read + 1 /\ rd = feed(generation.reader, generation.text[n])
                     /\ generation' = [generation EXCEPT !.read = n, !.reader = rd]
    BY <1>2 DEF text_arrives
  <2>2. generation.at = "writing" /\ generation.read < Len(generation.text)
    BY <1>2 DEF text_arrives
  <2>3. Following(generation.text, generation.value, n, rd)
    BY <2>1, <2>2, FollowingOn DEF GenInv
  <2> QED
    BY <1>0, <2>1, <2>2, <2>3 DEF GenInv, GenTypeOK
<1>3. CASE validate
  <2>1. PICK c \in Compositions, base \in Bases :
          generation' = [generation EXCEPT !.at = "ended",
             !.preview = [composition |-> c, base |-> base, questions |-> open_questions(c, base)],
             !.outcome = IF validate_plan(c, base) THEN "generated" ELSE "invalid_plan"]
    BY <1>3 DEF validate
  <2>2. PICK pv : pv = [composition |-> c, base |-> base, questions |-> open_questions(c, base)]
    OBVIOUS
  <2>3. PICK out : out = IF validate_plan(c, base) THEN "generated" ELSE "invalid_plan"
    OBVIOUS
  <2>4. generation' = [generation EXCEPT !.at = "ended", !.preview = pv, !.outcome = out]
    BY <2>1, <2>2, <2>3, Zenon
  <2>5. /\ generation'.at = "ended" /\ generation'.preview = pv /\ generation'.outcome = out
        /\ generation'.text = generation.text /\ generation'.value = generation.value
        /\ generation'.read = generation.read /\ generation'.reader = generation.reader
        /\ DOMAIN (generation') = {"at", "text", "value", "read", "reader", "preview", "outcome"}
    BY <1>0, <2>4
  <2> QED
    BY <2>2, <2>3, <2>5 DEF GenInv, GenTypeOK
<1>4. CASE generation_fails
  <2>1. generation' = [generation EXCEPT !.at = "ended", !.outcome = "failed"]
    BY <1>4 DEF generation_fails
  <2> QED
    BY <1>0, <2>1 DEF GenInv, GenTypeOK
<1>5. CASE UNCHANGED genVars
  BY <1>5 DEF GenInv, GenTypeOK, genVars
<1> QED
  BY <1>1, <1>2, <1>3, <1>4, <1>5 DEF GenNext

\* A sequence that has nothing twice is as long as what it has.
LEMMA EachOnce ==
    ASSUME NEW S, NEW s \in Seq(S), IsInjective(s)
    PROVE  IsFiniteSet(ToSet(s)) /\ Cardinality(ToSet(s)) = Len(s)
<1> DEFINE n == Len(s)
<1>1. n \in Nat /\ DOMAIN s = 1..n /\ s \in [1..n -> ToSet(s)]
  BY DEF ToSet
<1>2. \A x \in ToSet(s) : \E i \in 1..n : s[i] = x
  BY <1>1 DEF ToSet
<1>3. IsFiniteSet(1..n) /\ Cardinality(1..n) = n
  <2>1. 0 \in Int /\ 1 \in Int /\ n \in Int
    BY <1>1
  <2>2. IsFiniteSet(1..n) /\ Cardinality(1..n) = IF 1 > n THEN 0 ELSE n - 1 + 1
    BY <2>1, FS_Interval
  <2> QED
    BY <1>1, <2>2
<1> HIDE DEF n
<1>4. s \in Bijection(1..n, ToSet(s))
  <2>1. s \in Injection(1..n, ToSet(s))
    BY <1>1 DEF Injection, IsInjective
  <2>2. s \in Surjection(1..n, ToSet(s))
    BY <1>1, <1>2 DEF Surjection
  <2> QED
    BY <2>1, <2>2 DEF Bijection
<1>5. ExistsBijection(1..n, ToSet(s))
  BY <1>4 DEF ExistsBijection
<1> QED
  BY <1>1, <1>3, <1>5, FS_Bijection DEF n

\* validate_plan: what passes lies on one time line, and accounts for every
\* step of the catalog once.
LEMMA ValidLiesOnOneLine ==
    ASSUME NEW c \in Compositions, NEW base \in Bases, validate_plan(c, base)
    PROVE  OnOneTimeLine(c, base, open_questions(c, base))
<1> DEFINE steps == ToSet(c.steps)
           codes == [i \in DOMAIN c.steps |-> c.steps[i].code]
<1>1. /\ base.start_date \in Nat /\ base.end_date \in Nat
      /\ base.start_date = NoDate \/ base.end_date = NoDate \/ base.start_date <= base.end_date
  BY GenerationAssumption
<1>2. /\ c.steps \in Seq(steps) /\ c.excluded \in Seq(ToSet(c.excluded))
      /\ \A s \in steps : s.starts_at \in Nat /\ s.deadline \in Nat
  BY GenerationAssumption
<1>3. \A s \in steps : ~StepRefused(s, base)
  BY DEF validate_plan, ToSet
<1>4. \A s \in steps : Dates(s) \subseteq Nat
  BY <1>2 DEF Dates
<1>5. \A s \in steps : base.start_date = NoDate =>
           Dates(s) = {} /\ \A a \in ToSet(s.actions) : a.due = NoDate
  BY <1>3 DEF StepRefused, dates_when_unknown
<1>6. ASSUME NEW s \in steps, NEW t \in steps, NEW d \in Dates(s), NEW e \in Dates(t),
             s.code \in BEFORE_EVENT, t.code \in AFTER_EVENT, base.end_date # NoDate
      PROVE  d <= e
  <2>1. base.start_date # NoDate
    BY <1>5
  <2>2. ~(d > base.start_date)
    BY <1>3, <1>6, <2>1 DEF StepRefused, before_event_after_start
  <2>3. ~(e < base.end_date)
    BY <1>3, <1>6, <2>1 DEF StepRefused, after_event_before_end
  <2>4. d \in Nat /\ e \in Nat
    BY <1>4
  <2> QED
    BY <1>1, <1>6, <2>1, <2>2, <2>3, <2>4
<1>7. /\ IsInjective(codes) /\ IsInjective(c.excluded)
      /\ ToSet(codes) \cap ToSet(c.excluded) = {}
      /\ ToSet(codes) \cup ToSet(c.excluded) = DOMAIN Catalog
  BY DEF validate_plan, catalog_partition
<1>8. ToSet(codes) = {s.code : s \in steps}
  <2>1. ASSUME NEW s \in steps PROVE s.code \in ToSet(codes)
    <3>1. PICK i \in DOMAIN c.steps : s = c.steps[i]
      BY DEF ToSet
    <3>2. i \in DOMAIN codes /\ codes[i] = s.code
      BY <3>1
    <3> HIDE DEF codes
    <3> QED
      BY <3>2 DEF ToSet
  <2>2. ASSUME NEW x \in ToSet(codes) PROVE \E s \in steps : x = s.code
    <3>1. PICK i \in DOMAIN codes : x = codes[i]
      BY <2>2 DEF ToSet
    <3>2. c.steps[i] \in steps /\ x = c.steps[i].code
      BY <3>1 DEF ToSet
    <3> QED
      BY <3>2
  <2> QED
    BY <2>1, <2>2
<1>9. codes \in Seq(ToSet(codes)) /\ Len(codes) = Len(c.steps)
  <2>1. DOMAIN c.steps = 1..Len(c.steps) /\ Len(c.steps) \in Nat
    BY <1>2
  <2>2. \A i \in DOMAIN c.steps : codes[i] \in ToSet(codes)
    BY DEF ToSet
  <2>3. codes \in [1..Len(c.steps) -> ToSet(codes)]
    BY <2>1, <2>2
  <2> HIDE DEF codes
  <2> QED
    BY <2>1, <2>3
<1> HIDE DEF codes
<1>10. Len(c.steps) + Len(c.excluded) = Cardinality(DOMAIN Catalog)
  <2>1. IsFiniteSet(ToSet(codes)) /\ Cardinality(ToSet(codes)) = Len(c.steps)
    BY <1>7, <1>9, EachOnce
  <2>2. IsFiniteSet(ToSet(c.excluded)) /\ Cardinality(ToSet(c.excluded)) = Len(c.excluded)
    BY <1>2, <1>7, EachOnce
  <2>3. Cardinality({}) = 0
    BY FS_EmptySet
  <2>4. Cardinality(DOMAIN Catalog) = Len(c.steps) + Len(c.excluded) - 0
    BY <1>7, <2>1, <2>2, <2>3, FS_Union
  <2>5. Len(c.steps) \in Nat /\ Len(c.excluded) \in Nat
    BY <1>2
  <2>6. PICK n, m, k : n = Len(c.steps) /\ m = Len(c.excluded) /\ k = Cardinality(DOMAIN Catalog)
    OBVIOUS
  <2>7. k = n + m - 0 /\ n \in Nat /\ m \in Nat
    BY <2>4, <2>5, <2>6
  <2>8. k = n + m
    BY <2>7
  <2> QED
    BY <2>6, <2>8
<1>11. base.start_date # NoDate \/ "event date" \in open_questions(c, base)
  BY DEF open_questions
<1>12. DOMAIN Catalog = {s.code : s \in steps} \cup ToSet(c.excluded)
  BY <1>7, <1>8
<1> QED
  BY <1>5, <1>6, <1>10, <1>11, <1>12 DEF OnOneTimeLine

LEMMA GenShows == GenInv => ShownPlanIsSound
<1> SUFFICES ASSUME GenInv PROVE ShownPlanIsSound
  OBVIOUS
<1>0. AnnouncedInOrder
  <2>1. Following(generation.text, generation.value, generation.read, generation.reader)
    BY DEF GenInv
  <2> QED
    BY <2>1, FollowingShows DEF AnnouncedInOrder
<1> SUFFICES ASSUME generation.outcome = "generated"
             PROVE  OnOneTimeLine(generation.preview.composition, generation.preview.base,
                                  generation.preview.questions)
  BY <1>0 DEF GenInv, ShownPlanIsSound
<1>1. PICK c \in Compositions, base \in Bases :
        /\ validate_plan(c, base)
        /\ generation.preview = [composition |-> c, base |-> base, questions |-> open_questions(c, base)]
  BY DEF GenInv
<1>2. OnOneTimeLine(c, base, open_questions(c, base))
  BY <1>1, ValidLiesOnOneLine
<1>3. PICK q : q = open_questions(c, base)
  OBVIOUS
<1>4. generation.preview = [composition |-> c, base |-> base, questions |-> q]
  BY <1>1, <1>3
<1>5. generation.preview.composition = c /\ generation.preview.base = base /\ generation.preview.questions = q
  BY <1>4
<1> QED
  BY <1>2, <1>3, <1>5

\* Whatever steps a plan has and in whatever pieces its text arrives, a step is
\* announced only as the text writes it and in its order, and the plan is shown
\* only if it fits the catalogue and the dates (event_generation_service and the
\* stream of the planning route).
THEOREM PlansAreToldAsWritten == GenInit /\ [][GenNext]_genVars => []ShownPlanIsSound
<1>1. GenInit => GenInv
  BY GenStarts
<1>2. GenInv /\ [GenNext]_genVars => GenInv'
  BY GenKept
<1>3. GenInv => ShownPlanIsSound
  BY GenShows
<1> QED
  BY <1>1, <1>2, <1>3, PTL
=============================================================================
