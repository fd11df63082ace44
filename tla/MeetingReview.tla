---------------------------- MODULE MeetingReview ----------------------------
(***************************************************************************)
(* The review of a completed meeting (meeting_review_service and its       *)
(* routes): a paid diarization job submitted once and polled, speaker      *)
(* names confirmed by members, minutes drafted by a model from the names,  *)
(* and task candidates saved once.  Every write of the row is under its    *)
(* lock, and provider and model calls run between two transactions.  Most  *)
(* transactions read the row again once they hold it (populate_existing);  *)
(* fail_diarization and save_candidates judge and write the copy of the    *)
(* row that their session read before (expire_on_commit=False).            *)
(***************************************************************************)
EXTENDS Meeting

CONSTANTS Requests,       \* submit, poll and draft requests in flight
          Labels,         \* speaker labels
          Names,
          NoName,
          MaxReview,      \* bound on the review's version
          KeyMayChange    \* a restart may add or remove the provider's key

VARIABLES
    review,      \* the MeetingReview row
    request,     \* the requests
    paid,        \* provider jobs created (external)
    configured,  \* the provider's key is set
    overtaken    \* history: a copy of the row was written that another
                 \* request had overtaken

reviewVars == <<review, request, paid, configured, overtaken>>

----------------------------------------------------------------------------
NameMap == [Labels -> Names \cup {NoName}]
NoNames == [l \in Labels |-> NoName]

\* `draft` is the name map the draft was written from, `candidates` counts the
\* lists of task candidates that were saved.
Review ==
    [status: {"NONE", "QUEUED", "SUBMITTING", "PROCESSING",
              "SUBMISSION_UNKNOWN", "FAILED", "NEEDS_REVIEW", "DRAFT_READY"},
     version: Nat, job: Nat, labels: SUBSET Labels, names: NameMap,
     confirmed: SUBSET Labels, draft: NameMap \cup {NoName},
     candidates: Nat]

NoReview == [status |-> "NONE", version |-> 0, job |-> 0, labels |-> {},
             names |-> NoNames, confirmed |-> {}, draft |-> NoName,
             candidates |-> 0]

\* `version` is that of the session's copy of the row: a copy is QUEUED in
\* "prepare" and PROCESSING in "polling".
Request == [pc: {"idle", "retry", "prepare", "submitting", "accepted",
                 "polling", "failing", "drafting", "saving"},
            job: Nat, version: Nat, names: NameMap]

IdleRequest == [pc |-> "idle", job |-> 0, version |-> 0, names |-> NoNames]

ReviewTypeOK ==
    /\ review \in Review
    /\ request \in [Requests -> Request]
    /\ paid \in Nat /\ configured \in BOOLEAN /\ overtaken \in BOOLEAN

ReviewInit ==
    /\ review = NoReview
    /\ request = [r \in Requests |-> IdleRequest]
    /\ paid = 0 /\ configured \in BOOLEAN /\ overtaken = FALSE

\* The row is read: the request goes on with a copy of it.
reads(r, pc, row) ==
    request' = [request EXCEPT ![r].pc = pc, ![r].version = row.version]
rest(r, pc) == request' = [request EXCEPT ![r].pc = pc]
leave(r) == request' = [request EXCEPT ![r] = IdleRequest]

\* One review per meeting, of a completed one.
start ==
    /\ meeting.status = "COMPLETED" /\ review.status = "NONE"
    /\ review' = [NoReview EXCEPT !.status = "QUEUED", !.version = 1]
    /\ UNCHANGED <<request, paid, configured, overtaken>>

----------------------------------------------------------------------------
(* Submission *)

\* submit_review_diarization reads the review without a lock and answers at
\* once unless it is FAILED or QUEUED.
submit_review_diarization(r) ==
    /\ request[r].pc = "idle"
    /\ \/ review.status = "FAILED" /\ rest(r, "retry")
       \/ review.status = "QUEUED" /\ reads(r, "prepare", review)
    /\ UNCHANGED <<review, paid, configured, overtaken>>

\* Fault: a retry always goes back to the queue.
RetryAnew(row) ==
    [row EXCEPT !.status = "QUEUED", !.job = 0, !.version = @ + 1]

\* A known provider job is polled again; only a submission without one goes
\* back to the queue.
retried(row) ==
    [row EXCEPT !.status = IF row.job # 0 THEN "PROCESSING" ELSE "QUEUED",
                !.version = @ + 1]

retry_diarization(r) ==
    /\ request[r].pc = "retry" /\ review.version < MaxReview
    /\ review' = IF review.status = "FAILED" THEN retried(review) ELSE review
    /\ IF review'.status = "QUEUED" THEN reads(r, "prepare", review') ELSE leave(r)
    /\ UNCHANGED <<paid, configured, overtaken>>

\* What fail_diarization does to the row it reads; the provider's job id, if
\* any, is kept.
failed(row) ==
    IF row.status \in {"QUEUED", "PROCESSING", "SUBMITTING"}
    THEN [row EXCEPT !.status = "FAILED", !.version = @ + 1] ELSE row

\* A session that has the row already keeps its copy: one that may fail is
\* failed whatever the locked row says by now, and its version counts on.
fail_diarization(r) ==
    /\ request[r].version < MaxReview
    /\ review' = [review EXCEPT !.status = "FAILED", !.version = request[r].version + 1]
    /\ overtaken' = (overtaken \/ request[r].version # review.version)
    /\ leave(r)

\* Fault: the row, locked now, is not looked at again.
SubmitAsRead == TRUE

still_queued == review.status = "QUEUED" /\ review.job = 0

\* The meeting's audio cannot be assembled, the provider is not configured,
\* or the submission is begun if the review is still queued.
begin_submission(r) ==
    /\ request[r].pc = "prepare" /\ review.version < MaxReview
    /\ \/ leave(r) /\ UNCHANGED <<review, overtaken>>
       \/ ~configured /\ fail_diarization(r)
       \/ /\ configured
          /\ IF still_queued
             THEN /\ review' = [review EXCEPT !.status = "SUBMITTING",
                                              !.version = @ + 1]
                  /\ rest(r, "submitting")
             ELSE leave(r) /\ UNCHANGED review
          /\ UNCHANGED overtaken
    /\ UNCHANGED <<paid, configured>>

\* PyannoteDiarization.submit, seen from the provider (external): it takes
\* the job and charges for it.
ProviderAccepts(r) ==
    /\ request[r].pc = "submitting"
    /\ paid' = paid + 1
    /\ request' = [request EXCEPT ![r].pc = "accepted", ![r].job = paid + 1]
    /\ UNCHANGED <<review, configured, overtaken>>

\* The answer is there, or an exception; the row may have moved on.  A provider
\* error goes on to the route's fail_diarization, under the same lock.
submit_diarization(r) ==
    /\ review.version < MaxReview
    /\ \/ /\ request[r].pc = "accepted"
          /\ review' = IF review.status = "SUBMITTING"
                       THEN [review EXCEPT !.status = "PROCESSING",
                                !.job = request[r].job, !.version = @ + 1]
                       ELSE review
       \/ /\ request[r].pc \in {"submitting", "accepted"}
          /\ review' \in IF review.status = "SUBMITTING"
                         THEN {[review EXCEPT !.status = "SUBMISSION_UNKNOWN",
                                   !.version = @ + 1]}
                         ELSE {review, failed(review)}
    /\ leave(r)
    /\ UNCHANGED <<paid, configured, overtaken>>

----------------------------------------------------------------------------
(* Polling *)

\* Without the key the copy that was read is failed, if it may be; with it,
\* the row is locked and read again.
poll_review_diarization(r) ==
    /\ request[r].pc = "idle"
    /\ \/ /\ ~configured
          /\ review.status \in {"QUEUED", "PROCESSING", "SUBMITTING"}
          /\ reads(r, "failing", review)
       \/ /\ configured /\ review.status = "PROCESSING" /\ review.job # 0
          /\ request' = [request EXCEPT ![r].pc = "polling",
                           ![r].job = review.job, ![r].version = review.version]
    /\ UNCHANGED <<review, paid, configured, overtaken>>

\* The route's except clause, for the missing key.
FailUnconfigured(r) ==
    /\ request[r].pc = "failing"
    /\ fail_diarization(r)
    /\ UNCHANGED <<paid, configured>>

\* apply_diarization: only for the job that was polled, only once.
apply_diarization(r, labels) ==
    /\ review.status = "PROCESSING" /\ review.job = request[r].job
    /\ review' = [review EXCEPT !.labels = labels, !.status = "NEEDS_REVIEW",
                                !.version = @ + 1]
    /\ leave(r)

\* The provider answers: not ready, a result, a result that does not fit the
\* row or the format (the row was read again for it), or an error, which fails
\* the copy read before the call.
poll_diarization(r) ==
    /\ request[r].pc = "polling" /\ review.version < MaxReview
    /\ \/ /\ \/ leave(r) /\ UNCHANGED review
             \/ \E labels \in SUBSET Labels : apply_diarization(r, labels)
             \/ leave(r) /\ review' = failed(review)
          /\ UNCHANGED overtaken
       \/ fail_diarization(r)
    /\ UNCHANGED <<paid, configured>>

----------------------------------------------------------------------------
(* Names, minutes, candidates *)

reviewable == review.status \in {"NEEDS_REVIEW", "DRAFT_READY"}

\* A confirmed speaker has a name; a label without one is stored unconfirmed.
set_names(version, names, confirmed) ==
    /\ review.version = version /\ version < MaxReview
    /\ reviewable
    /\ \A l \in Labels \ review.labels : names[l] = NoName
    /\ \A l \in confirmed : l \in review.labels /\ names[l] # NoName
    /\ review' = [review EXCEPT !.names = names, !.confirmed = confirmed,
           !.draft = NoName, !.status = "NEEDS_REVIEW", !.version = @ + 1]
    /\ UNCHANGED <<request, paid, configured, overtaken>>

\* generate_draft, before the model is called.
create_review_draft(r, version) ==
    /\ request[r].pc = "idle"
    /\ review.version = version /\ review.status = "NEEDS_REVIEW"
    /\ request' = [request EXCEPT ![r].pc = "drafting",
                       ![r].version = version, ![r].names = review.names]
    /\ UNCHANGED <<review, paid, configured, overtaken>>

\* Fault: the version is not compared again.
DraftAnyVersion(r) == review.status = "NEEDS_REVIEW"

draft_is_current(r) ==
    review.version = request[r].version /\ review.status = "NEEDS_REVIEW"

\* generate_draft, after it; the model may also fail.
generate_draft(r) ==
    /\ request[r].pc = "drafting" /\ review.version < MaxReview
    /\ \/ /\ draft_is_current(r)
          /\ review' = [review EXCEPT !.draft = request[r].names,
                            !.status = "DRAFT_READY", !.version = @ + 1]
       \/ UNCHANGED review
    /\ leave(r)
    /\ UNCHANGED <<paid, configured, overtaken>>

all_confirmed ==
    review.labels # {} /\ review.labels \subseteq review.confirmed

\* The route reads the row; the checks below are made on this copy.  When a
\* list was saved the same request again answers its rows, and another one is
\* an IdempotencyConflict.
save_review_candidates(r, version) ==
    /\ request[r].pc = "idle"
    /\ review.candidates = 0
    /\ review.version = version
    /\ reviewable /\ all_confirmed
    /\ reads(r, "saving", review)
    /\ UNCHANGED <<review, paid, configured, overtaken>>

\* save_candidates, with the row locked but not read again.
save_candidates(r) ==
    /\ request[r].pc = "saving" /\ request[r].version < MaxReview
    /\ review' = [review EXCEPT !.candidates = @ + 1,
                                !.version = request[r].version + 1]
    /\ overtaken' = (overtaken \/ request[r].version # review.version)
    /\ leave(r)
    /\ UNCHANGED <<paid, configured>>

\* The server stops in the middle of its requests and starts again.
RestartReview ==
    /\ \E r \in Requests : request[r].pc # "idle"
    /\ request' = [r \in Requests |-> IdleRequest]
    /\ configured' \in IF KeyMayChange THEN BOOLEAN ELSE {configured}
    /\ UNCHANGED <<review, paid, overtaken>>

ReviewNext ==
    \/ start
    \/ \E r \in Requests :
           \/ submit_review_diarization(r)
           \/ retry_diarization(r)
           \/ begin_submission(r)
           \/ ProviderAccepts(r)
           \/ submit_diarization(r)
           \/ poll_review_diarization(r)
           \/ poll_diarization(r)
           \/ FailUnconfigured(r)
           \/ \E v \in 1 .. MaxReview :
                  create_review_draft(r, v) \/ save_review_candidates(r, v)
           \/ generate_draft(r)
           \/ save_candidates(r)
    \/ \E v \in 1 .. MaxReview, names \in NameMap, confirmed \in SUBSET Labels :
           set_names(v, names, confirmed)
    \/ RestartReview

----------------------------------------------------------------------------
(* Properties *)

\* The provider is paid for a meeting once: over errors, lost answers,
\* crashes of the server and explicit retries ("a retry cannot silently
\* create a second billable job", submit_diarization).
PaidOnce == paid <= 1

\* A diarization that has arrived is not lost to a retry, nor to a poll that
\* failed, unless its session wrote a copy of the row that had been overtaken;
\* even then the job it is of stays known, so that it can be polled again and
\* is not paid for again.
ResultIsKept ==
    review.labels # {} =>
        /\ review.job # 0
        /\ \/ review.status \in {"NEEDS_REVIEW", "DRAFT_READY"}
           \/ overtaken /\ review.status \in {"PROCESSING", "FAILED"}

\* Unless a copy was written that had been overtaken: minutes that are shown
\* were written from the names that are stored, even when names changed while
\* the model was writing, and task candidates are saved once.
DraftUsesStoredNames ==
    ~overtaken =>
        /\ review.status = "DRAFT_READY" => review.draft = review.names
        /\ review.candidates <= 1

\* "Polling a known job is safe to retry" (poll_diarization).
PollingIsSafe ==
    review.labels # {} => review.status \in {"NEEDS_REVIEW", "DRAFT_READY"}
=============================================================================
