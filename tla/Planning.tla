------------------------------ MODULE Planning ------------------------------
(***************************************************************************)
(* Planning one event: AI turns (chat and plan generation), the plan       *)
(* edits people make meanwhile, the AI review of an edited plan, and the   *)
(* confirmation that starts operation.                                     *)
(*                                                                         *)
(*   planning_service    open_chat / open_generate: resolve the            *)
(*                       idempotency key (transaction 1), prepare          *)
(*                       (transaction 2), call the model with no           *)
(*                       transaction open, finish (transaction 3), and on  *)
(*                       any exception release the key (transaction 4)     *)
(*   event_service       update_step, update_action, replace_plan_steps    *)
(*   plan_review_service request_review, _store_result, reset_baseline     *)
(*   action_service      start_event                                       *)
(*                                                                         *)
(* Every transaction locks the event row first, so each is one action.     *)
(* Between two transactions of a request anything else may happen: other   *)
(* requests, edits, confirmation, a crash, or five minutes.                *)
(***************************************************************************)
EXTENDS Idempotency

CONSTANTS Keys,         \* (member, endpoint, Idempotency-Key) triples
          NoKey,        \* the request carries no Idempotency-Key
          Reviewers,    \* review requests
          SlowWorkers,  \* may a turn still be running when its key is stale?
          MaxRevision,  \* bound on conversation.base_revision
          MaxContent    \* bound on the number of plan changes

ASSUME PlanningAssumption ==
    /\ NoKey \notin Keys
    /\ Nobody \notin Reviewers
    /\ SlowWorkers \in BOOLEAN
    /\ MaxRevision \in Nat
    /\ MaxContent \in Nat

VARIABLES
    status,        \* Event.status (PLANNING, or ON_GOING once confirmed)
    revision,      \* Conversation.base_revision (0 while there is none)
    planRevision,  \* Event.plan_revision
    dated,         \* Event.start_date is set
    rows,          \* which set of Step/Action rows the event has (0: none)
    content,       \* version of the steps, the actions and the conditions of
                   \* the event (Conditions.tla looks into the conditions)
    keyRow,        \* the idempotency table
    req,           \* the turn requests in the server
    review,        \* the event's PlanReview row
    reviewer,      \* the review requests in the server
    seen,          \* the plan snapshot an editor has on screen
    writes         \* history: every overwrite of the plan as a whole

eventVars == <<status, revision, planRevision, dated, rows, content>>
vars == <<status, revision, planRevision, dated, rows, content,
          keyRow, req, review, reviewer, seen, writes>>

----------------------------------------------------------------------------
(* Types *)

TurnStep == {"idle", "sent", "insert", "take_over", "claimed", "running",
             "failing", "ended"}

\* The answer a request ends with; "LOST" is a request whose server died.
Answer == {"NONE", "EVENT_NOT_PLANNING", "IDEMPOTENCY_CONFLICT",
           "IDEMPOTENCY_IN_PROGRESS", "VERSION_CONFLICT", "AI_ERROR",
           "REPLAY", "SAVED", "LOST"}

\* `record` is idem.record.id, `stamp` the modified_at read with it, `basis`
\* the plan as it stood in _prepare's transaction, `result` the base_revision
\* answered.
\* Bodies are told apart by the baseRevision they carry.
Turn == [pc: TurnStep, key: Keys \cup {NoKey}, body: Nat,
         record: Requests \cup {Nobody}, stamp: Requests \cup {Nobody},
         basis: Nat, answer: Answer, result: Nat]

IdleTurn == [pc |-> "idle", key |-> NoKey, body |-> 0, record |-> Nobody,
             stamp |-> Nobody, basis |-> 0, answer |-> "NONE", result |-> 0]

ReviewStatus == {"ABSENT", "NOT_REQUESTED", "REVIEWING", "DONE", "FAILED"}

\* `basis` is the plan content the stored outcome is about.
Review == [status: ReviewStatus, request: Reviewers \cup {Nobody},
           reviewed: Nat, generated: Nat, basis: Nat, timedOut: BOOLEAN]

AbsentReview == [status |-> "ABSENT", request |-> Nobody, reviewed |-> 0,
                 generated |-> 0, basis |-> 0, timedOut |-> FALSE]

ReviewWork == [pc: {"idle", "running", "ended"}, expected: Nat, basis: Nat,
               overdue: BOOLEAN]

Write == [by: Requests \cup {Nobody}, key: Keys \cup {NoKey}, body: Nat,
          rev: Nat, basis: Nat, found: Nat]

TypeOK ==
    /\ status \in {"PLANNING", "ON_GOING"}
    /\ revision \in Nat
    /\ planRevision \in Nat
    /\ dated \in BOOLEAN
    /\ rows \in Nat
    /\ content \in Nat
    /\ keyRow \in [Keys -> KeyRow]
    /\ req \in [Requests -> Turn]
    /\ review \in Review
    /\ reviewer \in [Reviewers -> ReviewWork]
    /\ seen \in [rev: Nat, basis: Nat]
    /\ writes \subseteq Write

\* create_event: a new event has no conversation, no plan and no review.
Init ==
    /\ status = "PLANNING"
    /\ revision = 0
    /\ planRevision = 0
    /\ dated = FALSE
    /\ rows = 0
    /\ content = 0
    /\ keyRow = [k \in Keys |-> AbsentRow]
    /\ req = [r \in Requests |-> IdleTurn]
    /\ review = AbsentReview
    /\ reviewer = [v \in Reviewers |->
                      [pc |-> "idle", expected |-> 0, basis |-> 0, overdue |-> FALSE]]
    /\ seen = [rev |-> 0, basis |-> 0]
    /\ writes = {}

----------------------------------------------------------------------------
(* A turn request: router check, then resolve() *)

\* The request leaves the server with an answer.
Ended(r, answer) ==
    req' = [req EXCEPT ![r].pc = "ended", ![r].record = Nobody,
                       ![r].stamp = Nobody, ![r].basis = 0,
                       ![r].answer = answer]

\* An exception inside _open_turn: with a key, it is released first.
Raised(r, answer) ==
    IF req[r].key = NoKey
    THEN Ended(r, answer)
    ELSE req' = [req EXCEPT ![r].pc = "failing", ![r].answer = answer]

\* POST /plan/chat or /plan/generate arrives: the router's _ensure_planning
\* reads the event without a lock.
Send(r, k, body) ==
    /\ req[r].pc = "idle"
    /\ IF status = "PLANNING"
       THEN req' = [req EXCEPT ![r].pc = "sent", ![r].key = k, ![r].body = body]
       ELSE Ended(r, "EVENT_NOT_PLANNING")
    /\ UNCHANGED <<eventVars, keyRow, review, reviewer, seen, writes>>

\* resolve() reads the key's row and picks its branch; a request without a
\* key goes straight on.
ReadKey(r) ==
    /\ req[r].pc = "sent"
    /\ LET k   == req[r].key
           row == keyRow[k]
           branch == ResolveBranch(row, req[r].body)
       IN IF k = NoKey
          THEN req' = [req EXCEPT ![r].pc = "claimed"]
          ELSE \/ /\ branch = "conflict"
                  /\ Ended(r, "IDEMPOTENCY_CONFLICT")
               \/ /\ branch = "in_progress"
                  /\ Ended(r, "IDEMPOTENCY_IN_PROGRESS")
               \/ /\ branch = "replay"
                  /\ req' = [req EXCEPT ![r].pc = "ended", ![r].answer = "REPLAY",
                                        ![r].result = row.response]
               \/ /\ branch \in {"insert", "take_over"}
                  /\ req' = [req EXCEPT ![r].pc = branch, ![r].record = row.id,
                                        ![r].stamp = row.stamp]
    /\ UNCHANGED <<eventVars, keyRow, review, reviewer, seen, writes>>

\* resolve() inserts the row.  The unique constraint turns the insert of a
\* request that lost the race into IdempotencyInProgress.
InsertKey(r) ==
    LET k == req[r].key IN
    /\ req[r].pc = "insert"
    /\ IF keyRow[k].status = "ABSENT"
       THEN /\ keyRow' = [keyRow EXCEPT ![k] = NewRow(r, req[r].body)]
            /\ req' = [req EXCEPT ![r].pc = "claimed", ![r].record = r]
       ELSE /\ Ended(r, "IDEMPOTENCY_IN_PROGRESS")
            /\ UNCHANGED keyRow
    /\ UNCHANGED <<eventVars, review, reviewer, seen, writes>>

\* resolve() takes a stale row over with a conditional UPDATE; the row keeps
\* its id.
TakeOverKey(r) ==
    LET k == req[r].key IN
    /\ req[r].pc = "take_over"
    /\ IF StillAsRead(keyRow[k], [id |-> req[r].record, stamp |-> req[r].stamp])
       THEN /\ keyRow' = [keyRow EXCEPT ![k] = TakenOver(@, r)]
            /\ req' = [req EXCEPT ![r].pc = "claimed", ![r].stamp = Nobody]
       ELSE /\ Ended(r, "IDEMPOTENCY_IN_PROGRESS")
            /\ UNCHANGED keyRow
    /\ UNCHANGED <<eventVars, review, reviewer, seen, writes>>

----------------------------------------------------------------------------
(* A turn request: prepare, model call, finish *)

\* Fault: the revision is not compared.
RefuseOnStatusOnly(r) ==
    IF status # "PLANNING" THEN "EVENT_NOT_PLANNING" ELSE "NONE"

\* Fault: the event's status is not looked at again.
RefuseOnRevisionOnly(r) ==
    IF revision # req[r].body THEN "VERSION_CONFLICT" ELSE "NONE"

\* What _prepare and _finish both refuse, with the event row locked.
TurnRefusal(r) ==
    IF status # "PLANNING" THEN "EVENT_NOT_PLANNING"
    ELSE IF revision # req[r].body THEN "VERSION_CONFLICT"
    ELSE "NONE"

\* _prepare: the model's input is read in the transaction that checked the
\* revision, so `basis` is the plan the turn is computed for.
Prepare(r) ==
    /\ req[r].pc = "claimed"
    /\ IF TurnRefusal(r) = "NONE"
       THEN req' = [req EXCEPT ![r].pc = "running", ![r].basis = content]
       ELSE Raised(r, TurnRefusal(r))
    /\ UNCHANGED <<eventVars, keyRow, review, reviewer, seen, writes>>

\* The model call fails, or the transaction of _finish does.
TurnError(r) ==
    /\ req[r].pc = "running"
    /\ Raised(r, "AI_ERROR")
    /\ UNCHANGED <<eventVars, keyRow, review, reviewer, seen, writes>>

\* reset_baseline: the review starts over from the plan just generated.
reset_baseline(generated) ==
    [AbsentReview EXCEPT !.status = "NOT_REQUESTED", !.generated = generated]

\* _save_turn and _materialize_preview.  A turn only answers ("reply"),
\* changes the conditions ("conditions") or replaces all Step and Action
\* rows ("generated", which may change conditions as well).
SaveTurn(kind) ==
    /\ revision' = revision + 1
    /\ \/ /\ kind = "reply"
          /\ UNCHANGED <<planRevision, dated, rows, content, review>>
       \/ /\ kind = "conditions"
          /\ content' = content + 1
          /\ planRevision' = planRevision + 1
          /\ dated' \in BOOLEAN
          /\ UNCHANGED <<rows, review>>
       \/ /\ kind = "generated"
          /\ content' = content + 1
          /\ rows' = content + 1
          /\ planRevision' = planRevision + 1
          /\ dated' \in BOOLEAN
          /\ review' = reset_baseline(planRevision + 1)
    /\ UNCHANGED status

\* _finish: checks again under the locks, saves the turn and completes the
\* key in one commit.
Finish(r, kind) ==
    LET k == req[r].key IN
    /\ req[r].pc = "running"
    /\ TurnRefusal(r) = "NONE"
    /\ SaveTurn(kind)
    /\ keyRow' = IF k = NoKey THEN keyRow
                 ELSE [keyRow EXCEPT ![k] =
                           save_response(@, req[r].record, revision + 1)]
    /\ req' = [req EXCEPT ![r].pc = "ended", ![r].record = Nobody,
                          ![r].basis = 0, ![r].answer = "SAVED",
                          ![r].result = revision + 1]
    /\ writes' = writes \cup
                     {[by |-> r, key |-> k, body |-> req[r].body,
                       rev |-> revision + 1, basis |-> req[r].basis,
                       found |-> content]}
    /\ UNCHANGED <<reviewer, seen>>

FinishRefused(r) ==
    /\ req[r].pc = "running"
    /\ TurnRefusal(r) # "NONE"
    /\ Raised(r, TurnRefusal(r))
    /\ UNCHANGED <<eventVars, keyRow, review, reviewer, seen, writes>>

\* _release_idempotency, in a transaction of its own, then the error answer.
Release(r) ==
    LET k == req[r].key IN
    /\ req[r].pc = "failing"
    /\ keyRow' = [keyRow EXCEPT ![k] = release(@, req[r].record)]
    /\ Ended(r, req[r].answer)
    /\ UNCHANGED <<eventVars, review, reviewer, seen, writes>>

\* The server process dies, or the task is cancelled, while it holds r.
Crash(r) ==
    /\ req[r].pc \in TurnStep \ {"idle", "ended"}
    /\ Ended(r, "LOST")
    /\ UNCHANGED <<eventVars, keyRow, review, reviewer, seen, writes>>

\* A request that holds the row with this id and has not ended.
Holds(r, id) == /\ req[r].pc \in {"claimed", "running", "failing"}
                /\ req[r].record = id

\* Five minutes pass over a PROCESSING row.  A turn may make several model
\* calls of up to 60 s, each retried twice, so its worker may be alive.
KeyAges(k) ==
    /\ keyRow[k].status = "PROCESSING"
    /\ ~keyRow[k].stale
    /\ SlowWorkers \/ \A r \in Requests : ~Holds(r, keyRow[k].id)
    /\ keyRow' = [keyRow EXCEPT ![k].stale = TRUE]
    /\ UNCHANGED <<eventVars, req, review, reviewer, seen, writes>>

----------------------------------------------------------------------------
(* People's edits and the confirmation *)

\* GET /plan/steps/snapshot reads the revision and the steps under the event
\* lock.
ReadSnapshot ==
    /\ seen' = [rev |-> revision, basis |-> content]
    /\ UNCHANGED <<eventVars, keyRow, req, review, reviewer, writes>>

\* bump_plan_revision: a single UPDATE that matches only a PLANNING event.
bump_plan_revision ==
    planRevision' = IF status = "PLANNING" THEN planRevision + 1
                    ELSE planRevision

\* Fault: an item edit leaves the revision alone.
EditKeepsRevision == revision' = revision

\* _advance_plan_revision
advance_plan_revision ==
    revision' = IF status = "PLANNING" THEN revision + 1 ELSE revision

\* update_step / update_action: any save of an item advances the revision
\* while planning; the review revision moves only if a value changed.
UpdateItem(changed) ==
    /\ rows # 0
    /\ advance_plan_revision
    /\ IF changed
       THEN content' = content + 1 /\ bump_plan_revision
       ELSE UNCHANGED <<content, planRevision>>
    /\ UNCHANGED <<status, dated, rows, keyRow, req, review, reviewer, seen,
                   writes>>

\* replace_plan_steps, sent with the revision of the snapshot on screen.
ReplacePlanSteps(changed) ==
    /\ status = "PLANNING"
    /\ revision = seen.rev
    /\ revision' = revision + 1
    /\ IF changed
       THEN /\ content' = content + 1
            /\ rows' = content + 1
            /\ bump_plan_revision
       ELSE rows # 0 /\ UNCHANGED <<content, rows, planRevision>>
    /\ writes' = writes \cup
                     {[by |-> Nobody, key |-> NoKey, body |-> seen.rev,
                       rev |-> revision + 1, basis |-> seen.basis,
                       found |-> content]}
    /\ UNCHANGED <<status, dated, keyRow, req, review, reviewer, seen>>

\* start_event needs a start date and at least one step.
StartEvent ==
    /\ status = "PLANNING"
    /\ dated
    /\ rows # 0
    /\ status' = "ON_GOING"
    /\ UNCHANGED <<revision, planRevision, dated, rows, content, keyRow, req,
                   review, reviewer, seen, writes>>

----------------------------------------------------------------------------
(* The AI review of an edited plan *)

\* Fault: a review under way does not count.
SettledOnlyWhenDone ==
    \/ review.status = "NOT_REQUESTED" /\ planRevision = review.generated
    \/ review.status = "DONE" /\ review.reviewed = planRevision

\* The two early returns of request_review: nothing was edited since the
\* generation, or this revision is reviewed already or being reviewed.
ReviewSettled ==
    \/ review.status = "NOT_REQUESTED" /\ planRevision = review.generated
    \/ /\ review.reviewed = planRevision
       /\ \/ review.status = "DONE"
          \/ review.status = "REVIEWING" /\ ~review.timedOut

\* request_review up to its commit; the expected revision is the current one.
RequestReview(v) ==
    /\ reviewer[v].pc = "idle"
    /\ status = "PLANNING"
    /\ review.status # "ABSENT"
    /\ ~ReviewSettled
    /\ review' = [review EXCEPT !.status = "REVIEWING", !.request = v,
                                !.reviewed = planRevision, !.basis = 0,
                                !.timedOut = FALSE]
    /\ reviewer' = [reviewer EXCEPT ![v] =
                        [pc |-> "running", expected |-> planRevision,
                         basis |-> content, overdue |-> FALSE]]
    /\ UNCHANGED <<eventVars, keyRow, req, seen, writes>>

\* Fault: a late result is stored whoever the row waits for.
StoreAnyResult(v, ok) ==
    /\ reviewer[v].pc = "running"
    /\ reviewer' = [reviewer EXCEPT ![v].pc = "ended"]
    /\ review' = IF review.status # "REVIEWING" THEN review
                 ELSE [review EXCEPT !.status = IF ok THEN "DONE" ELSE "FAILED",
                                     !.basis = reviewer[v].basis]
    /\ UNCHANGED <<eventVars, keyRow, req, seen, writes>>

\* _store_result: only the request the row still waits for writes to it.
StoreResult(v, ok) ==
    /\ reviewer[v].pc = "running"
    /\ reviewer' = [reviewer EXCEPT ![v].pc = "ended"]
    /\ review' =
           IF review.request = v /\ review.status = "REVIEWING"
           THEN IF ok THEN [review EXCEPT !.status = "DONE",
                                          !.basis = reviewer[v].basis]
                ELSE [review EXCEPT !.status = "FAILED"]
           ELSE review
    /\ UNCHANGED <<eventVars, keyRow, req, seen, writes>>

\* The server dies while the model reviews.
ReviewerCrash(v) ==
    /\ reviewer[v].pc = "running"
    /\ reviewer' = [reviewer EXCEPT ![v].pc = "ended"]
    /\ UNCHANGED <<eventVars, keyRow, req, review, seen, writes>>

\* REVIEW_TIMEOUT passes; the model may still be working.
ReviewAges ==
    /\ review.status = "REVIEWING"
    /\ ~review.timedOut
    /\ review' = [review EXCEPT !.timedOut = TRUE]
    /\ reviewer' = [reviewer EXCEPT ![review.request].overdue = TRUE]
    /\ UNCHANGED <<eventVars, keyRow, req, seen, writes>>

\* Fault: the stored status is shown as it is.
ShowStoredReview == review.status

\* review_out: what the plan screen shows.
ShownReview ==
    IF review.status = "REVIEWING" /\ review.timedOut THEN "FAILED"
    ELSE review.status

----------------------------------------------------------------------------
(* The specification *)

\* The bounds that keep the model finite.
RoomForChange == revision < MaxRevision /\ content < MaxContent

TurnProgress(r) ==
    \/ ReadKey(r) \/ InsertKey(r) \/ TakeOverKey(r) \/ Prepare(r)
    \/ RoomForChange /\ \E kind \in {"reply", "conditions", "generated"} :
                            Finish(r, kind)
    \/ FinishRefused(r) \/ TurnError(r) \/ Release(r)

TurnNext(r) ==
    \/ \E k \in Keys \cup {NoKey}, body \in 0 .. revision : Send(r, k, body)
    \/ TurnProgress(r)
    \/ Crash(r)

EditNext ==
    \/ ReadSnapshot
    \/ /\ RoomForChange
       /\ \E changed \in BOOLEAN : UpdateItem(changed) \/ ReplacePlanSteps(changed)
    \/ StartEvent

ReviewNext ==
    \/ \E v \in Reviewers :
          \/ RequestReview(v)
          \/ \E ok \in BOOLEAN : StoreResult(v, ok)
          \/ ReviewerCrash(v)
    \/ ReviewAges

Next ==
    \/ \E r \in Requests : TurnNext(r)
    \/ \E k \in Keys : KeyAges(k)
    \/ EditNext
    \/ ReviewNext

Spec == Init /\ [][Next]_vars

\* A request in the server keeps going until it ends or crashes (asyncio runs
\* every ready task, model calls have timeouts) and the clock never stops.
\* Nothing is assumed of clients.
Fairness ==
    /\ \A r \in Requests : WF_vars(TurnProgress(r))
    /\ \A k \in Keys : WF_vars(KeyAges(k))
    /\ \A v \in Reviewers : WF_vars(\E ok \in BOOLEAN : StoreResult(v, ok))
    /\ WF_vars(ReviewAges)

FairSpec == Spec /\ Fairness

----------------------------------------------------------------------------
(* Properties *)

\* Whoever replaces the plan as a whole, a turn saved after the model call or
\* a person saving the step editor, replaces exactly the plan it was computed
\* from: no edit committed in between is lost (planning_service._finish,
\* event_service.replace_plan_steps).
NoLostUpdate == \A w \in writes : w.basis = w.found

\* A request re-sent with its key and body is saved at most once, through
\* crashes, takeovers and releases of the key.
RetrySavesOnce ==
    \A w1, w2 \in writes :
        /\ w1.by # Nobody /\ w2.by # Nobody
        /\ w1.key = w2.key /\ w1.body = w2.body
        => w1 = w2

\* Every answer that claims a saved turn, at first hand or replayed from the
\* idempotency table, reports a revision that a turn of the same key and body
\* created.
AnsweredTurnWasSaved ==
    \A r \in Requests :
        req[r].answer \in {"SAVED", "REPLAY"} /\ req[r].pc = "ended" =>
            \E w \in writes : /\ w.by # Nobody
                              /\ w.key = req[r].key
                              /\ w.body = req[r].body
                              /\ w.rev = req[r].result

\* A saved turn's key is completed and holds the answer of that turn, so the
\* lookup of a client that lost its connection says "completed"
\* (planning_service._finish saves both in one commit, be/README.md).
SavedTurnHasCompletedKey ==
    \A w \in writes :
        w.by # Nobody /\ w.key # NoKey =>
            \E k \in Keys : /\ k = w.key
                            /\ LookupAnswer(keyRow[k]) = "completed"
                            /\ keyRow[k].response = w.rev

\* Of the requests that found the same stale row at most one goes on to
\* process it (the conditional UPDATE in resolve).
OneHolder ==
    \A r1, r2 \in Requests :
        r1 # r2 /\ req[r1].key # NoKey =>
            ~(\E id \in Requests : Holds(r1, id) /\ Holds(r2, id))

\* Once operation has started no late turn, replacement or generation touches
\* the conditions, the revisions or the set of step rows: the operation
\* records hang on those rows (planning_service._finish, the PLANNING check
\* after the model call).
ConfirmedPlanIsFrozen ==
    [][status = "ON_GOING" =>
           UNCHANGED <<status, revision, planRevision, dated, rows, review.generated>>]_vars

\* A finished review shown for the current plan revision judged the plan as
\* it is now, whatever was edited, regenerated or re-requested while the
\* model ran (plan_review_service._store_result).
ReviewIsOfCurrentPlan ==
    /\ status = "PLANNING"
    /\ review.status = "DONE"
    /\ review.reviewed = planRevision
    => review.basis = content

\* The model reviews one revision once at a time, unless the earlier call is
\* past REVIEW_TIMEOUT (request_review, step 3).
OneReviewPerRevision ==
    \A v, w \in Reviewers :
        /\ v # w
        /\ reviewer[v].pc = "running" /\ reviewer[w].pc = "running"
        /\ reviewer[v].expected = reviewer[w].expected
        => reviewer[v].overdue \/ reviewer[w].overdue

\* A client polling the result of its request is not told "processing"
\* forever, even if the server died with the request
\* (planning_service.lookup_request).
LookupSettles ==
    \A k \in Keys : LookupAnswer(keyRow[k]) = "processing"
                        ~> LookupAnswer(keyRow[k]) # "processing"

\* The plan screen does not show a review as running forever
\* (plan_review_service.review_out).
ReviewSettles == ShownReview = "REVIEWING" ~> ShownReview # "REVIEWING"
=============================================================================
