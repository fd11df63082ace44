--------------------------- MODULE PlanningProofs ---------------------------
(***************************************************************************)
(* Theorems about Planning, for any number of requests, keys and review    *)
(* requests, with slow workers or without, and whatever the bounds.        *)
(***************************************************************************)
EXTENDS Planning, TLAPS

----------------------------------------------------------------------------
(* Type correctness *)

\* The helpers of the idempotency table turn rows into rows.
LEMMA KeyRowTypes ==
    ASSUME NEW row \in KeyRow, NEW r \in Requests, NEW n \in Nat,
           NEW id \in Requests \cup {Nobody}
    PROVE  /\ AbsentRow \in KeyRow
           /\ NewRow(r, n) \in KeyRow
           /\ TakenOver(row, r) \in KeyRow
           /\ save_response(row, id, n) \in KeyRow
           /\ release(row, id) \in KeyRow
  BY DEF KeyRow, KeyStatus, AbsentRow, NewRow, TakenOver, save_response, release

\* A request that ends, or that raises, stays a Turn.
LEMMA EndedType ==
    ASSUME TypeOK, NEW r \in Requests, NEW answer \in Answer,
           Ended(r, answer) \/ Raised(r, answer)
    PROVE  req' \in [Requests -> Turn]
  BY DEF TypeOK, Ended, Raised, Turn, TurnStep

\* The review row before any plan, and the one a generation leaves.
LEMMA ReviewTypes ==
    ASSUME NEW n \in Nat
    PROVE  AbsentReview \in Review /\ reset_baseline(n) \in Review
<1>1. AbsentReview \in Review
  BY DEF AbsentReview, Review, ReviewStatus
<1>2. reset_baseline(n) \in Review
  BY DEF reset_baseline, AbsentReview, Review, ReviewStatus
<1> QED  BY <1>1, <1>2

LEMMA InitType == Init => TypeOK
<1> SUFFICES ASSUME Init PROVE TypeOK
  OBVIOUS
<1>1. AbsentRow \in KeyRow
  BY DEF AbsentRow, KeyRow, KeyStatus
<1>2. IdleTurn \in Turn
  BY DEF IdleTurn, Turn, TurnStep, Answer
<1>3. reviewer \in [Reviewers -> ReviewWork]
  BY DEF Init, ReviewWork
<1>4. AbsentReview \in Review
  BY ReviewTypes
<1> QED  BY <1>1, <1>2, <1>3, <1>4 DEF Init, TypeOK

LEMMA TurnType ==
    ASSUME TypeOK, NEW r \in Requests, TurnNext(r)
    PROVE  TypeOK'
<1> USE DEF TypeOK, eventVars
<1>r. TurnRefusal(r) \in Answer
  BY DEF TurnRefusal, Answer
<1>1. ASSUME NEW k \in Keys \cup {NoKey}, NEW body \in 0 .. revision, Send(r, k, body)
      PROVE  TypeOK'
  <2>1. "EVENT_NOT_PLANNING" \in Answer
    BY DEF Answer
  <2>2. req' \in [Requests -> Turn]
    BY <1>1, <2>1, EndedType DEF Send, Turn, TurnStep
  <2> QED  BY <1>1, <2>2 DEF Send
<1>2. CASE ReadKey(r)
  <2>1. {"IDEMPOTENCY_CONFLICT", "IDEMPOTENCY_IN_PROGRESS", "REPLAY"} \subseteq Answer
    BY DEF Answer
  <2>2. CASE req[r].key = NoKey
    BY <1>2, <2>2 DEF ReadKey, Turn, TurnStep
  <2>3. CASE req[r].key # NoKey
    <3>1. keyRow[req[r].key] \in KeyRow
      BY <2>3 DEF Turn
    <3>2. req' \in [Requests -> Turn]
      BY <1>2, <2>1, <2>3, <3>1, EndedType DEF ReadKey, Turn, TurnStep, KeyRow
    <3> QED  BY <1>2, <3>2 DEF ReadKey
  <2> QED  BY <2>2, <2>3
<1>3. CASE InsertKey(r)
  <2>1. "IDEMPOTENCY_IN_PROGRESS" \in Answer
    BY DEF Answer
  <2>2. req' \in [Requests -> Turn]
    BY <1>3, <2>1, EndedType DEF InsertKey, Turn, TurnStep
  <2>3. NewRow(r, req[r].body) \in KeyRow
    BY DEF NewRow, KeyRow, KeyStatus, Turn
  <2>4. keyRow' \in [Keys -> KeyRow]
    BY <1>3, <2>3 DEF InsertKey
  <2> QED  BY <1>3, <2>2, <2>4 DEF InsertKey
<1>4. CASE TakeOverKey(r)
  <2>1. "IDEMPOTENCY_IN_PROGRESS" \in Answer
    BY DEF Answer
  <2>2. req' \in [Requests -> Turn]
    BY <1>4, <2>1, EndedType DEF TakeOverKey, Turn, TurnStep
  <2>3. \A k \in Keys : TakenOver(keyRow[k], r) \in KeyRow
    BY DEF TakenOver, KeyRow, KeyStatus
  <2>4. keyRow' \in [Keys -> KeyRow]
    BY <1>4, <2>3 DEF TakeOverKey
  <2> QED  BY <1>4, <2>2, <2>4 DEF TakeOverKey
<1>5. CASE Prepare(r)
  <2>1. req' \in [Requests -> Turn]
    BY <1>5, <1>r, EndedType DEF Prepare, Turn, TurnStep
  <2> QED  BY <1>5, <2>1 DEF Prepare
<1>6. ASSUME NEW kind \in {"reply", "conditions", "generated"}, Finish(r, kind)
      PROVE  TypeOK'
  <2>1. SaveTurn(kind)
    BY <1>6 DEF Finish
  <2>2. /\ status' \in {"PLANNING", "ON_GOING"}
        /\ revision' \in Nat /\ planRevision' \in Nat /\ dated' \in BOOLEAN
        /\ rows' \in Nat /\ content' \in Nat
    BY <2>1 DEF SaveTurn
  <2>3. review' \in Review
    BY <2>1, ReviewTypes DEF SaveTurn
  <2>4. \A k \in Keys : save_response(keyRow[k], req[r].record, revision + 1) \in KeyRow
    BY KeyRowTypes DEF Turn
  <2>5. keyRow' \in [Keys -> KeyRow]
    BY <1>6, <2>4 DEF Finish
  <2>6. req' \in [Requests -> Turn]
    <3>1. "SAVED" \in Answer /\ "ended" \in TurnStep /\ revision + 1 \in Nat
      BY DEF Answer, TurnStep
    <3>2. req' = [req EXCEPT ![r] = [req[r] EXCEPT
                      !.pc = "ended", !.record = Nobody, !.basis = 0,
                      !.answer = "SAVED", !.result = revision + 1]]
      BY <1>6 DEF Finish
    <3>3. [req[r] EXCEPT !.pc = "ended", !.record = Nobody, !.basis = 0,
                         !.answer = "SAVED", !.result = revision + 1] \in Turn
      BY <3>1 DEF Turn
    <3> QED  BY <3>2, <3>3
  <2>7. writes' \subseteq Write
    BY <1>6 DEF Finish, Write, Turn
  <2> QED  BY <1>6, <2>2, <2>3, <2>5, <2>6, <2>7 DEF Finish
<1>7. CASE FinishRefused(r)
  BY <1>7, <1>r, EndedType DEF FinishRefused
<1>8. CASE TurnError(r)
  <2>1. "AI_ERROR" \in Answer
    BY DEF Answer
  <2> QED  BY <1>8, <2>1, EndedType DEF TurnError
<1>9. CASE Release(r)
  <2>1. req[r].answer \in Answer
    BY DEF Turn
  <2>2. req' \in [Requests -> Turn]
    BY <1>9, <2>1, EndedType DEF Release
  <2>3. \A k \in Keys : release(keyRow[k], req[r].record) \in KeyRow
    BY KeyRowTypes DEF Turn
  <2>4. keyRow' \in [Keys -> KeyRow]
    BY <1>9, <2>3 DEF Release
  <2> QED  BY <1>9, <2>2, <2>4 DEF Release
<1>10. CASE Crash(r)
  <2>1. "LOST" \in Answer
    BY DEF Answer
  <2> QED  BY <1>10, <2>1, EndedType DEF Crash
<1> QED
  BY <1>1, <1>2, <1>3, <1>4, <1>5, <1>6, <1>7, <1>8, <1>9, <1>10
  DEF TurnNext, TurnProgress

LEMMA EditType ==
    ASSUME TypeOK, EditNext
    PROVE  TypeOK'
<1> USE DEF TypeOK, eventVars
<1>1. CASE ReadSnapshot
  BY <1>1 DEF ReadSnapshot
<1>2. ASSUME NEW changed \in BOOLEAN, UpdateItem(changed)
      PROVE  TypeOK'
  BY <1>2 DEF UpdateItem, advance_plan_revision, bump_plan_revision
<1>3. ASSUME NEW changed \in BOOLEAN, ReplacePlanSteps(changed)
      PROVE  TypeOK'
  <2>1. writes' \subseteq Write
    BY <1>3 DEF ReplacePlanSteps, Write
  <2> QED  BY <1>3, <2>1 DEF ReplacePlanSteps, bump_plan_revision
<1>4. CASE StartEvent
  BY <1>4 DEF StartEvent
<1> QED  BY <1>1, <1>2, <1>3, <1>4 DEF EditNext

LEMMA ReviewType ==
    ASSUME TypeOK, ReviewNext
    PROVE  TypeOK'
<1> USE DEF TypeOK, eventVars
<1>1. ASSUME NEW v \in Reviewers, RequestReview(v)
      PROVE  TypeOK'
  BY <1>1 DEF RequestReview, Review, ReviewStatus, ReviewWork
<1>2. ASSUME NEW v \in Reviewers, NEW ok \in BOOLEAN, StoreResult(v, ok)
      PROVE  TypeOK'
  BY <1>2 DEF StoreResult, Review, ReviewStatus, ReviewWork
<1>3. ASSUME NEW v \in Reviewers, ReviewerCrash(v)
      PROVE  TypeOK'
  BY <1>3 DEF ReviewerCrash, ReviewWork
<1>4. CASE ReviewAges
  BY <1>4 DEF ReviewAges, Review, ReviewWork
<1> QED  BY <1>1, <1>2, <1>3, <1>4 DEF ReviewNext

LEMMA NextType == TypeOK /\ [Next]_vars => TypeOK'
<1> SUFFICES ASSUME TypeOK, [Next]_vars PROVE TypeOK'
  OBVIOUS
<1>1. ASSUME NEW k \in Keys, KeyAges(k)
      PROVE  TypeOK'
  BY <1>1 DEF KeyAges, TypeOK, KeyRow, eventVars
<1>2. CASE UNCHANGED vars
  BY <1>2 DEF vars, TypeOK
<1> QED  BY <1>1, <1>2, TurnType, EditType, ReviewType DEF Next

\* The state stays well typed: every request, key row and review is in one of
\* the states the tables know, through every turn, edit, review and crash.
THEOREM TypeCorrect == Spec => []TypeOK
  BY InitType, NextType, PTL DEF Spec

----------------------------------------------------------------------------
(* No lost update, and a retry saves once *)

\* What was read as plan `basis` at revision `rev` is still the plan, unless
\* the revision has moved on or planning is over.
Current(rev, basis) ==
    /\ rev <= revision
    /\ status = "PLANNING" /\ rev = revision => basis = content

\* Every plan that some turn or editor holds is current in this sense: no
\* change of the plan leaves the revision alone while planning.
ReadsAreCurrent ==
    /\ \A r \in Requests : req[r].pc = "running" => Current(req[r].body, req[r].basis)
    /\ Current(seen.rev, seen.basis)

\* Each overwrite made the revision after the one it was based on, and no two
\* made the same.
WritesAreOrdered ==
    /\ \A w \in writes : w.rev = w.body + 1 /\ w.rev <= revision
    /\ \A w1, w2 \in writes : w1.rev = w2.rev => w1 = w2

TurnInv == TypeOK /\ ReadsAreCurrent /\ WritesAreOrdered /\ NoLostUpdate

LEMMA InitTurn == Init => TurnInv
  BY InitType DEF Init, TurnInv, TypeOK, ReadsAreCurrent, Current, IdleTurn,
                  WritesAreOrdered, NoLostUpdate

\* A step that changes neither the plan nor the revision, and starts no turn
\* that was not running, keeps the invariant.
LEMMA QuietStep ==
    ASSUME TurnInv, TypeOK',
           UNCHANGED <<status, revision, content, seen, writes>>,
           \A r \in Requests : req'[r].pc = "running" =>
               /\ req[r].pc = "running"
               /\ req'[r].body = req[r].body
               /\ req'[r].basis = req[r].basis
    PROVE  TurnInv'
  BY DEF TurnInv, ReadsAreCurrent, Current, WritesAreOrdered, NoLostUpdate

\* A change of the plan made from a current read moves the revision on by one
\* and records the write: it keeps the invariant.
LEMMA SavingStep ==
    ASSUME TurnInv, TypeOK', NEW w \in Write,
           w.body = revision, w.rev = revision + 1, w.basis = w.found,
           writes' = writes \cup {w},
           revision' = revision + 1,
           UNCHANGED seen,
           \A r \in Requests : req'[r].pc = "running" =>
               req[r].pc = "running" /\ req'[r].body = req[r].body
    PROVE  TurnInv'
<1> USE DEF TurnInv
<1>1. revision \in Nat /\ writes \subseteq Write
  BY DEF TypeOK
<1>2. ReadsAreCurrent'
  <2>1. \A r \in Requests : req'[r].pc = "running" => req'[r].body <= revision
    BY DEF ReadsAreCurrent, Current
  <2>2. \A r \in Requests : req'[r].body \in Nat
    BY DEF TypeOK, Turn
  <2>3. seen.rev \in Nat /\ seen.rev <= revision
    BY DEF TypeOK, ReadsAreCurrent, Current
  <2> QED  BY <1>1, <2>1, <2>2, <2>3 DEF ReadsAreCurrent, Current
<1>3. WritesAreOrdered'
  BY <1>1 DEF WritesAreOrdered, Write
<1>4. NoLostUpdate'
  BY DEF NoLostUpdate
<1> QED  BY <1>2, <1>3, <1>4

LEMMA NextTurn == TurnInv /\ [Next]_vars => TurnInv'
<1> SUFFICES ASSUME TurnInv, [Next]_vars PROVE TurnInv'
  OBVIOUS
<1>t. TypeOK /\ TypeOK'
  BY NextType DEF TurnInv
<1>k. ASSUME UNCHANGED <<status, revision, content, req, seen, writes>>
      PROVE  TurnInv'
  BY <1>k, <1>t, QuietStep
<1>e. ASSUME NEW r \in Requests, NEW answer, Ended(r, answer) \/ Raised(r, answer),
             UNCHANGED <<status, revision, content, seen, writes>>
      PROVE  TurnInv'
  BY <1>e, <1>t, QuietStep DEF TypeOK, Ended, Raised, Turn
<1>1. ASSUME NEW r \in Requests, TurnNext(r)
      PROVE  TurnInv'
  <2>1. ASSUME NEW k \in Keys \cup {NoKey}, NEW body \in 0 .. revision, Send(r, k, body)
        PROVE  TurnInv'
    BY <1>t, <1>e, <2>1, QuietStep DEF Send, eventVars, TypeOK, Turn
  <2>2. CASE ReadKey(r)
    <3>1. CASE \E answer \in Answer : Ended(r, answer)
      BY <1>e, <2>2, <3>1 DEF ReadKey, eventVars
    <3>2. CASE ~ \E answer \in Answer : Ended(r, answer)
      BY <1>t, <2>2, <3>2, QuietStep DEF ReadKey, eventVars, TypeOK, Turn, Answer
    <3> QED  BY <3>1, <3>2
  <2>3. CASE InsertKey(r)
    BY <1>t, <1>e, <2>3, QuietStep DEF InsertKey, eventVars, TypeOK, Turn
  <2>4. CASE TakeOverKey(r)
    BY <1>t, <1>e, <2>4, QuietStep DEF TakeOverKey, eventVars, TypeOK, Turn
  <2>5. CASE Prepare(r)
    <3>1. CASE TurnRefusal(r) = "NONE"
      <4>1. req[r].body = revision /\ status = "PLANNING"
        BY <3>1 DEF TurnRefusal
      <4>2. req' = [req EXCEPT ![r].pc = "running", ![r].basis = content]
        BY <2>5, <3>1 DEF Prepare
      <4>3. UNCHANGED <<status, revision, content, seen, writes>>
        BY <2>5 DEF Prepare, eventVars
      <4>4. ReadsAreCurrent'
        BY <1>t, <4>1, <4>2, <4>3 DEF TurnInv, TypeOK, Turn, ReadsAreCurrent, Current
      <4> QED  BY <1>t, <4>3, <4>4 DEF TurnInv, WritesAreOrdered, NoLostUpdate
    <3>2. CASE TurnRefusal(r) # "NONE"
      BY <1>e, <2>5, <3>2 DEF Prepare, eventVars
    <3> QED  BY <3>1, <3>2
  <2>6. ASSUME NEW kind \in {"reply", "conditions", "generated"}, Finish(r, kind)
        PROVE  TurnInv'
    <3> DEFINE w == [by |-> r, key |-> req[r].key, body |-> req[r].body,
                     rev |-> revision + 1, basis |-> req[r].basis,
                     found |-> content]
    <3>1. req[r].body = revision /\ status = "PLANNING"
      BY <2>6 DEF Finish, TurnRefusal
    <3>2. w.basis = w.found
      BY <2>6, <3>1 DEF Finish, TurnInv, ReadsAreCurrent, Current
    <3>3. w \in Write
      BY <1>t DEF TypeOK, Turn, Write
    <3>4. /\ revision' = revision + 1
          /\ writes' = writes \cup {w}
          /\ UNCHANGED seen
      BY <2>6 DEF Finish, SaveTurn
    <3>5. \A s \in Requests : req'[s].pc = "running" =>
              req[s].pc = "running" /\ req'[s].body = req[s].body
      BY <1>t, <2>6 DEF Finish, TypeOK, Turn
    <3> HIDE DEF w
    <3>6. w.body = revision /\ w.rev = revision + 1
      BY <3>1 DEF w
    <3> QED  BY <1>t, <3>2, <3>3, <3>4, <3>5, <3>6, SavingStep
  <2>7. CASE FinishRefused(r)
    BY <1>e, <2>7 DEF FinishRefused, eventVars
  <2>8. CASE TurnError(r)
    BY <1>e, <2>8 DEF TurnError, eventVars
  <2>9. CASE Release(r)
    BY <1>e, <2>9 DEF Release, eventVars
  <2>10. CASE Crash(r)
    BY <1>e, <2>10 DEF Crash, eventVars
  <2> QED
    BY <1>1, <2>1, <2>2, <2>3, <2>4, <2>5, <2>6, <2>7, <2>8, <2>9, <2>10
    DEF TurnNext, TurnProgress
<1>2. ASSUME NEW k \in Keys, KeyAges(k)
      PROVE  TurnInv'
  BY <1>k, <1>2 DEF KeyAges, eventVars
<1>3. CASE ReadSnapshot
  BY <1>3, <1>t DEF ReadSnapshot, eventVars, TurnInv, TypeOK, ReadsAreCurrent,
                    Current, WritesAreOrdered, NoLostUpdate
<1>4. ASSUME NEW changed \in BOOLEAN, UpdateItem(changed)
      PROVE  TurnInv'
  <2>1. ReadsAreCurrent'
    BY <1>4, <1>t DEF UpdateItem, advance_plan_revision, TurnInv, TypeOK, Turn,
                      ReadsAreCurrent, Current
  <2>2. WritesAreOrdered' /\ NoLostUpdate'
    BY <1>4, <1>t DEF UpdateItem, advance_plan_revision, TurnInv, TypeOK, Write,
                      WritesAreOrdered, NoLostUpdate
  <2> QED  BY <1>t, <2>1, <2>2 DEF TurnInv
<1>5. ASSUME NEW changed \in BOOLEAN, ReplacePlanSteps(changed)
      PROVE  TurnInv'
  <2> DEFINE w == [by |-> Nobody, key |-> NoKey, body |-> seen.rev,
                   rev |-> revision + 1, basis |-> seen.basis, found |-> content]
  <2>1. w.body = revision /\ w.rev = revision + 1 /\ w.basis = w.found
    BY <1>5 DEF ReplacePlanSteps, TurnInv, ReadsAreCurrent, Current
  <2>2. w \in Write
    BY <1>t DEF TypeOK, Write
  <2>3. /\ revision' = revision + 1
        /\ writes' = writes \cup {w}
        /\ UNCHANGED <<seen, req>>
    BY <1>5 DEF ReplacePlanSteps
  <2> HIDE DEF w
  <2> QED  BY <1>t, <2>1, <2>2, <2>3, SavingStep
<1>6. CASE StartEvent
  BY <1>6, <1>t DEF StartEvent, TurnInv, ReadsAreCurrent, Current,
                    WritesAreOrdered, NoLostUpdate
<1>7. CASE ReviewNext
  <2>1. UNCHANGED <<status, revision, content, req, seen, writes>>
    BY <1>7 DEF ReviewNext, RequestReview, StoreResult, ReviewerCrash, ReviewAges,
                eventVars
  <2> QED  BY <1>k, <2>1
<1>8. CASE UNCHANGED vars
  BY <1>k, <1>8 DEF vars
<1> QED
  BY <1>1, <1>2, <1>3, <1>4, <1>5, <1>6, <1>7, <1>8 DEF Next, EditNext

\* No overwrite of the plan, by a turn that spent minutes in the model or by
\* the step editor, loses an edit committed after the plan was read.
THEOREM NoUpdateIsLost == Spec => []NoLostUpdate
<1>1. TurnInv => NoLostUpdate
  BY DEF TurnInv
<1> QED  BY <1>1, InitTurn, NextTurn, PTL DEF Spec

\* However often a request is re-sent, with its key or without, one body is
\* saved at most once.
THEOREM RetriesSaveOnce == Spec => []RetrySavesOnce
<1>1. TurnInv => RetrySavesOnce
  BY DEF TurnInv, WritesAreOrdered, RetrySavesOnce, TypeOK, Write
<1> QED  BY <1>1, InitTurn, NextTurn, PTL DEF Spec

----------------------------------------------------------------------------
(* The plan is frozen once operation has started *)

LEMMA FrozenStep ==
    ASSUME TypeOK, [Next]_vars, status = "ON_GOING"
    PROVE  UNCHANGED <<status, revision, planRevision, dated, rows, review.generated>>
<1>1. \A r \in Requests : TurnRefusal(r) # "NONE"
  BY DEF TurnRefusal
<1>2. ASSUME NEW r \in Requests, TurnNext(r)
      PROVE  UNCHANGED <<eventVars, review>>
  BY <1>1, <1>2 DEF TurnNext, TurnProgress, Send, ReadKey, InsertKey, TakeOverKey,
                    Prepare, Finish, FinishRefused, TurnError, Release, Crash
<1>3. CASE EditNext
  BY <1>3 DEF EditNext, ReadSnapshot, UpdateItem, advance_plan_revision,
              bump_plan_revision, ReplacePlanSteps, StartEvent, eventVars
<1>4. CASE ReviewNext
  <2>1. UNCHANGED eventVars
    BY <1>4 DEF ReviewNext, RequestReview, StoreResult, ReviewerCrash, ReviewAges
  <2>2. review'.generated = review.generated
    BY <1>4 DEF ReviewNext, RequestReview, StoreResult, ReviewerCrash, ReviewAges,
                TypeOK, Review
  <2> QED  BY <2>1, <2>2 DEF eventVars
<1>5. ASSUME NEW k \in Keys, KeyAges(k)
      PROVE  UNCHANGED <<eventVars, review>>
  BY <1>5 DEF KeyAges
<1>6. CASE UNCHANGED vars
  BY <1>6 DEF vars
<1> QED
  BY <1>2, <1>3, <1>4, <1>5, <1>6 DEF Next, eventVars

\* After the confirmation nothing, a turn that was in the model included,
\* touches the conditions, the revisions or the set of step rows.
THEOREM PlanIsFrozen == Spec => ConfirmedPlanIsFrozen
<1>1. TypeOK /\ [Next]_vars =>
          [status = "ON_GOING" =>
              UNCHANGED <<status, revision, planRevision, dated, rows, review.generated>>]_vars
  BY FrozenStep
<1> QED  BY <1>1, TypeCorrect, PTL DEF Spec, ConfirmedPlanIsFrozen

----------------------------------------------------------------------------
(* Answers, replayed ones too, report turns that were saved *)

\* Some turn of this key and body was saved as revision `rev`.
Saved(k, body, rev) ==
    \E w \in writes : w.by # Nobody /\ w.key = k /\ w.body = body /\ w.rev = rev

\* Request i inserted the row of key k for this body.  A request inserts one
\* row in its life, so its id never names a row of another key or body.
Inserted(i, k, body) ==
    /\ i \in Requests
    /\ req[i].pc \notin {"idle", "sent", "insert"}
    /\ req[i].key = k
    /\ req[i].body = body

Claiming == {"take_over", "claimed", "running", "failing"}

\* A row names its inserter and its body, and a response in it is a saved one.
RowHonest(k) ==
    /\ keyRow[k].status # "ABSENT" => Inserted(keyRow[k].id, k, keyRow[k].body)
    /\ keyRow[k].status = "COMPLETED" =>
           Saved(k, keyRow[k].body, keyRow[k].response)

\* A request refers to a row inserted for its own key and body, and claims a
\* saved turn only when it has ended.
RequestHonest(r) ==
    /\ req[r].pc \in {"insert", "take_over"} => req[r].key # NoKey
    /\ req[r].pc \in Claiming /\ req[r].key # NoKey =>
           Inserted(req[r].record, req[r].key, req[r].body)
    /\ req[r].answer \in {"SAVED", "REPLAY"} =>
           /\ req[r].pc = "ended"
           /\ Saved(req[r].key, req[r].body, req[r].result)

AnswerInv ==
    /\ TypeOK
    /\ \A k \in Keys : RowHonest(k)
    /\ \A r \in Requests : RequestHonest(r)

LEMMA InitAnswer == Init => AnswerInv
  BY InitType DEF Init, AnswerInv, RowHonest, RequestHonest, AbsentRow, IdleTurn,
                  Claiming

\* A step of request r harms nobody else's honesty if r keeps its key and body
\* and does not go back, and if no write is forgotten.
LEMMA HonestyIsKept ==
    ASSUME AnswerInv, NEW r \in Requests, writes \subseteq writes',
           \A i \in Requests \ {r} : req'[i] = req[i],
           \/ req[r].pc \in {"idle", "sent", "insert"}
           \/ /\ req'[r].pc \notin {"idle", "sent", "insert"}
              /\ req'[r].key = req[r].key
              /\ req'[r].body = req[r].body
    PROVE  /\ \A i, k, body : Inserted(i, k, body) => Inserted(i, k, body)'
           /\ \A k, body, rev : Saved(k, body, rev) => Saved(k, body, rev)'
           /\ \A s \in Requests \ {r} : RequestHonest(s)'
           /\ \A k \in Keys : keyRow'[k] = keyRow[k] => RowHonest(k)'
<1>1. \A i, k, body : Inserted(i, k, body) => Inserted(i, k, body)'
  BY DEF Inserted
<1>2. \A k, body, rev : Saved(k, body, rev) => Saved(k, body, rev)'
  BY DEF Saved
<1>3. \A s \in Requests \ {r} : RequestHonest(s)'
  BY <1>1, <1>2 DEF AnswerInv, RequestHonest
<1>4. \A k \in Keys : keyRow'[k] = keyRow[k] => RowHonest(k)'
  BY <1>1, <1>2 DEF AnswerInv, RowHonest
<1> QED  BY <1>1, <1>2, <1>3, <1>4

\* What resolve() knows of the row in the branches that use it.
LEMMA ResolveBranches ==
    ASSUME NEW row, NEW body
    PROVE  /\ ResolveBranch(row, body) \in
                  {"insert", "conflict", "replay", "in_progress", "take_over"}
           /\ ResolveBranch(row, body) = "replay" =>
                  row.status = "COMPLETED" /\ row.body = body
           /\ ResolveBranch(row, body) = "take_over" =>
                  row.status # "ABSENT" /\ row.body = body
<1>1. CASE row.status = "ABSENT"
  BY <1>1 DEF ResolveBranch
<1>2. CASE row.status # "ABSENT" /\ row.body # body
  BY <1>2 DEF ResolveBranch, is_stale
<1>3. CASE row.status = "COMPLETED" /\ row.body = body
  BY <1>3 DEF ResolveBranch
<1>4. CASE row.status \notin {"ABSENT", "COMPLETED"} /\ row.body = body
  BY <1>4 DEF ResolveBranch
<1> QED  BY <1>1, <1>2, <1>3, <1>4

\* A request ends, or raises, with an answer that claims nothing.
LEMMA EndingIsHonest ==
    ASSUME AnswerInv, TypeOK', NEW r \in Requests,
           NEW answer \in Answer \ {"SAVED", "REPLAY"},
           \/ Ended(r, answer)
           \/ Raised(r, answer) /\ req[r].pc \in Claiming,
           UNCHANGED <<keyRow, writes>>
    PROVE  AnswerInv'
<1>1. TypeOK /\ RequestHonest(r)
  BY DEF AnswerInv
<1>2. /\ \A i \in Requests \ {r} : req'[i] = req[i]
      /\ req'[r].pc \in {"ended", "failing"}
      /\ req'[r].key = req[r].key
      /\ req'[r].body = req[r].body
      /\ req'[r].answer = answer
      /\ req'[r].pc = "failing" =>
             req[r].pc \in Claiming /\ req'[r].record = req[r].record
  BY <1>1 DEF TypeOK, Turn, Ended, Raised
<1>3. /\ \A i, k, body : Inserted(i, k, body) => Inserted(i, k, body)'
      /\ \A s \in Requests \ {r} : RequestHonest(s)'
      /\ \A k \in Keys : RowHonest(k)'
  BY <1>2, HonestyIsKept
<1>4. RequestHonest(r)'
  BY <1>1, <1>2, <1>3 DEF RequestHonest, Claiming
<1> QED  BY <1>3, <1>4 DEF AnswerInv

LEMMA TurnAnswer ==
    ASSUME AnswerInv, TypeOK', NEW r \in Requests, TurnNext(r)
    PROVE  AnswerInv'
<1>t. /\ TypeOK
      /\ RequestHonest(r)
      /\ req[r] \in Turn
      /\ \A k \in Keys : RowHonest(k) /\ keyRow[k] \in KeyRow
  BY DEF AnswerInv, TypeOK
<1>r. TurnRefusal(r) \in Answer \ {"SAVED", "REPLAY"}
  BY DEF TurnRefusal, Answer
<1>a. {"EVENT_NOT_PLANNING", "IDEMPOTENCY_CONFLICT", "IDEMPOTENCY_IN_PROGRESS",
       "AI_ERROR", "LOST"} \subseteq Answer \ {"SAVED", "REPLAY"}
  BY DEF Answer
<1>1. ASSUME NEW k \in Keys \cup {NoKey}, NEW body \in 0 .. revision, Send(r, k, body)
      PROVE  AnswerInv'
  <2>1. CASE status = "PLANNING"
    <3>1. /\ req' = [req EXCEPT ![r].pc = "sent", ![r].key = k, ![r].body = body]
          /\ UNCHANGED <<keyRow, writes>>
          /\ req[r].pc = "idle"
      BY <1>1, <2>1 DEF Send
    <3>2. /\ \A i \in Requests \ {r} : req'[i] = req[i]
          /\ req'[r].pc = "sent" /\ req'[r].answer = req[r].answer
      BY <1>t, <3>1 DEF TypeOK, Turn
    <3>3. /\ \A s \in Requests \ {r} : RequestHonest(s)'
          /\ \A j \in Keys : RowHonest(j)'
      BY <3>1, <3>2, HonestyIsKept
    <3>4. RequestHonest(r)'
      BY <1>t, <3>1, <3>2 DEF RequestHonest, Claiming
    <3> QED  BY <3>3, <3>4 DEF AnswerInv
  <2>2. CASE status # "PLANNING"
    BY <1>1, <1>a, <2>2, EndingIsHonest DEF Send
  <2> QED  BY <2>1, <2>2
<1>2. CASE ReadKey(r)
  <2> DEFINE k == req[r].key
             branch == ResolveBranch(keyRow[k], req[r].body)
  <2>0. UNCHANGED <<keyRow, writes>> /\ req[r].pc = "sent"
    BY <1>2 DEF ReadKey
  <2>1. ASSUME \A i \in Requests \ {r} : req'[i] = req[i], RequestHonest(r)'
        PROVE  AnswerInv'
    <3>1. /\ \A s \in Requests \ {r} : RequestHonest(s)'
          /\ \A j \in Keys : RowHonest(j)'
      BY <2>0, <2>1, HonestyIsKept
    <3> QED  BY <2>1, <3>1 DEF AnswerInv
  <2>2. CASE k = NoKey
    <3>1. req' = [req EXCEPT ![r].pc = "claimed"]
      BY <1>2, <2>2 DEF ReadKey
    <3>2. /\ \A i \in Requests \ {r} : req'[i] = req[i]
          /\ req'[r].pc = "claimed" /\ req'[r].key = NoKey
          /\ req'[r].answer = req[r].answer
      BY <1>t, <2>2, <3>1 DEF TypeOK, Turn
    <3>3. RequestHonest(r)'
      BY <1>t, <2>0, <3>2 DEF RequestHonest, Claiming
    <3> QED  BY <2>1, <3>2, <3>3
  <2>3. CASE k # NoKey /\ branch \in {"conflict", "in_progress"}
    <3>1. Ended(r, "IDEMPOTENCY_CONFLICT") \/ Ended(r, "IDEMPOTENCY_IN_PROGRESS")
      BY <1>2, <2>3 DEF ReadKey
    <3> QED  BY <1>a, <2>0, <3>1, EndingIsHonest
  <2>4. CASE k # NoKey /\ branch = "replay"
    <3>1. req' = [req EXCEPT ![r].pc = "ended", ![r].answer = "REPLAY",
                             ![r].result = keyRow[k].response]
      BY <1>2, <2>4 DEF ReadKey
    <3>2. k \in Keys /\ keyRow[k].status = "COMPLETED" /\ keyRow[k].body = req[r].body
      BY <1>t, <2>4, ResolveBranches DEF Turn
    <3>3. /\ \A i \in Requests \ {r} : req'[i] = req[i]
          /\ req'[r].pc = "ended" /\ req'[r].key = k
          /\ req'[r].body = req[r].body /\ req'[r].result = keyRow[k].response
      BY <1>t, <3>1 DEF TypeOK, Turn
    <3>4. Saved(k, req[r].body, keyRow[k].response)
      BY <1>t, <3>2 DEF RowHonest
    <3>5. RequestHonest(r)'
      BY <2>0, <3>3, <3>4 DEF RequestHonest, Claiming, Saved
    <3> QED  BY <2>1, <3>3, <3>5
  <2>5. CASE k # NoKey /\ branch \in {"insert", "take_over"}
    <3>1. req' = [req EXCEPT ![r].pc = branch, ![r].record = keyRow[k].id,
                             ![r].stamp = keyRow[k].stamp]
      BY <1>2, <2>5 DEF ReadKey
    <3>2. /\ k \in Keys
          /\ branch = "take_over" =>
                 keyRow[k].status # "ABSENT" /\ keyRow[k].body = req[r].body
      BY <1>t, <2>5, ResolveBranches DEF Turn
    <3>3. /\ \A i \in Requests \ {r} : req'[i] = req[i]
          /\ req'[r].pc = branch /\ req'[r].key = k
          /\ req'[r].body = req[r].body /\ req'[r].record = keyRow[k].id
          /\ req'[r].answer = req[r].answer
      BY <1>t, <3>1 DEF TypeOK, Turn
    <3>4. branch = "take_over" => Inserted(keyRow[k].id, k, req[r].body)
      BY <1>t, <3>2 DEF RowHonest
    <3>5. \A i, j, body : Inserted(i, j, body) => Inserted(i, j, body)'
      BY <2>0, <3>3, HonestyIsKept
    <3>6. RequestHonest(r)'
      BY <1>t, <2>0, <2>5, <3>3, <3>4, <3>5 DEF RequestHonest, Claiming
    <3> QED  BY <2>1, <3>3, <3>6
  <2>6. branch \in {"insert", "conflict", "replay", "in_progress", "take_over"}
    BY ResolveBranches
  <2> QED  BY <2>2, <2>3, <2>4, <2>5, <2>6
<1>3. CASE InsertKey(r)
  <2> DEFINE k == req[r].key
  <2>1. CASE keyRow[k].status = "ABSENT"
    <3>1. /\ keyRow' = [keyRow EXCEPT ![k] = NewRow(r, req[r].body)]
          /\ req' = [req EXCEPT ![r].pc = "claimed", ![r].record = r]
          /\ UNCHANGED writes
          /\ req[r].pc = "insert"
      BY <1>3, <2>1 DEF InsertKey
    <3>2. k \in Keys
      BY <1>t, <3>1 DEF RequestHonest, Turn
    <3>3. /\ \A i \in Requests \ {r} : req'[i] = req[i]
          /\ req'[r].pc = "claimed" /\ req'[r].key = k /\ req'[r].record = r
          /\ req'[r].body = req[r].body /\ req'[r].answer = req[r].answer
      BY <1>t, <3>1 DEF TypeOK, Turn
    <3>4. /\ \A s \in Requests \ {r} : RequestHonest(s)'
          /\ \A j \in Keys : keyRow'[j] = keyRow[j] => RowHonest(j)'
      BY <3>1, <3>3, HonestyIsKept
    <3>5. Inserted(r, k, req[r].body)'
      BY <3>3 DEF Inserted
    <3>6. RequestHonest(r)'
      BY <1>t, <3>1, <3>3, <3>5 DEF RequestHonest, Claiming, Inserted
    <3>7. RowHonest(k)'
      BY <1>t, <3>1, <3>2, <3>3, <3>5 DEF RowHonest, NewRow, TypeOK, Inserted
    <3>8. \A j \in Keys : RowHonest(j)'
      BY <1>t, <3>1, <3>4, <3>7 DEF TypeOK
    <3> QED  BY <3>4, <3>6, <3>8 DEF AnswerInv
  <2>2. CASE keyRow[k].status # "ABSENT"
    BY <1>3, <1>a, <2>2, EndingIsHonest DEF InsertKey
  <2> QED  BY <2>1, <2>2
<1>4. CASE TakeOverKey(r)
  <2> DEFINE k == req[r].key
             same == StillAsRead(keyRow[k], [id |-> req[r].record, stamp |-> req[r].stamp])
  <2>1. CASE same
    <3>1. /\ keyRow' = [keyRow EXCEPT ![k] = TakenOver(keyRow[k], r)]
          /\ req' = [req EXCEPT ![r].pc = "claimed", ![r].stamp = Nobody]
          /\ UNCHANGED writes
          /\ req[r].pc = "take_over"
      BY <1>4, <2>1 DEF TakeOverKey
    <3>2. k \in Keys
      BY <1>t, <3>1 DEF RequestHonest, Turn
    <3>3. /\ \A i \in Requests \ {r} : req'[i] = req[i]
          /\ req'[r].pc = "claimed" /\ req'[r].key = k
          /\ req'[r].record = req[r].record
          /\ req'[r].body = req[r].body /\ req'[r].answer = req[r].answer
      BY <1>t, <3>1 DEF TypeOK, Turn
    <3>4. /\ \A i, j, body : Inserted(i, j, body) => Inserted(i, j, body)'
          /\ \A s \in Requests \ {r} : RequestHonest(s)'
          /\ \A j \in Keys : keyRow'[j] = keyRow[j] => RowHonest(j)'
      BY <3>1, <3>3, HonestyIsKept
    <3>5. RequestHonest(r)'
      BY <1>t, <3>1, <3>3, <3>4 DEF RequestHonest, Claiming
    <3>6. /\ keyRow[k].status = "PROCESSING"
          /\ keyRow'[k].status = "PROCESSING"
          /\ keyRow'[k].id = keyRow[k].id /\ keyRow'[k].body = keyRow[k].body
      BY <1>t, <2>1, <3>1, <3>2 DEF TypeOK, KeyRow, TakenOver, StillAsRead
    <3>7. RowHonest(k)'
      BY <1>t, <3>2, <3>3, <3>4, <3>6 DEF RowHonest
    <3>8. \A j \in Keys : RowHonest(j)'
      BY <1>t, <3>1, <3>4, <3>7 DEF TypeOK
    <3> QED  BY <3>4, <3>5, <3>8 DEF AnswerInv
  <2>2. CASE ~same
    BY <1>4, <1>a, <2>2, EndingIsHonest DEF TakeOverKey
  <2> QED  BY <2>1, <2>2
<1>5. CASE Prepare(r)
  <2>1. CASE TurnRefusal(r) = "NONE"
    <3>1. /\ req' = [req EXCEPT ![r].pc = "running", ![r].basis = content]
          /\ UNCHANGED <<keyRow, writes>>
          /\ req[r].pc = "claimed"
      BY <1>5, <2>1 DEF Prepare
    <3>2. /\ \A i \in Requests \ {r} : req'[i] = req[i]
          /\ req'[r].pc = "running" /\ req'[r].key = req[r].key
          /\ req'[r].record = req[r].record
          /\ req'[r].body = req[r].body /\ req'[r].answer = req[r].answer
      BY <1>t, <3>1 DEF TypeOK, Turn
    <3>3. /\ \A i, j, body : Inserted(i, j, body) => Inserted(i, j, body)'
          /\ \A s \in Requests \ {r} : RequestHonest(s)'
          /\ \A j \in Keys : RowHonest(j)'
      BY <3>1, <3>2, HonestyIsKept
    <3>4. RequestHonest(r)'
      BY <1>t, <3>1, <3>2, <3>3 DEF RequestHonest, Claiming
    <3> QED  BY <3>3, <3>4 DEF AnswerInv
  <2>2. CASE TurnRefusal(r) # "NONE"
    BY <1>5, <1>r, <2>2, EndingIsHonest DEF Prepare, Claiming
  <2> QED  BY <2>1, <2>2
<1>6. ASSUME NEW kind \in {"reply", "conditions", "generated"}, Finish(r, kind)
      PROVE  AnswerInv'
  <2> DEFINE k == req[r].key
             w == [by |-> r, key |-> k, body |-> req[r].body, rev |-> revision + 1,
                   basis |-> req[r].basis, found |-> content]
  <2>1. /\ writes' = writes \cup {w}
        /\ req' = [req EXCEPT ![r] = [req[r] EXCEPT
                      !.pc = "ended", !.record = Nobody, !.basis = 0,
                      !.answer = "SAVED", !.result = revision + 1]]
        /\ keyRow' = IF k = NoKey THEN keyRow
                     ELSE [keyRow EXCEPT ![k] =
                               save_response(keyRow[k], req[r].record, revision + 1)]
        /\ req[r].pc = "running"
    BY <1>6 DEF Finish
  <2>2. /\ \A i \in Requests \ {r} : req'[i] = req[i]
        /\ req'[r].pc = "ended" /\ req'[r].key = k /\ req'[r].body = req[r].body
        /\ req'[r].result = revision + 1
    BY <1>t, <2>1 DEF TypeOK, Turn
  <2>3. /\ \A i, j, body : Inserted(i, j, body) => Inserted(i, j, body)'
        /\ \A s \in Requests \ {r} : RequestHonest(s)'
        /\ \A j \in Keys : keyRow'[j] = keyRow[j] => RowHonest(j)'
    BY <2>1, <2>2, HonestyIsKept
  <2>4. \A j, body, rev : j = k /\ body = req[r].body /\ rev = revision + 1
                              => Saved(j, body, rev)'
    <3>1. w \in writes' /\ w.by # Nobody
      BY <2>1, NobodyAssumption
    <3> QED  BY <3>1 DEF Saved
  <2>5. RequestHonest(r)'
    BY <2>2, <2>4 DEF RequestHonest, Claiming
  <2>6. ASSUME NEW j \in Keys
        PROVE  RowHonest(j)'
    <3>1. CASE keyRow'[j] = keyRow[j]
      BY <2>3, <3>1
    <3>2. CASE keyRow'[j] # keyRow[j]
      <4>1. j = k /\ k # NoKey
        BY <1>t, <2>1, <3>2 DEF TypeOK
      <4>2. /\ keyRow[k].status # "ABSENT" /\ keyRow[k].id = req[r].record
            /\ keyRow'[k].status = "COMPLETED" /\ keyRow'[k].id = keyRow[k].id
            /\ keyRow'[k].body = keyRow[k].body /\ keyRow'[k].response = revision + 1
        BY <1>t, <2>1, <3>2, <4>1 DEF TypeOK, KeyRow, save_response
      <4>3. /\ Inserted(req[r].record, k, req[r].body)
            /\ Inserted(req[r].record, k, keyRow[k].body)
        BY <1>t, <2>1, <4>1, <4>2 DEF RequestHonest, RowHonest, Claiming
      <4>4. keyRow[k].body = req[r].body
        BY <4>3 DEF Inserted
      <4> QED  BY <2>3, <2>4, <4>1, <4>2, <4>3, <4>4 DEF RowHonest
    <3> QED  BY <3>1, <3>2
  <2> QED  BY <2>3, <2>5, <2>6 DEF AnswerInv
<1>7. CASE FinishRefused(r)
  BY <1>7, <1>r, EndingIsHonest DEF FinishRefused, Claiming
<1>8. CASE TurnError(r)
  BY <1>8, <1>a, EndingIsHonest DEF TurnError, Claiming
<1>9. CASE Release(r)
  <2>1. /\ req[r].pc = "failing" /\ Ended(r, req[r].answer) /\ UNCHANGED writes
        /\ \A j \in Keys : keyRow'[j] = keyRow[j] \/ keyRow'[j] = AbsentRow
    BY <1>9, <1>t DEF Release, release, TypeOK
  <2>2. /\ \A i \in Requests \ {r} : req'[i] = req[i]
        /\ req'[r].pc = "ended" /\ req'[r].key = req[r].key
        /\ req'[r].body = req[r].body /\ req'[r].answer = req[r].answer
    BY <1>t, <2>1 DEF TypeOK, Turn, Ended
  <2>3. /\ \A s \in Requests \ {r} : RequestHonest(s)'
        /\ \A j \in Keys : keyRow'[j] = keyRow[j] => RowHonest(j)'
    BY <2>1, <2>2, HonestyIsKept
  <2>4. RequestHonest(r)'
    BY <1>t, <2>1, <2>2 DEF RequestHonest, Claiming
  <2>5. \A j \in Keys : keyRow'[j] = AbsentRow => RowHonest(j)'
    BY DEF RowHonest, AbsentRow
  <2> QED  BY <2>1, <2>3, <2>4, <2>5 DEF AnswerInv
<1>10. CASE Crash(r)
  BY <1>10, <1>a, EndingIsHonest DEF Crash
<1> QED
  BY <1>1, <1>2, <1>3, <1>4, <1>5, <1>6, <1>7, <1>8, <1>9, <1>10
  DEF TurnNext, TurnProgress

LEMMA NextAnswer == AnswerInv /\ [Next]_vars => AnswerInv'
<1> SUFFICES ASSUME AnswerInv, [Next]_vars PROVE AnswerInv'
  OBVIOUS
<1>t. TypeOK /\ TypeOK'
  BY NextType DEF AnswerInv
<1>o. ASSUME UNCHANGED req, writes \subseteq writes',
             \A k \in Keys : /\ keyRow'[k].status = keyRow[k].status
                             /\ keyRow'[k].id = keyRow[k].id
                             /\ keyRow'[k].body = keyRow[k].body
                             /\ keyRow'[k].response = keyRow[k].response
      PROVE  AnswerInv'
  <2>1. \A i, k, body : Inserted(i, k, body) => Inserted(i, k, body)'
    BY <1>o DEF Inserted
  <2>2. \A k, body, rev : Saved(k, body, rev) => Saved(k, body, rev)'
    BY <1>o DEF Saved
  <2> QED  BY <1>o, <1>t, <2>1, <2>2 DEF AnswerInv, RowHonest, RequestHonest
<1>1. ASSUME NEW r \in Requests, TurnNext(r)
      PROVE  AnswerInv'
  BY <1>t, <1>1, TurnAnswer
<1>2. ASSUME NEW k \in Keys, KeyAges(k)
      PROVE  AnswerInv'
  BY <1>t, <1>o, <1>2 DEF KeyAges, TypeOK, KeyRow
<1>3. CASE EditNext
  BY <1>o, <1>3 DEF EditNext, ReadSnapshot, UpdateItem, ReplacePlanSteps, StartEvent
<1>4. CASE ReviewNext
  BY <1>o, <1>4 DEF ReviewNext, RequestReview, StoreResult, ReviewerCrash, ReviewAges
<1>5. CASE UNCHANGED vars
  BY <1>o, <1>5 DEF vars
<1> QED  BY <1>1, <1>2, <1>3, <1>4, <1>5 DEF Next

\* Every answer that claims a saved turn, first-hand or replayed, reports a
\* turn of its own key and body, through takeovers, releases and crashes.
THEOREM AnswersAreTrue == Spec => []AnsweredTurnWasSaved
<1>1. AnswerInv => AnsweredTurnWasSaved
  BY DEF AnswerInv, RequestHonest, Saved, AnsweredTurnWasSaved
<1> QED  BY <1>1, InitAnswer, NextAnswer, PTL DEF Spec
----------------------------------------------------------------------------
(* One request at a time works for a key, and a saved turn completes it *)

\* Request i has got through resolve(), so it will not stamp a row again.
Past(i) ==
    i \in Requests /\ req[i].pc \notin {"idle", "sent", "insert", "take_over"}

\* Request r believes that it owns the row of its key.
Holding(r) ==
    req[r].pc \in {"claimed", "running", "failing"} /\ req[r].key # NoKey

\* The row that a takeover read is the row it would update.
ReadsOn(r) ==
    StillAsRead(keyRow[req[r].key], [id |-> req[r].record, stamp |-> req[r].stamp])

\* A request that believes it owns the row of its key does, and was the last to
\* stamp it; one that is about to take a row over found it stale, and it has
\* not come to life since.
KeyUse(r) ==
    /\ Holding(r) => /\ keyRow[req[r].key].status = "PROCESSING"
                     /\ keyRow[req[r].key].id = req[r].record
                     /\ keyRow[req[r].key].stamp = r
                     /\ ~keyRow[req[r].key].stale
    /\ req[r].pc = "take_over" =>
           Past(req[r].stamp) /\ (ReadsOn(r) => keyRow[req[r].key].stale)
    /\ req[r].pc \in {"insert", "take_over", "failing"} => req[r].key # NoKey
    /\ req[r].key = NoKey \/ req[r].pc \in {"idle", "sent"} => req[r].record = Nobody

RowStamped(k) == keyRow[k].status # "ABSENT" => Past(keyRow[k].stamp)

\* The key of a saved turn holds its answer.
KeyDone(w) ==
    w.by # Nobody /\ w.key # NoKey =>
        keyRow[w.key].status = "COMPLETED" /\ keyRow[w.key].response = w.rev

KeyInv ==
    /\ AnswerInv
    /\ \A r \in Requests : KeyUse(r)
    /\ \A k \in Keys : RowStamped(k)
    /\ \A w \in writes : KeyDone(w)

LEMMA InitKey == Init => KeyInv
  BY InitAnswer DEF Init, KeyInv, KeyUse, Holding, RowStamped, KeyDone, AbsentRow,
                    IdleTurn

\* A step of request r that moves it on harms no other request whose row it
\* leaves alone.
LEMMA KeyUseIsKept ==
    ASSUME KeyInv, NEW r \in Requests,
           \A i \in Requests \ {r} : req'[i] = req[i],
           Past(r) => Past(r)'
    PROVE  /\ \A i : Past(i) => Past(i)'
           /\ \A s \in Requests \ {r} :
                  keyRow'[req[s].key] = keyRow[req[s].key] => KeyUse(s)'
           /\ \A k \in Keys : keyRow'[k] = keyRow[k] => RowStamped(k)'
<1>1. \A i : Past(i) => Past(i)'
  BY DEF Past
<1>2. \A s \in Requests \ {r} :
          keyRow'[req[s].key] = keyRow[req[s].key] => KeyUse(s)'
  BY <1>1 DEF KeyInv, KeyUse, Holding, ReadsOn
<1>3. \A k \in Keys : keyRow'[k] = keyRow[k] => RowStamped(k)'
  BY <1>1 DEF KeyInv, RowStamped
<1> QED  BY <1>1, <1>2, <1>3

\* Two requests never hold the row of one key.
LEMMA HolderIsAlone ==
    ASSUME KeyInv, NEW r \in Requests, NEW s \in Requests, Holding(r), Holding(s),
           req[r].key = req[s].key
    PROVE  r = s
  BY DEF KeyInv, KeyUse

\* A request that ends, or raises while it holds its row or needs none, leaves
\* the invariant alone.
LEMMA EndingKeepsKeys ==
    ASSUME KeyInv, AnswerInv', NEW r \in Requests, NEW answer,
           \/ Ended(r, answer)
           \/ Raised(r, answer) /\ req[r].pc \in {"claimed", "running"},
           UNCHANGED <<keyRow, writes>>
    PROVE  KeyInv'
<1>1. TypeOK /\ KeyUse(r)
  BY DEF KeyInv, AnswerInv
<1>2. /\ \A i \in Requests \ {r} : req'[i] = req[i]
      /\ req'[r].pc \in {"ended", "failing"}
      /\ req'[r].key = req[r].key
      /\ req'[r].pc = "ended" => req'[r].record = Nobody
      /\ req'[r].pc = "failing" => /\ req[r].pc \in {"claimed", "running"}
                                   /\ req'[r].record = req[r].record
                                   /\ req[r].key # NoKey
  BY <1>1 DEF TypeOK, Turn, Ended, Raised
<1>3. Past(r)'
  BY <1>2 DEF Past
<1>4. /\ \A s \in Requests \ {r} : KeyUse(s)'
      /\ \A k \in Keys : RowStamped(k)'
  BY <1>2, <1>3, KeyUseIsKept
<1>5. KeyUse(r)'
  BY <1>1, <1>2 DEF KeyUse, Holding
<1>6. \A w \in writes : KeyDone(w)'
  BY DEF KeyInv, KeyDone
<1> QED  BY <1>4, <1>5, <1>6 DEF KeyInv

\* Resolve() and the turn behind it keep the invariant, however slow.
LEMMA TurnKeys ==
    ASSUME KeyInv, AnswerInv', NEW r \in Requests, TurnNext(r)
    PROVE  KeyInv'
<1>t. /\ TypeOK /\ TypeOK' /\ AnswerInv /\ KeyUse(r) /\ req[r] \in Turn
      /\ \A k \in Keys : keyRow[k] \in KeyRow
  BY DEF KeyInv, AnswerInv, TypeOK
<1>m. ASSUME \A i \in Requests \ {r} : req'[i] = req[i], Past(r) => Past(r)',
             UNCHANGED <<keyRow, writes>>, KeyUse(r)'
      PROVE  KeyInv'
  <2>1. /\ \A s \in Requests \ {r} : KeyUse(s)'
        /\ \A k \in Keys : RowStamped(k)'
    BY <1>m, KeyUseIsKept
  <2>2. \A w \in writes : KeyDone(w)'
    BY <1>m DEF KeyInv, KeyDone
  <2> QED  BY <1>m, <2>1, <2>2 DEF KeyInv
<1>1. ASSUME NEW k \in Keys \cup {NoKey}, NEW body \in 0 .. revision, Send(r, k, body)
      PROVE  KeyInv'
  <2>1. CASE status = "PLANNING"
    <3>1. /\ req' = [req EXCEPT ![r].pc = "sent", ![r].key = k, ![r].body = body]
          /\ UNCHANGED <<keyRow, writes>>
          /\ req[r].pc = "idle"
      BY <1>1, <2>1 DEF Send
    <3>2. /\ \A i \in Requests \ {r} : req'[i] = req[i]
          /\ req'[r].pc = "sent" /\ req'[r].record = req[r].record
      BY <1>t, <3>1 DEF TypeOK, Turn
    <3>3. KeyUse(r)'
      BY <1>t, <3>1, <3>2 DEF KeyUse, Holding
    <3> QED  BY <1>m, <3>1, <3>2, <3>3 DEF Past
  <2>2. CASE status # "PLANNING"
    BY <1>1, <2>2, EndingKeepsKeys DEF Send
  <2> QED  BY <2>1, <2>2
<1>2. CASE ReadKey(r)
  <2> DEFINE k == req[r].key
             branch == ResolveBranch(keyRow[k], req[r].body)
  <2>0. UNCHANGED <<keyRow, writes>> /\ req[r].pc = "sent"
    BY <1>2 DEF ReadKey
  <2>2. CASE k = NoKey
    <3>1. req' = [req EXCEPT ![r].pc = "claimed"]
      BY <1>2, <2>2 DEF ReadKey
    <3>2. /\ \A i \in Requests \ {r} : req'[i] = req[i]
          /\ req'[r].pc = "claimed" /\ req'[r].key = NoKey
          /\ req'[r].record = req[r].record
      BY <1>t, <2>2, <3>1 DEF TypeOK, Turn
    <3>3. KeyUse(r)'
      BY <1>t, <2>0, <3>2 DEF KeyUse, Holding
    <3> QED  BY <1>m, <2>0, <3>2, <3>3 DEF Past
  <2>3. CASE k # NoKey /\ branch \in {"conflict", "in_progress"}
    <3>1. Ended(r, "IDEMPOTENCY_CONFLICT") \/ Ended(r, "IDEMPOTENCY_IN_PROGRESS")
      BY <1>2, <2>3 DEF ReadKey
    <3> QED  BY <2>0, <3>1, EndingKeepsKeys
  <2>4. CASE k # NoKey /\ branch = "replay"
    <3>1. req' = [req EXCEPT ![r].pc = "ended", ![r].answer = "REPLAY",
                             ![r].result = keyRow[k].response]
      BY <1>2, <2>4 DEF ReadKey
    <3>2. /\ \A i \in Requests \ {r} : req'[i] = req[i]
          /\ req'[r].pc = "ended" /\ req'[r].key = k
          /\ req'[r].record = req[r].record
      BY <1>t, <3>1 DEF TypeOK, Turn
    <3>3. KeyUse(r)'
      BY <1>t, <2>0, <3>2 DEF KeyUse, Holding
    <3> QED  BY <1>m, <2>0, <3>2, <3>3 DEF Past
  <2>5. CASE k # NoKey /\ branch \in {"insert", "take_over"}
    <3>1. req' = [req EXCEPT ![r].pc = branch, ![r].record = keyRow[k].id,
                             ![r].stamp = keyRow[k].stamp]
      BY <1>2, <2>5 DEF ReadKey
    <3>2. k \in Keys
      BY <1>t, <2>5 DEF Turn
    <3>3. branch = "take_over" => keyRow[k].status # "ABSENT" /\ keyRow[k].stale
      BY DEF ResolveBranch, is_stale
    <3> HIDE DEF branch
    <3>4. /\ \A i \in Requests \ {r} : req'[i] = req[i]
          /\ req'[r].pc = branch /\ req'[r].key = k
          /\ req'[r].stamp = keyRow[k].stamp
      BY <1>t, <3>1 DEF TypeOK, Turn
    <3>5. branch = "take_over" => Past(keyRow[k].stamp) /\ keyRow[k].stamp # r
      BY <2>0, <3>2, <3>3 DEF KeyInv, RowStamped, Past
    <3>6. branch = "take_over" => Past(keyRow[k].stamp)'
      BY <2>0, <3>4, <3>5 DEF Past
    <3>7. KeyUse(r)'
      BY <2>0, <2>5, <3>3, <3>4, <3>6 DEF KeyUse, Holding
    <3> QED  BY <1>m, <2>0, <3>4, <3>7 DEF Past
  <2>6. branch \in {"insert", "conflict", "replay", "in_progress", "take_over"}
    BY ResolveBranches
  <2> QED  BY <2>2, <2>3, <2>4, <2>5, <2>6
<1>3. CASE InsertKey(r)
  <2> DEFINE k == req[r].key
  <2>1. CASE keyRow[k].status = "ABSENT"
    <3>1. /\ keyRow' = [keyRow EXCEPT ![k] = NewRow(r, req[r].body)]
          /\ req' = [req EXCEPT ![r].pc = "claimed", ![r].record = r]
          /\ UNCHANGED writes
          /\ req[r].pc = "insert"
      BY <1>3, <2>1 DEF InsertKey
    <3>2. k \in Keys /\ k # NoKey
      BY <1>t, <3>1 DEF KeyUse, Turn
    <3>3. /\ \A i \in Requests \ {r} : req'[i] = req[i]
          /\ req'[r].pc = "claimed" /\ req'[r].key = k /\ req'[r].record = r
      BY <1>t, <3>1 DEF TypeOK, Turn
    <3>4. /\ \A j : j # k => keyRow'[j] = keyRow[j]
          /\ keyRow'[k] = NewRow(r, req[r].body)
      BY <1>t, <3>1, <3>2 DEF TypeOK
    <3>5. Past(r)' /\ ~Past(r)
      BY <3>1, <3>3 DEF Past
    <3>6. /\ \A i : Past(i) => Past(i)'
          /\ \A s \in Requests \ {r} : req[s].key # k => KeyUse(s)'
          /\ \A j \in Keys \ {k} : RowStamped(j)'
      BY <3>3, <3>4, <3>5, KeyUseIsKept
    <3>7. ASSUME NEW s \in Requests \ {r}, req[s].key = k
          PROVE  KeyUse(s)'
      <4>1. KeyUse(s) /\ ~Holding(s) /\ req'[s] = req[s]
        BY <2>1, <3>3, <3>7 DEF KeyInv, KeyUse
      <4>2. req[s].pc = "take_over" => Past(req[s].stamp)' /\ req[s].stamp # r
        BY <3>5, <3>6, <4>1 DEF KeyUse
      <4>3. ~Holding(s)'
        BY <4>1 DEF Holding
      <4>4. req[s].pc = "take_over" => ~ReadsOn(s)'
        BY <3>4, <3>7, <4>1, <4>2 DEF ReadsOn, StillAsRead, NewRow
      <4> QED  BY <4>1, <4>2, <4>3, <4>4 DEF KeyUse
    <3>8. KeyUse(r)'
      BY <3>2, <3>3, <3>4 DEF KeyUse, Holding, NewRow
    <3>9. RowStamped(k)'
      BY <3>3, <3>4, <3>5 DEF RowStamped, NewRow
    <3>10. \A w \in writes : KeyDone(w)'
      BY <2>1, <3>4 DEF KeyInv, KeyDone
    <3> QED  BY <3>1, <3>3, <3>6, <3>7, <3>8, <3>9, <3>10 DEF KeyInv
  <2>2. CASE keyRow[k].status # "ABSENT"
    BY <1>3, <2>2, EndingKeepsKeys DEF InsertKey
  <2> QED  BY <2>1, <2>2
<1>4. CASE TakeOverKey(r)
  <2> DEFINE k == req[r].key
  <2>1. CASE ReadsOn(r)
    <3>1. /\ keyRow' = [keyRow EXCEPT ![k] = TakenOver(keyRow[k], r)]
          /\ req' = [req EXCEPT ![r].pc = "claimed", ![r].stamp = Nobody]
          /\ UNCHANGED writes
          /\ req[r].pc = "take_over"
      BY <1>4, <2>1 DEF TakeOverKey, ReadsOn
    <3>2. k \in Keys /\ k # NoKey /\ keyRow[k].stale /\ keyRow[k].status = "PROCESSING"
      BY <1>t, <2>1, <3>1 DEF KeyUse, Turn, ReadsOn, StillAsRead
    <3>3. /\ \A i \in Requests \ {r} : req'[i] = req[i]
          /\ req'[r].pc = "claimed" /\ req'[r].key = k
          /\ req'[r].record = req[r].record
      BY <1>t, <3>1 DEF TypeOK, Turn
    <3>4. /\ \A j : j # k => keyRow'[j] = keyRow[j]
          /\ keyRow'[k].status = "PROCESSING" /\ keyRow'[k].id = keyRow[k].id
          /\ keyRow'[k].stamp = r /\ ~keyRow'[k].stale
      BY <1>t, <3>1, <3>2 DEF TypeOK, KeyRow, TakenOver
    <3>5. Past(r)' /\ ~Past(r)
      BY <3>1, <3>3 DEF Past
    <3>6. /\ \A i : Past(i) => Past(i)'
          /\ \A s \in Requests \ {r} : req[s].key # k => KeyUse(s)'
          /\ \A j \in Keys \ {k} : RowStamped(j)'
      BY <3>3, <3>4, <3>5, KeyUseIsKept
    <3>7. ASSUME NEW s \in Requests \ {r}, req[s].key = k
          PROVE  KeyUse(s)'
      <4>1. KeyUse(s) /\ ~Holding(s) /\ req'[s] = req[s]
        BY <3>2, <3>3, <3>7 DEF KeyInv, KeyUse
      <4>2. req[s].pc = "take_over" => Past(req[s].stamp)' /\ req[s].stamp # r
        BY <3>5, <3>6, <4>1 DEF KeyUse
      <4>3. ~Holding(s)'
        BY <4>1 DEF Holding
      <4>4. req[s].pc = "take_over" => ~ReadsOn(s)'
        BY <3>4, <3>7, <4>1, <4>2 DEF ReadsOn, StillAsRead
      <4> QED  BY <4>1, <4>2, <4>3, <4>4 DEF KeyUse
    <3>8. KeyUse(r)'
      <4>1. keyRow[k].id = req[r].record
        BY <2>1 DEF ReadsOn, StillAsRead
      <4> QED  BY <3>2, <3>3, <3>4, <4>1 DEF KeyUse, Holding
    <3>9. RowStamped(k)'
      BY <3>3, <3>4, <3>5 DEF RowStamped
    <3>10. \A w \in writes : KeyDone(w)'
      BY <3>2, <3>4 DEF KeyInv, KeyDone
    <3> QED  BY <3>1, <3>3, <3>6, <3>7, <3>8, <3>9, <3>10 DEF KeyInv
  <2>2. CASE ~ReadsOn(r)
    BY <1>4, <2>2, EndingKeepsKeys DEF TakeOverKey, ReadsOn
  <2> QED  BY <2>1, <2>2
<1>5. CASE Prepare(r)
  <2>1. CASE TurnRefusal(r) = "NONE"
    <3>1. /\ req' = [req EXCEPT ![r].pc = "running", ![r].basis = content]
          /\ UNCHANGED <<keyRow, writes>>
          /\ req[r].pc = "claimed"
      BY <1>5, <2>1 DEF Prepare
    <3>2. /\ \A i \in Requests \ {r} : req'[i] = req[i]
          /\ req'[r].pc = "running" /\ req'[r].key = req[r].key
          /\ req'[r].record = req[r].record
      BY <1>t, <3>1 DEF TypeOK, Turn
    <3>3. KeyUse(r)'
      BY <1>t, <3>1, <3>2 DEF KeyUse, Holding
    <3> QED  BY <1>m, <3>1, <3>2, <3>3 DEF Past
  <2>2. CASE TurnRefusal(r) # "NONE"
    BY <1>5, <2>2, EndingKeepsKeys DEF Prepare
  <2> QED  BY <2>1, <2>2
<1>6. ASSUME NEW kind \in {"reply", "conditions", "generated"}, Finish(r, kind)
      PROVE  KeyInv'
  <2> DEFINE k == req[r].key
             w == [by |-> r, key |-> k, body |-> req[r].body, rev |-> revision + 1,
                   basis |-> req[r].basis, found |-> content]
  <2>1. /\ writes' = writes \cup {w}
        /\ req' = [req EXCEPT ![r] = [req[r] EXCEPT
                      !.pc = "ended", !.record = Nobody, !.basis = 0,
                      !.answer = "SAVED", !.result = revision + 1]]
        /\ keyRow' = IF k = NoKey THEN keyRow
                     ELSE [keyRow EXCEPT ![k] =
                               save_response(keyRow[k], req[r].record, revision + 1)]
        /\ req[r].pc = "running"
    BY <1>6 DEF Finish
  <2>2. /\ \A i \in Requests \ {r} : req'[i] = req[i]
        /\ req'[r].pc = "ended" /\ req'[r].key = k /\ req'[r].record = Nobody
    BY <1>t, <2>1 DEF TypeOK, Turn
  <2>3. Past(r) /\ Past(r)'
    BY <2>1, <2>2 DEF Past
  <2>4. KeyUse(r)'
    BY <2>2 DEF KeyUse, Holding
  <2>5. CASE k = NoKey
    <3>1. keyRow' = keyRow
      BY <2>1, <2>5
    <3>2. /\ \A s \in Requests \ {r} : KeyUse(s)'
          /\ \A j \in Keys : RowStamped(j)'
      BY <2>2, <2>3, <3>1, KeyUseIsKept
    <3>3. \A x \in writes' : KeyDone(x)'
      BY <2>1, <2>5, <3>1 DEF KeyInv, KeyDone
    <3> QED  BY <2>4, <3>2, <3>3 DEF KeyInv
  <2>6. CASE k # NoKey
    <3>1. k \in Keys /\ Holding(r)
      BY <1>t, <2>1, <2>6 DEF Turn, Holding
    <3>2. /\ keyRow[k].status = "PROCESSING" /\ keyRow[k].id = req[r].record
          /\ keyRow[k].stamp = r
      BY <1>t, <3>1 DEF KeyUse
    <3>3. /\ \A j : j # k => keyRow'[j] = keyRow[j]
          /\ keyRow'[k].status = "COMPLETED" /\ keyRow'[k].response = revision + 1
          /\ keyRow'[k].stamp = r
      BY <1>t, <2>1, <2>6, <3>1, <3>2 DEF TypeOK, KeyRow, save_response
    <3>4. /\ \A i : Past(i) => Past(i)'
          /\ \A s \in Requests \ {r} : req[s].key # k => KeyUse(s)'
          /\ \A j \in Keys \ {k} : RowStamped(j)'
      BY <2>2, <2>3, <3>3, KeyUseIsKept
    <3>5. ASSUME NEW s \in Requests \ {r}, req[s].key = k
          PROVE  KeyUse(s)'
      <4>1. KeyUse(s) /\ ~Holding(s) /\ req'[s] = req[s]
        BY <2>2, <3>1, <3>5, HolderIsAlone DEF KeyInv
      <4>2. ~Holding(s)' /\ ~ReadsOn(s)'
        BY <3>3, <3>5, <4>1 DEF Holding, ReadsOn, StillAsRead
      <4> QED  BY <3>4, <4>1, <4>2 DEF KeyUse
    <3>6. RowStamped(k)'
      BY <2>2, <2>3, <3>3 DEF RowStamped
    <3>7. \A x \in writes : KeyDone(x)'
      BY <3>2, <3>3 DEF KeyInv, KeyDone
    <3>8. \A x \in {w} : KeyDone(x)'
      BY <3>3 DEF KeyDone
    <3>9. \A x \in writes' : KeyDone(x)'
      BY <2>1, <3>7, <3>8
    <3> QED  BY <2>2, <2>4, <3>4, <3>5, <3>6, <3>9 DEF KeyInv
  <2> QED  BY <2>5, <2>6
<1>7. CASE FinishRefused(r)
  BY <1>7, EndingKeepsKeys DEF FinishRefused
<1>8. CASE TurnError(r)
  BY <1>8, EndingKeepsKeys DEF TurnError
<1>9. CASE Release(r)
  <2> DEFINE k == req[r].key
  <2>1. /\ req[r].pc = "failing" /\ Ended(r, req[r].answer) /\ UNCHANGED writes
        /\ keyRow' = [keyRow EXCEPT ![k] = release(keyRow[k], req[r].record)]
    BY <1>9 DEF Release
  <2>2. k \in Keys /\ Holding(r)
    BY <1>t, <2>1 DEF KeyUse, Holding, Turn
  <2>3. /\ \A i \in Requests \ {r} : req'[i] = req[i]
        /\ req'[r].pc = "ended" /\ req'[r].key = k /\ req'[r].record = Nobody
    BY <1>t, <2>1 DEF TypeOK, Turn, Ended
  <2>4. keyRow[k].status = "PROCESSING" /\ keyRow[k].id = req[r].record
    BY <1>t, <2>2 DEF KeyUse
  <2>5. /\ \A j : j # k => keyRow'[j] = keyRow[j]
        /\ keyRow'[k].status = "ABSENT"
    BY <1>t, <2>1, <2>2, <2>4 DEF TypeOK, release, AbsentRow
  <2>6. Past(r) /\ Past(r)'
    BY <2>1, <2>3 DEF Past
  <2>7. /\ \A i : Past(i) => Past(i)'
        /\ \A s \in Requests \ {r} : req[s].key # k => KeyUse(s)'
        /\ \A j \in Keys \ {k} : RowStamped(j)'
    BY <2>3, <2>5, <2>6, KeyUseIsKept
  <2>8. ASSUME NEW s \in Requests \ {r}, req[s].key = k
        PROVE  KeyUse(s)'
    <3>1. KeyUse(s) /\ ~Holding(s) /\ req'[s] = req[s]
      BY <2>2, <2>3, <2>8, HolderIsAlone DEF KeyInv
    <3>2. ~Holding(s)' /\ ~ReadsOn(s)'
      BY <2>5, <2>8, <3>1 DEF Holding, ReadsOn, StillAsRead
    <3> QED  BY <2>7, <3>1, <3>2 DEF KeyUse
  <2>9. KeyUse(r)' /\ RowStamped(k)'
    BY <2>3, <2>5 DEF KeyUse, Holding, RowStamped
  <2>10. \A w \in writes : KeyDone(w)'
    BY <2>4, <2>5 DEF KeyInv, KeyDone
  <2> QED  BY <2>1, <2>3, <2>7, <2>8, <2>9, <2>10 DEF KeyInv
<1>10. CASE Crash(r)
  BY <1>10, EndingKeepsKeys DEF Crash
<1> QED
  BY <1>1, <1>2, <1>3, <1>4, <1>5, <1>6, <1>7, <1>8, <1>9, <1>10
  DEF TurnNext, TurnProgress

\* Only a turn that outlives its key's five minutes could break it.
LEMMA NextKey == ~SlowWorkers /\ KeyInv /\ [Next]_vars => KeyInv'
<1> SUFFICES ASSUME ~SlowWorkers, KeyInv, [Next]_vars PROVE KeyInv'
  OBVIOUS
<1>a. AnswerInv /\ AnswerInv' /\ TypeOK
  BY NextAnswer DEF KeyInv, AnswerInv
<1>o. ASSUME UNCHANGED <<req, keyRow>>,
             \A w \in writes' : w \in writes \/ w.by = Nobody
      PROVE  KeyInv'
  <2>1. \A r \in Requests : KeyUse(r)'
    BY <1>o DEF KeyInv, KeyUse, Holding, ReadsOn, Past
  <2>2. \A k \in Keys : RowStamped(k)'
    BY <1>o DEF KeyInv, RowStamped, Past
  <2>3. \A w \in writes' : KeyDone(w)'
    BY <1>o DEF KeyInv, KeyDone
  <2> QED  BY <1>a, <2>1, <2>2, <2>3 DEF KeyInv
<1>1. ASSUME NEW r \in Requests, TurnNext(r)
      PROVE  KeyInv'
  BY <1>a, <1>1, TurnKeys
<1>2. ASSUME NEW k \in Keys, KeyAges(k)
      PROVE  KeyInv'
  <2>1. /\ keyRow[k].status = "PROCESSING"
        /\ \A r \in Requests : ~Holds(r, keyRow[k].id)
        /\ UNCHANGED <<req, writes>>
    BY <1>2 DEF KeyAges
  <2>2. /\ \A j : j # k => keyRow'[j] = keyRow[j]
        /\ keyRow'[k].status = keyRow[k].status /\ keyRow'[k].id = keyRow[k].id
        /\ keyRow'[k].stamp = keyRow[k].stamp /\ keyRow'[k].stale
    BY <1>a, <1>2 DEF KeyAges, TypeOK, KeyRow
  <2>3. ASSUME NEW r \in Requests
        PROVE  KeyUse(r)'
    <3>1. KeyUse(r)
      BY DEF KeyInv
    <3>2. CASE req[r].key # k
      BY <2>1, <2>2, <3>1, <3>2 DEF KeyUse, Holding, ReadsOn, Past
    <3>3. CASE req[r].key = k
      <4>1. ~Holding(r) /\ ~Holding(r)'
        BY <2>1, <3>1, <3>3 DEF KeyUse, Holding, Holds
      <4> QED  BY <2>1, <2>2, <3>1, <3>3, <4>1 DEF KeyUse, ReadsOn, Past
    <3> QED  BY <3>2, <3>3
  <2>4. \A j \in Keys : RowStamped(j)'
    BY <2>1, <2>2 DEF KeyInv, RowStamped, Past
  <2>5. \A w \in writes : KeyDone(w)'
    BY <2>1, <2>2 DEF KeyInv, KeyDone
  <2> QED  BY <1>a, <2>1, <2>3, <2>4, <2>5 DEF KeyInv
<1>3. CASE EditNext
  <2>1. UNCHANGED <<req, keyRow>> /\ \A w \in writes' : w \in writes \/ w.by = Nobody
    BY <1>3 DEF EditNext, ReadSnapshot, UpdateItem, ReplacePlanSteps, StartEvent
  <2> QED  BY <1>o, <2>1
<1>4. CASE ReviewNext
  <2>1. CASE \E v \in Reviewers : RequestReview(v) \/ ReviewerCrash(v)
    BY <1>o, <2>1 DEF RequestReview, ReviewerCrash
  <2>2. CASE \E v \in Reviewers, ok \in BOOLEAN : StoreResult(v, ok)
    BY <1>o, <2>2 DEF StoreResult
  <2>3. CASE ReviewAges
    BY <1>o, <2>3 DEF ReviewAges
  <2> QED  BY <1>4, <2>1, <2>2, <2>3 DEF ReviewNext
<1>5. CASE UNCHANGED vars
  BY <1>o, <1>5 DEF vars
<1> QED  BY <1>1, <1>2, <1>3, <1>4, <1>5 DEF Next

\* As long as no turn outlives its key's five minutes, at most one request
\* works on a row, whatever crashes, takeovers and retries came before: a row
\* that is alive is refused, and of two that read it stale the conditional
\* UPDATE lets one through.
THEOREM KeyHasOneHolder == ~SlowWorkers => (Spec => []OneHolder)
<1>1. KeyInv => OneHolder
  <2> SUFFICES ASSUME KeyInv, NEW r1 \in Requests, NEW r2 \in Requests,
                      r1 # r2, req[r1].key # NoKey, NEW id \in Requests,
                      Holds(r1, id), Holds(r2, id)
               PROVE  FALSE
    BY DEF OneHolder
  <2>1. Holding(r1) /\ Holding(r2)
    BY NobodyAssumption DEF Holding, Holds, KeyInv, KeyUse
  <2>2. req[r1].key = req[r2].key
    BY <2>1 DEF Holding, Holds, KeyInv, AnswerInv, RequestHonest, Claiming, Inserted
  <2> QED  BY <2>1, <2>2, HolderIsAlone
<1>2. ASSUME ~SlowWorkers PROVE Spec => []OneHolder
  <2>1. KeyInv /\ [Next]_vars => KeyInv'
    BY <1>2, NextKey
  <2> QED  BY <1>1, <2>1, InitKey, PTL DEF Spec
<1> QED  BY <1>2

\* Under the same hypothesis a saved turn's key is completed and holds its
\* answer for good: no late release and no takeover undoes it.
THEOREM SavedKeysAreCompleted == ~SlowWorkers => (Spec => []SavedTurnHasCompletedKey)
<1>1. KeyInv => SavedTurnHasCompletedKey
  <2> SUFFICES ASSUME KeyInv, NEW w \in writes, w.by # Nobody, w.key # NoKey
               PROVE  \E k \in Keys : /\ k = w.key
                                      /\ LookupAnswer(keyRow[k]) = "completed"
                                      /\ keyRow[k].response = w.rev
    BY DEF SavedTurnHasCompletedKey
  <2>1. w.key \in Keys
    BY DEF KeyInv, AnswerInv, TypeOK, Write
  <2>2. keyRow[w.key].status = "COMPLETED" /\ keyRow[w.key].response = w.rev
    BY DEF KeyInv, KeyDone
  <2>3. LookupAnswer(keyRow[w.key]) = "completed"
    BY <2>2 DEF LookupAnswer, is_stale
  <2> QED  BY <2>1, <2>2, <2>3
<1>2. ASSUME ~SlowWorkers PROVE Spec => []SavedTurnHasCompletedKey
  <2>1. KeyInv /\ [Next]_vars => KeyInv'
    BY <1>2, NextKey
  <2> QED  BY <1>1, <2>1, InitKey, PTL DEF Spec
<1> QED  BY <1>2

----------------------------------------------------------------------------
(* The review on the screen is of the plan on the screen *)

\* The review row never runs ahead of the plan, and while it waits for an
\* answer on the current plan, that answer is about the current plan.
ReviewFollowsPlan ==
    /\ review.reviewed <= planRevision
    /\ review.status = "REVIEWING" => review.request \in Reviewers
    /\ /\ status = "PLANNING"
       /\ review.status = "REVIEWING"
       /\ review.reviewed = planRevision
       /\ reviewer[review.request].pc = "running"
       => reviewer[review.request].basis = content

\* A reviewer that works on the current revision in time is the one the row
\* waits for.
ReviewerInTime(v) ==
    reviewer[v].pc = "running" =>
        /\ reviewer[v].expected <= planRevision
        /\ reviewer[v].expected = planRevision /\ ~reviewer[v].overdue =>
               /\ review.status = "REVIEWING"
               /\ review.request = v
               /\ review.reviewed = planRevision
               /\ ~review.timedOut

ReviewInv ==
    /\ TypeOK
    /\ ReviewFollowsPlan
    /\ ReviewIsOfCurrentPlan
    /\ \A v \in Reviewers : ReviewerInTime(v)
    /\ OneReviewPerRevision

LEMMA InitReview == Init => ReviewInv
  BY InitType DEF Init, ReviewInv, ReviewFollowsPlan, ReviewIsOfCurrentPlan,
                  AbsentReview, ReviewerInTime, OneReviewPerRevision

\* A step that leaves the reviews and the plan alone, up to the end of
\* planning, keeps the invariant.
LEMMA ReviewUntouched ==
    ASSUME ReviewInv, TypeOK', UNCHANGED <<planRevision, review, reviewer>>,
           status' = "PLANNING" => status = "PLANNING" /\ content' = content
    PROVE  ReviewInv'
  BY DEF ReviewInv, ReviewFollowsPlan, ReviewIsOfCurrentPlan, ReviewerInTime,
         OneReviewPerRevision

\* A change of the plan moves its revision past everything reviewed so far.
LEMMA ReviewOutrun ==
    ASSUME ReviewInv, TypeOK', UNCHANGED reviewer,
           planRevision' = planRevision + 1,
           review' = review \/ review' = reset_baseline(planRevision + 1)
    PROVE  ReviewInv'
<1>1. /\ planRevision \in Nat
      /\ review.reviewed \in Nat /\ review.reviewed <= planRevision
      /\ \A v \in Reviewers : reviewer[v].expected \in Nat
  BY DEF ReviewInv, ReviewFollowsPlan, TypeOK, Review, ReviewWork
<1>2. \/ review' = review
      \/ review'.status = "NOT_REQUESTED" /\ review'.reviewed = 0
  BY DEF reset_baseline, AbsentReview
<1>3. review'.reviewed # planRevision' /\ review'.reviewed <= planRevision'
  BY <1>1, <1>2
<1>4. ReviewFollowsPlan'
  BY <1>2, <1>3 DEF ReviewInv, ReviewFollowsPlan
<1>5. ReviewIsOfCurrentPlan'
  BY <1>3 DEF ReviewIsOfCurrentPlan
<1>6. \A v \in Reviewers : ReviewerInTime(v)'
  BY <1>1 DEF ReviewInv, ReviewerInTime
<1>7. OneReviewPerRevision'
  BY DEF ReviewInv, OneReviewPerRevision
<1> QED  BY <1>4, <1>5, <1>6, <1>7 DEF ReviewInv

LEMMA NextReview == ReviewInv /\ [Next]_vars => ReviewInv'
<1> SUFFICES ASSUME ReviewInv, [Next]_vars PROVE ReviewInv'
  OBVIOUS
<1>t. TypeOK /\ TypeOK'
  BY NextType DEF ReviewInv
<1>q. /\ planRevision \in Nat
      /\ \A v \in Reviewers : reviewer[v] \in ReviewWork
      /\ review \in Review
  BY <1>t DEF TypeOK
<1>u. ASSUME UNCHANGED <<eventVars, review, reviewer>>
      PROVE  ReviewInv'
  BY <1>t, <1>u, ReviewUntouched DEF eventVars
<1>1. ASSUME NEW r \in Requests, TurnNext(r)
      PROVE  ReviewInv'
  <2>1. ASSUME NEW kind \in {"reply", "conditions", "generated"}, Finish(r, kind)
        PROVE  ReviewInv'
    <3>1. SaveTurn(kind) /\ UNCHANGED reviewer
      BY <2>1 DEF Finish
    <3>2. CASE kind = "reply"
      BY <1>t, <3>1, <3>2, ReviewUntouched DEF SaveTurn
    <3>3. CASE kind # "reply"
      <4>1. /\ planRevision' = planRevision + 1
            /\ review' = review \/ review' = reset_baseline(planRevision + 1)
        BY <3>1, <3>3 DEF SaveTurn
      <4> QED  BY <1>t, <3>1, <4>1, ReviewOutrun
    <3> QED  BY <3>2, <3>3
  <2>2. CASE UNCHANGED <<eventVars, review, reviewer>>
    BY <1>u, <2>2
  <2>3. CASE \E k \in Keys \cup {NoKey}, body \in 0 .. revision : Send(r, k, body)
    BY <2>2, <2>3 DEF Send
  <2>4. CASE ReadKey(r) \/ InsertKey(r) \/ TakeOverKey(r) \/ Prepare(r)
    BY <2>2, <2>4 DEF ReadKey, InsertKey, TakeOverKey, Prepare
  <2>5. CASE FinishRefused(r) \/ TurnError(r) \/ Release(r) \/ Crash(r)
    BY <2>2, <2>5 DEF FinishRefused, TurnError, Release, Crash
  <2> QED  BY <1>1, <2>1, <2>3, <2>4, <2>5 DEF TurnNext, TurnProgress
<1>2. ASSUME NEW k \in Keys, KeyAges(k)
      PROVE  ReviewInv'
  BY <1>u, <1>2 DEF KeyAges
<1>3. CASE EditNext
  <2>1. CASE ReadSnapshot
    BY <1>u, <2>1 DEF ReadSnapshot
  <2>2. ASSUME NEW changed \in BOOLEAN, UpdateItem(changed) \/ ReplacePlanSteps(changed)
        PROVE  ReviewInv'
    <3>1. UNCHANGED <<status, review, reviewer>>
      BY <2>2 DEF UpdateItem, ReplacePlanSteps
    <3>2. CASE status = "PLANNING" /\ changed
      <4>1. planRevision' = planRevision + 1
        BY <2>2, <3>2 DEF UpdateItem, ReplacePlanSteps, bump_plan_revision
      <4> QED  BY <1>t, <3>1, <4>1, ReviewOutrun
    <3>3. CASE ~(status = "PLANNING" /\ changed)
      <4>1. /\ planRevision' = planRevision
            /\ status = "PLANNING" => content' = content
        BY <2>2, <3>3 DEF UpdateItem, ReplacePlanSteps, bump_plan_revision
      <4> QED  BY <1>t, <3>1, <4>1, ReviewUntouched
    <3> QED  BY <3>2, <3>3
  <2>3. CASE StartEvent
    BY <1>t, <2>3, ReviewUntouched DEF StartEvent
  <2> QED  BY <1>3, <2>1, <2>2, <2>3 DEF EditNext
<1>4. ASSUME NEW v \in Reviewers, RequestReview(v)
      PROVE  ReviewInv'
  <2>1. /\ review'.status = "REVIEWING" /\ review'.request = v
        /\ review'.reviewed = planRevision /\ ~review'.timedOut
        /\ UNCHANGED <<status, planRevision, content>>
    BY <1>q, <1>4 DEF RequestReview, eventVars, Review
  <2>2. /\ reviewer'[v] = [pc |-> "running", expected |-> planRevision,
                           basis |-> content, overdue |-> FALSE]
        /\ \A w \in Reviewers \ {v} : reviewer'[w] = reviewer[w]
    BY <1>t, <1>4 DEF RequestReview, TypeOK
  <2>3. \A w \in Reviewers : reviewer[w].pc = "running" /\ ~reviewer[w].overdue =>
            reviewer[w].expected # planRevision
    BY <1>4 DEF RequestReview, ReviewSettled, ReviewInv, ReviewerInTime
  <2>4. ReviewFollowsPlan' /\ ReviewIsOfCurrentPlan'
    BY <1>q, <2>1, <2>2 DEF ReviewFollowsPlan, ReviewIsOfCurrentPlan
  <2>5. \A w \in Reviewers : ReviewerInTime(w)'
    BY <1>q, <2>1, <2>2, <2>3 DEF ReviewInv, ReviewerInTime
  <2>6. OneReviewPerRevision'
    BY <2>2, <2>3 DEF ReviewInv, OneReviewPerRevision
  <2> QED  BY <1>t, <2>4, <2>5, <2>6 DEF ReviewInv
<1>5. ASSUME NEW v \in Reviewers,
             (\E ok \in BOOLEAN : StoreResult(v, ok)) \/ ReviewerCrash(v)
      PROVE  ReviewInv'
  <2>1. /\ reviewer[v].pc = "running" /\ reviewer'[v].pc = "ended"
        /\ \A w \in Reviewers \ {v} : reviewer'[w] = reviewer[w]
        /\ UNCHANGED <<status, planRevision, content>>
    BY <1>t, <1>5 DEF StoreResult, ReviewerCrash, eventVars, TypeOK, ReviewWork
  <2>2. \/ review' = review
        \/ /\ review.request = v /\ review.status = "REVIEWING"
           /\ review'.status \in {"DONE", "FAILED"}
           /\ review'.status = "DONE" => review'.basis = reviewer[v].basis
           /\ review'.reviewed = review.reviewed
    BY <1>q, <1>5 DEF StoreResult, ReviewerCrash, Review
  <2>3. ReviewFollowsPlan' /\ ReviewIsOfCurrentPlan'
    BY <2>1, <2>2 DEF ReviewInv, ReviewFollowsPlan, ReviewIsOfCurrentPlan
  <2>4. \A w \in Reviewers : ReviewerInTime(w)'
    BY <2>1, <2>2 DEF ReviewInv, ReviewerInTime
  <2>5. OneReviewPerRevision'
    BY <2>1 DEF ReviewInv, OneReviewPerRevision
  <2> QED  BY <1>t, <2>3, <2>4, <2>5 DEF ReviewInv
<1>6. CASE ReviewAges
  <2> DEFINE v == review.request
  <2>1. v \in Reviewers /\ review.status = "REVIEWING"
    BY <1>6 DEF ReviewAges, ReviewInv, ReviewFollowsPlan
  <2>2. /\ review'.status = review.status /\ review'.request = review.request
        /\ review'.reviewed = review.reviewed /\ review'.basis = review.basis
        /\ UNCHANGED <<status, planRevision, content>>
    BY <1>q, <1>6 DEF ReviewAges, eventVars, Review
  <2>3. /\ \A w \in Reviewers \ {v} : reviewer'[w] = reviewer[w]
        /\ reviewer'[v].pc = reviewer[v].pc /\ reviewer'[v].overdue
        /\ reviewer'[v].expected = reviewer[v].expected
        /\ reviewer'[v].basis = reviewer[v].basis
    BY <1>t, <1>6, <2>1 DEF ReviewAges, TypeOK, ReviewWork
  <2>4. ReviewFollowsPlan' /\ ReviewIsOfCurrentPlan'
    BY <2>1, <2>2, <2>3 DEF ReviewInv, ReviewFollowsPlan, ReviewIsOfCurrentPlan
  <2>5. \A w \in Reviewers : ReviewerInTime(w)'
    BY <2>1, <2>2, <2>3 DEF ReviewInv, ReviewerInTime
  <2>6. OneReviewPerRevision'
    BY <2>1, <2>3 DEF ReviewInv, OneReviewPerRevision
  <2> QED  BY <1>t, <2>4, <2>5, <2>6 DEF ReviewInv
<1>7. CASE UNCHANGED vars
  BY <1>u, <1>7 DEF vars, eventVars
<1> QED
  BY <1>1, <1>2, <1>3, <1>4, <1>5, <1>6, <1>7 DEF Next, ReviewNext

\* A finished review shown for the current revision judged the plan as it
\* stands, whatever was edited, regenerated or asked again while the model ran.
THEOREM ReviewIsCurrent == Spec => []ReviewIsOfCurrentPlan
<1>1. ReviewInv => ReviewIsOfCurrentPlan
  BY DEF ReviewInv
<1> QED  BY <1>1, InitReview, NextReview, PTL DEF Spec

\* Two reviews of one revision run together only when one is past
\* REVIEW_TIMEOUT.
THEOREM ReviewedOnceAtATime == Spec => []OneReviewPerRevision
<1>1. ReviewInv => OneReviewPerRevision
  BY DEF ReviewInv
<1> QED  BY <1>1, InitReview, NextReview, PTL DEF Spec
=============================================================================
