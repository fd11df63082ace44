----------------------------- MODULE Operation -----------------------------
(***************************************************************************)
(* Operating one event once its plan exists: the event's life cycle, the   *)
(* steps, the actions that members approve, deny, answer and execute, the  *)
(* AI drafts of notices and mails, and the expenses transfers leave.       *)
(*                                                                         *)
(*   action_service        start_event, complete_event, approve, deny,     *)
(*                         resolve, mark_done, complete_step               *)
(*   event_service         update_action, begin_event_cancellation,        *)
(*                         complete_cancel_task                            *)
(*   action_draft_service  request_current_step_drafts, request_redraft,   *)
(*                         _run_draft, _finish                             *)
(*   operation_cases       run: the confirmation an AI question opens      *)
(*   accounting_service    add_action_expense, update_expense,             *)
(*                         delete_expense                                  *)
(*                                                                         *)
(* A member acts on what is on the screen: an action read earlier, whose   *)
(* version the request carries.  Every transaction locks the event row     *)
(* first and is one action here; the draft signal after a commit, the      *)
(* model call and the storing of its result are later transactions.        *)
(***************************************************************************)
EXTENDS Naturals

CONSTANTS Members,        \* members who use the service
          Nobody,         \* no member
          Actions,        \* Action rows
          NoAction,       \* no action on the screen
          TypeOf,         \* Action.type of each action
          StepOf,         \* step_order of its step, 0 for step_id NULL
          NumSteps,       \* number of steps of the plan
          NumCancelTasks, \* number of entries of _CANCEL_TASKS
          MaxVersion,     \* bound on Action.version of each action
          MaxAttempts     \* bound on the draft attempts of an action

ActionType == {"NOTICE", "EXTERNAL_SEND", "TRANSFER", "EXPENSE", "CONTRACT",
               "CONFIRMATION"}

ASSUME OperationAssumption ==
    /\ Nobody \notin Members
    /\ NoAction \notin Actions
    /\ NumSteps \in Nat
    /\ NumCancelTasks \in Nat \ {0}
    /\ MaxVersion \in [Actions -> Nat]
    /\ MaxAttempts \in Nat
    /\ TypeOf \in [Actions -> ActionType]
    /\ StepOf \in [Actions -> 0 .. NumSteps]
    /\ \A a \in Actions : StepOf[a] = 0 => TypeOf[a] = "CONFIRMATION"

Steps == 1 .. NumSteps
CancelTasks == 1 .. NumCancelTasks

VARIABLES
    status,    \* Event.status
    step,      \* Step.completed_at and completed_by: open, closed
               \* automatically, or closed by a member
    act,       \* the Action rows
    expense,   \* per action, the Expense row it left, and the history of
               \* what mark_done recorded
    cancelled, \* EventCancelTask.completed_at is set
    tasks,     \* running draft tasks, <<action, attempt>>
    screen     \* per member, the action on the screen, and whether the
               \* request in flight still has to send the draft signal

vars == <<status, step, act, expense, cancelled, tasks, screen>>

----------------------------------------------------------------------------
(* Types *)

EventStatus == {"PLANNING", "ON_GOING", "COMPLETE", "CANCELLING", "CANCELLED"}
ActionStatus == {"ABSENT", "PENDING", "APPROVED", "DENIED", "DONE"}
ContentStatus == {"NONE", "DRAFTING", "READY", "FAILED"}

Approval == [by: Members \cup {Nobody}, content: Nat]

\* `content` numbers what a reader sees (text, title, amount, payload),
\* `priced` says that the amount is set and positive,
\* `source` is content_source ("NONE": no text), `draft` is content_status,
\* `attempt` is draft_attempt_id, `stale` says that DRAFT_TIMEOUT has passed
\* since draft_started_at, `resolver` is resolved_by.  `drafted` and
\* `approved` are history: the attempt that wrote the text, and who approved
\* what they saw.
Action == [status: ActionStatus, version: Nat, content: Nat, priced: BOOLEAN,
           source: {"NONE", "AI", "USER"}, draft: ContentStatus,
           attempt: Nat, stale: BOOLEAN, resolver: Members \cup {Nobody},
           drafted: Nat, approved: Approval]

NewAction(st) == [status |-> st, version |-> 1, content |-> 0,
                  priced |-> FALSE, source |-> "NONE", draft |-> "NONE", attempt |-> 0,
                  stale |-> FALSE, resolver |-> Nobody, drafted |-> 0,
                  approved |-> [by |-> Nobody, content |-> 0]]

\* `row` is the Expense row with this action_id as it stands; `times` and
\* `content` are history: how often one was recorded, and for what.
Expense == [row: {"NONE", "RECORDED", "EDITED"}, times: Nat, content: Nat]

NoExpense == [row |-> "NONE", times |-> 0, content |-> 0]

Screen == [action: Actions \cup {NoAction}, version: Nat, content: Nat,
           signal: BOOLEAN]

TypeOK ==
    /\ status \in EventStatus
    /\ step \in [Steps -> {"OPEN", "AUTO", "MANUAL"}]
    /\ act \in [Actions -> Action]
    /\ expense \in [Actions -> Expense]
    /\ cancelled \in [CancelTasks -> BOOLEAN]
    /\ tasks \subseteq Actions \X Nat
    /\ screen \in [Members -> Screen]

\* A planned event: the actions of the plan are PENDING; a confirmation
\* without a step does not exist yet.
Init ==
    /\ status = "PLANNING"
    /\ step = [s \in Steps |-> "OPEN"]
    /\ act = [a \in Actions |->
                 NewAction(IF StepOf[a] = 0 THEN "ABSENT" ELSE "PENDING")]
    /\ expense = [a \in Actions |-> NoExpense]
    /\ cancelled = [i \in CancelTasks |-> FALSE]
    /\ tasks = {}
    /\ screen = [m \in Members |-> [action |-> NoAction, version |-> 0,
                                    content |-> 0, signal |-> FALSE]]

----------------------------------------------------------------------------
(* event_rules *)

is_operating == status = "ON_GOING"
is_confirmation(a) == TypeOf[a] = "CONFIRMATION"

\* action_defaults: every type but the confirmation needs approval.
approve_needed(a) == TypeOf[a] \in {"EXTERNAL_SEND", "TRANSFER", "EXPENSE",
                                    "CONTRACT", "NOTICE"}

\* Fault: an action can be executed before it is approved.
DoneWithoutApproval(a) == act[a].status \in {"PENDING", "APPROVED"}

can_mark_done(a) ==
    \/ act[a].status = "APPROVED"
    \/ act[a].status = "PENDING" /\ ~approve_needed(a)

is_editable(a) == act[a].status \in {"PENDING", "APPROVED"}
unfinished(a) == act[a].status \in {"PENDING", "APPROVED"}

records_expense(a) == TypeOf[a] = "TRANSFER" /\ act[a].priced

drafts_content(a) == TypeOf[a] \in {"NOTICE", "EXTERNAL_SEND"}

\* Fault: an action that never had a draft can be redrafted.
RedraftFromNone(a) ==
    /\ act[a].draft = "DRAFTING" => act[a].stale
    /\ is_operating
    /\ act[a].status = "PENDING"
    /\ drafts_content(a)
    /\ act[a].source # "USER"

can_request_draft(a) ==
    /\ act[a].draft # "NONE"
    /\ act[a].draft = "DRAFTING" => act[a].stale
    /\ is_operating
    /\ act[a].status = "PENDING"
    /\ drafts_content(a)
    /\ act[a].source # "USER"

\* Fault: the stored status is shown as it is.
ShowStoredStatus(a) == act[a].draft

shown_content_status(a) ==
    IF act[a].draft = "DRAFTING" /\ act[a].stale THEN "FAILED"
    ELSE act[a].draft

\* step_states: the first open step is the current one.
is_current(s) == /\ step[s] = "OPEN"
                 /\ \A t \in Steps : t < s => step[t] # "OPEN"

\* Fault: a denied action counts as done.
StepDoneIfDecided(s, rows) ==
    /\ \E a \in Actions : StepOf[a] = s
    /\ \A a \in Actions : StepOf[a] = s => rows[a].status \in {"DONE", "DENIED"}

\* is_step_done, after the rows have become `rows`.
is_step_done(s, rows) ==
    /\ \E a \in Actions : StepOf[a] = s
    /\ \A a \in Actions : StepOf[a] = s => rows[a].status = "DONE"

\* _finish_step_if_done for the step of action a.
finish_step_if_done(a, rows) ==
    [s \in Steps |-> IF s = StepOf[a] /\ step[s] = "OPEN" /\ is_step_done(s, rows)
                     THEN "AUTO" ELSE step[s]]

----------------------------------------------------------------------------
(* What members do *)

\* The member's request still has to call request_current_step_drafts after
\* its commit.
Signalling(m) == screen' = [screen EXCEPT ![m].signal = TRUE]

\* A list or detail response puts an action on the member's screen.
View(m, a) ==
    /\ ~screen[m].signal
    /\ act[a].status # "ABSENT"
    /\ screen' = [screen EXCEPT ![m] = [action |-> a, version |-> act[a].version,
                                        content |-> act[a].content,
                                        signal |-> FALSE]]
    /\ UNCHANGED <<status, step, act, expense, cancelled, tasks>>

\* Fault: the version the request carries is not checked.
SubmitsUnchecked(m, a) == ~screen[m].signal /\ screen[m].action = a

\* The member sends a request about the action on the screen and its version
\* matches (_check_version).
Submits(m, a) ==
    /\ ~screen[m].signal
    /\ screen[m].action = a
    /\ screen[m].version = act[a].version

\* _set_resolution
Resolved(a, m, st) == [act[a] EXCEPT !.status = st, !.resolver = m,
                                     !.version = @ + 1]

approve(m, a) ==
    /\ is_operating
    /\ ~is_confirmation(a)
    /\ approve_needed(a)
    /\ act[a].status = "PENDING"
    /\ Submits(m, a)
    /\ act' = [act EXCEPT ![a] =
                   [Resolved(a, m, "APPROVED") EXCEPT
                       !.approved = [by |-> m, content |-> screen[m].content]]]
    /\ UNCHANGED <<status, step, expense, cancelled, tasks, screen>>

\* Fault: a status the table does not know.
DenyAsRejected(m, a) ==
    /\ is_operating
    /\ ~is_confirmation(a)
    /\ act[a].status = "PENDING"
    /\ Submits(m, a)
    /\ act' = [act EXCEPT ![a] = Resolved(a, m, "REJECTED")]
    /\ UNCHANGED <<status, step, expense, cancelled, tasks, screen>>

deny(m, a) ==
    /\ is_operating
    /\ ~is_confirmation(a)
    /\ act[a].status = "PENDING"
    /\ Submits(m, a)
    /\ act' = [act EXCEPT ![a] = Resolved(a, m, "DENIED")]
    /\ UNCHANGED <<status, step, expense, cancelled, tasks, screen>>

\* resolve: the answer to a confirmation request.
resolve(m, a) ==
    /\ is_operating
    /\ is_confirmation(a)
    /\ act[a].status = "PENDING"
    /\ Submits(m, a)
    /\ act' = [act EXCEPT ![a] = Resolved(a, m, "DONE")]
    /\ step' = finish_step_if_done(a, act')
    /\ Signalling(m)
    /\ UNCHANGED <<status, expense, cancelled, tasks>>

\* mark_done: the member executed the action.  The approver stays its
\* resolver; a transfer leaves an expense in the same commit, and the unique
\* expenses.action_id refuses a second one while that row exists.
mark_done(m, a) ==
    /\ is_operating
    /\ ~is_confirmation(a)
    /\ can_mark_done(a)
    /\ Submits(m, a)
    /\ records_expense(a) => expense[a].row = "NONE"
    /\ act' = [act EXCEPT ![a].status = "DONE", ![a].version = @ + 1,
                          ![a].resolver = IF @ = Nobody THEN m ELSE @]
    /\ expense' = IF records_expense(a)
                  THEN [expense EXCEPT ![a] = [row |-> "RECORDED",
                                               times |-> @.times + 1,
                                               content |-> act[a].content]]
                  ELSE expense
    /\ step' = finish_step_if_done(a, act')
    /\ Signalling(m)
    /\ UNCHANGED <<status, cancelled, tasks>>

\* complete_step closes a step by hand, with or without unfinished actions.
complete_step(m, s) ==
    /\ ~screen[m].signal
    /\ is_operating
    /\ step[s] = "OPEN"
    /\ step' = [step EXCEPT ![s] = "MANUAL"]
    /\ Signalling(m)
    /\ UNCHANGED <<status, act, expense, cancelled, tasks>>

\* What update_action can be asked to save: a new text, another field with
\* the amount positive afterwards or not, or the values as they are.
Edits == {"content", "priced", "unpriced", "same"}

\* The values of the row afterwards: a new text is the member's own, another
\* field leaves the text alone.
Edited(a, edit) ==
    CASE edit = "content" -> [act[a] EXCEPT !.content = @ + 1, !.source = "USER",
                                            !.draft = "READY"]
      [] edit = "priced"   -> [act[a] EXCEPT !.content = @ + 1, !.priced = TRUE]
      [] edit = "unpriced" -> [act[a] EXCEPT !.content = @ + 1, !.priced = FALSE]
      [] edit = "same"     -> act[a]

\* update_action: every save moves the version, and an approved action falls
\* back to PENDING whatever was saved.
update_action(m, a, edit) ==
    /\ status \notin {"CANCELLING", "CANCELLED"}
    /\ is_editable(a)
    /\ Submits(m, a)
    /\ act' = [act EXCEPT ![a] =
                   [Edited(a, edit) EXCEPT
                       !.version = @ + 1,
                       !.status = "PENDING",
                       !.resolver = IF act[a].status = "APPROVED" THEN Nobody
                                    ELSE @]]
    /\ UNCHANGED <<status, step, expense, cancelled, tasks, screen>>

\* update_expense and delete_expense: a member corrects or removes the row in
\* the ledger, whatever the event's status; the action is left alone.
update_expense(a) ==
    /\ expense[a].row # "NONE"
    /\ expense' = [expense EXCEPT ![a].row = "EDITED"]
    /\ UNCHANGED <<status, step, act, cancelled, tasks, screen>>

delete_expense(a) ==
    /\ expense[a].row # "NONE"
    /\ expense' = [expense EXCEPT ![a].row = "NONE"]
    /\ UNCHANGED <<status, step, act, cancelled, tasks, screen>>

----------------------------------------------------------------------------
(* The event's life cycle *)

\* start_event; that the event has a start date and a step is Planning's part.
start_event(m) ==
    /\ ~screen[m].signal
    /\ status = "PLANNING"
    /\ NumSteps > 0
    /\ status' = "ON_GOING"
    /\ Signalling(m)
    /\ UNCHANGED <<step, act, expense, cancelled, tasks>>

\* Fault: only the steps are counted.
CompleteOnSteps ==
    /\ is_operating
    /\ \A s \in Steps : step[s] # "OPEN"
    /\ status' = "COMPLETE"
    /\ UNCHANGED <<step, act, expense, cancelled, tasks, screen>>

complete_event ==
    /\ is_operating
    /\ \A s \in Steps : step[s] # "OPEN"
    /\ \A a \in Actions : ~unfinished(a)
    /\ status' = "COMPLETE"
    /\ UNCHANGED <<step, act, expense, cancelled, tasks, screen>>

begin_event_cancellation ==
    /\ is_operating
    /\ status' = "CANCELLING"
    /\ UNCHANGED <<step, act, expense, cancelled, tasks, screen>>

\* Fault: cancellation tasks are completed in any order.
CancelInAnyOrder(i) ==
    /\ status = "CANCELLING"
    /\ ~cancelled[i]
    /\ cancelled' = [cancelled EXCEPT ![i] = TRUE]
    /\ status' = IF \A j \in CancelTasks : cancelled'[j] THEN "CANCELLED"
                 ELSE status
    /\ UNCHANGED <<step, act, expense, tasks, screen>>

\* complete_cancel_task: only the first open task; completing one again
\* changes nothing.
complete_cancel_task(i) ==
    /\ status = "CANCELLING"
    /\ ~cancelled[i]
    /\ \A j \in CancelTasks : j < i => cancelled[j]
    /\ cancelled' = [cancelled EXCEPT ![i] = TRUE]
    /\ status' = IF \A j \in CancelTasks : cancelled'[j] THEN "CANCELLED"
                 ELSE status
    /\ UNCHANGED <<step, act, expense, tasks, screen>>

\* Fault: the event is not re-read after the model call.
OpenWithoutRecheck(a) ==
    /\ status # "PLANNING"
    /\ act[a].status = "ABSENT"
    /\ act' = [act EXCEPT ![a] = NewAction("PENDING")]
    /\ UNCHANGED <<status, step, expense, cancelled, tasks, screen>>

\* operation_cases.run stores an AI question as a confirmation of the event,
\* which it re-reads under the lock after the model call.
open_confirmation(a) ==
    /\ is_operating
    /\ act[a].status = "ABSENT"
    /\ act' = [act EXCEPT ![a] = NewAction("PENDING")]
    /\ UNCHANGED <<status, step, expense, cancelled, tasks, screen>>

----------------------------------------------------------------------------
(* AI drafts *)

\* _mark_drafting
mark_drafting(row) == [row EXCEPT !.draft = "DRAFTING", !.attempt = @ + 1,
                                  !.stale = FALSE]

\* The actions _mark_current_step selects.
awaits_draft(a) ==
    /\ StepOf[a] # 0
    /\ is_current(StepOf[a])
    /\ drafts_content(a)
    /\ act[a].status = "PENDING"
    /\ act[a].draft = "NONE"
    /\ act[a].source = "NONE"

\* request_current_step_drafts: marks in a transaction of its own, then starts
\* one task per action; a start that fails is only logged.
request_current_step_drafts(m) ==
    LET targets == {a \in Actions : is_operating /\ awaits_draft(a)} IN
    /\ screen[m].signal
    /\ \A a \in targets : act[a].attempt < MaxAttempts
    /\ act' = [a \in Actions |-> IF a \in targets THEN mark_drafting(act[a])
                                 ELSE act[a]]
    /\ \E started \in SUBSET targets :
          tasks' = tasks \cup {<<a, act[a].attempt + 1>> : a \in started}
    /\ screen' = [screen EXCEPT ![m].signal = FALSE]
    /\ UNCHANGED <<status, step, expense, cancelled>>

\* The marking fails, or the server dies before it: the caller's commit
\* stands and nothing is marked.
signal_lost(m) ==
    /\ screen[m].signal
    /\ screen' = [screen EXCEPT ![m].signal = FALSE]
    /\ UNCHANGED <<status, step, act, expense, cancelled, tasks>>

request_redraft(m, a) ==
    /\ can_request_draft(a)
    /\ Submits(m, a)
    /\ act[a].attempt < MaxAttempts
    /\ act' = [act EXCEPT ![a] =
                   [mark_drafting(act[a]) EXCEPT !.content = @ + 1,
                                                 !.source = "NONE",
                                                 !.version = @ + 1]]
    /\ \E started \in BOOLEAN :
          tasks' = IF started THEN tasks \cup {<<a, act[a].attempt + 1>>}
                   ELSE tasks
    /\ UNCHANGED <<status, step, expense, cancelled, screen>>

\* Fault: the writer of the text is not looked at.
WritableOverMember(a) == is_operating /\ act[a].status = "PENDING"

\* The conditions under which _finish stores what the model wrote.
writable(a) ==
    /\ is_operating
    /\ act[a].status = "PENDING"
    /\ act[a].source \in {"NONE", "AI"}

\* Fault: the attempt is not compared.
AnyAttempt(a, n) == TRUE

\* No newer attempt has started.
same_attempt(a, n) == act[a].attempt = n

\* _finish for attempt n of action a, with a result or an error.
finish_draft(a, n, ok) ==
    /\ <<a, n>> \in tasks
    /\ tasks' = tasks \ {<<a, n>>}
    /\ \/ /\ ~same_attempt(a, n)
          /\ UNCHANGED act
       \/ /\ same_attempt(a, n)
          /\ ~writable(a)
          /\ act' = IF act[a].draft = "DRAFTING"
                    THEN [act EXCEPT ![a].draft = "NONE"] ELSE act
       \/ /\ same_attempt(a, n)
          /\ writable(a)
          /\ act' = IF ok
                    THEN [act EXCEPT ![a].content = @ + 1, ![a].source = "AI",
                                     ![a].drafted = n, ![a].draft = "READY",
                                     ![a].version = @ + 1]
                    ELSE [act EXCEPT ![a].draft = "FAILED"]
    /\ UNCHANGED <<status, step, expense, cancelled, screen>>

\* The server dies with the task.
draft_lost(a, n) ==
    /\ <<a, n>> \in tasks
    /\ tasks' = tasks \ {<<a, n>>}
    /\ UNCHANGED <<status, step, act, expense, cancelled, screen>>

\* DRAFT_TIMEOUT passes; the task may still be running.
draft_ages(a) ==
    /\ act[a].draft = "DRAFTING"
    /\ ~act[a].stale
    /\ act' = [act EXCEPT ![a].stale = TRUE]
    /\ UNCHANGED <<status, step, expense, cancelled, tasks, screen>>

----------------------------------------------------------------------------
(* The specification *)

Attempts == 1 .. MaxAttempts

RoomForVersion(a) == act[a].version < MaxVersion[a]

MemberNext(m) ==
    \/ \E a \in Actions :
          \/ View(m, a)
          \/ /\ RoomForVersion(a)
             /\ \/ approve(m, a) \/ deny(m, a) \/ resolve(m, a)
                \/ mark_done(m, a) \/ request_redraft(m, a)
                \/ \E edit \in Edits : update_action(m, a, edit)
    \/ \E s \in Steps : complete_step(m, s)
    \/ start_event(m)
    \/ request_current_step_drafts(m)
    \/ signal_lost(m)

EventNext ==
    \/ complete_event
    \/ begin_event_cancellation
    \/ \E i \in CancelTasks : complete_cancel_task(i)
    \/ \E a \in Actions : \/ StepOf[a] = 0 /\ open_confirmation(a)
                          \/ update_expense(a)
                          \/ delete_expense(a)

DraftNext ==
    \E a \in Actions :
        \/ draft_ages(a)
        \/ \E n \in Attempts :
              \/ draft_lost(a, n)
              \/ \E ok \in BOOLEAN : RoomForVersion(a) /\ finish_draft(a, n, ok)

Next == (\E m \in Members : MemberNext(m)) \/ EventNext \/ DraftNext

Spec == Init /\ [][Next]_vars

\* The clock does not stop; nothing is assumed of members, tasks or the model.
FairSpec == Spec /\ \A a \in Actions : WF_vars(draft_ages(a))

----------------------------------------------------------------------------
(* Properties *)

\* What stands approved or executed is, word for word, what its approver had
\* on the screen, and the approver is on record, even if a draft arrives, a
\* redraft starts or another member edits meanwhile (action_service._check_version,
\* the version increments of action_draft_service and event_service).
ApprovedAsSeen ==
    \A a \in Actions :
        approve_needed(a) /\ act[a].status \in {"APPROVED", "DONE"} =>
            act[a].approved = [by |-> act[a].resolver, content |-> act[a].content]

\* A text a member wrote is never replaced by the model's, however late a
\* draft task ends (action_draft_service._finish, can_request_draft).
MemberTextIsKept ==
    [][\A a \in Actions : act[a].source = "USER" => act'[a].source = "USER"]_vars

\* The model's text on an action is that of the latest attempt: the result of
\* an attempt that timed out and was replaced is dropped.
LatestAttemptWins ==
    \A a \in Actions : act[a].source = "AI" => act[a].drafted = act[a].attempt

\* No draft is written ahead: an action is drafted only after every earlier
\* step has been closed (action_draft_service._mark_current_step, the NONE
\* case of can_request_draft).
DraftsFollowTheSteps ==
    \A a \in Actions :
        act[a].attempt > 0 => \A s \in Steps : s < StepOf[a] => step[s] # "OPEN"

\* A completed event left nothing behind, not even a confirmation an AI
\* question opened at the last moment (action_service.complete_event,
\* operation_cases.run).
CompleteEventIsSettled ==
    status = "COMPLETE" => /\ \A s \in Steps : step[s] # "OPEN"
                           /\ \A a \in Actions : ~unfinished(a)

\* What members decided about an action: all but the state of its draft.
Settled(row) == <<row.status, row.version, row.content, row.resolver>>

\* Once the event is over, or being cancelled, its actions and steps stay as
\* they are and nothing more is recorded for them; update_action does not ask
\* for ON_GOING and relies on a completed event having nothing left to edit.
ClosedEventIsReadOnly ==
    [][(status \in {"COMPLETE", "CANCELLING", "CANCELLED"}) =>
           /\ UNCHANGED step
           /\ \A a \in Actions : /\ Settled(act'[a]) = Settled(act[a])
                                 /\ expense'[a].times = expense[a].times]_vars

\* A transfer is recorded in the ledger exactly when it was executed, once,
\* with the amount that was approved, even if a member has removed the row,
\* and with it the unique action_id, since (action_service.mark_done,
\* accounting_service.add_action_expense).
LedgerMatchesApprovals ==
    \A a \in Actions :
        IF records_expense(a) /\ act[a].status = "DONE"
        THEN expense[a].times = 1 /\ expense[a].content = act[a].approved.content
        ELSE expense[a] = NoExpense

\* A step is closed as soon as its last action is done, and closed
\* automatically only then (action_service._finish_step_if_done).
StepClosesWithItsActions ==
    \A s \in Steps :
        LET mine == {a \in Actions : StepOf[a] = s}
            over == mine # {} /\ \A a \in mine : act[a].status = "DONE"
        IN (over => step[s] # "OPEN") /\ (step[s] = "AUTO" => over)

\* Cancellation work is done in order, and the event is cancelled exactly
\* when all of it is (event_service.complete_cancel_task).
CancellationInOrder ==
    /\ \A i, j \in CancelTasks : i < j /\ cancelled[j] => cancelled[i]
    /\ (status = "CANCELLED") <=> (\A i \in CancelTasks : cancelled[i])

\* However an event ends, it ends in order (complete_event,
\* complete_cancel_task, operation_cases.run): nothing is left open behind a
\* completed one, and a cancelled one has all its cancellation work done.
EventClosesInOrder == CompleteEventIsSettled /\ CancellationInOrder

\* No action is shown as being drafted forever, even if its task died
\* (event_rules.shown_content_status).
DraftingSettles ==
    \A a \in Actions : shown_content_status(a) = "DRAFTING"
                           ~> shown_content_status(a) # "DRAFTING"
=============================================================================
