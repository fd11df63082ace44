------------------------------ MODULE Reminder ------------------------------
(***************************************************************************)
(* Task suggestions, the tasks members confirm from them, and the one      *)
(* push reminder each confirmed task has.                                  *)
(*                                                                         *)
(*   task_service      update_suggestion, accept_suggestion                *)
(*   reminder_service  confirm_suggestion, update_confirmed_task,          *)
(*                     cancel_confirmed_task                               *)
(*   push_service      register/delete_subscription, test_push and the     *)
(*                     dispatcher: _claim_due, _dispatch_claimed, _deliver *)
(*                                                                         *)
(* An edit locks the task row, then the reminder row, and holds both until *)
(* it commits; the dispatcher locks the reminder row, skipping those an    *)
(* edit holds, and reads the task row without a lock.  Each lock step is   *)
(* an action of its own here.  A dispatcher may die at any point; its      *)
(* transaction is rolled back and what it sent stays sent.                 *)
(***************************************************************************)
EXTENDS Naturals, FiniteSets

CONSTANTS Items,        \* task suggestions, and the task confirmed from each
          Accounts,
          Endpoints,    \* browsers that may hold a push subscription
          Workers,      \* dispatcher processes (the deployment runs one)
          Callers,      \* API transactions that edit a confirmed task
          Nobody,
          Texts,        \* titles and descriptions
          Expiries,     \* expiration times browsers name (MaxTime + 1: none)
          MaxVersion,   \* bound on suggestion and task versions
          MaxRow,       \* bound on the ids of an endpoint's subscriptions
          MaxTime       \* bound on the clock

ASSUME ReminderAssumption ==
    /\ Nobody \notin Items \cup Workers \cup Callers \cup Accounts
    /\ Workers \cap Callers = {}
    /\ IsFiniteSet(Accounts)
    /\ Expiries \subseteq 0 .. MaxTime + 1
    /\ MaxVersion \in Nat /\ MaxRow \in Nat /\ MaxTime \in Nat

VARIABLES
    now,           \* the server's clock
    suggestion,    \* TaskSuggestion rows and whether their source is stale
    item,          \* ConfirmedTask rows
    reminder,      \* TaskReminder rows
    subscription,  \* PushSubscription rows, by endpoint
    members,       \* accounts of active OWNER/MANAGER members
    itemLock,      \* row locks on item: the edit that holds it
    reminderLock,  \* row locks on reminder: the dispatcher or edit that holds it
    worker,        \* the dispatchers
    pushed         \* history: pushes per device since the last scheduling

vars == <<now, suggestion, item, reminder, subscription, members,
          itemLock, reminderLock, worker, pushed>>

----------------------------------------------------------------------------
(* Types *)

Times == 0 .. MaxTime

\* What a member confirms.
Body == [text: Texts, at: Times, to: SUBSET Accounts]

Suggestion == [status: {"PROPOSED", "ACCEPTED"}, version: Nat, stale: BOOLEAN]

\* source_version and confirmation_hash only choose between two answers that
\* change nothing (see confirm_suggestion).
Item == [status: {"NONE", "ACTIVE", "CANCELLED"}, version: Nat,
         text: Texts \cup {Nobody}]

NoItem == [status |-> "NONE", version |-> 0, text |-> Nobody]

\* TaskReminder.version and attempted_at are written and never read.
ReminderRow ==
    [status: {"NONE", "PENDING", "SENDING", "SERVICE_ACCEPTED", "FAILED",
              "CANCELLED"},
     at: Times, to: SUBSET Accounts, uncertain: BOOLEAN,
     accepted: Nat, failed: Nat]

NoReminder == [status |-> "NONE", at |-> 0, to |-> {}, uncertain |-> FALSE,
               accepted |-> 0, failed |-> 0]

\* The row is there while it is `live`; a new row has a new id.  `expires` is
\* a time.
Subscription == [live: BOOLEAN, id: Nat, account: Accounts \cup {Nobody},
                 active: BOOLEAN, expires: 0 .. MaxTime + 1]

NoSubscription == [live |-> FALSE, id |-> 0, account |-> Nobody,
                   active |-> FALSE, expires |-> 0]

\* `targets` are the devices still to push, `ids` and `expired` what was read
\* with them, `target` the device whose result is being stored.
Worker == [pc: {"idle", "locked", "claimed", "sending", "sent"},
           item: Items \cup {Nobody}, text: Texts \cup {Nobody},
           to: SUBSET Accounts, targets: SUBSET Endpoints,
           expired: SUBSET Endpoints, ids: [Endpoints -> Nat], target: Endpoints \cup {Nobody},
           result: {"none", "accepted", "failed", "invalidated"},
           accepted: Nat, failed: Nat]

IdleWorker == [pc |-> "idle", item |-> Nobody, text |-> Nobody, to |-> {},
               targets |-> {}, expired |-> {}, ids |-> [e \in Endpoints |-> 0],
               target |-> Nobody, result |-> "none", accepted |-> 0,
               failed |-> 0]

TypeOK ==
    /\ now \in Times
    /\ suggestion \in [Items -> Suggestion]
    /\ item \in [Items -> Item]
    /\ reminder \in [Items -> ReminderRow]
    /\ subscription \in [Endpoints -> Subscription]
    /\ members \in SUBSET Accounts
    /\ itemLock \in [Items -> Callers \cup {Nobody}]
    /\ reminderLock \in [Items -> Workers \cup Callers \cup {Nobody}]
    /\ worker \in [Workers -> Worker]
    /\ pushed \in [Items -> [Endpoints -> Nat]]

NothingPushed == [e \in Endpoints |-> 0]

Init ==
    /\ now = 0
    /\ suggestion =
           [i \in Items |-> [status |-> "PROPOSED", version |-> 1,
                             stale |-> FALSE]]
    /\ item = [i \in Items |-> NoItem]
    /\ reminder = [i \in Items |-> NoReminder]
    /\ subscription = [e \in Endpoints |-> NoSubscription]
    /\ members = Accounts
    /\ itemLock = [i \in Items |-> Nobody]
    /\ reminderLock = [i \in Items |-> Nobody]
    /\ worker = [w \in Workers |-> IdleWorker]
    /\ pushed = [i \in Items |-> NothingPushed]

tables == <<suggestion, item, reminder, subscription, members>>
locks == <<itemLock, reminderLock>>

----------------------------------------------------------------------------
(* Suggestions *)

\* get_proposed: the row is locked, at the version the member saw, and still
\* PROPOSED.
get_proposed(i, expected) ==
    /\ suggestion[i].version = expected
    /\ suggestion[i].status = "PROPOSED"

update_suggestion(i, expected) ==
    /\ get_proposed(i, expected)
    /\ suggestion' = [suggestion EXCEPT ![i].version = @ + 1]
    /\ UNCHANGED <<now, item, reminder, subscription, members, locks,
                   worker, pushed>>

accept_suggestion(i, expected) ==
    /\ get_proposed(i, expected)
    /\ suggestion' = [suggestion EXCEPT ![i].status = "ACCEPTED",
                                        ![i].version = @ + 1]
    /\ UNCHANGED <<now, item, reminder, subscription, members, locks,
                   worker, pushed>>

\* A correction of the transcript makes the decision behind i STALE.
CorrectSource(i) ==
    /\ ~suggestion[i].stale
    /\ suggestion' = [suggestion EXCEPT ![i].stale = TRUE]
    /\ UNCHANGED <<now, item, reminder, subscription, members, locks,
                   worker, pushed>>

\* A recipient is an active OWNER or MANAGER, and the time is ahead.
validate_confirmation(body) ==
    /\ body.at > now
    /\ body.to \subseteq members

\* exact_item_time, unique_recipients: at least one recipient.
ConfirmedFields(body) == body.to # {}

\* Fault: a change keeps the schedule only, not the recipients.
ScheduledForNobody(body) ==
    [status |-> "PENDING", at |-> body.at, uncertain |-> FALSE,
     accepted |-> 0, failed |-> 0]

\* The reminder row as an explicit confirmation or change writes it.
Scheduled(body) ==
    [status |-> "PENDING", at |-> body.at, to |-> body.to,
     uncertain |-> FALSE, accepted |-> 0, failed |-> 0]

assert_current_source(i) == ~suggestion[i].stale

\* A repeated confirmation (same version, same hash) answers the task there
\* is; another one is an IdempotencyConflict.  Neither changes a row.
confirm_suggestion(i, expected, body) ==
    /\ item[i].status = "NONE"
    /\ suggestion[i].version = expected
    /\ assert_current_source(i)
    /\ ConfirmedFields(body) /\ validate_confirmation(body)
    /\ item' = [item EXCEPT ![i] =
           [status |-> "ACTIVE", version |-> 1, text |-> body.text]]
    /\ reminder' = [reminder EXCEPT ![i] = Scheduled(body)]
    /\ suggestion' =
           IF suggestion[i].status = "PROPOSED"
           THEN [suggestion EXCEPT ![i].status = "ACCEPTED",
                                   ![i].version = @ + 1]
           ELSE suggestion
    /\ pushed' = [pushed EXCEPT ![i] = NothingPushed]
    /\ UNCHANGED <<now, subscription, members, locks, worker>>

----------------------------------------------------------------------------
(* Changing and cancelling a confirmed task *)

\* editable_item, first half: lock the task row and compare its version.
LockItem(c, i, expected) ==
    /\ \A j \in Items : itemLock[j] # c
    /\ item[i].status # "NONE" /\ itemLock[i] = Nobody
    /\ item[i].version = expected
    /\ itemLock' = [itemLock EXCEPT ![i] = c]
    /\ UNCHANGED <<now, tables, reminderLock, worker, pushed>>

\* editable_item, second half: lock the reminder row and read it anew.
LockReminder(c, i) ==
    /\ itemLock[i] = c
    /\ reminderLock[i] = Nobody
    /\ reminderLock' = [reminderLock EXCEPT ![i] = c]
    /\ UNCHANGED <<now, tables, itemLock, worker, pushed>>

\* Fault: the change does not look at the reminder's status.
EditableWhileSending(c, i) ==
    itemLock[i] = c /\ reminderLock[i] = c

\* ... which must not be SENDING.
editable_item(c, i) ==
    /\ itemLock[i] = c /\ reminderLock[i] = c
    /\ reminder[i].status # "SENDING"

\* The end of an edit's transaction.
ReleaseRows(c, i) ==
    /\ itemLock' = [itemLock EXCEPT ![i] = Nobody]
    /\ reminderLock' = [reminderLock EXCEPT ![i] = IF @ = c THEN Nobody ELSE @]

update_confirmed_task(c, i, body) ==
    /\ editable_item(c, i)
    /\ item[i].status = "ACTIVE"
    /\ ConfirmedFields(body) /\ validate_confirmation(body)
    /\ item' = [item EXCEPT ![i].text = body.text, ![i].version = @ + 1]
    /\ reminder' = [reminder EXCEPT ![i] = Scheduled(body)]
    /\ pushed' = [pushed EXCEPT ![i] = NothingPushed]
    /\ ReleaseRows(c, i)
    /\ UNCHANGED <<now, suggestion, subscription, members, worker>>

cancel_confirmed_task(c, i) ==
    /\ editable_item(c, i)
    /\ item[i].status = "ACTIVE"
    /\ item' = [item EXCEPT ![i].status = "CANCELLED", ![i].version = @ + 1]
    /\ reminder' = IF reminder[i].status = "PENDING"
                   THEN [reminder EXCEPT ![i].status = "CANCELLED"]
                   ELSE reminder
    /\ ReleaseRows(c, i)
    /\ UNCHANGED <<now, suggestion, subscription, members, worker, pushed>>

\* ReminderDispatchInProgress, ConfirmedTaskCancelled, ValidationFailed, a
\* second cancellation, or a request that dies: the transaction ends with
\* nothing written.
EndUnchanged(c, i) ==
    /\ itemLock[i] = c
    /\ ReleaseRows(c, i)
    /\ UNCHANGED <<now, tables, worker, pushed>>

----------------------------------------------------------------------------
(* Subscriptions *)

\* An endpoint belongs to one account (unique endpoint_hash).  The account
\* that holds it renews it in place.
register_subscription(a, e, expires) ==
    LET row == subscription[e] IN
    /\ row.live => row.account = a
    /\ row.live \/ row.id < MaxRow
    /\ subscription' = [subscription EXCEPT ![e] =
           [live |-> TRUE, id |-> IF row.live THEN row.id ELSE row.id + 1,
            account |-> a, active |-> TRUE, expires |-> expires]]
    /\ UNCHANGED <<now, suggestion, item, reminder, members, locks,
                   worker, pushed>>

delete_subscription(a, e) ==
    /\ subscription[e].live /\ subscription[e].account = a
    /\ subscription' = [subscription EXCEPT ![e] =
           [NoSubscription EXCEPT !.id = subscription[e].id]]
    /\ UNCHANGED <<now, suggestion, item, reminder, members, locks,
                   worker, pushed>>

\* The push service (external): a push is accepted, fails, or the endpoint is
\* gone (HTTP 404 or 410).
WebPushTransport_send == {"accepted", "failed", "invalidated"}

\* Only the row read with the target is updated.
stored(e, id, result) ==
    IF subscription[e].live /\ subscription[e].id = id
           /\ result = "invalidated"
    THEN [subscription EXCEPT ![e].active = FALSE]
    ELSE subscription

\* The member's own device; an expired one counts as gone.
test_push(a, e) ==
    /\ subscription[e].live /\ subscription[e].account = a
    /\ subscription[e].active
    /\ \E result \in IF subscription[e].expires <= now
                     THEN {"invalidated"} ELSE WebPushTransport_send :
           subscription' = stored(e, subscription[e].id, result)
    /\ UNCHANGED <<now, suggestion, item, reminder, members, locks,
                   worker, pushed>>

----------------------------------------------------------------------------
(* The dispatcher *)

\* Fault: only reminders of this very minute.
DueOnTheDot(i) == reminder[i].status = "PENDING" /\ reminder[i].at = now

\* Fault: a reminder left SENDING by a dead server is taken up again.
DueOrSending(i) ==
    reminder[i].status \in {"PENDING", "SENDING"} /\ reminder[i].at <= now

Due(i) == reminder[i].status = "PENDING" /\ reminder[i].at <= now

\* The SELECT of _claim_due: the earliest due reminder nobody has locked
\* (SKIP LOCKED: one that an edit holds is left to a later poll).
LockDue(w, i) ==
    /\ worker[w].pc = "idle"
    /\ Due(i) /\ reminderLock[i] = Nobody
    /\ \A j \in Items :
           Due(j) /\ reminderLock[j] = Nobody
               => reminder[i].at <= reminder[j].at
    /\ reminderLock' = [reminderLock EXCEPT ![i] = w]
    /\ worker' = [worker EXCEPT ![w].pc = "locked", ![w].item = i]
    /\ UNCHANGED <<now, tables, itemLock, pushed>>

\* The rest of _claim_due: with the reminder locked, read the task.
claim_due(w) ==
    LET i == worker[w].item IN
    /\ worker[w].pc = "locked"
    /\ reminderLock' = [reminderLock EXCEPT ![i] = Nobody]
    /\ \/ /\ item[i].status = "ACTIVE"
          /\ reminder' = [reminder EXCEPT ![i].status = "SENDING"]
          /\ worker' = [worker EXCEPT ![w].pc = "claimed",
                                      ![w].text = item[i].text,
                                      ![w].to = reminder[i].to]
       \/ /\ item[i].status # "ACTIVE"
          /\ reminder' = [reminder EXCEPT ![i].status = "CANCELLED"]
          /\ worker' = [worker EXCEPT ![w] = IdleWorker]
    /\ UNCHANGED <<now, suggestion, item, subscription, members, itemLock, pushed>>

\* The first transaction of _dispatch_claimed: recipients who are still
\* active members, their active devices, and how many have none.
dispatch_claimed(w) ==
    LET accounts == worker[w].to \cap members
        devices == {e \in Endpoints : /\ subscription[e].active
                                      /\ subscription[e].account \in accounts}
        reached == {subscription[e].account : e \in devices}
    IN
    /\ worker[w].pc = "claimed"
    /\ worker' = [worker EXCEPT
           ![w].pc = "sending", ![w].targets = devices,
           ![w].expired = {e \in devices : subscription[e].expires <= now},
           ![w].ids = [e \in Endpoints |->
                          IF e \in devices THEN subscription[e].id ELSE 0],
           ![w].failed = Cardinality(worker[w].to \ reached)]
    /\ UNCHANGED <<now, tables, locks, pushed>>

\* deliver: one device, with no transaction open.
send(w, e) ==
    /\ worker[w].pc = "sending" /\ e \in worker[w].targets
    /\ \E result \in IF e \in worker[w].expired
                     THEN {"invalidated"} ELSE WebPushTransport_send :
           worker' = [worker EXCEPT
               ![w].pc = "sent", ![w].targets = @ \ {e}, ![w].target = e,
               ![w].result = result,
               ![w].accepted = IF result = "accepted" THEN @ + 1 ELSE @,
               ![w].failed = IF result = "accepted" THEN @ ELSE @ + 1]
    /\ pushed' = IF e \in worker[w].expired THEN pushed
                 ELSE [pushed EXCEPT ![worker[w].item][e] = @ + 1]
    /\ UNCHANGED <<now, tables, locks>>

\* deliver: store the device's result in a transaction of its own.
record(w) ==
    LET e == worker[w].target IN
    /\ worker[w].pc = "sent"
    /\ subscription' = stored(e, worker[w].ids[e], worker[w].result)
    /\ worker' = [worker EXCEPT ![w].pc = "sending", ![w].target = Nobody,
                                ![w].result = "none"]
    /\ UNCHANGED <<now, suggestion, item, reminder, members, locks,
                   pushed>>

\* The last transaction of _dispatch_claimed; its UPDATE waits for an edit that
\* holds the row.
settle(w) ==
    LET i == worker[w].item IN
    /\ worker[w].pc = "sending" /\ worker[w].targets = {}
    /\ reminderLock[i] = Nobody
    /\ reminder' = IF reminder[i].status = "SENDING"
                   THEN [reminder EXCEPT
                       ![i].status = IF worker[w].accepted > 0
                                     THEN "SERVICE_ACCEPTED" ELSE "FAILED",
                       ![i].accepted = worker[w].accepted,
                       ![i].failed = worker[w].failed]
                   ELSE reminder
    /\ worker' = [worker EXCEPT ![w] = IdleWorker]
    /\ UNCHANGED <<now, suggestion, item, subscription, members, locks,
                   pushed>>

\* dispatch_due_reminders: an exception leaves the reminder SENDING, with
\* PUSH_DISPATCH_RESULT_UNCERTAIN as its last error.
Uncertain(w) ==
    LET i == worker[w].item IN
    /\ worker[w].pc \in {"claimed", "sending", "sent"}
    /\ reminderLock[i] = Nobody
    /\ reminder' = IF reminder[i].status = "SENDING"
                   THEN [reminder EXCEPT ![i].uncertain = TRUE]
                   ELSE reminder
    /\ worker' = [worker EXCEPT ![w] = IdleWorker]
    /\ UNCHANGED <<now, suggestion, item, subscription, members, locks,
                   pushed>>

\* The server dies and starts again: the open transaction is rolled back and
\* its lock is gone.
Restart(w) ==
    /\ worker[w].pc # "idle"
    /\ reminderLock' = [i \in Items |-> IF reminderLock[i] = w
                                        THEN Nobody ELSE reminderLock[i]]
    /\ worker' = [worker EXCEPT ![w] = IdleWorker]
    /\ UNCHANGED <<now, tables, itemLock, pushed>>

----------------------------------------------------------------------------
Tick ==
    /\ now < MaxTime
    /\ now' = now + 1
    /\ UNCHANGED <<tables, locks, worker, pushed>>

\* The members of the club are rows of another part: dispatch_reminder asks for
\* the membership again when it sends, so it may have changed since the claim.
MembersChange(accounts) ==
    /\ members' = accounts
    /\ UNCHANGED <<now, suggestion, item, reminder, subscription, locks,
                   worker, pushed>>

Versions == 1 .. MaxVersion - 1

TaskRequest ==
    \E i \in Items, v \in Versions :
        \/ update_suggestion(i, v)
        \/ accept_suggestion(i, v)
        \/ \E b \in Body : confirm_suggestion(i, v, b)

EditRequest ==
    \E c \in Callers, i \in Items, v \in Versions : LockItem(c, i, v)

PushRequest ==
    \E a \in Accounts, e \in Endpoints :
        \/ \E t \in Expiries : register_subscription(a, e, t)
        \/ delete_subscription(a, e)
        \/ test_push(a, e)

ServerStep(c) ==
    \E i \in Items :
        \/ LockReminder(c, i)
        \/ \E b \in Body : update_confirmed_task(c, i, b)
        \/ cancel_confirmed_task(c, i)
        \/ EndUnchanged(c, i)

WorkerStep(w) ==
    \/ \E i \in Items : LockDue(w, i)
    \/ claim_due(w)
    \/ dispatch_claimed(w)
    \/ \E e \in Endpoints : send(w, e)
    \/ record(w)
    \/ settle(w)

Next ==
    \/ TaskRequest
    \/ EditRequest
    \/ PushRequest
    \/ \E c \in Callers : ServerStep(c)
    \/ \E w \in Workers : WorkerStep(w) \/ Uncertain(w) \/ Restart(w)
    \/ \E i \in Items : CorrectSource(i)
    \/ \E accounts \in SUBSET Accounts : MembersChange(accounts)
    \/ Tick

Spec == Init /\ [][Next]_vars

\* The server runs the requests it has accepted and polls for due reminders,
\* and does not die every time in the middle of a claim.
FairSpec ==
    /\ Spec
    /\ \A c \in Callers : WF_vars(ServerStep(c))
    /\ \A w \in Workers : WF_vars(WorkerStep(w)) /\ SF_vars(claim_due(w))

----------------------------------------------------------------------------
(* Properties *)

\* What is being sent is what members last confirmed: while a dispatcher is
\* sending the reminder of a task, the task is not cancelled, its text and
\* recipients are the ones claimed, and nobody else is sending it.  The
\* dispatcher reads the task without a lock (push_service._claim_due), so
\* this rests on the order of the two locks and on the refusal of changes
\* while SENDING (reminder_service._editable_item).
SentAsConfirmed ==
    \A w \in Workers :
        LET i == worker[w].item IN
        worker[w].pc \in {"claimed", "sending", "sent"} =>
            /\ reminder[i].status = "SENDING"
            /\ item[i].status = "ACTIVE"
            /\ worker[w].text = item[i].text
            /\ worker[w].to = reminder[i].to
            /\ \A v \in Workers \ {w} :
                   worker[v].pc \in {"claimed", "sending", "sent"}
                       => worker[v].item # i

\* The reminder as Delivery sees it.
PhaseOf(status) ==
    CASE status = "NONE" -> "none"
      [] status = "PENDING" -> "scheduled"
      [] status = "SENDING" -> "attempted"
      [] status \in {"SERVICE_ACCEPTED", "FAILED"} -> "settled"
      [] status = "CANCELLED" -> "cancelled"

phases == [i \in Items |-> PhaseOf(reminder[i].status)]

OneShot == INSTANCE Delivery WITH phase <- phases, pushes <- pushed

\* A reminder is attempted at most once per scheduling and a device pushed at
\* most once in it, over exceptions, crashes and restarts of the dispatcher
\* and changes by members (push_service's "자동 재발송하지 않는다").
AtMostOnce == OneShot!Spec

\* A poll that finds a due reminder's row held by an edit skips it (FOR UPDATE
\* SKIP LOCKED), and edits may come one after another; once they leave the
\* rows alone, a due reminder is attempted, changed or cancelled, however
\* often its row was skipped and whatever became of the dispatcher.
DueIsAttempted ==
    (\A j \in Items : <>[](reminderLock[j] \notin Callers))
        => \A i \in Items :
               reminder[i].status = "PENDING" /\ reminder[i].at <= now
                   ~> ~(reminder[i].status = "PENDING" /\ reminder[i].at <= now)
=============================================================================
