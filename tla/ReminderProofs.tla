--------------------------- MODULE ReminderProofs ---------------------------
(***************************************************************************)
(* Proofs about Reminder: the rows keep their types, what a dispatcher     *)
(* sends is what members last confirmed, and the tables implement the      *)
(* at-most-once specification Delivery, for any number of tasks, devices,  *)
(* dispatchers and edits.                                                  *)
(***************************************************************************)
EXTENDS Reminder, FiniteSetTheorems, TLAPS

Busy == {"claimed", "sending", "sent"}

\* A dispatcher that is not idle works on a task.
Engaged ==
    \A w \in Workers : worker[w].pc # "idle" => worker[w].item \in Items

\* A reminder row is locked by the dispatcher that is reading its task, and
\* by no other; nobody changes it until the lock is gone.
LockIsOwned ==
    \A w \in Workers, i \in Items :
        reminderLock[i] = w <=> worker[w].pc = "locked" /\ worker[w].item = i

LockedIsPending ==
    \A w \in Workers :
        worker[w].pc = "locked" => reminder[worker[w].item].status = "PENDING"

\* A task that is not there has no reminder, and the reminder of a task that
\* stands is not cancelled.
RowsTogether ==
    \A i \in Items :
        /\ item[i].status = "NONE" => reminder[i].status = "NONE"
        /\ item[i].status = "ACTIVE" => reminder[i].status # "CANCELLED"

\* Whoever is still to be pushed has not been pushed since the scheduling.
PushesLeft ==
    /\ \A i \in Items :
           reminder[i].status = "PENDING" => \A e \in Endpoints : pushed[i][e] = 0
    /\ \A w \in Workers :
           worker[w].pc = "claimed"
               => \A e \in Endpoints : pushed[worker[w].item][e] = 0
    /\ \A w \in Workers :
           worker[w].pc \in {"sending", "sent"}
               => \A e \in worker[w].targets : pushed[worker[w].item][e] = 0

Guarded ==
    /\ LockIsOwned
    /\ LockedIsPending
    /\ RowsTogether
    /\ PushesLeft
    /\ SentAsConfirmed

IInv == TypeOK /\ Engaged /\ Guarded

----------------------------------------------------------------------------
(* Types *)

LEMMA InitialTypes == Init => TypeOK /\ Engaged
  BY ReminderAssumption
     DEF Init, TypeOK, Engaged, Times, Suggestion, Item, NoItem, ReminderRow,
         NoReminder, Subscription, NoSubscription, Worker, IdleWorker, NothingPushed

\* What the actions write into a row is a row.
LEMMA SuggestionRows ==
    ASSUME NEW r \in Suggestion
    PROVE  /\ [r EXCEPT !.version = @ + 1] \in Suggestion
           /\ [r EXCEPT !.status = "ACCEPTED", !.version = @ + 1] \in Suggestion
           /\ [r EXCEPT !.stale = TRUE] \in Suggestion
<1>1. r.version + 1 \in Nat
  BY DEF Suggestion
<1> QED
  BY <1>1 DEF Suggestion

LEMMA ItemRows ==
    ASSUME NEW r \in Item, NEW b \in Body
    PROVE  /\ [status |-> "ACTIVE", version |-> 1, text |-> b.text] \in Item
           /\ [r EXCEPT !.text = b.text, !.version = @ + 1] \in Item
<1>1. r.version + 1 \in Nat
  BY DEF Item
<1> QED
  BY <1>1 DEF Item, Body

LEMMA CancelledItem ==
    ASSUME NEW r \in Item
    PROVE  [r EXCEPT !.status = "CANCELLED", !.version = @ + 1] \in Item
<1>1. r.version + 1 \in Nat
  BY DEF Item
<1> QED
  BY <1>1 DEF Item

LEMMA ReminderRows ==
    ASSUME NEW r \in ReminderRow
    PROVE  /\ \A s \in {"SENDING", "CANCELLED"} : [r EXCEPT !.status = s] \in ReminderRow
           /\ [r EXCEPT !.uncertain = TRUE] \in ReminderRow
           /\ \A s \in {"SERVICE_ACCEPTED", "FAILED"}, m, n \in Nat :
                  [r EXCEPT !.status = s, !.accepted = m, !.failed = n] \in ReminderRow
           /\ \A b \in Body : Scheduled(b) \in ReminderRow
  BY DEF ReminderRow, Scheduled, Body, Times

LEMMA SubscriptionRows ==
    ASSUME NEW r \in Subscription
    PROVE  /\ [r EXCEPT !.active = FALSE] \in Subscription
           /\ [NoSubscription EXCEPT !.id = r.id] \in Subscription
           /\ \A a \in Accounts, t \in Expiries :
                  [live |-> TRUE, id |-> IF r.live THEN r.id ELSE r.id + 1,
                   account |-> a, active |-> TRUE, expires |-> t] \in Subscription
<1>1. /\ r.id \in Nat /\ r.id + 1 \in Nat
      /\ (IF r.live THEN r.id ELSE r.id + 1) \in Nat
  BY DEF Subscription
<1>2. [r EXCEPT !.active = FALSE] \in Subscription
  BY DEF Subscription
<1>3. [NoSubscription EXCEPT !.id = r.id] \in Subscription
  <2>1. NoSubscription \in Subscription
    BY ReminderAssumption DEF NoSubscription, Subscription
  <2> QED
    BY <1>1, <2>1 DEF Subscription
<1>4. ASSUME NEW a \in Accounts, NEW t \in Expiries
      PROVE  [live |-> TRUE, id |-> IF r.live THEN r.id ELSE r.id + 1,
              account |-> a, active |-> TRUE, expires |-> t] \in Subscription
  <2>1. t \in 0 .. MaxTime + 1
    BY ReminderAssumption
  <2> QED
    BY <1>1, <2>1 DEF Subscription
<1> QED
  BY <1>2, <1>3, <1>4

LEMMA WorkerRows ==
    ASSUME NEW r \in Worker
    PROVE  /\ IdleWorker \in Worker
           /\ \A i \in Items : [r EXCEPT !.pc = "locked", !.item = i] \in Worker
           /\ \A t \in Texts \cup {Nobody}, to \in SUBSET Accounts :
                  [r EXCEPT !.pc = "claimed", !.text = t, !.to = to] \in Worker
           /\ [r EXCEPT !.pc = "sending", !.target = Nobody, !.result = "none"] \in Worker
<1>1. IdleWorker \in Worker
  BY DEF IdleWorker, Worker
<1>2. \A i \in Items : [r EXCEPT !.pc = "locked", !.item = i] \in Worker
  BY DEF Worker
<1>3. \A t \in Texts \cup {Nobody}, to \in SUBSET Accounts :
          [r EXCEPT !.pc = "claimed", !.text = t, !.to = to] \in Worker
  BY DEF Worker
<1>4. [r EXCEPT !.pc = "sending", !.target = Nobody, !.result = "none"] \in Worker
  BY DEF Worker
<1> QED
  BY <1>1, <1>2, <1>3, <1>4

LEMMA TargetRows ==
    ASSUME NEW r \in Worker, NEW devices \in SUBSET Endpoints,
           NEW expired \in SUBSET Endpoints, NEW ids \in [Endpoints -> Nat],
           NEW n \in Nat
    PROVE  [r EXCEPT !.pc = "sending", !.targets = devices, !.expired = expired,
                     !.ids = ids, !.failed = n] \in Worker
  BY DEF Worker

LEMMA SentRows ==
    ASSUME NEW r \in Worker, NEW e \in Endpoints,
           NEW result \in {"accepted", "failed", "invalidated"}
    PROVE  [r EXCEPT !.pc = "sent", !.targets = @ \ {e}, !.target = e,
                     !.result = result,
                     !.accepted = IF result = "accepted" THEN @ + 1 ELSE @,
                     !.failed = IF result = "accepted" THEN @ ELSE @ + 1] \in Worker
<1>1. /\ (IF result = "accepted" THEN r.accepted + 1 ELSE r.accepted) \in Nat
      /\ (IF result = "accepted" THEN r.failed ELSE r.failed + 1) \in Nat
      /\ r.targets \ {e} \in SUBSET Endpoints
  BY DEF Worker
<1> QED
  BY <1>1 DEF Worker

----------------------------------------------------------------------------
(* Every step keeps the types. *)

\* Members' requests keep the types.
LEMMA RequestTypes ==
    ASSUME TypeOK, Engaged, TaskRequest \/ EditRequest
    PROVE  TypeOK' /\ Engaged'
<1>1. ASSUME NEW i \in Items, NEW v \in Versions, update_suggestion(i, v)
      PROVE  TypeOK' /\ Engaged'
  <2>1. suggestion' \in [Items -> Suggestion]
    BY <1>1, SuggestionRows DEF TypeOK, update_suggestion
  <2> QED
    BY <1>1, <2>1 DEF TypeOK, Engaged, update_suggestion, locks
<1>2. ASSUME NEW i \in Items, NEW v \in Versions, accept_suggestion(i, v)
      PROVE  TypeOK' /\ Engaged'
  <2>1. suggestion' \in [Items -> Suggestion]
    BY <1>2, SuggestionRows DEF TypeOK, accept_suggestion
  <2> QED
    BY <1>2, <2>1 DEF TypeOK, Engaged, accept_suggestion, locks
<1>3. ASSUME NEW i \in Items, NEW v \in Versions, NEW b \in Body,
             confirm_suggestion(i, v, b)
      PROVE  TypeOK' /\ Engaged'
  <2>1. reminder' \in [Items -> ReminderRow]
    BY <1>3, ReminderRows DEF TypeOK, confirm_suggestion
  <2>2. item' \in [Items -> Item]
    BY <1>3, ItemRows DEF TypeOK, confirm_suggestion
  <2>3. suggestion' \in [Items -> Suggestion]
    BY <1>3, SuggestionRows DEF TypeOK, confirm_suggestion
  <2>4. pushed' \in [Items -> [Endpoints -> Nat]]
    BY <1>3 DEF TypeOK, confirm_suggestion, NothingPushed
  <2> QED
    BY <1>3, <2>1, <2>2, <2>3, <2>4 DEF TypeOK, Engaged, confirm_suggestion, locks
<1>4. ASSUME NEW c \in Callers, NEW i \in Items, NEW v \in Versions, LockItem(c, i, v)
      PROVE  TypeOK' /\ Engaged'
  BY <1>4 DEF TypeOK, Engaged, LockItem, tables
<1> QED
  BY <1>1, <1>2, <1>3, <1>4 DEF TaskRequest, EditRequest

LEMMA StoredType ==
    ASSUME TypeOK, NEW e \in Endpoints, NEW id, NEW result
    PROVE  stored(e, id, result) \in [Endpoints -> Subscription]
  BY SubscriptionRows DEF TypeOK, stored

LEMMA SubscriptionTypes ==
    ASSUME TypeOK, Engaged, PushRequest
    PROVE  TypeOK' /\ Engaged'
<1>1. ASSUME NEW a \in Accounts, NEW e \in Endpoints, NEW t \in Expiries,
             register_subscription(a, e, t)
      PROVE  TypeOK' /\ Engaged'
  <2>1. subscription' \in [Endpoints -> Subscription]
    BY <1>1, SubscriptionRows DEF TypeOK, register_subscription
  <2> QED
    BY <1>1, <2>1 DEF TypeOK, Engaged, register_subscription, locks
<1>2. ASSUME NEW a \in Accounts, NEW e \in Endpoints, delete_subscription(a, e)
      PROVE  TypeOK' /\ Engaged'
  <2>1. subscription' \in [Endpoints -> Subscription]
    BY <1>2, SubscriptionRows DEF TypeOK, delete_subscription
  <2> QED
    BY <1>2, <2>1 DEF TypeOK, Engaged, delete_subscription, locks
<1>3. ASSUME NEW a \in Accounts, NEW e \in Endpoints, test_push(a, e)
      PROVE  TypeOK' /\ Engaged'
  BY <1>3, StoredType DEF TypeOK, Engaged, test_push, locks
<1> QED
  BY <1>1, <1>2, <1>3 DEF PushRequest

LEMMA ReleaseTypes ==
    ASSUME TypeOK, NEW c \in Callers, NEW i \in Items, ReleaseRows(c, i)
    PROVE  /\ itemLock' \in [Items -> Callers \cup {Nobody}]
           /\ reminderLock' \in [Items -> Workers \cup Callers \cup {Nobody}]
  BY DEF TypeOK, ReleaseRows

LEMMA EditTypes ==
    ASSUME TypeOK, Engaged, NEW c \in Callers, ServerStep(c)
    PROVE  TypeOK' /\ Engaged'
<1>1. ASSUME NEW i \in Items, NEW b \in Body, update_confirmed_task(c, i, b)
      PROVE  TypeOK' /\ Engaged'
  <2>1. reminder' \in [Items -> ReminderRow]
    BY <1>1, ReminderRows DEF TypeOK, update_confirmed_task
  <2>2. item' \in [Items -> Item]
    BY <1>1, ItemRows DEF TypeOK, update_confirmed_task
  <2>3. pushed' \in [Items -> [Endpoints -> Nat]]
    BY <1>1 DEF TypeOK, update_confirmed_task, NothingPushed
  <2> QED
    BY <1>1, <2>1, <2>2, <2>3, ReleaseTypes DEF TypeOK, Engaged, update_confirmed_task
<1>2. ASSUME NEW i \in Items, cancel_confirmed_task(c, i)
      PROVE  TypeOK' /\ Engaged'
  <2>1. reminder' \in [Items -> ReminderRow]
    BY <1>2, ReminderRows DEF TypeOK, cancel_confirmed_task
  <2>2. item' \in [Items -> Item]
    BY <1>2, CancelledItem DEF TypeOK, cancel_confirmed_task
  <2> QED
    BY <1>2, <2>1, <2>2, ReleaseTypes DEF TypeOK, Engaged, cancel_confirmed_task
<1>3. ASSUME NEW i \in Items, EndUnchanged(c, i)
      PROVE  TypeOK' /\ Engaged'
  BY <1>3, ReleaseTypes DEF TypeOK, Engaged, EndUnchanged, tables
<1>4. ASSUME NEW i \in Items, LockReminder(c, i)
      PROVE  TypeOK' /\ Engaged'
  BY <1>4 DEF TypeOK, Engaged, LockReminder, tables
<1> QED
  BY <1>1, <1>2, <1>3, <1>4 DEF ServerStep

LEMMA ClaimTypes ==
    ASSUME TypeOK, Engaged, NEW w \in Workers,
           claim_due(w) \/ \E i \in Items : LockDue(w, i)
    PROVE  TypeOK' /\ Engaged'
<1>1. ASSUME NEW i \in Items, LockDue(w, i)
      PROVE  TypeOK' /\ Engaged'
  <2>1. worker' \in [Workers -> Worker]
    BY <1>1, WorkerRows DEF TypeOK, LockDue
  <2>2. \A v \in Workers \ {w} : worker'[v] = worker[v]
    BY <1>1 DEF TypeOK, LockDue
  <2>3. worker'[w].item = i
    BY <1>1 DEF TypeOK, LockDue, Worker
  <2> QED
    BY <1>1, <2>1, <2>2, <2>3 DEF TypeOK, Engaged, LockDue, tables
<1>2. ASSUME claim_due(w)
      PROVE  TypeOK' /\ Engaged'
  <2> DEFINE i == worker[w].item
  <2>1. i \in Items
    BY <1>2 DEF claim_due, Engaged
  <2>2. reminder' \in [Items -> ReminderRow]
    <3>1. /\ [reminder[i] EXCEPT !.status = "SENDING"] \in ReminderRow
          /\ [reminder[i] EXCEPT !.status = "CANCELLED"] \in ReminderRow
      BY <2>1, ReminderRows DEF TypeOK
    <3> QED
      BY <1>2, <2>1, <3>1 DEF TypeOK, claim_due
  <2>3. worker' \in [Workers -> Worker]
    <3>1. item[i].text \in Texts \cup {Nobody} /\ reminder[i].to \in SUBSET Accounts
      BY <2>1 DEF TypeOK, Item, ReminderRow
    <3>2. /\ IdleWorker \in Worker
          /\ [worker[w] EXCEPT !.pc = "claimed", !.text = item[i].text,
                               !.to = reminder[i].to] \in Worker
      BY <3>1, WorkerRows DEF TypeOK
    <3> QED
      BY <1>2, <3>1, <3>2 DEF TypeOK, claim_due
  <2>4. Engaged'
    <3>1. \A v \in Workers \ {w} : worker'[v] = worker[v]
      BY <1>2 DEF TypeOK, claim_due
    <3>2. worker'[w].pc # "idle" => worker'[w].item = i
      BY <1>2 DEF TypeOK, claim_due, Worker, IdleWorker
    <3> QED
      BY <2>1, <3>1, <3>2 DEF Engaged
  <2> QED
    BY <1>2, <2>1, <2>2, <2>3, <2>4 DEF TypeOK, claim_due
<1> QED
  BY <1>1, <1>2

LEMMA DeliveryTypes ==
    ASSUME TypeOK, Engaged, NEW w \in Workers,
           dispatch_claimed(w) \/ record(w) \/ \E e \in Endpoints : send(w, e)
    PROVE  TypeOK' /\ Engaged'
<1>1. ASSUME dispatch_claimed(w)
      PROVE  TypeOK' /\ Engaged'
  <2> DEFINE accounts == worker[w].to \cap members
             devices == {e \in Endpoints : /\ subscription[e].active
                                           /\ subscription[e].account \in accounts}
             reached == {subscription[e].account : e \in devices}
             missing == worker[w].to \ reached
             late == {e \in devices : subscription[e].expires <= now}
             rows == [e \in Endpoints |->
                          IF e \in devices THEN subscription[e].id ELSE 0]
  <2>1. Cardinality(missing) \in Nat
    <3>1. missing \subseteq Accounts
      BY DEF TypeOK, Worker
    <3>2. IsFiniteSet(missing)
      BY <3>1, ReminderAssumption, FS_Subset
    <3> QED
      BY <3>2, FS_CardinalityType
  <2>2. rows \in [Endpoints -> Nat]
    BY DEF TypeOK, Subscription
  <2>3. devices \in SUBSET Endpoints
    OBVIOUS
  <2>4. late \in SUBSET Endpoints
    OBVIOUS
  <2>5. worker' = [worker EXCEPT
           ![w].pc = "sending", ![w].targets = devices,
           ![w].expired = late, ![w].ids = rows, ![w].failed = Cardinality(missing)]
    BY <1>1 DEF dispatch_claimed
  <2> HIDE DEF missing, rows, late, devices
  <2>6. worker' \in [Workers -> Worker]
    BY <2>1, <2>2, <2>3, <2>4, <2>5, TargetRows DEF TypeOK
  <2>7. Engaged'
    <3>1. \A v \in Workers : worker'[v].item = worker[v].item
      <4>1. worker'[w] = [worker[w] EXCEPT !.pc = "sending", !.targets = devices,
                !.expired = late, !.ids = rows, !.failed = Cardinality(missing)]
        BY <2>5 DEF TypeOK
      <4>2. worker[w] \in Worker
        BY DEF TypeOK
      <4>3. worker'[w].item = worker[w].item
        BY <4>1, <4>2 DEF Worker
      <4> QED
        BY <2>5, <4>3 DEF TypeOK
    <3>2. \A v \in Workers \ {w} : worker'[v] = worker[v]
      BY <2>5 DEF TypeOK
    <3> QED
      BY <1>1, <3>1, <3>2 DEF Engaged, dispatch_claimed
  <2> QED
    BY <1>1, <2>6, <2>7 DEF TypeOK, dispatch_claimed, tables, locks
<1>2. ASSUME record(w)
      PROVE  TypeOK' /\ Engaged'
  <2>1. worker' \in [Workers -> Worker]
    BY <1>2, WorkerRows DEF TypeOK, record
  <2>2. subscription' \in [Endpoints -> Subscription]
    BY <1>2, SubscriptionRows DEF TypeOK, record, stored
  <2>3. Engaged'
    <3>1. \A v \in Workers : worker'[v].item = worker[v].item
      BY <1>2 DEF TypeOK, Worker, record
    <3>2. \A v \in Workers \ {w} : worker'[v] = worker[v]
      BY <1>2 DEF TypeOK, record
    <3> QED
      BY <1>2, <3>1, <3>2 DEF Engaged, record
  <2> QED
    BY <1>2, <2>1, <2>2, <2>3 DEF TypeOK, record, locks
<1>3. ASSUME NEW e \in Endpoints, send(w, e)
      PROVE  TypeOK' /\ Engaged'
  <2>1. PICK result \in {"accepted", "failed", "invalidated"} :
            worker' = [worker EXCEPT
               ![w].pc = "sent", ![w].targets = @ \ {e}, ![w].target = e,
               ![w].result = result,
               ![w].accepted = IF result = "accepted" THEN @ + 1 ELSE @,
               ![w].failed = IF result = "accepted" THEN @ ELSE @ + 1]
    BY <1>3 DEF send, WebPushTransport_send
  <2>2. worker' \in [Workers -> Worker]
    <3>1. worker[w] \in Worker
      BY DEF TypeOK
    <3>2. [worker[w] EXCEPT
               !.pc = "sent", !.targets = @ \ {e}, !.target = e,
               !.result = result,
               !.accepted = IF result = "accepted" THEN @ + 1 ELSE @,
               !.failed = IF result = "accepted" THEN @ ELSE @ + 1] \in Worker
      BY <3>1, SentRows
    <3> QED
      BY <2>1, <3>2 DEF TypeOK
  <2>3. Engaged'
    <3>1. \A v \in Workers : worker'[v].item = worker[v].item
      BY <2>1 DEF TypeOK, Worker
    <3>2. \A v \in Workers \ {w} : worker'[v] = worker[v]
      BY <2>1 DEF TypeOK
    <3> QED
      BY <1>3, <3>1, <3>2 DEF Engaged, send
  <2>4. worker[w].item \in Items
    BY <1>3 DEF send, Engaged
  <2>5. pushed' \in [Items -> [Endpoints -> Nat]]
    <3>1. pushed[worker[w].item][e] + 1 \in Nat
      BY <2>4 DEF TypeOK
    <3> QED
      BY <1>3, <2>4, <3>1 DEF send, TypeOK
  <2> QED
    BY <1>3, <2>2, <2>3, <2>5 DEF TypeOK, send, tables, locks
<1> QED
  BY <1>1, <1>2, <1>3

LEMMA EndTypes ==
    ASSUME TypeOK, Engaged, NEW w \in Workers,
           settle(w) \/ Uncertain(w) \/ Restart(w)
    PROVE  TypeOK' /\ Engaged'
<1>1. Engaged'
  <2>1. worker' = [worker EXCEPT ![w] = IdleWorker]
    BY DEF settle, Uncertain, Restart
  <2> QED
    BY <2>1 DEF TypeOK, Engaged, IdleWorker
<1>2. worker' \in [Workers -> Worker]
  BY WorkerRows DEF TypeOK, settle, Uncertain, Restart
<1>3. CASE settle(w)
  <2>1. worker[w].accepted \in Nat /\ worker[w].failed \in Nat
    BY DEF TypeOK, Worker
  <2>2. reminder' \in [Items -> ReminderRow]
    BY <1>3, <2>1, ReminderRows DEF TypeOK, settle
  <2> QED
    BY <1>1, <1>2, <1>3, <2>2 DEF TypeOK, settle, locks
<1>4. CASE Uncertain(w)
  <2>1. reminder' \in [Items -> ReminderRow]
    BY <1>4, ReminderRows DEF TypeOK, Uncertain
  <2> QED
    BY <1>1, <1>2, <1>4, <2>1 DEF TypeOK, Uncertain, locks
<1>5. CASE Restart(w)
  BY <1>1, <1>2, <1>5 DEF TypeOK, Restart, tables
<1> QED
  BY <1>3, <1>4, <1>5

LEMMA StepTypes ==
    ASSUME TypeOK, Engaged, [Next]_vars
    PROVE  TypeOK' /\ Engaged'
<1>1. CASE TaskRequest \/ EditRequest
  BY <1>1, RequestTypes
<1>2. CASE PushRequest
  BY <1>2, SubscriptionTypes
<1>3. CASE \E c \in Callers : ServerStep(c)
  BY <1>3, EditTypes
<1>4. CASE \E w \in Workers : WorkerStep(w) \/ Uncertain(w) \/ Restart(w)
  BY <1>4, ClaimTypes, DeliveryTypes, EndTypes DEF WorkerStep
<1>5. CASE \E i \in Items : CorrectSource(i)
  <2>1. suggestion' \in [Items -> Suggestion]
    <3>1. PICK i \in Items : suggestion' = [suggestion EXCEPT ![i].stale = TRUE]
      BY <1>5 DEF CorrectSource
    <3> QED
      BY <3>1, SuggestionRows DEF TypeOK
  <2> QED
    BY <1>5, <2>1 DEF TypeOK, Engaged, CorrectSource, locks
<1>6. CASE \E accounts \in SUBSET Accounts : MembersChange(accounts)
  BY <1>6 DEF TypeOK, Engaged, MembersChange, locks
<1>7. CASE Tick
  BY <1>7, ReminderAssumption DEF TypeOK, Engaged, Tick, Times, tables, locks
<1>8. CASE UNCHANGED vars
  BY <1>8 DEF TypeOK, Engaged, vars
<1> QED
  BY <1>1, <1>2, <1>3, <1>4, <1>5, <1>6, <1>7, <1>8 DEF Next

----------------------------------------------------------------------------
(* Every step keeps the rest of the invariant. *)

LEMMA InitialGuards == Init => Guarded
  BY ReminderAssumption
     DEF Init, Guarded, LockIsOwned, LockedIsPending, RowsTogether, PushesLeft,
         SentAsConfirmed, NoItem, NoReminder, IdleWorker, NothingPushed

\* The rows dispatchers have locked stay theirs, and no other becomes so.
SameClaims ==
    \A w \in Workers, i \in Items : reminderLock'[i] = w <=> reminderLock[i] = w

\* Most requests do not touch what the dispatcher works on.
LEMMA QuietStep ==
    ASSUME Guarded, SameClaims, UNCHANGED <<item, reminder, worker, pushed>>
    PROVE  Guarded'
  BY DEF Guarded, LockIsOwned, LockedIsPending, RowsTogether, PushesLeft,
         SentAsConfirmed, SameClaims

\* The locks an edit takes and gives back are not a dispatcher's.
LEMMA EditLocks ==
    ASSUME TypeOK, NEW c \in Callers, NEW i \in Items,
           LockReminder(c, i) \/ ReleaseRows(c, i)
    PROVE  SameClaims
  BY ReminderAssumption DEF TypeOK, LockReminder, ReleaseRows, SameClaims

\* A reminder that is neither locked nor being sent has no dispatcher.
LEMMA NobodyWorksOn ==
    ASSUME IInv, NEW i \in Items, reminder[i].status # "SENDING",
           reminderLock[i] \notin Workers \/ reminder[i].status # "PENDING"
    PROVE  \A w \in Workers : worker[w].pc # "idle" => worker[w].item # i
<1> SUFFICES ASSUME NEW w \in Workers, worker[w].pc # "idle", worker[w].item = i
             PROVE  FALSE
  OBVIOUS
<1>1. CASE worker[w].pc = "locked"
  <2>1. reminderLock[i] = w /\ reminder[i].status = "PENDING"
    BY <1>1 DEF IInv, Guarded, LockIsOwned, LockedIsPending
  <2> QED
    BY <2>1
<1>2. CASE worker[w].pc \in Busy
  BY <1>2 DEF IInv, Guarded, SentAsConfirmed, Busy
<1>3. worker[w].pc \in {"idle", "locked"} \cup Busy
  BY DEF IInv, TypeOK, Worker, Busy
<1> QED
  BY <1>1, <1>2, <1>3

\* A confirmation, change or cancellation of such a task.
LEMMA RowStep ==
    ASSUME IInv, NEW i \in Items,
           \A w \in Workers : worker[w].pc # "idle" => worker[w].item # i,
           SameClaims, UNCHANGED worker,
           \A j \in Items \ {i} : /\ item'[j] = item[j]
                                  /\ reminder'[j] = reminder[j]
                                  /\ pushed'[j] = pushed[j],
           item'[i].status # "NONE",
           item'[i].status = "ACTIVE" => reminder'[i].status # "CANCELLED",
           reminder'[i].status = "PENDING" => \A e \in Endpoints : pushed'[i][e] = 0
    PROVE  Guarded'
<1>1. \A w \in Workers : worker[w].pc # "idle" =>
          LET j == worker[w].item IN
          /\ j \in Items /\ item'[j] = item[j] /\ reminder'[j] = reminder[j]
          /\ pushed'[j] = pushed[j]
  BY DEF IInv, Engaged
<1>2. LockIsOwned'
  BY DEF IInv, Guarded, LockIsOwned, SameClaims
<1>3. LockedIsPending'
  BY <1>1 DEF IInv, Guarded, LockedIsPending
<1>4. RowsTogether'
  BY DEF IInv, Guarded, RowsTogether
<1>5. PushesLeft'
  BY <1>1 DEF IInv, Guarded, PushesLeft
<1>6. SentAsConfirmed'
  BY <1>1 DEF IInv, Guarded, SentAsConfirmed
<1> QED
  BY <1>2, <1>3, <1>4, <1>5, <1>6 DEF Guarded

LEMMA ConfirmGuards ==
    ASSUME IInv, NEW i \in Items, NEW v, NEW b \in Body, confirm_suggestion(i, v, b)
    PROVE  Guarded'
<1>1. reminder[i].status = "NONE"
  BY DEF IInv, Guarded, RowsTogether, confirm_suggestion
<1>2. \A w \in Workers : worker[w].pc # "idle" => worker[w].item # i
  BY <1>1, NobodyWorksOn
<1>3. /\ item'[i].status = "ACTIVE" /\ reminder'[i].status = "PENDING"
      /\ pushed'[i] = NothingPushed
  BY DEF IInv, TypeOK, confirm_suggestion, Scheduled
<1>4. \A j \in Items \ {i} : /\ item'[j] = item[j] /\ reminder'[j] = reminder[j]
                             /\ pushed'[j] = pushed[j]
  BY DEF IInv, TypeOK, confirm_suggestion
<1>5. SameClaims /\ UNCHANGED worker
  BY DEF confirm_suggestion, locks, SameClaims
<1> QED
  BY <1>2, <1>3, <1>4, <1>5, RowStep DEF NothingPushed

LEMMA EditGuards ==
    ASSUME IInv, NEW c \in Callers, ServerStep(c)
    PROVE  Guarded'
<1>1. ASSUME NEW i \in Items, NEW b \in Body, update_confirmed_task(c, i, b)
      PROVE  Guarded'
  <2>1. \A w \in Workers : worker[w].pc # "idle" => worker[w].item # i
    BY <1>1, NobodyWorksOn, ReminderAssumption DEF update_confirmed_task, editable_item
  <2>2. /\ item'[i].status = "ACTIVE" /\ reminder'[i].status = "PENDING"
        /\ pushed'[i] = NothingPushed
    BY <1>1 DEF IInv, TypeOK, Item, update_confirmed_task, Scheduled
  <2>3. \A j \in Items \ {i} : /\ item'[j] = item[j] /\ reminder'[j] = reminder[j]
                               /\ pushed'[j] = pushed[j]
    BY <1>1 DEF IInv, TypeOK, update_confirmed_task
  <2>4. SameClaims /\ UNCHANGED worker
    BY <1>1, EditLocks DEF IInv, update_confirmed_task
  <2> QED
    BY <2>1, <2>2, <2>3, <2>4, RowStep DEF NothingPushed
<1>2. ASSUME NEW i \in Items, cancel_confirmed_task(c, i)
      PROVE  Guarded'
  <2>1. \A w \in Workers : worker[w].pc # "idle" => worker[w].item # i
    BY <1>2, NobodyWorksOn, ReminderAssumption DEF cancel_confirmed_task, editable_item
  <2>2. item'[i].status = "CANCELLED"
    BY <1>2 DEF IInv, TypeOK, Item, cancel_confirmed_task
  <2>3. reminder'[i].status # "PENDING"
    BY <1>2 DEF IInv, TypeOK, ReminderRow, cancel_confirmed_task
  <2>4. \A j \in Items \ {i} : /\ item'[j] = item[j] /\ reminder'[j] = reminder[j]
                               /\ pushed'[j] = pushed[j]
    BY <1>2 DEF IInv, TypeOK, cancel_confirmed_task
  <2>5. SameClaims /\ UNCHANGED worker
    BY <1>2, EditLocks DEF IInv, cancel_confirmed_task
  <2> QED
    BY <2>1, <2>2, <2>3, <2>4, <2>5, RowStep
<1>3. ASSUME NEW i \in Items, EndUnchanged(c, i)
      PROVE  Guarded'
  BY <1>3, EditLocks, QuietStep DEF IInv, EndUnchanged, tables
<1>4. ASSUME NEW i \in Items, LockReminder(c, i)
      PROVE  Guarded'
  BY <1>4, EditLocks, QuietStep DEF IInv, LockReminder, tables
<1> QED
  BY <1>1, <1>2, <1>3, <1>4 DEF ServerStep

LEMMA LockGuards ==
    ASSUME IInv, NEW w \in Workers, NEW i \in Items, LockDue(w, i)
    PROVE  Guarded'
<1>1. \A v \in Workers \ {w} : worker'[v] = worker[v]
  BY DEF IInv, TypeOK, LockDue
<1>2. worker'[w].pc = "locked" /\ worker'[w].item = i
  BY DEF IInv, TypeOK, Worker, LockDue
<1>3. /\ worker[w].pc = "idle" /\ reminder[i].status = "PENDING"
      /\ reminderLock[i] = Nobody
      /\ \A j \in Items : reminderLock'[j] = IF j = i THEN w ELSE reminderLock[j]
  BY DEF IInv, TypeOK, LockDue, Due
<1>4. UNCHANGED <<item, reminder, pushed>>
  BY DEF LockDue, tables
<1>5. LockIsOwned'
  BY <1>1, <1>2, <1>3, ReminderAssumption DEF IInv, Guarded, LockIsOwned
<1>6. LockedIsPending'
  BY <1>1, <1>2, <1>3, <1>4 DEF IInv, Guarded, LockedIsPending
<1>7. RowsTogether'
  BY <1>4 DEF IInv, Guarded, RowsTogether
<1>8. PushesLeft'
  BY <1>1, <1>2, <1>4 DEF IInv, Guarded, PushesLeft
<1>9. SentAsConfirmed'
  BY <1>1, <1>2, <1>4 DEF IInv, Guarded, SentAsConfirmed
<1> QED
  BY <1>5, <1>6, <1>7, <1>8, <1>9 DEF Guarded

LEMMA ClaimGuards ==
    ASSUME IInv, NEW w \in Workers, claim_due(w)
    PROVE  Guarded'
<1> DEFINE i == worker[w].item
<1>1. i \in Items /\ reminder[i].status = "PENDING" /\ reminderLock[i] = w
  BY DEF IInv, Engaged, Guarded, LockedIsPending, LockIsOwned, claim_due
<1>2. \A v \in Workers \ {w} : worker'[v] = worker[v]
  BY DEF IInv, TypeOK, claim_due
<1>3. \A v \in Workers \ {w} : worker[v].pc # "idle" => worker[v].item # i
  <2> SUFFICES ASSUME NEW v \in Workers \ {w}, worker[v].pc # "idle", worker[v].item = i
               PROVE  FALSE
    OBVIOUS
  <2>1. worker[v].pc # "locked"
    BY <1>1 DEF IInv, Guarded, LockIsOwned
  <2>2. worker[v].pc \notin Busy
    BY <1>1 DEF IInv, Guarded, SentAsConfirmed, Busy
  <2>3. worker[v].pc \in {"idle", "locked"} \cup Busy
    BY DEF IInv, TypeOK, Worker, Busy
  <2> QED
    BY <2>1, <2>2, <2>3
<1>4. /\ \A j \in Items : reminderLock'[j] = IF j = i THEN Nobody ELSE reminderLock[j]
      /\ \A j \in Items \ {i} : reminder'[j] = reminder[j]
      /\ UNCHANGED <<item, pushed>>
  BY <1>1 DEF IInv, TypeOK, claim_due
<1>5. \/ /\ item[i].status = "ACTIVE" /\ reminder'[i].status = "SENDING"
         /\ reminder'[i].to = reminder[i].to
         /\ worker'[w].pc = "claimed" /\ worker'[w].item = i
         /\ worker'[w].text = item[i].text /\ worker'[w].to = reminder[i].to
      \/ /\ item[i].status # "ACTIVE" /\ reminder'[i].status = "CANCELLED"
         /\ worker'[w].pc = "idle"
  <2>1. CASE item[i].status = "ACTIVE"
    <3>1. /\ reminder' = [reminder EXCEPT ![i].status = "SENDING"]
          /\ worker' = [worker EXCEPT ![w].pc = "claimed", ![w].text = item[i].text,
                                      ![w].to = reminder[i].to]
      BY <2>1 DEF claim_due
    <3>2. reminder'[i].status = "SENDING" /\ reminder'[i].to = reminder[i].to
      BY <1>1, <3>1 DEF IInv, TypeOK, ReminderRow
    <3>3. /\ worker'[w].pc = "claimed" /\ worker'[w].item = i
          /\ worker'[w].text = item[i].text /\ worker'[w].to = reminder[i].to
      BY <3>1 DEF IInv, TypeOK, Worker
    <3> QED
      BY <2>1, <3>2, <3>3
  <2>2. CASE item[i].status # "ACTIVE"
    BY <1>1, <2>2 DEF IInv, TypeOK, ReminderRow, IdleWorker, claim_due
  <2> QED
    BY <2>1, <2>2
<1>6. item[i].status # "NONE"
  BY <1>1 DEF IInv, Guarded, RowsTogether
<1> HIDE DEF i
<1>7. LockIsOwned'
  <2>1. \A j \in Items : reminderLock[j] = w <=> j = i
    BY <1>1 DEF IInv, Guarded, LockIsOwned, i, claim_due
  <2> QED
    BY <1>2, <1>3, <1>4, <1>5, <2>1, ReminderAssumption DEF IInv, Guarded, LockIsOwned
<1>8. LockedIsPending'
  BY <1>2, <1>3, <1>4, <1>5 DEF IInv, Guarded, LockedIsPending, Engaged
<1>9. RowsTogether'
  BY <1>4, <1>5, <1>6 DEF IInv, Guarded, RowsTogether
<1>10. PushesLeft'
  BY <1>1, <1>2, <1>3, <1>4, <1>5 DEF IInv, Guarded, PushesLeft, Engaged
<1>11. SentAsConfirmed'
  BY <1>2, <1>3, <1>4, <1>5 DEF IInv, Guarded, SentAsConfirmed, Engaged
<1> QED
  BY <1>7, <1>8, <1>9, <1>10, <1>11 DEF Guarded

\* A dispatcher that goes on with the reminder it has claimed.
LEMMA BusyStep ==
    ASSUME IInv, NEW w \in Workers, worker[w].pc \in Busy,
           \A v \in Workers \ {w} : worker'[v] = worker[v],
           worker'[w].pc \in {"sending", "sent"},
           worker'[w].item = worker[w].item, worker'[w].text = worker[w].text,
           worker'[w].to = worker[w].to,
           UNCHANGED <<item, reminder, reminderLock>>,
           \A i \in Items : i # worker[w].item => pushed'[i] = pushed[i],
           \A e \in worker'[w].targets : pushed'[worker[w].item][e] = 0
    PROVE  Guarded'
<1>1. LockIsOwned'
  BY DEF IInv, Guarded, LockIsOwned, Busy
<1>2. LockedIsPending'
  BY DEF IInv, Guarded, LockedIsPending
<1>3. RowsTogether'
  BY DEF IInv, Guarded, RowsTogether
<1>4. reminder[worker[w].item].status = "SENDING"
  BY DEF IInv, Guarded, SentAsConfirmed, Busy
<1>5. \A v \in Workers \ {w} : worker[v].pc \in Busy => /\ worker[v].item \in Items
                                                        /\ worker[v].item # worker[w].item
  BY DEF IInv, Engaged, Guarded, SentAsConfirmed, Busy
<1>6. PushesLeft'
  <2>1. \A i \in Items : reminder'[i].status = "PENDING"
                             => \A e \in Endpoints : pushed'[i][e] = 0
    BY <1>4 DEF IInv, Guarded, PushesLeft
  <2>2. \A v \in Workers : worker'[v].pc = "claimed"
                               => \A e \in Endpoints : pushed'[worker'[v].item][e] = 0
    BY <1>5 DEF IInv, Guarded, PushesLeft, Busy
  <2>3. \A v \in Workers : worker'[v].pc \in {"sending", "sent"}
            => \A e \in worker'[v].targets : pushed'[worker'[v].item][e] = 0
    BY <1>5 DEF IInv, Guarded, PushesLeft, Busy
  <2> QED
    BY <2>1, <2>2, <2>3 DEF PushesLeft
<1>7. SentAsConfirmed'
  BY DEF IInv, Guarded, SentAsConfirmed, Busy
<1> QED
  BY <1>1, <1>2, <1>3, <1>6, <1>7 DEF Guarded

LEMMA DeliveryGuards ==
    ASSUME IInv, NEW w \in Workers,
           dispatch_claimed(w) \/ record(w) \/ \E e \in Endpoints : send(w, e)
    PROVE  Guarded'
<1>0. worker[w] \in Worker /\ worker[w].pc \in Busy /\ worker[w].item \in Items
  BY DEF IInv, TypeOK, Engaged, Busy, dispatch_claimed, record, send
<1>1. CASE dispatch_claimed(w)
  <2>1. \A v \in Workers \ {w} : worker'[v] = worker[v]
    BY <1>1 DEF IInv, TypeOK, dispatch_claimed
  <2>2. /\ worker'[w].pc = "sending" /\ worker'[w].item = worker[w].item
        /\ worker'[w].text = worker[w].text /\ worker'[w].to = worker[w].to
        /\ worker'[w].targets \subseteq Endpoints
    BY <1>0, <1>1 DEF IInv, TypeOK, Worker, dispatch_claimed
  <2>3. \A e \in Endpoints : pushed[worker[w].item][e] = 0
    BY <1>1 DEF IInv, Guarded, PushesLeft, dispatch_claimed
  <2> QED
    BY <1>0, <1>1, <2>1, <2>2, <2>3, BusyStep DEF dispatch_claimed, tables, locks
<1>2. CASE record(w)
  <2>1. \A v \in Workers \ {w} : worker'[v] = worker[v]
    BY <1>2 DEF IInv, TypeOK, record
  <2>2. /\ worker'[w].pc = "sending" /\ worker'[w].item = worker[w].item
        /\ worker'[w].text = worker[w].text /\ worker'[w].to = worker[w].to
        /\ worker'[w].targets = worker[w].targets
    BY <1>0, <1>2 DEF IInv, TypeOK, Worker, record
  <2>3. \A e \in worker[w].targets : pushed[worker[w].item][e] = 0
    BY <1>2 DEF IInv, Guarded, PushesLeft, record
  <2> QED
    BY <1>0, <1>2, <2>1, <2>2, <2>3, BusyStep DEF record, locks
<1>3. ASSUME NEW e \in Endpoints, send(w, e)
      PROVE  Guarded'
  <2>0. PICK result \in {"accepted", "failed", "invalidated"} :
            worker' = [worker EXCEPT
               ![w].pc = "sent", ![w].targets = @ \ {e}, ![w].target = e,
               ![w].result = result,
               ![w].accepted = IF result = "accepted" THEN @ + 1 ELSE @,
               ![w].failed = IF result = "accepted" THEN @ ELSE @ + 1]
    BY <1>3 DEF send, WebPushTransport_send
  <2>1. \A v \in Workers \ {w} : worker'[v] = worker[v]
    BY <2>0 DEF IInv, TypeOK
  <2>2. /\ worker'[w].pc = "sent" /\ worker'[w].item = worker[w].item
        /\ worker'[w].text = worker[w].text /\ worker'[w].to = worker[w].to
        /\ worker'[w].targets = worker[w].targets \ {e}
    BY <1>0, <2>0 DEF IInv, TypeOK, Worker
  <2>3. \A f \in worker[w].targets : pushed[worker[w].item][f] = 0
    BY <1>3 DEF IInv, Guarded, PushesLeft, send
  <2>4. \A f \in worker'[w].targets : pushed'[worker[w].item][f] = 0
    BY <1>0, <1>3, <2>2, <2>3 DEF IInv, TypeOK, Worker, send
  <2>5. \A i \in Items : i # worker[w].item => pushed'[i] = pushed[i]
    BY <1>3 DEF IInv, TypeOK, send
  <2> QED
    BY <1>0, <1>3, <2>1, <2>2, <2>4, <2>5, BusyStep DEF send, tables, locks
<1> QED
  BY <1>1, <1>2, <1>3

\* A dispatcher that leaves a reminder it has claimed, or whose server dies.
LEMMA EndGuards ==
    ASSUME IInv, NEW w \in Workers, settle(w) \/ Uncertain(w) \/ Restart(w)
    PROVE  Guarded'
<1> DEFINE i == worker[w].item
<1>1. i \in Items
  BY DEF IInv, Engaged, settle, Uncertain, Restart
<1>2. /\ \A v \in Workers \ {w} : worker'[v] = worker[v]
      /\ worker'[w].pc = "idle"
  BY DEF IInv, TypeOK, IdleWorker, settle, Uncertain, Restart
<1>3. UNCHANGED <<item, pushed>>
  BY DEF settle, Uncertain, Restart, tables
<1>4. CASE settle(w) \/ Uncertain(w)
  <2>1. reminder[i].status = "SENDING" /\ worker[w].pc \in Busy
    BY <1>4 DEF IInv, Guarded, SentAsConfirmed, Busy, settle, Uncertain
  <2>2. \A v \in Workers \ {w} : worker[v].pc # "idle" => worker[v].item # i
    <3> SUFFICES ASSUME NEW v \in Workers \ {w}, worker[v].pc # "idle",
                        worker[v].item = i
                 PROVE  FALSE
      OBVIOUS
    <3>1. worker[v].pc # "locked"
      BY <2>1 DEF IInv, Guarded, LockedIsPending
    <3>2. worker[v].pc \notin Busy
      BY <2>1 DEF IInv, Guarded, SentAsConfirmed, Busy
    <3> QED
      BY <3>1, <3>2 DEF IInv, TypeOK, Worker, Busy
  <2>3. /\ \A j \in Items \ {i} : reminder'[j] = reminder[j]
        /\ UNCHANGED reminderLock
    BY <1>4 DEF IInv, TypeOK, settle, Uncertain, locks
  <2>4. reminder'[i].status \in {"SENDING", "SERVICE_ACCEPTED", "FAILED"}
    <3>1. CASE settle(w)
      BY <1>1, <2>1, <3>1 DEF IInv, TypeOK, ReminderRow, settle
    <3>2. CASE Uncertain(w)
      BY <1>1, <2>1, <3>2 DEF IInv, TypeOK, ReminderRow, Uncertain
    <3> QED
      BY <1>4, <3>1, <3>2
  <2>5. item[i].status # "NONE"
    BY <1>1, <2>1 DEF IInv, Guarded, RowsTogether
  <2> HIDE DEF i
  <2>6. LockIsOwned'
    BY <1>2, <2>1, <2>3 DEF IInv, Guarded, LockIsOwned, Busy
  <2>7. LockedIsPending'
    BY <1>2, <2>2, <2>3 DEF IInv, Guarded, LockedIsPending, Engaged
  <2>8. RowsTogether'
    BY <1>3, <2>3, <2>4, <2>5 DEF IInv, Guarded, RowsTogether
  <2>9. PushesLeft'
    BY <1>2, <1>3, <2>3, <2>4 DEF IInv, Guarded, PushesLeft
  <2>10. SentAsConfirmed'
    BY <1>2, <1>3, <2>2, <2>3 DEF IInv, Guarded, SentAsConfirmed, Engaged
  <2> QED
    BY <2>6, <2>7, <2>8, <2>9, <2>10 DEF Guarded
<1>5. CASE Restart(w)
  <2>1. /\ UNCHANGED reminder
        /\ \A j \in Items : reminderLock'[j] = IF reminderLock[j] = w
                                               THEN Nobody ELSE reminderLock[j]
    BY <1>5 DEF Restart, tables
  <2>2. LockIsOwned'
    BY <1>2, <2>1, ReminderAssumption DEF IInv, Guarded, LockIsOwned
  <2>3. LockedIsPending'
    BY <1>2, <2>1 DEF IInv, Guarded, LockedIsPending
  <2>4. RowsTogether'
    BY <1>3, <2>1 DEF IInv, Guarded, RowsTogether
  <2>5. PushesLeft'
    BY <1>2, <1>3, <2>1 DEF IInv, Guarded, PushesLeft
  <2>6. SentAsConfirmed'
    BY <1>2, <1>3, <2>1 DEF IInv, Guarded, SentAsConfirmed
  <2> QED
    BY <2>2, <2>3, <2>4, <2>5, <2>6 DEF Guarded
<1> QED
  BY <1>4, <1>5

LEMMA StepGuards ==
    ASSUME IInv, [Next]_vars
    PROVE  Guarded'
<1>1. CASE TaskRequest
  <2>1. ASSUME NEW i \in Items, NEW v \in Versions,
               update_suggestion(i, v) \/ accept_suggestion(i, v)
        PROVE  Guarded'
    BY <2>1, QuietStep DEF IInv, SameClaims, update_suggestion, accept_suggestion, locks
  <2> QED
    BY <1>1, <2>1, ConfirmGuards DEF TaskRequest
<1>2. CASE EditRequest
  <2>1. UNCHANGED <<item, reminder, reminderLock, worker, pushed>>
    BY <1>2 DEF EditRequest, LockItem, tables
  <2> QED
    BY <2>1, QuietStep DEF IInv, SameClaims
<1>3. CASE PushRequest
  <2>1. UNCHANGED <<item, reminder, reminderLock, worker, pushed>>
    BY <1>3 DEF PushRequest, register_subscription, delete_subscription, test_push, locks
  <2> QED
    BY <2>1, QuietStep DEF IInv, SameClaims
<1>4. CASE \E c \in Callers : ServerStep(c)
  BY <1>4, EditGuards
<1>5. CASE \E w \in Workers : WorkerStep(w) \/ Uncertain(w) \/ Restart(w)
  BY <1>5, LockGuards, ClaimGuards, DeliveryGuards, EndGuards DEF WorkerStep
<1>6. CASE \/ \E i \in Items : CorrectSource(i)
           \/ \E accounts \in SUBSET Accounts : MembersChange(accounts)
           \/ Tick
           \/ UNCHANGED vars
  <2>1. UNCHANGED <<item, reminder, reminderLock, worker, pushed>>
    BY <1>6 DEF CorrectSource, MembersChange, Tick, vars, tables, locks
  <2> QED
    BY <2>1, QuietStep DEF IInv, SameClaims
<1> QED
  BY <1>1, <1>2, <1>3, <1>4, <1>5, <1>6 DEF Next

LEMMA Invariant == Spec => []IInv
<1>1. Init => IInv
  BY InitialTypes, InitialGuards DEF IInv
<1>2. IInv /\ [Next]_vars => IInv'
  BY StepTypes, StepGuards DEF IInv
<1> QED
  BY <1>1, <1>2, PTL DEF Spec

----------------------------------------------------------------------------
(* What the tables guarantee *)

\* The tables of the reminders keep their types (Reminder's TypeOK), for any
\* number of tasks, devices, dispatchers and edits.
THEOREM TypeCorrect == Spec => []TypeOK
<1>1. IInv => TypeOK
  BY DEF IInv
<1> QED
  BY <1>1, Invariant, PTL

\* Whatever a dispatcher sends is what members last confirmed, it is sent by
\* that dispatcher alone, and its task is not cancelled
\* (push_service._claim_due against reminder_service._editable_item).
THEOREM SendsWhatWasConfirmed == Spec => []SentAsConfirmed
<1>1. IInv => SentAsConfirmed
  BY DEF IInv, Guarded
<1> QED
  BY <1>1, Invariant, PTL

----------------------------------------------------------------------------
(* Reminder implements Delivery. *)

LEMMA PhaseNames ==
    /\ PhaseOf("NONE") = "none" /\ PhaseOf("PENDING") = "scheduled"
    /\ PhaseOf("SENDING") = "attempted" /\ PhaseOf("CANCELLED") = "cancelled"
    /\ PhaseOf("SERVICE_ACCEPTED") = "settled" /\ PhaseOf("FAILED") = "settled"
  BY DEF PhaseOf

LEMMA SamePhases ==
    ASSUME \A j \in Items : reminder'[j].status = reminder[j].status
    PROVE  phases' = phases
  BY DEF phases

LEMMA OnePhase ==
    ASSUME NEW i \in Items,
           \A j \in Items \ {i} : reminder'[j].status = reminder[j].status
    PROVE  /\ phases[i] = PhaseOf(reminder[i].status)
           /\ phases' = [phases EXCEPT ![i] = PhaseOf(reminder'[i].status)]
  BY DEF phases

\* An explicit confirmation or change schedules the reminder anew.
LEMMA ScheduleRefines ==
    ASSUME IInv, NEW i \in Items, NEW b \in Body,
           reminder' = [reminder EXCEPT ![i] = Scheduled(b)],
           pushed' = [pushed EXCEPT ![i] = NothingPushed],
           reminder[i].status \notin {"SENDING", "CANCELLED"}
    PROVE  OneShot!Schedule(i)
<1>1. /\ reminder'[i].status = "PENDING"
      /\ \A j \in Items \ {i} : reminder'[j].status = reminder[j].status
  BY DEF IInv, TypeOK, Scheduled
<1>2. phases' = [phases EXCEPT ![i] = "scheduled"]
  BY <1>1, OnePhase, PhaseNames
<1>3. phases[i] \in {"none", "scheduled", "settled"}
  <2>1. reminder[i].status \in {"NONE", "PENDING", "SERVICE_ACCEPTED", "FAILED"}
    BY DEF IInv, TypeOK, ReminderRow
  <2>2. phases[i] = PhaseOf(reminder[i].status)
    BY DEF phases
  <2> QED
    BY <2>1, <2>2, PhaseNames
<1> QED
  BY <1>2, <1>3 DEF OneShot!Schedule, OneShot!NoPushes, NothingPushed

LEMMA EditRefines ==
    ASSUME IInv, NEW c \in Callers, ServerStep(c)
    PROVE  OneShot!Next \/ UNCHANGED <<phases, pushed>>
<1>1. ASSUME NEW i \in Items, NEW b \in Body, update_confirmed_task(c, i, b)
      PROVE  OneShot!Next
  <2>1. reminder[i].status \notin {"SENDING", "CANCELLED"}
    BY <1>1 DEF IInv, Guarded, RowsTogether, update_confirmed_task, editable_item
  <2>2. OneShot!Schedule(i)
    BY <1>1, <2>1, ScheduleRefines DEF update_confirmed_task
  <2> QED
    BY <2>2 DEF OneShot!Next
<1>2. ASSUME NEW i \in Items, cancel_confirmed_task(c, i)
      PROVE  OneShot!Next \/ UNCHANGED <<phases, pushed>>
  <2>1. CASE reminder[i].status = "PENDING"
    <3>1. /\ reminder'[i].status = "CANCELLED"
          /\ \A j \in Items \ {i} : reminder'[j].status = reminder[j].status
      BY <1>2, <2>1 DEF IInv, TypeOK, ReminderRow, cancel_confirmed_task
    <3>2. OneShot!Cancel(i)
      BY <1>2, <2>1, <3>1, OnePhase, PhaseNames DEF OneShot!Cancel, cancel_confirmed_task
    <3> QED
      BY <3>2 DEF OneShot!Next
  <2>2. CASE reminder[i].status # "PENDING"
    BY <1>2, <2>2, SamePhases DEF cancel_confirmed_task
  <2> QED
    BY <2>1, <2>2
<1>3. ASSUME NEW i \in Items, EndUnchanged(c, i)
      PROVE  UNCHANGED <<phases, pushed>>
  BY <1>3, SamePhases DEF EndUnchanged, tables
<1>4. ASSUME NEW i \in Items, LockReminder(c, i)
      PROVE  UNCHANGED <<phases, pushed>>
  BY <1>4, SamePhases DEF LockReminder, tables
<1> QED
  BY <1>1, <1>2, <1>3, <1>4 DEF ServerStep

LEMMA DispatcherRefines ==
    ASSUME IInv, NEW w \in Workers, WorkerStep(w) \/ Uncertain(w) \/ Restart(w)
    PROVE  OneShot!Next \/ UNCHANGED <<phases, pushed>>
<1> DEFINE i == worker[w].item
<1>1. CASE claim_due(w)
  <2>1. i \in Items /\ reminder[i].status = "PENDING"
    BY <1>1 DEF IInv, Engaged, Guarded, LockedIsPending, claim_due
  <2>2. \A j \in Items \ {i} : reminder'[j].status = reminder[j].status
    BY <1>1 DEF IInv, TypeOK, claim_due
  <2>3. reminder'[i].status \in {"SENDING", "CANCELLED"}
    BY <1>1, <2>1 DEF IInv, TypeOK, ReminderRow, claim_due
  <2>4. OneShot!Attempt(i) \/ OneShot!Cancel(i)
    BY <1>1, <2>1, <2>2, <2>3, OnePhase, PhaseNames
       DEF OneShot!Attempt, OneShot!Cancel, claim_due
  <2> QED
    BY <2>1, <2>4 DEF OneShot!Next
<1>2. ASSUME NEW e \in Endpoints, send(w, e)
      PROVE  OneShot!Next \/ UNCHANGED <<phases, pushed>>
  <2>1. i \in Items /\ reminder[i].status = "SENDING" /\ pushed[i][e] = 0
    BY <1>2 DEF IInv, Engaged, Guarded, SentAsConfirmed, PushesLeft, send
  <2>2. phases' = phases
    BY <1>2, SamePhases DEF send, tables
  <2>3. CASE pushed' = pushed
    BY <2>2, <2>3
  <2>4. CASE pushed' = [pushed EXCEPT ![i][e] = @ + 1]
    <3>1. pushed' = [pushed EXCEPT ![i][e] = 1]
      BY <2>1, <2>4 DEF IInv, TypeOK
    <3>2. phases[i] = "attempted"
      BY <2>1, PhaseNames DEF phases
    <3>3. OneShot!Push(i, e)
      BY <2>1, <2>2, <3>1, <3>2 DEF OneShot!Push
    <3> QED
      BY <2>1, <3>3 DEF OneShot!Next
  <2> QED
    BY <1>2, <2>3, <2>4 DEF send
<1>3. CASE settle(w)
  <2>1. i \in Items /\ reminder[i].status = "SENDING"
    BY <1>3 DEF IInv, Engaged, Guarded, SentAsConfirmed, settle
  <2>2. \A j \in Items \ {i} : reminder'[j].status = reminder[j].status
    BY <1>3 DEF IInv, TypeOK, settle
  <2>3. reminder'[i].status \in {"SERVICE_ACCEPTED", "FAILED"}
    BY <1>3, <2>1 DEF IInv, TypeOK, ReminderRow, settle
  <2>4. OneShot!Settle(i)
    <3>1. phases[i] = "attempted" /\ phases' = [phases EXCEPT ![i] = "settled"]
      <4>1. PhaseOf(reminder'[i].status) = "settled"
        BY <2>3, PhaseNames
      <4> QED
        BY <2>1, <2>2, <4>1, OnePhase, PhaseNames
    <3> QED
      BY <1>3, <3>1 DEF OneShot!Settle, settle
  <2> QED
    BY <2>1, <2>4 DEF OneShot!Next
<1>4. CASE Uncertain(w)
  <2>1. i \in Items /\ reminder[i].status = "SENDING"
    BY <1>4 DEF IInv, Engaged, Guarded, SentAsConfirmed, Uncertain
  <2>2. \A j \in Items : reminder'[j].status = reminder[j].status
    <3>1. reminder' = [reminder EXCEPT ![i].uncertain = TRUE]
      BY <1>4, <2>1 DEF Uncertain
    <3>2. reminder'[i].status = reminder[i].status
      BY <2>1, <3>1 DEF IInv, TypeOK, ReminderRow
    <3> QED
      BY <3>1, <3>2 DEF IInv, TypeOK
  <2> QED
    BY <1>4, <2>2, SamePhases DEF Uncertain
<1>5. CASE \/ \E j \in Items : LockDue(w, j)
           \/ dispatch_claimed(w) \/ record(w) \/ Restart(w)
  <2>1. UNCHANGED <<reminder, pushed>>
    BY <1>5 DEF LockDue, dispatch_claimed, record, Restart, tables
  <2> QED
    BY <2>1, SamePhases
<1> QED
  BY <1>1, <1>2, <1>3, <1>4, <1>5 DEF WorkerStep

LEMMA StepRefines ==
    ASSUME IInv, [Next]_vars
    PROVE  [OneShot!Next]_<<phases, pushed>>
<1>1. CASE TaskRequest
  <2>1. ASSUME NEW i \in Items, NEW v \in Versions,
               update_suggestion(i, v) \/ accept_suggestion(i, v)
        PROVE  UNCHANGED <<phases, pushed>>
    BY <2>1, SamePhases DEF update_suggestion, accept_suggestion
  <2>2. ASSUME NEW i \in Items, NEW v \in Versions, NEW b \in Body,
               confirm_suggestion(i, v, b)
        PROVE  OneShot!Next
    <3>1. reminder[i].status = "NONE"
      BY <2>2 DEF IInv, Guarded, RowsTogether, confirm_suggestion
    <3>2. OneShot!Schedule(i)
      BY <2>2, <3>1, ScheduleRefines DEF confirm_suggestion
    <3> QED
      BY <3>2 DEF OneShot!Next
  <2> QED
    BY <1>1, <2>1, <2>2 DEF TaskRequest
<1>2. CASE \/ EditRequest \/ PushRequest \/ Tick \/ UNCHANGED vars
           \/ \E i \in Items : CorrectSource(i)
           \/ \E accounts \in SUBSET Accounts : MembersChange(accounts)
  <2>1. UNCHANGED <<reminder, pushed>>
    BY <1>2 DEF EditRequest, LockItem, PushRequest, register_subscription,
                delete_subscription, test_push, Tick, vars, CorrectSource,
                MembersChange, tables
  <2> QED
    BY <2>1, SamePhases
<1>3. CASE \E c \in Callers : ServerStep(c)
  BY <1>3, EditRefines
<1>4. CASE \E w \in Workers : WorkerStep(w) \/ Uncertain(w) \/ Restart(w)
  BY <1>4, DispatcherRefines
<1> QED
  BY <1>1, <1>2, <1>3, <1>4 DEF Next

\* The reminder tables implement Delivery: a reminder is attempted at most
\* once per scheduling and a device pushed at most once in it, through every
\* exception, crash and restart of any number of dispatchers and every change
\* by members (push_service: a SENDING reminder is never sent again).
THEOREM RemindersAreOneShot == Spec => AtMostOnce
<1>1. Init => OneShot!Init
  BY PhaseNames DEF Init, OneShot!Init, OneShot!NoPushes, phases, NoReminder, NothingPushed
<1>2. IInv /\ [Next]_vars => [OneShot!Next]_<<phases, pushed>>
  BY StepRefines
<1> QED
  BY <1>1, <1>2, Invariant, PTL DEF Spec, AtMostOnce, OneShot!Spec
=============================================================================
