------------------------------ MODULE Activity ------------------------------
(***************************************************************************)
(* Agent jobs and the activity stream of a club.  Every change of a job's  *)
(* status inserts an ActivityEvent in the same transaction; the event's id *)
(* is a number of a database sequence, taken when the row is inserted and  *)
(* visible when the transaction commits, so an id can become visible after *)
(* greater ones.  A client loads a snapshot and then follows the events    *)
(* after its cursor, reconnecting with the id of the last event it got.    *)
(*                                                                         *)
(*   agent_job_service   create_job, start, succeed, fail                  *)
(*   activity_service    latest_cursor, snapshot, events_after             *)
(*   routers/agent       get_activity, stream_activity                     *)
(*   discord_service     request_sync, a job that ends where it starts     *)
(***************************************************************************)
EXTENDS Naturals, FiniteSets

CONSTANTS AgentJobs,       \* jobs of the club, each run by a request
          Watchers,        \* clients that follow the activity
          MaxEvents,       \* bound on the ids of events
          MaxBatch         \* bound on events_after (its limit)

ASSUME ActivityBounds == MaxEvents \in Nat /\ MaxBatch \in Nat

VARIABLES agentJob,   \* per job, the committed status
          work,       \* per job, its open transaction: the events it inserted
          event,      \* the committed ActivityEvents
          eventId,    \* the sequence
          watcher,    \* per client, its cursor and what it was told
          passed      \* history: per client that follows, the jobs whose last
                      \* events became visible behind its cursor

activityVars == <<agentJob, work, event, eventId, watcher, passed>>

----------------------------------------------------------------------------
(* Types *)

JobStatus == {"NONE", "QUEUED", "RUNNING", "SUCCEEDED", "FAILED"}

EventIds == 1 .. MaxEvents

ActivityEvent == [id: EventIds, job: AgentJobs, status: JobStatus]

\* `listed` is the job list of the snapshot; `got` are the events the stream
\* delivered since.
Listed == {"QUEUED", "RUNNING", "FAILED", "UNLISTED"}

Watcher == [at: {"AWAY", "CURSOR", "FOLLOWS"}, cursor: EventIds \cup {0},
            listed: [AgentJobs -> Listed], got: SUBSET ActivityEvent]

ActivityTypeOK ==
    /\ agentJob \in [AgentJobs -> JobStatus]
    /\ work \in [AgentJobs -> SUBSET ActivityEvent]
    /\ event \subseteq ActivityEvent
    /\ eventId \in EventIds \cup {0}
    /\ watcher \in [Watchers -> Watcher]
    /\ passed \in [Watchers -> SUBSET AgentJobs]

ActivityInit ==
    /\ agentJob = [j \in AgentJobs |-> "NONE"]
    /\ work = [j \in AgentJobs |-> {}]
    /\ event = {}
    /\ eventId = 0
    /\ watcher = [w \in Watchers |->
                    [at |-> "AWAY", cursor |-> 0,
                     listed |-> [j \in AgentJobs |-> "UNLISTED"], got |-> {}]]
    /\ passed = [w \in Watchers |-> {}]

----------------------------------------------------------------------------
(* Jobs *)

\* _record: the event of a new status, with the next number of the sequence.
record_event(j, status, id) == [id |-> id, job |-> j, status |-> status]

\* create_job and start, flushed together in the transaction of the caller.
create_and_start(j) ==
    /\ agentJob[j] = "NONE" /\ work[j] = {}
    /\ work' = [work EXCEPT ![j] = {record_event(j, "QUEUED", eventId + 1),
                                    record_event(j, "RUNNING", eventId + 2)}]
    /\ eventId + 2 <= MaxEvents
    /\ eventId' = eventId + 2
    /\ UNCHANGED <<agentJob, event, watcher, passed>>

\* succeed or fail, in the transaction that stores the result.
finish_job(j) ==
    /\ agentJob[j] = "RUNNING" /\ work[j] = {}
    /\ \E status \in {"SUCCEEDED", "FAILED"} :
          work' = [work EXCEPT ![j] = {record_event(j, status, eventId + 1)}]
    /\ eventId + 1 <= MaxEvents
    /\ eventId' = eventId + 1
    /\ UNCHANGED <<agentJob, event, watcher, passed>>

\* request_sync: there is no collector, so the job fails where it starts.
request_sync(j) ==
    /\ agentJob[j] = "NONE" /\ work[j] = {}
    /\ work' = [work EXCEPT ![j] = {record_event(j, "QUEUED", eventId + 1),
                                    record_event(j, "RUNNING", eventId + 2),
                                    record_event(j, "FAILED", eventId + 3)}]
    /\ eventId + 3 <= MaxEvents
    /\ eventId' = eventId + 3
    /\ UNCHANGED <<agentJob, event, watcher, passed>>

\* The last status a transaction wrote.
Written(j) == (CHOOSE e \in work[j] : \A f \in work[j] : f.id <= e.id).status

\* All of the transaction's events lie behind the cursor of a client that
\* already has its snapshot.
Behind(w, j) ==
    watcher[w].at = "FOLLOWS" /\ \A e \in work[j] : e.id <= watcher[w].cursor

\* The transaction commits: status and events become visible together.
\* Transactions overlap, and commit in any order.
commit_job(j) ==
    /\ work[j] # {}
    /\ passed' = [w \in Watchers |-> IF Behind(w, j) THEN passed[w] \cup {j}
                                                    ELSE passed[w] \ {j}]
    /\ agentJob' = [agentJob EXCEPT ![j] = Written(j)]
    /\ event' = event \cup work[j]
    /\ work' = [work EXCEPT ![j] = {}]
    /\ UNCHANGED <<eventId, watcher>>

\* The request fails before the commit: nothing of it is seen, and its ids
\* are not used again.
rollback_job(j) ==
    /\ work[j] # {}
    /\ work' = [work EXCEPT ![j] = {}]
    /\ UNCHANGED <<agentJob, event, eventId, watcher, passed>>

----------------------------------------------------------------------------
(* Watching *)

latest_cursor == IF event = {} THEN 0
                 ELSE CHOOSE n \in {e.id : e \in event} :
                          \A e \in event : e.id <= n

\* get_activity reads the cursor first ...
snapshot_cursor(w) ==
    /\ watcher[w].at # "CURSOR"
    /\ watcher' = [watcher EXCEPT
                     ![w] = [at |-> "CURSOR", cursor |-> latest_cursor,
                             listed |-> [j \in AgentJobs |-> "UNLISTED"],
                             got |-> {}]]
    /\ passed' = [passed EXCEPT ![w] = {}]
    /\ UNCHANGED <<agentJob, work, event, eventId>>

\* ... and then, in a statement of its own, the jobs under way and those that
\* failed lately.
snapshot_jobs(w) ==
    /\ watcher[w].at = "CURSOR"
    /\ watcher' = [watcher EXCEPT
                     ![w].at = "FOLLOWS",
                     ![w].listed = [j \in AgentJobs |->
                                      IF agentJob[j] \in Listed THEN agentJob[j]
                                                               ELSE "UNLISTED"]]
    /\ UNCHANGED <<agentJob, work, event, eventId, passed>>

\* Fault: the batch has the newest events instead of the oldest.
NewestAfter(cursor) ==
    {e \in event : /\ e.id > cursor
                   /\ Cardinality({f \in event : f.id > e.id}) < MaxBatch}

\* events_after: the oldest MaxBatch events past the cursor.
events_after(cursor) ==
    {e \in event : /\ e.id > cursor
                   /\ Cardinality({f \in event : cursor < f.id /\ f.id < e.id})
                         < MaxBatch}

\* One poll of the stream; after a lost connection the client goes on with
\* Last-Event-ID, its last event or the snapshot's cursor.
poll(w) ==
    LET batch == events_after(watcher[w].cursor) IN
    /\ watcher[w].at = "FOLLOWS"
    /\ batch # {}
    /\ watcher' = [watcher EXCEPT
                     ![w].got = @ \cup batch,
                     ![w].cursor = CHOOSE n \in {e.id : e \in batch} :
                                      \A e \in batch : e.id <= n]
    /\ UNCHANGED <<agentJob, work, event, eventId, passed>>

ActivityNext ==
    \/ \E j \in AgentJobs :
          \/ create_and_start(j) \/ finish_job(j) \/ request_sync(j)
          \/ commit_job(j) \/ rollback_job(j)
    \/ \E w \in Watchers : snapshot_cursor(w) \/ snapshot_jobs(w) \/ poll(w)

ActivitySpec == ActivityInit /\ [][ActivityNext]_activityVars

----------------------------------------------------------------------------
(* What the screen shows *)

\* What the client knows of a job: its last event, or else the snapshot.
Known(w, j) ==
    LET got == {e \in watcher[w].got : e.job = j}
    IN  IF got = {} THEN watcher[w].listed[j]
        ELSE (CHOOSE e \in got : \A f \in got : f.id <= e.id).status

\* character_state of the jobs as `status` gives them and the number of
\* suggestions that wait for a review.
character_state(status, proposed) ==
    IF \E j \in AgentJobs : status[j] \in {"QUEUED", "RUNNING"} THEN "WORKING"
    ELSE IF proposed > 0 THEN "ATTENTION"
    ELSE "IDLE"

----------------------------------------------------------------------------
(* Properties *)

UnderWay(status) == status \in {"QUEUED", "RUNNING"}

\* A client that follows has got everything the stream has for it.
CaughtUp(w) ==
    watcher[w].at = "FOLLOWS" /\ \A e \in event : e.id <= watcher[w].cursor

\* activity_service.snapshot, routers/agent.stream_activity: a client that
\* followed the snapshot's cursor until there is nothing left to send knows of
\* every job whether it is under way, and shows the character as a fresh
\* snapshot would, whatever happened between the two reads of the snapshot and
\* between two polls.  Excepted are the jobs whose last events were committed
\* behind its cursor; those come right with the job's next event.
WatcherIsUpToDate ==
  /\ ActivityTypeOK
  /\ \A w \in Watchers : CaughtUp(w) =>
        /\ \A j \in AgentJobs \ passed[w] :
              UnderWay(Known(w, j)) <=> UnderWay(agentJob[j])
        /\ passed[w] = {} =>
              \A proposed \in {0, 1} :
                 character_state([j \in AgentJobs |-> Known(w, j)], proposed) =
                 character_state(agentJob, proposed)

\* "What happens while the state is read is received again from SSE"
\* (activity_service.snapshot): no client that has got everything takes a job
\* for under way that is not, or the other way round.
NothingIsMissed ==
    \A w \in Watchers : CaughtUp(w) =>
        \A j \in AgentJobs : UnderWay(Known(w, j)) <=> UnderWay(agentJob[j])

=============================================================================
