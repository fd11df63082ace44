# Verification of the club assistant's backend

The repository is a service for student clubs: a FastAPI backend (`be/`), a
web client (`fe/`) and an AI layer (`be/app/ai`). A club plans an event in a
conversation with an assistant, edits the generated plan, confirms it, and
then operates the event step by step: approving notices and transfers,
answering questions, executing work, recording expenses. Around that there are
meetings with live transcription, task reminders, records and receipts.

The backend runs every request as an asyncio task with short database
transactions. Model calls take from seconds to minutes and always run with
*no* transaction open. What is hard in this code is therefore always the same:
something was read before the call, and is used after it, and anything may have
happened in between: another request, an edit, a confirmation, a crash, a
timeout. This project models that.

## Inventory

| Component | State | Operations | What is hard | What makes it correct |
|---|---|---|---|---|
| Idempotency keys (`core/idempotency.py`) | one row per member, endpoint and key: status, body hash, modified_at, response | resolve, save_response, release, lookup | takeover of stale rows, two retries at once, crash while PROCESSING | a request is saved once; a replay tells the truth; nobody waits forever |
| Planning turns (`planning_service.py`) | Conversation.base_revision and resume_state, Event, Step and Action rows | open_chat, open_generate (resolve, prepare, model call, finish, release), lookup_request | three or four transactions around a long call | no lost update; a confirmed plan is untouched |
| Plan edits (`event_service.py`, `routers/plan_items.py`) | Step, Action, Event derived values, plan_revision | update_step, update_action, replace_plan_steps, snapshot | race with turns and with confirmation; one amount in three places | the revision moves with every save |
| Plan review (`plan_review_service.py`) | one PlanReview row per event | request_review, _store_result, reset_baseline, review_out | late results, repeated requests, timeout | a shown review is of the plan shown |
| Event operation (`action_service.py`, `event_rules.py`) | Event.status, Step.completed_at, Action.status and version, cancellation tasks | start, complete, cancel, approve, deny, resolve, mark_done, complete_step | members act on old screens | approvals are informed; closed events stay closed |
| Action drafts (`action_draft_service.py`) | content, content_status, content_source, draft_attempt_id | signal, mark, run, finish, redraft | late, replaced and lost attempts; signal after commit | members' texts win; the last attempt wins |
| Expenses (`accounting_service.py`) | Expense rows | from an executed transfer, by hand, update, delete | exactly once per transfer | ledger and approvals agree |
| Operation cases (`operation_cases.py`) | case stages, attempt token, linked confirmation | create, run(question), run(result) | attempt timeout, answer changed meanwhile | only the current attempt writes; one question per case |
| Receipt imports (`accounting_service.py`) | import, rows, job id | create, OCR, retry, edit, confirm | OCR answer after timeout and retry | rows of one reading; every row booked once, as seen |
| Reminders and push (`reminder_service.py`, `push_service.py`) | TaskSuggestion, ConfirmedTask, TaskReminder, subscriptions | confirm, edit, cancel, claim, deliver, settle | two lock orders; crash between claim and settlement | sent at most once, and as confirmed; due means attempted |
| Meeting review (`meeting_review_service.py`) | MeetingReview status and version | submit, poll, retry, names, draft, candidates | paid job whose answer was lost | paid once; minutes use the stored names |
| Records (`record_service.py`, `record_parser.py`, `chunking.py`) | Record, RecordChunk, stored file | upload, index, delete, search | deletion or second indexing during the embedding calls | row, file and chunks stay together; no text is lost in the chunks |
| Meetings, live judgement (`meeting_service.py`, `context_service.py`) | Meeting, TranscriptSegment, ContextDecision, TaskSuggestion | transcribe, correct, judge, extract | correction during judgement | nothing stands that was judged from a superseded text |
| Audio stream (`audio_stream_service.py`, `infra/stt.py`) | recorders, resume states, queue, AI tasks, detector | start, frame, end, resume, expire, drain | reconnection, expiry, full queue | speech is transcribed once, in order; COMPLETED means all of it |
| Planning agent (`ai/features/planning`) | draft, offer, refused changes, history | chat, tools, generate, capture state | what the model asks for is unpredictable; results of several turns combine | refused or outdated conditions are not planned from; the stored history can be restored |
| Planning stream (`planning_stream.py`, `llm_stream.py`) | displayed text, queue | chunks, reset, finish, disconnect | text that turns out to precede a tool call; late phase marks | the screen ends with the answer |
| Retrieval, meeting judge, Tori, drafts, model calls (`ai/`) | rounds, found chunks, trace, reply | search, assess, judge, answer, check, stream | arbitrary model output; records deleted meanwhile; cut-off replies | answers rest on what was found; nothing unchecked is kept |
| Agent jobs and activity (`agent_job_service.py`, `activity_service.py`) | AgentJob, ActivityEvent, cursors | create, start, finish, snapshot, poll | snapshot in several reads, reconnection | a watcher that has caught up sees what a fresh snapshot shows |
| Clubs, accounts (`club_service.py`, `auth_service.py`) | Account, Auth, Member, Invitation | sign up, log in, refresh, invite, accept | several invitations and people, expiry | one row and role per account; no session of another's account |
| Discord (`discord_service.py`) | connection, messages, decisions | create, update, ingest | redelivery, overlap with settings | a message is judged once |
| Schemas, evaluation scripts, web client, deployment | | | shapes, offline measurement, presentation | not modelled (see below) |

Components interact through the database and a few calls. All transactions that
touch an event lock its row first, which is why each is one action of the
models. `start_event`, `resolve`, `mark_done` and `complete_step` call the
draft service after their commit; a plan edit calls `bump_plan_revision` and a
generation calls `reset_baseline` inside theirs; `mark_done` writes the expense
in its own transaction; an operation case opens a confirmation in the event.

## Modules

| Module | Models |
|---|---|
| `Idempotency` | the key row and the helper functions, as operators |
| `Planning` | turns, edits, confirmation and review of one event; EXTENDS `Idempotency` |
| `Conditions` | the participation fee in its three places, and what a review saw of it |
| `PlanDiff` | what a review is told of the members' edits, and the check of its answer |
| `Operation` | one event from its plan to completion or cancellation, with drafts and ledger |
| `OperationCase` | one situation put to the model: attempts, question, answer |
| `ReceiptImport` | a receipt from upload to expenses |
| `Reminder` | suggestions, confirmed tasks, reminders, devices and the dispatcher |
| `Delivery` | the abstract promise that `Reminder` implements |
| `Meeting` | rows of a meeting, shared by the two users of them |
| `AudioStream` | connections that record a meeting; EXTENDS `Meeting` |
| `LiveJudgement` | judgement of its transcript; EXTENDS `Meeting` |
| `MeetingReview` | diarization, speaker names, minutes and candidates of a finished meeting |
| `Speech` | the utterance detector, saved speech and the filters of recognised text |
| `RecordIndex`, `Chunking` | records, files, chunks and searches; how a document is cut |
| `Activity` | jobs, events and a client that follows them |
| `Club`, `Discord` | accounts, sessions, clubs and invitations; the Discord connection |
| `AgentTurn`, `Conversation` | turns of the planning agent: draft, offers and tools; history and progress lines |
| `Generation` | reading step codes from streamed JSON, and validating a plan |
| `ReplyStream`, `LlmCall` | the streamed reply and its display; one model call and its errors |
| `Retrieval`, `MeetingJudge`, `Tori`, `Figures` | searching for evidence, and those who answer from it |
| `ActionDraft` | the checks of a drafted notice |
| `Services` | composes the parts that keep rows of their own |
| `MCPlanning`, `MCOperation`, `MCReminder`, `MCAudioStream`, `MCServices` | instances for TLC: plans, documents, model answers, symmetry |
| `PlanningProofs`, `OperationProofs`, `ReminderProofs` | theorems about those modules |
| `MeetingProofs` | theorems about `MeetingReview`, `LiveJudgement`, `Speech` and `Generation` |
| `RecordProofs` | theorems about `RecordIndex`, `ReceiptImport`, `OperationCase` and `Conversation` |
| `AudioProofs` | theorem about `AudioStream` |
| `AnswerProofs` | theorems about `Retrieval`, `MeetingJudge`, `Tori`, `LlmCall`, `ActionDraft` and `ReplyStream`, and lemmas about folds |
| `ServicesProofs` | theorems about `Discord`, `Club`, `Activity`, `Conditions`, `PlanDiff`, `AgentTurn` and the composition in `Services` |

How they compose. Parts that write the same rows are composed step by step:
`Planning` with `Idempotency`, `AudioStream` with `Meeting`, `LiveJudgement` with
`Meeting`, `MeetingJudge` and `Tori` with `Retrieval`. `Services` puts the
remaining parts side by side. None of them reads or writes a variable of
another (the review and the judgement of a meeting both read its status, and
share the step that changes it), so a behaviour of the server is an
interleaving of theirs and an invariant of one part, which only speaks of its
own variables, holds in every interleaving if it holds in the part alone. `focus`
is the part that moves next. It passes from part to part at any step, or, with
`OnePartAtATime`, stays where it started. The theorems hold for both settings; TLC
runs the second, since the full product has the same reachable states of each
part and too many of all.

### Planning

`req[r]` is a request in the server. Its `pc` follows `_open_turn`: `Send` (the
router's unlocked check), `ReadKey`, then `InsertKey` or `TakeOverKey`
(transaction 1: two actions, because the row is read and written by separate
statements and the unique constraint, or the conditional UPDATE, decides),
`Prepare` (transaction 2), the model call (no action: time passes), `Finish` or
`FinishRefused` (transaction 3), `TurnError`, and `Release` (transaction 4).
`Crash` removes a request anywhere in between, also where a cancelled task is
not caught by `except Exception`.

The plan is represented by `content`, a version number of what the event's rows
say, and `rows`, the identity of the set of Step and Action rows. `_save_turn`
and `_materialize_preview` are `SaveTurn` with its three kinds of turn: an
answer only, changed conditions, a generated plan. A model's answer is any of
them. `body` stands for the request body by the base revision it carries: bodies
of one revision with different messages are not told apart, and the mismatch of
a key and a body is the mismatch of revisions.

`writes` is a history variable: every overwrite of the plan as a whole, with the
plan it was computed from and the plan it replaced. The time-outs are
booleans (`stale`, `timedOut`): the code only ever compares an age with one
limit.

A review request carries the plan revision it expects; one with another
revision is refused, which changes nothing and is not an action. The baseline
and its comparison with the plan are input to the model call.

### Operation

A member's `screen` is an earlier response: the action, its version and what it
said. Members only act on what is on their screen; `Submits` is the version
check. `content` numbers what a reader of an action sees. `signal` says that the
member's request has committed and has yet to call
`request_current_step_drafts`, which may fail (`signal_lost`). A running draft
is a pair in `tasks`; it may end late, fail, or be lost, and `draft_ages` is the
three-minute limit. A plan's actions start without an amount, as generated; an
edit makes a transfer `priced`. `expense[a].row` is the ledger row, which
members may correct or delete at any time; `times` and `content` remember what
was recorded.

What Operation leaves out: regeneration and replacement of the steps while
planning (Planning's part: the rows are those of the plan that is confirmed),
roles (every service role may do everything that is
modelled), removal of members (which empties `resolved_by`), edits of step
dates, the text of answers to confirmations, and everything about operation
cases other than that a question becomes a confirmation (`OperationCase` has the
rest). `start_event`'s need for a start date is part of Planning.

### Conditions

`Event.fee_per_person`, the amount of the COLLECT_FEES action and the fee in the
conversation's draft. A whole turn is one step, which Planning's
`NoLostUpdate` justifies: a turn that is saved found the plan as it had read it.

A review is told of edits by `PlanDiff`: the plan as generated and the plan as it
is, after any sequence of removals, restorations, moves, new dates and changed
actions, are compared the way `build_review_request` does it.

### Reminder and Delivery

A change of a task locks the task's row, then the reminder's; the dispatcher
locks the reminder's row (skipping those an edit holds) and reads the task
without a lock. Each lock is a step (`LockItem`, `LockReminder`, then
`update_confirmed_task`, `cancel_confirmed_task` or `EndUnchanged`; `LockDue`, then
`claim_due`), and the end of a transaction releases all: between its second lock
and its commit an edit holds the row, a poll passes it over, and the dispatcher's
own updates (`settle`, `Uncertain`) wait.
`send` and `record` are the push to one device and what is stored of it,
`settle` the outcome; `Uncertain` is an exception in between and `Restart` a server
that dies at any point: its transaction is rolled back and its pushes stay
pushed. `pushed` counts pushes per task and device since the last scheduling.
`Delivery` says the same without rows, locks or dispatchers: a reminder is
scheduled, attempted or cancelled, and a device gets at most one push in an
attempt. `OneShot` is the mapping.

### AudioStream, Meeting, LiveJudgement, Speech

A connection (`stream[s]`) has its protocol state, its queue of utterances, the
ordered STT worker and the AI tasks it started. A lost connection leaves
`resumable` for the next one, which waits for the worker before it;
`forget_resume` is the 60-second timer and `expire_resume` what it starts, step
by step between its awaits. A resumption awaits `on_resume` between looking its
state up and taking it (`Resume`, `ResumeChecked`, `Resumed`), and the timer may
fire in that wait: `raced` remembers that it did. A connection that ends by an
error still puts its tail into the queue (`ProtocolError`, `Break`). Utterances are
numbered by their place in the order of speech, and a frame (`Feed`) cuts up to
two of them, of which a full queue drops the rest. A recording starts anew only
where no expiry of an earlier one is still at work. `Speech` has what is
abstracted here: the detector's
arithmetic (blocks, pre-roll, silence, maximum length), the frames'
timeline, the assembly of the saved speech, and the filters against text that
a recogniser invents from silence. `LiveJudgement` follows a segment's job through
the decision that is committed first and the suggestions that come later, with
corrections in between.

### The other parts

Each module's header names the files and functions it models. They follow one
pattern. A request has a `pc` for the place where it awaits something;
transactions are single steps; a model, a provider or a client answers anything
its schema lets through, late, twice or never; time-outs are flags that a step
may set. Pure algorithms (`Chunking`, `Figures`, `PlanDiff`, the reader in
`Generation`, the filters in `Speech`, the checks in `ActionDraft`) are operators, and
their inputs are enumerated by the initial states or by the first step, around
the limits that the code compares with.

## Runs

Runs that pass:

| Run | Instance | Shows |
|---|---|---|
| `PlanTurns` | 3 requests, 1 key, revisions to 2, plan changes to 3 | `NoLostUpdate`, `RetrySavesOnce`, `AnsweredTurnWasSaved`, `ConfirmedPlanIsFrozen`, also for turns that outlive their key |
| `PlanKeys` | 3 requests, 1 key, revisions to 2, turns end before their key is stale | `SavedTurnHasCompletedKey`, `OneHolder`; liveness `LookupSettles` |
| `PlanReview` | 1 request, 2 reviewers, revisions to 4 | `ReviewIsOfCurrentPlan`, `OneReviewPerRevision`; liveness `ReviewSettles` |
| `OperationDrafts` | 2 members, 1 notice, 5 versions, 2 attempts | `ApprovedAsSeen`, `LatestAttemptWins`, `MemberTextIsKept` |
| `OperationSteps` | 1 member, notice and mail in 2 steps, 2 attempts | `DraftsFollowTheSteps`; liveness `DraftingSettles` |
| `OperationLedger` | 1 member, transfer and confirmation in a step, 1 confirmation without one, 4 cancellation tasks | `EventClosesInOrder`, `LedgerMatchesApprovals`, `StepClosesWithItsActions`, `ClosedEventIsReadOnly` |
| `Reminders` | 1 task, 1 account with 2 devices, 1 dispatcher, 1 editing request, 2 texts, times to 2 | `SentAsConfirmed`, refinement `AtMostOnce`, liveness `DueIsAttempted` |
| `MeetingAudio` | 2 connections, 2 segments, a queue of 1 | `TranscriptIsWhole`; liveness `StreamsFinish` |
| `Services` | 22 parts, one at a time; see `Services.cfg` | one invariant for each question below |

What `Services` asks:

| Invariant | Part | Says |
|---|---|---|
| `CaseIsAnsweredOnce` | OperationCase | late and repeated attempts neither ask twice nor overwrite; a case does not look busy for good |
| `ReceiptIsBookedOnce` | ReceiptImport | rows come from one reading, and are booked once and as the confirming member saw them |
| `RecordsStayWhole` | RecordIndex | row, file and chunks stay together, but for an upload that fails after its commit; a deleted record is not found |
| `WatcherIsUpToDate` | Activity | a client that has caught up shows what a fresh snapshot would, but for jobs whose last events were committed behind its cursor |
| `ClubsAreInOrder` | Club | one membership per account, invitations used once, no session of another's account |
| `DiscordIsReadOnce` | Discord | a message is judged once, from stored messages |
| `MeetingIsJudgedAsSaid` | LiveJudgement | what stands was judged, and what is suggested extracted, from the words as they are |
| `ReviewIsPaidOnce` | MeetingReview | one paid job; unless a session writes an overtaken copy of the row, a result is kept, minutes use the stored names and candidates are saved once |
| `PlanIsToldAsItIs` | Generation, PlanDiff, Conditions | a plan is announced as written and shown only if it fits catalogue and dates; a review is told the real edits, and saw the steps and amounts of its revision |
| `AgentKeepsItsWord` | AgentTurn | plans and refusals stay as told, the offer put off last is not made again; a turn is bounded |
| `TextIsToldAsItIs` | Chunking, Figures | chunks cover the text; a figure that is read whole is supported by a text if and only if it is there |
| `AnswersRestOnRecords` | Retrieval, MeetingJudge, Tori | sources were found, traces are right, the chunks read hold what was asked for, an answer and a list do not use deleted records |
| `OutputIsChecked` | Speech, ActionDraft, LlmCall, ReplyStream, Conversation | saved speech fits together, no text from silence, no invented date or amount, no half reply; the screen ends with the answer; progress ends as its result says and the history can be restored |

Bounds. Three requests are what a takeover race needs: one that died and two
that find its key stale. Two revisions suffice for a turn to be prepared, lose
to another, and be refused, with a third plan change for an edit that comes in
between; the review needs four, for a generation, an edit, a
review and a second generation. Two draft attempts give one that is replaced and
one that replaces it; five versions of the notice let it be drafted, edited,
approved, edited again and approved again. A transfer needs four versions:
priced, approved, executed. `Reminders` has the one dispatcher of the deployed
server, a task that is confirmed, edited and cancelled, and two devices, so that
a server can die between them; any number of each is the theorem's. Two
connections and two segments let a recording be resumed with speech queued and
unfinished, and with a queue of one it is full at once. In `Services` two callers,
uploads, keepers, collectors or editors are the one that is late and the one that
overtakes it, three attempts let a second be overtaken too, and lengths and
numbers lie on both sides of each limit: `CHUNK_MAX_CHARS` and the detector's
limits are scaled down with everything that is compared with them. The bounds
on revisions stop the model, not the
system, so deadlock is not checked: a finished event has nothing left to do.
Requests, keys and members are used symmetrically in runs without liveness
properties.

Two constants switch on behaviour under which a property fails, and say so
where they are declared; the runs have them off and the hazards in
`PROJECT.json` describe them. `KeyMayChange`: a restart loses the diarization
provider's key while a submission is in flight; a retry then pays again
(`PaidOnce`). `SlowStorage`: reading a receipt's photo outlasts the OCR timeout;
the handler that fails then looks at a stale row. Everything else that breaks a
property is in the model as it is in the code, and the property says what remains
true (below, where code and documents disagree).

Fairness. `Planning!Fairness` lets a request in the server go on until it ends or
crashes (asyncio runs every ready task; the model client has time-outs), and
the clock run; `Operation!FairSpec` only lets the clock run: nothing is assumed
of tasks, of the model, of clients or of members. `LookupSettles` runs with
turns that end before their key is stale. `Reminder!FairSpec` lets accepted
requests go on and the dispatcher poll, weakly, and assumes strongly that a
dispatcher which again and again reaches the claim does not die every time
before its commit. Nothing makes a poll meet a row that edits take again and
again (each poll may fall between two of them or not), so `DueIsAttempted` is
about rows that edits leave alone from some time on, however often they were
skipped before. `AudioStream!FairSpec` lets the event loop run its tasks and
timers (providers time out); nothing is assumed of clients.

Every property has a mutant: the operators marked `Fault` are plausible mistakes
in the code at that place (a check left out, an age not looked at, a wrong
order), and the run finds each of them. Where an invariant has several parts
there are faults for the others too, each of which the same run finds:
`Conversation` ToldWhenApplied, `ReplyStream` AcceptKeepsText,
`Generation` AtAnyCode, `Retrieval` FilterInSilence,
`MeetingJudge` RaiseUnrecorded, `Figures` FoundByValue, `Chunking` ClosesLate,
`ActionDraft` DateFromAnywhere, `LlmCall` FinishIfNotMarked, `MeetingReview` RetryAnew and DraftAnyVersion,
`LiveJudgement` JobForNext and CurrentAlways, `Operation` CancelInAnyOrder, `AudioStream` HearAtOnce.

### Where code and documents disagree

Three runs check what a document or comment says and find it violated.

* `PlanKeysSlow`. `be/README.md:72`: if a conversation was saved, its key is
  completed. A turn can outlive `STALE_PROCESSING_AFTER` (several model calls,
  each retried). A retry then takes the key over and keeps its primary key; the
  first turn is saved and completes the key; the retry is refused in `_finish`
  and its error handler deletes the row by primary key. The lookup of the
  saved request answers `not_saved`. The turn itself is neither lost nor
  doubled (`PlanTurns` allows slow turns).
* `PlanConditionsFee`. `event_service.py:505`: editing an amount realigns the
  value on the event. The next turn starts from the conversation's draft, which
  the edit did not reach, and writes the old fee back to the event.
* `MeetingEnds`. `be/docs/meeting-audio.md:102`: `finish` is refused during live
  capture, so that pending speech is not lost. A connection that drops is
  no longer counted as recording, though it can be resumed for 60 seconds and
  its speech is still queued. `finish` then completes the meeting, and what was
  queued is refused.

In six more places the code does not keep what a document or comment says. The
models do there what the code does, and mark it; the properties that are checked
and proved say what remains true in every behaviour and name the exception. What
the document says is stated in the module as well, in words of its own, and no run
lists it: TLC finds it violated in the instance named here.

* `SpeechOrder` (`MeetingEnds.cfg`).
  `be/docs/meeting-audio.md:83`: new speech waits for the worker before it, which
  keeps the transcript in order. A resume looks its state up, awaits a check of
  the meeting and takes the state only then (`audio_stream_service.py:307-314`); if
  the 60 seconds run out in between, the expiry recognises the tail outside of
  any worker, beside the resumed connection. `raced` marks these recordings;
  `TranscriptIsWhole` says what is true even of them (nothing is recognised
  twice), and of the others.
* `PollingIsSafe` (`Services.cfg`). `meeting_review_service.py:389`: polling a known
  job is safe to retry. `fail_diarization` (line 285) locks the row but judges the
  copy its session loaded before the call to the provider. A slower poll that
  fails marks a diarization FAILED that has arrived in the meantime. The job id
  stays, so a retry polls it again and nothing is paid twice. The same holds of
  copies read before other calls: two requests that overlap can save the
  candidates of one review twice (line 193), or minutes written from names that
  have changed. `overtaken` marks the behaviours in which such a copy was
  written.
* `RecordKeepsItsFile` (`Services.cfg`). `record_service.py:152`: a record that is
  left must not lose its original. `upload_record` reads the committed row back
  inside the `try` whose `except` deletes the stored object (lines 89-96).
  `unfiled` has these records.
* `NothingIsMissed` (`Services.cfg`). `activity_service.py:37`: what happens while a
  snapshot is read is received again from the stream. An event has its id before
  its transaction commits (`agent_job_service.py:28`); if one with a greater id
  commits first, a cursor passes it. `passed` keeps the jobs this happened to,
  and `WatcherIsUpToDate` speaks of the others, and of these again once they have
  a newer event.
* `NoOfferTwice` (`AgentTurn` alone, `SPECIFICATION AgentSpec`, three turns, two
  tool calls, a history of 15). `step-05-generation.md:161`: an offer for the same
  conditions is blocked after it was put off. Only the last offer is kept
  (`offers.py:59`), so one for other conditions in between makes the agent forget
  the deferral.
* `FigureIsInTheText` (`Services.cfg`). `tori/records.py:57`: code checks that the
  figures of an answer are in the cited text. `2만 3천400` is read as two figures
  (line 70), so a claim of 23,000 or of 400 passes on a text that says 23,400.

## Proofs

All theorems are checked by TLAPS and hold for every number of requests, keys,
reviewers, members, actions, steps, tasks, accounts, devices, dispatchers,
connections, callers, uploads, records, people, clubs, messages, jobs and watchers, and for
every value of the bounds. They rest on the named assumptions of the modules
(`NobodyAssumption`, `NoOneIsNobody`: a model value that stands for nobody is not
somebody; `PlanningAssumption`, `OperationAssumption`, `ReminderAssumption`,
`CaseBounds`, `RecordBounds`, `ReceiptBounds`, `ClubBounds`, `ActivityBounds`,
`AgentAssumption`, `AudioAssumption`, `RetrievalAssumption`, `JudgeAssumption`, `ToriAssumption`,
`LlmAssumption`, `DraftAssumption`, `SpeechAssumption`, `ReplyAssumption`, `TalkAssumption`,
`DiffAssumption`, `GenerationAssumption`: the bounds are natural numbers, flags are
Booleans, steps are numbered, the audio queue holds something, a club has finitely many
records, a search returns no chunk twice, drafts consist of the marks the checks look for,
the catalogue is finite and each of its codes has a phase, an event does not end before it
starts (`PlanningConditions` refuses it), and the audio kept before speech is shorter than
the longest utterance), and some of them on
a hypothesis that the theorem states. Almost no property is inductive as it stands.
The paragraphs below say what each invariant adds to it, which is also what the code
relies on without saying so.

`PlanningProofs`

* `TypeCorrect`: `Spec => []TypeOK`.
* `NoUpdateIsLost`, `RetriesSaveOnce`. `NoLostUpdate` is not inductive: it
  speaks of writes that have happened. `TurnInv` adds why the next one is right.
  *ReadsAreCurrent*: whatever a running turn or a snapshot on screen has read is
  of a revision not above the current one and, if its revision is the
  current one, it is the current plan. This holds because every change of the
  content while planning moves the revision. *WritesAreOrdered*: each
  write created the revision after its body's, no two wrote the same one, and
  none is above the current revision; so two saves of one body are one save.
* `PlanIsFrozen`: the action property, from the checks under the lock.
* `AnswersAreTrue`. `AnswerInv`: a COMPLETED row (*RowHonest*) and a request that
  was answered (*RequestHonest*) each name a write of the same key and body. A
  body is compared before a replay, and the holder of a row has the row's body,
  since a takeover only happens for an equal body.
* `KeyHasOneHolder`, `SavedKeysAreCompleted`, for `~SlowWorkers`: no turn outlives
  the staleness of its key. `KeyInv` adds to `AnswerInv` that the request
  that believes it owns a row was the last to stamp it and the row is not stale
  (*KeyUse*), that stamps come from requests that have come that far
  (*RowStamped*), and that the key of a saved turn holds its answer (*KeyDone*). The
  hypothesis is needed: with slow workers `PlanKeysSlow` shows a turn whose
  key another request took over.
* `ReviewIsCurrent`, `ReviewedOnceAtATime`. `ReviewInv`: the answer a review row
  waits for is about the plan as it is (*ReviewFollowsPlan*), and a reviewer
  that works on the current revision in time is the one the row waits for
  (*ReviewerInTime*). `_store_result` compares both the request and the revision;
  without either comparison the first part fails.

`OperationProofs`

* `TypeCorrect`.
* `ApprovalsAreInformed`: `Spec => []ApprovedAsSeen`. `SeenInv` adds that screens
  are faithful (*ScreensAreFaithful*): a screen's version is not above the
  action's, and at the same version it shows the action as it is. The
  argument is in `AdvancingStep`: every step either leaves content and version
  alone or moves the version. That is the discipline the code keeps by hand in
  `_set_resolution`, `update_action`, `request_redraft` and `_finish`.
* `LateDraftsAreDropped`, `NoDraftAhead`, `EventsCloseInOrder`, `LedgerIsRight`,
  `StepsCloseInTime`. One invariant, `OperationInv`, is the conjunction of the
  five with *DraftHistory* (only attempts and members leave text on an action)
  and *CancellationWaits* (no cancellation work before the cancellation): an
  event closes in order because its steps do, and a step does because its
  actions are settled.
* `MembersKeepTheirText`, `ClosedEventsStay`: action properties, the second from
  `OperationInv`, since `update_action` does not ask for `ON_GOING` and relies on
  a completed event having nothing left to edit.

`ReminderProofs`

* `TypeCorrect`, `SendsWhatWasConfirmed` (`Spec => []SentAsConfirmed`). The
  dispatcher reads the task without locking it, so that what it sends is right
  is not inductive by itself. `IInv` adds *LockIsOwned* (a reminder's row is locked
  by the dispatcher that is at it, and by no other), *LockedIsPending*,
  *RowsTogether* (the reminder of an active task is not cancelled) and
  *PushesLeft* (devices still to be pushed have not been pushed).
* `RemindersAreOneShot`: `Spec => AtMostOnce`, that `Reminder` implements
  `Delivery`. Under `IInv` every step of a member, a dispatcher, a restart or the
  clock is a step of `Delivery` or leaves its state alone (`StepRefines`);
  *PushesLeft* is what lets a push map to a first push.

`MeetingProofs`

* `MinutesAreKept`, in every case, from `MinutesInv`: requests work on copies of the
  row and write them back whole. A copy of the present version has what the row
  has (*CopyFits*: the names a draft is written from, no candidates yet, no result
  yet), and one of an older version may be written all the same: from then on
  `overtaken` holds, and what remains is that a row with a result keeps its job.
* `DiarizationIsPaidOnce`, for `~KeyMayChange`. `BillingInv` says where the one
  payment is: not made while the row is queued, owed by the only request that
  submits, or behind the job the row names (*Billing*, *RequestsFit*), and never
  made without a provider (*NoProvider*). It needs nothing of copies: an
  overtaken one that is written keeps the job.
* `MeetingsAreJudgedAsSaid`, from `JudgementInv`: what stands on a row is of the
  segment's present version, a row that is decided but not yet settled may
  only be overtaken, and a suggestion is of the words it was extracted from
  (*RowFits*).
* `SpeechIsWhole`. `VadInv` relates the detector's clock to what it keeps: the frames
  before speech end where it stands and begin after the last utterance cut, and
  speech under way is as long as the time since its start. Utterances of one
  detector follow each other from where the stream began (`SavedInv`), so a
  resumed stream, which begins later, cannot overlap; what is left for
  `assemble_meeting_wav` to refuse is a recording past `MAX_MEETING_MS`. `HearInv`: a
  text comes of audio with voice in it.

* `PlansAreToldAsWritten`. The reader of a streamed plan knows only a stack of open
  objects and arrays and the string it is in, and the text may come in any pieces. The
  argument is about the run of the reader over the whole text (*ReaderRun*): what is
  found is only ever added to (*Extends*), every word, string, member and object takes
  the reader from one state between tokens to the next (*Reads*, *Between*, *Within*), and
  only the value of a key "code" directly in a step of the plan adds anything
  (*StepCode*). So the whole text yields the codes of its steps (*Announced*), and a piece
  of it a beginning of them. `GenInv` adds where the reader is in the text (*Following*).
  That a plan which passes validation lies on one time line is counted: its steps and
  what it leaves out are distinct and as many as the catalogue has, so nothing is
  missing.

`AudioProofs`

* `TranscriptKept`: `TranscriptIsWhole`, for every behaviour. `AudioWhole` has two
  parts. `OnceInv` holds also when a resume was let through whose window ran out
  while it was checked: what a queue holds was cut, is in no chunk and in no
  other place (*PlaceFits*), and what comes next is numbered later (*ChunksFit*),
  so no utterance is recognised twice. `AudioInv` is for the recordings where that
  has not happened (`~raced`), and says where every utterance is.
  *InLine*: the live connections of a recording can be numbered so that each
  follows the one it resumed, the last of them records or can be resumed, and
  none hears anything before all those in front have stopped. New speech goes to
  the last one, and what is said is later than all that was cut (*QueueFits*,
  *CutFits*), so that the queues read in this order are the order of speech and
  the next utterance heard is later than every segment (*Unsaid*,
  *HearingFits*). *SpokenFits*: what was cut has been recognised, is queued, is
  being heard, or was counted as an error. The connection that reports the end
  is the last of the line, since it still holds the recorder, and the first, since
  `_drain` has waited for the one before it: hence no other is left, and
  COMPLETED means that all of it was heard (*ReportFits*). A start sets the
  count of errors back; *NothingYet* is why the question of `may_start`, whether
  there are chunks, suffices for no lost speech to be forgotten by that. *ExpiryFits* is what
  the race breaks: an expiry at work is of the connection that can be resumed,
  so nobody records beside it.

`RecordProofs`

* `RecordsAreWhole`. `RecordInv` says what a request under way has left behind
  (*KeeperFits*: an upload owns its object until the row is committed, a deletion
  takes away objects of deleted rows only), that two uploads store different
  objects, and what a search has already excluded (*SearchFits*). Rows without a
  file are those of uploads whose refresh failed after the commit (`unfiled`).
* `ReceiptsAreBookedOnce`, for `~SlowStorage`. `ReceiptInv`: each request waits for a
  job of its own and one that still reads the original for the job the import
  names (*UploadFits*, *UploadsWaitApart*), rows are there from the reading on
  (*ImportFits*), and a screen of the import's version shows its rows (*ViewFits*).
* `CasesAreAnsweredOnce`. `CaseInv`: the attempt on the row is the newest or none
  (*AttemptIsNewest*), the confirmation is opened by the answer that ends
  the question stage and the result stage is entered from an answered one
  (*StagesInOrder*), and a request that waits for the model with the current token
  is the one its stage is `PROCESSING` for (*CallsHoldAttempts*). The last is why
  comparing the token is enough and the stage need not be compared.

* `ConversationCanGoOn`. The code checks a history with a validator that goes over it
  once; the property reads it without one. `ConversationInv` says why both agree: the
  calls of a response are answered, in order, by the messages after it, and the calls
  that have no answer yet are those still to be run (*Exchange*). In step with that, a
  call that was announced is told of and open, one that was answered is told to its
  end as its result says (completed, failed, or skipped for a change that changes
  no field), and nothing was said of any other (*Progress*), which is what
  refusals, the limit on tools and a search next to a change must keep to. *FactsFit*: no search came
  between the facts of a generation and the generation.

`AnswerProofs`

Loops that build a list are folds. `FoldReaches` is the rule for them: if the value
before each element lies in a set whose every member the element takes into the
next set, the result lies in the last one. It rests on `UpTo`, induction over a
set of numbers by the least one that is missing.

* `SearchFindsItsEvidence`. `SearchInv`: a round has no query that was searched
  before (*CleanQueries*), adds chunks that are not there yet (*RoundReaches*), and
  what a search ends with rests on its chunks, also when the last round found nothing.
* `JudgementsAreTraced`. `JudgeInv`: the trace of a judgement under way is the one of its
  stage (*CallsAt*), so a failed call ends it. `SelectIsGood`: for any candidates, the
  chunks the answer is written from repeat none, fill the limit and hold every item
  asked for that a candidate of the year holds. `EventInv` is about the answers from
  events.
* `ToriCitesRecords`. `ToriInv` has two parts: what holds at every step, whatever others
  do (*TalkInv*), and what is true of a reply at the step it leaves (*Leaves*), which is
  the step that reads the records and the membership again. That step reads the
  items and the answer again; the summary of the search goes out as it was
  written, so the theorem does not speak of it.
* `ModelRepliesAreWhole`. `LlmInv`: the text told so far is that of the message collected so
  far (*Collected*), and what is handed on is whole or its error is true (*WholeReply*,
  *ToldTruly*).
* `DraftsSayTheGiven`. `DatesJudged`: reading a text from left to right, with the month of
  the last date and whether the next mark follows it directly, finds exactly the
  dates that the text says by its marks. Hence a text passes if and only if it says
  what was given (*ViolationsFound*).
* `StreamShowsTheAnswer`. A client reads late, so nothing holds of its screen alone.
  `ReplyInv` speaks of what a client that reads on will show (*Arrives*): while a call runs,
  exactly what `ReplyStream` keeps as sent, which is put together of text marked as the
  answer, in order (*DisplayFits*), and afterwards the answer of the turn. That the code
  compares the final answer with what it sent, and resets the screen unless the one
  begins with the other, is what brings the two together.

`ServicesProofs`

* `DiscordIsRead` (`DiscordInv`), `ClubsStayInOrder` (`ClubInv`: a renewal under way is
  of one's own session, an account with a Kakao id was set up by its owner,
  only members of service roles are invited, into clubs that exist), and
  `WatchersAreUpToDate` (`ActivityInv`: events of an open transaction come after
  all that were committed of the same job, since its row is locked, the status
  of a job is that of its last event, and a client has that event, or is still
  going to get it, unless it was committed behind its cursor).
* `ReviewsAreToldTheEdits`. `DiffInv`: a plan is a line of the catalogue sorted by phase
  (*Lines*, *Phased*), also after any edits, and what it lacks was left out by the model or
  by a member (*LeftOut*). Two steps that changed places are therefore in one phase, and
  comparing the places of the common steps phase by phase finds one of them, while
  it finds none if no two did.
* `ServerTellsPlansAsTheyAre` joins that and `PlansAreToldAsWritten` with
  `ReviewSawCurrentSteps` (`RevisionInv`: the revision a review names is never above
  the plan's, so a step that moves the revision leaves every older review behind).
* `ServerAgentKeepsItsWord`. `AgentInv` asks the same of the stored state and of the
  copy a turn works on (*KeepsItsWord*), since the copy is what a turn stores. It
  says more than the property: the last deferral is about the offer as it stands.
  That is why a new offer, which the code makes only for other conditions than
  those of the offer there is, cannot repeat the one put off last; of earlier
  ones nothing is known (`NoOfferTwice`). *CallsAreCounted*: tools are offered below the limit only, and the
  first call of a response is counted even if it is refused, so there are never
  more model calls that ask for tools than counted tool calls.
* The other theorems named `Server...` carry the results above, and those of
  `MeetingProofs`, `RecordProofs` and `AnswerProofs`, over to `Services!Spec`, where `TLC` checks the same properties.
  `StepOfAPart` is the argument: a step of the server is a step of the part or
  leaves all its rows alone. `StepOfAMeeting` is the one place where a part may be
  moved by another: the end of a meeting, which the judgement and the review
  share, is a step of both.

Only model-checked:

* The liveness properties and everything that needs fairness or ENABLED, which
  are out of the prover's reach.
* `TextIsToldAsItIs`: how documents are cut into chunks and figures compared. The
  chunker folds over sequences of sequences that it filters and flattens (`SelectSeq`,
  `FlattenSeq`), of which the library has no theorems; what it returns is checked on the
  documents of the run.

## Not modelled

* A numeral without a unit in a claim of the assistant: the code does not check
  it, so neither does `Figures`.
* Formatting, wording, prompts, and what a language model or a recogniser
  makes of its input: any answer that its schema admits is possible.
* Formats of uploaded files, the voice classifier, hashing and tokens, push
  encryption, vector distances: libraries, modelled by what the code asks of them.
* Schemas of requests and responses beyond the checks an operation makes; error
  codes, paging and listing.
* The web client, apart from the order in which it applies streamed messages.
* Evaluation scripts, migrations, deployment.
* In `Operation`, removal of members during operation; in `LiveJudgement`, the
  order in which a client polls segments.
