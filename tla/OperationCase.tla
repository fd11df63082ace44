--------------------------- MODULE OperationCase ---------------------------
(***************************************************************************)
(* One operation case of an event under way: a member describes a          *)
(* situation, the model either suggests what to do or asks a question that *)
(* becomes a confirmation action, and the answer to it is sent back to the *)
(* model.  No lock is held during a model call, and a call older than      *)
(* ATTEMPT_TIMEOUT may be replaced by a second one whose answer overtakes  *)
(* it.                                                                     *)
(*                                                                         *)
(* The action row and its answer are module Operation's; here they are a   *)
(* count of the rows the case opened and the fact that it was answered.    *)
(***************************************************************************)
EXTENDS Naturals

CONSTANTS Callers,         \* requests that may be under way at once
          MaxCaseAttempts  \* bound on the attempts of a case

ASSUME CaseBounds == MaxCaseAttempts \in Nat

VARIABLES case,      \* the OperationCase row
          calls,     \* per caller, where its request stands
          operating  \* the event is ON_GOING

caseVars == <<case, calls, operating>>

----------------------------------------------------------------------------
(* Types *)

Situations == {1, 2}
Stages == {"QUESTION", "RESULT"}
Error == {"NONE", "AI_INVALID_INPUT", "AI_UNAVAILABLE", "EVENT_NOT_ON_GOING",
          "AI_INVALID_RESPONSE"}

\* `situation` is 0 while there is no row; `actions` counts the
\* CONFIRMATION actions inserted for the case (action_id is the last one) and
\* `answered` says that it is DONE; `attempt` numbers attempt_id
\* (0 for NULL); `expired` says that ATTEMPT_TIMEOUT has passed since
\* attempt_started_at; `written` is the attempt whose result is stored.
Case == [situation: Situations \cup {0},
         question: {"PENDING", "PROCESSING", "NEEDS_ANSWER", "NO_QUESTION",
                    "FAILED"},
         result: {"NOT_REQUESTED", "PROCESSING", "READY", "FAILED"},
         actions: Nat, answered: BOOLEAN, attempt: 0 .. MaxCaseAttempts,
         expired: BOOLEAN, error: Error, written: 0 .. MaxCaseAttempts,
         issued: 0 .. MaxCaseAttempts]

\* A request that has committed the case but not started its question, or
\* that waits for the model in the attempt it holds.
CaseCall == [at: {"IDLE", "CREATED", "MODEL"}, stage: Stages,
         token: 0 .. MaxCaseAttempts]

Idle == [at |-> "IDLE", stage |-> "QUESTION", token |-> 0]

CaseTypeOK ==
    /\ case \in Case
    /\ calls \in [Callers -> CaseCall]
    /\ operating \in BOOLEAN

CaseInit ==
    /\ case = [situation |-> 0, question |-> "PENDING",
               result |-> "NOT_REQUESTED", actions |-> 0, answered |-> FALSE,
               attempt |-> 0, expired |-> FALSE, error |-> "NONE",
               written |-> 0, issued |-> 0]
    /\ calls = [c \in Callers |-> Idle]
    /\ operating = TRUE

----------------------------------------------------------------------------
(* Creating the case *)

\* The row is locked out by the event's lock, so two creates are ordered; one
\* with the same client_request_id finds the first one's row and neither
\* changes it nor runs it (another situation is an IdempotencyConflict).
create(c, s) ==
    /\ calls[c] = Idle
    /\ operating
    /\ case.situation = 0
    /\ case' = [case EXCEPT !.situation = s]
    /\ calls' = [calls EXCEPT ![c].at = "CREATED"]
    /\ UNCHANGED operating

----------------------------------------------------------------------------
(* One attempt: taking it, and applying what the model answered *)

answered_already(stage) ==
    \/ stage = "QUESTION" /\ case.question \in {"NEEDS_ANSWER", "NO_QUESTION"}
    \/ stage = "RESULT" /\ case.result = "READY"

in_progress ==
    /\ case.question = "PROCESSING" \/ case.result = "PROCESSING"
    /\ ~case.expired

\* The stage's own status column.
WithStatus(row, stage, st) ==
    IF stage = "QUESTION" THEN [row EXCEPT !.question = st]
                          ELSE [row EXCEPT !.result = st]

Cleared(row) == [row EXCEPT !.attempt = 0, !.expired = FALSE]

FailedWith(stage, code) ==
    Cleared([WithStatus(case, stage, "FAILED") EXCEPT !.error = code])

\* The first transaction of run.  A request the contract refuses
\* (AI_INVALID_INPUT) fails in the same transaction, without an attempt.
begin_run(c, stage, valid) ==
    /\ \/ calls[c] = Idle
       \/ calls[c].at = "CREATED" /\ stage = "QUESTION"
    /\ case.situation # 0
    /\ operating
    /\ ~answered_already(stage)
    /\ ~in_progress
    /\ stage = "RESULT" => case.question = "NEEDS_ANSWER" /\ case.answered
    /\ IF valid
         THEN LET n == case.issued + 1 IN
              /\ n <= MaxCaseAttempts
              /\ case' = [WithStatus(case, stage, "PROCESSING") EXCEPT
                            !.attempt = n, !.issued = n, !.expired = FALSE,
                            !.error = "NONE"]
              /\ calls' = [calls EXCEPT ![c] = [at |-> "MODEL", stage |-> stage,
                                                token |-> n]]
         ELSE /\ case' = FailedWith(stage, "AI_INVALID_INPUT")
              /\ calls' = [calls EXCEPT ![c] = Idle]
    /\ UNCHANGED operating

\* Fault: the late answer of a replaced attempt is applied as well.
AnyToken(c) == TRUE

same_token(c) == case.attempt = calls[c].token

\* What the model answers: a suggestion, a clarification question, or an
\* error (AIError).
CaseAnswers == {"SUGGESTION", "CLARIFICATION", "ERROR"}

\* The row after the model's answer.  An answered confirmation is DONE and
\* never edited again, so OPERATION_ANSWER_CHANGED cannot arise here.
apply_answer(stage, n, answer) ==
    CASE answer = "ERROR" -> FailedWith(stage, "AI_UNAVAILABLE")
      [] answer = "CLARIFICATION" /\ stage = "RESULT" ->
           FailedWith(stage, "AI_INVALID_RESPONSE")
      [] answer = "CLARIFICATION" /\ stage = "QUESTION" ->
           Cleared([case EXCEPT !.question = "NEEDS_ANSWER", !.actions = @ + 1])
      [] OTHER ->
           Cleared([case EXCEPT
                      !.question = IF stage = "QUESTION" THEN "NO_QUESTION" ELSE @,
                      !.result = "READY", !.written = n])

\* The second transaction of run.
end_run(c, answer) ==
    /\ calls[c].at = "MODEL"
    /\ case' = LET stage == calls[c].stage IN
                 IF ~same_token(c) THEN case
                 ELSE IF ~operating THEN FailedWith(stage, "EVENT_NOT_ON_GOING")
                 ELSE apply_answer(stage, calls[c].token, answer)
    /\ calls' = [calls EXCEPT ![c] = Idle]
    /\ UNCHANGED operating

----------------------------------------------------------------------------
(* Around a run *)

\* action_service.resolve answers the confirmation the case points to.
answer_question ==
    /\ operating
    /\ case.actions > 0 /\ ~case.answered
    /\ case' = [case EXCEPT !.answered = TRUE]
    /\ UNCHANGED <<calls, operating>>

\* ATTEMPT_TIMEOUT passes.
attempt_expires ==
    /\ case.attempt # 0 /\ ~case.expired
    /\ case' = [case EXCEPT !.expired = TRUE]
    /\ UNCHANGED <<calls, operating>>

\* The process dies, or the client's connection is dropped, between two
\* transactions of a request.
call_lost(c) ==
    /\ calls[c] # Idle
    /\ calls' = [calls EXCEPT ![c] = Idle]
    /\ UNCHANGED <<case, operating>>

\* The event is completed (a PENDING confirmation prevents that) or its
\* cancellation begins.
event_ends ==
    /\ operating
    /\ operating' = FALSE
    /\ UNCHANGED <<case, calls>>

CaseNext ==
    \/ \E c \in Callers, s \in Situations : create(c, s)
    \/ \E c \in Callers, stage \in Stages, valid \in BOOLEAN :
          begin_run(c, stage, valid)
    \/ \E c \in Callers, answer \in CaseAnswers : end_run(c, answer)
    \/ answer_question
    \/ attempt_expires
    \/ \E c \in Callers : call_lost(c)
    \/ event_ends

----------------------------------------------------------------------------
(* What a reader is shown *)

\* render: a PROCESSING that has expired is shown as FAILED.
shown_status(st) == IF st = "PROCESSING" /\ case.expired THEN "FAILED" ELSE st

----------------------------------------------------------------------------
(* Properties *)

\* However often a slow model call is retried, the event gets at most one
\* confirmation for the case.
OneQuestionPerCase == case.actions <= 1

\* A stored result answers the question that was asked: if the case opened a
\* confirmation, the result was made after it had been answered, and by the
\* attempt that was current.
ResultRestsOnTheAnswer ==
    case.result = "READY" =>
        /\ case.actions > 0 => case.answered
        /\ case.question = IF case.actions > 0 THEN "NEEDS_ANSWER" ELSE "NO_QUESTION"
        /\ case.written = case.issued

\* A reader is told that work is under way only while some attempt may still
\* report: nothing the case shows is PROCESSING without a live attempt.
ShownProgressIsLive ==
    "PROCESSING" \in {shown_status(case.question), shown_status(case.result)} =>
        case.attempt = case.issued /\ ~case.expired

\* operation_cases.run: a retried or late model call neither asks twice nor
\* overwrites what a newer one stored, and the case never looks busy for good.
CaseIsAnsweredOnce ==
    /\ CaseTypeOK
    /\ OneQuestionPerCase /\ ResultRestsOnTheAnswer /\ ShownProgressIsLive

=============================================================================
