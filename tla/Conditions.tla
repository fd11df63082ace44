----------------------------- MODULE Conditions -----------------------------
(***************************************************************************)
(* The participation fee of a plan, which the code keeps in three places:  *)
(* Action.amount of the COLLECT_FEES action, Event.fee_per_person, and the *)
(* conditions of the conversation's draft, from which every turn starts.   *)
(* (SETTLE_EXPENSES and Event.budget_total are kept the same way.)         *)
(*                                                                         *)
(* Every operation here runs with the event row locked, and a turn is      *)
(* saved only if nothing was saved since it was prepared (NoLostUpdate in  *)
(* Planning), so a whole turn is one step.                                 *)
(***************************************************************************)
EXTENDS Naturals

CONSTANTS Amounts,      \* amounts of money
          NoAmount,     \* NULL
          MaxRevision   \* bound on Event.plan_revision

VARIABLES amount,       \* Action.amount of the COLLECT_FEES action
          collects,     \* the plan has a COLLECT_FEES step
          eventFee,     \* Event.fee_per_person
          draft,        \* fee_per_person of the conversation's basis draft
          planRevision, \* Event.plan_revision
          reviewed      \* input of the last AI review of the plan

conditionVars == <<amount, collects, eventFee, draft, planRevision, reviewed>>

Fee == Amounts \cup {NoAmount}

ConditionsInit ==
    /\ amount = NoAmount
    /\ collects = FALSE
    /\ eventFee = NoAmount
    /\ draft = NoAmount
    /\ planRevision = 0
    /\ reviewed = [rev |-> 0, collects |-> FALSE, amount |-> NoAmount,
                   draft |-> NoAmount]

\* _save_turn of a turn that did not generate: the event takes over the
\* draft's conditions, and the plan revision moves if that changed the event.
SaveTurn(fee) ==
    /\ draft' = fee
    /\ eventFee' = fee
    /\ planRevision' = IF fee # eventFee THEN planRevision + 1 ELSE planRevision
    /\ UNCHANGED <<amount, collects, reviewed>>

\* _save_turn with _materialize_preview: new rows, which have no amount.
GenerateTurn(fee) ==
    /\ draft' = fee
    /\ eventFee' = fee
    /\ amount' = NoAmount
    /\ collects' \in BOOLEAN
    /\ planRevision' = planRevision + 1
    /\ UNCHANGED reviewed

\* Fault: an edit of an amount does not count as a change.
UpdateAmountUnversioned(fee) ==
    /\ collects
    /\ amount' = fee
    /\ eventFee' = fee
    /\ UNCHANGED <<collects, draft, planRevision, reviewed>>

\* update_action with an amount; the draft of the conversation is left alone.
UpdateAmount(fee) ==
    /\ collects
    /\ amount' = fee
    /\ eventFee' = fee
    /\ planRevision' = IF fee # amount THEN planRevision + 1 ELSE planRevision
    /\ UNCHANGED <<collects, draft, reviewed>>

\* replace_plan_steps removes the step with its action, or adds a new one.
ReplaceSteps ==
    /\ planRevision > 0
    /\ collects' = ~collects
    /\ amount' = NoAmount
    /\ planRevision' = planRevision + 1
    /\ UNCHANGED <<eventFee, draft, reviewed>>

\* request_review: the model is given the draft of the conversation and the
\* steps with their actions.
ReviewPlan ==
    /\ planRevision > 0
    /\ reviewed' = [rev |-> planRevision, collects |-> collects,
                    amount |-> amount, draft |-> draft]
    /\ UNCHANGED <<amount, collects, eventFee, draft, planRevision>>

ConditionsNext ==
    \/ /\ planRevision < MaxRevision
       /\ \/ \E fee \in Fee : SaveTurn(fee) \/ GenerateTurn(fee) \/ UpdateAmount(fee)
          \/ ReplaceSteps
    \/ ReviewPlan

ConditionsSpec == ConditionsInit /\ [][ConditionsNext]_conditionVars

----------------------------------------------------------------------------
(* Properties *)

\* The steps and amounts that the review of the current plan revision judged
\* are the current ones (the conditional bump_plan_revision of update_action
\* and replace_plan_steps).
ReviewSawCurrentSteps ==
    planRevision > 0 /\ reviewed.rev = planRevision =>
        reviewed.collects = collects /\ reviewed.amount = amount

\* So are the conditions: plan_revision moves with every real change of the
\* plan and names the plan a review saw (models/events.py).
ReviewSawCurrentConditions ==
    planRevision > 0 /\ reviewed.rev = planRevision => reviewed.draft = draft

\* The fee of the event is derived from the amount a member gave the action,
\* and stays in line with it (the docstring of event_service.update_action).
FeeFollowsItsAction == amount # NoAmount => eventFee = amount
=============================================================================
