-------------------------- MODULE OperationProofs --------------------------
(***************************************************************************)
(* Theorems about Operation, for any members, actions, steps and           *)
(* cancellation tasks, and whatever the bounds.                            *)
(***************************************************************************)
EXTENDS Operation, TLAPS

----------------------------------------------------------------------------
(* Type correctness *)

LEMMA NewActionType ==
    ASSUME NEW st \in ActionStatus
    PROVE  NewAction(st) \in Action
  BY DEF NewAction, Action, ContentStatus, Approval

LEMMA InitType == Init => TypeOK
<1> SUFFICES ASSUME Init PROVE TypeOK
  OBVIOUS
<1>1. act \in [Actions -> Action]
  BY NewActionType DEF Init, ActionStatus
<1>2. screen \in [Members -> Screen]
  BY DEF Init, Screen
<1>3. expense \in [Actions -> Expense]
  BY DEF Init, NoExpense, Expense
<1> QED  BY <1>1, <1>2, <1>3 DEF Init, TypeOK, EventStatus

\* The facts about an action row that typing a change of it needs.
LEMMA RowFacts ==
    ASSUME TypeOK, NEW a \in Actions
    PROVE  /\ act[a] \in Action
           /\ act[a].version + 1 \in Nat
           /\ act[a].content + 1 \in Nat
           /\ act[a].attempt + 1 \in Nat
           /\ {"PENDING", "APPROVED", "DENIED", "DONE"} \subseteq ActionStatus
           /\ {"NONE", "DRAFTING", "READY", "FAILED"} \subseteq ContentStatus
  BY DEF TypeOK, Action, ActionStatus, ContentStatus

LEMMA ResolvedType ==
    ASSUME TypeOK, NEW a \in Actions, NEW m \in Members, NEW st \in ActionStatus
    PROVE  Resolved(a, m, st) \in Action
  BY RowFacts DEF Resolved, Action

LEMMA MarkedType ==
    ASSUME TypeOK, NEW a \in Actions
    PROVE  mark_drafting(act[a]) \in Action
  BY RowFacts DEF mark_drafting, Action

LEMMA EditedType ==
    ASSUME TypeOK, NEW a \in Actions, NEW edit \in Edits
    PROVE  Edited(a, edit) \in Action /\ Edited(a, edit).version = act[a].version
<1>1. CASE edit = "content"
  BY <1>1, RowFacts DEF Edited, Action
<1>2. CASE edit = "priced"
  BY <1>2, RowFacts DEF Edited, Action
<1>3. CASE edit = "unpriced"
  BY <1>3, RowFacts DEF Edited, Action
<1>4. CASE edit = "same"
  BY <1>4, RowFacts DEF Edited
<1> QED  BY <1>1, <1>2, <1>3, <1>4 DEF Edits

LEMMA MemberType ==
    ASSUME TypeOK, NEW m \in Members, MemberNext(m)
    PROVE  TypeOK'
<1> USE DEF TypeOK
<1>1. ASSUME NEW a \in Actions, View(m, a)
      PROVE  TypeOK'
  <2>1. screen' \in [Members -> Screen]
    BY <1>1 DEF View, Screen, Action
  <2> QED  BY <1>1, <2>1 DEF View
<1>2. ASSUME NEW a \in Actions, approve(m, a)
      PROVE  TypeOK'
  <2>1. screen[m].content \in Nat
    BY DEF Screen
  <2> DEFINE row == Resolved(a, m, "APPROVED")
             approval == [by |-> m, content |-> screen[m].content]
  <2>2. row \in Action /\ approval \in Approval
    BY <2>1, RowFacts, ResolvedType DEF Approval
  <2>3. act' = [act EXCEPT ![a] = [row EXCEPT !.approved = approval]]
    BY <1>2 DEF approve
  <2> HIDE DEF row, approval
  <2>4. act' \in [Actions -> Action]
    BY <2>2, <2>3 DEF Action
  <2> QED  BY <1>2, <2>4 DEF approve
<1>3. ASSUME NEW a \in Actions, deny(m, a)
      PROVE  TypeOK'
  <2>1. Resolved(a, m, "DENIED") \in Action
    BY RowFacts, ResolvedType
  <2> QED  BY <1>3, <2>1 DEF deny
<1>4. ASSUME NEW a \in Actions, resolve(m, a)
      PROVE  TypeOK'
  <2>1. Resolved(a, m, "DONE") \in Action
    BY RowFacts, ResolvedType
  <2>2. step' \in [Steps -> {"OPEN", "AUTO", "MANUAL"}]
    BY <1>4 DEF resolve, finish_step_if_done
  <2>3. screen' \in [Members -> Screen]
    BY <1>4 DEF resolve, Signalling, Screen
  <2> QED  BY <1>4, <2>1, <2>2, <2>3 DEF resolve
<1>5. ASSUME NEW a \in Actions, mark_done(m, a)
      PROVE  TypeOK'
  <2>1. act' \in [Actions -> Action]
    BY <1>5, RowFacts DEF mark_done, Action
  <2>2. expense' \in [Actions -> Expense]
    <3> DEFINE left == [row |-> "RECORDED", times |-> expense[a].times + 1,
                        content |-> act[a].content]
    <3>1. left \in Expense
      BY DEF Action, Expense
    <3>2. expense' = expense \/ expense' = [expense EXCEPT ![a] = left]
      BY <1>5 DEF mark_done
    <3> QED  BY <3>1, <3>2
  <2>3. step' \in [Steps -> {"OPEN", "AUTO", "MANUAL"}]
    BY <1>5 DEF mark_done, finish_step_if_done
  <2>4. screen' \in [Members -> Screen]
    BY <1>5 DEF mark_done, Signalling, Screen
  <2> QED  BY <1>5, <2>1, <2>2, <2>3, <2>4 DEF mark_done
<1>6. ASSUME NEW a \in Actions, request_redraft(m, a)
      PROVE  TypeOK'
  <2> DEFINE marked == mark_drafting(act[a])
  <2>0. /\ marked \in Action
        /\ marked.version + 1 \in Nat
        /\ marked.content + 1 \in Nat
    BY MarkedType DEF Action
  <2>1. act' = [act EXCEPT ![a] = [marked EXCEPT !.content = @ + 1, !.source = "NONE",
                                                 !.version = @ + 1]]
    BY <1>6 DEF request_redraft
  <2> HIDE DEF marked
  <2>2. act' \in [Actions -> Action]
    BY <2>0, <2>1 DEF Action
  <2>3. tasks' \subseteq Actions \X Nat
    BY <1>6 DEF request_redraft, Action
  <2> QED  BY <1>6, <2>2, <2>3 DEF request_redraft
<1>7. ASSUME NEW a \in Actions, NEW edit \in Edits,
             update_action(m, a, edit)
      PROVE  TypeOK'
  <2> DEFINE edited == Edited(a, edit)
  <2>1. edited \in Action
    BY EditedType
  <2>2. act' = [act EXCEPT ![a] =
                   [edited EXCEPT
                       !.version = @ + 1, !.status = "PENDING",
                       !.resolver = IF act[a].status = "APPROVED"
                                    THEN Nobody ELSE @]]
    BY <1>7 DEF update_action
  <2> HIDE DEF edited
  <2>3. act' \in [Actions -> Action]
    <3>1. edited.version + 1 \in Nat
      BY <2>1 DEF Action
    <3> QED  BY <2>1, <2>2, <3>1, RowFacts DEF Action
  <2> QED  BY <1>7, <2>3 DEF update_action
<1>8. ASSUME NEW s \in Steps, complete_step(m, s)
      PROVE  TypeOK'
  BY <1>8 DEF complete_step, Signalling, Screen
<1>9. CASE start_event(m)
  BY <1>9 DEF start_event, Signalling, Screen, EventStatus
<1>10. CASE request_current_step_drafts(m)
  <2>1. \A a \in Actions : mark_drafting(act[a]) \in Action
    BY MarkedType
  <2>2. act' \in [Actions -> Action]
    BY <1>10, <2>1 DEF request_current_step_drafts
  <2>3. tasks' \subseteq Actions \X Nat
    BY <1>10 DEF request_current_step_drafts, Action
  <2>4. screen' \in [Members -> Screen]
    BY <1>10 DEF request_current_step_drafts, Screen
  <2> QED  BY <1>10, <2>2, <2>3, <2>4 DEF request_current_step_drafts
<1>11. CASE signal_lost(m)
  BY <1>11 DEF signal_lost, Screen
<1> QED
  BY <1>1, <1>2, <1>3, <1>4, <1>5, <1>6, <1>7, <1>8, <1>9, <1>10, <1>11
  DEF MemberNext

LEMMA NextType == TypeOK /\ [Next]_vars => TypeOK'
<1> SUFFICES ASSUME TypeOK, [Next]_vars PROVE TypeOK'
  OBVIOUS
<1> USE DEF TypeOK
<1>1. CASE complete_event \/ begin_event_cancellation
  BY <1>1 DEF complete_event, begin_event_cancellation, EventStatus
<1>2. ASSUME NEW i \in CancelTasks, complete_cancel_task(i)
      PROVE  TypeOK'
  BY <1>2 DEF complete_cancel_task, EventStatus
<1>3. ASSUME NEW a \in Actions, open_confirmation(a)
      PROVE  TypeOK'
  BY <1>3, NewActionType DEF open_confirmation, ActionStatus
<1>4. ASSUME NEW a \in Actions, draft_ages(a)
      PROVE  TypeOK'
  <2>1. [act[a] EXCEPT !.stale = TRUE] \in Action
    BY DEF Action
  <2>2. act' = [act EXCEPT ![a] = [act[a] EXCEPT !.stale = TRUE]]
    BY <1>4 DEF draft_ages
  <2> QED  BY <1>4, <2>1, <2>2 DEF draft_ages
<1>5. ASSUME NEW a \in Actions, NEW n \in Attempts, draft_lost(a, n)
      PROVE  TypeOK'
  BY <1>5 DEF draft_lost
<1>6. ASSUME NEW a \in Actions, NEW n \in Attempts, NEW ok \in BOOLEAN,
             finish_draft(a, n, ok)
      PROVE  TypeOK'
  <2>1. n \in Nat
    BY OperationAssumption DEF Attempts
  <2>2. act' \in [Actions -> Action]
    <3> DEFINE written == [act[a] EXCEPT !.content = @ + 1, !.source = "AI",
                                         !.drafted = n, !.draft = "READY",
                                         !.version = @ + 1]
    <3>1. written \in Action
      BY <2>1, RowFacts DEF Action
    <3>2. \A d \in ContentStatus : [act[a] EXCEPT !.draft = d] \in Action
      BY DEF Action
    <3>3. \/ act' = act
          \/ \E d \in ContentStatus : act' = [act EXCEPT ![a] = [act[a] EXCEPT !.draft = d]]
          \/ act' = [act EXCEPT ![a] = written]
      BY <1>6, RowFacts DEF finish_draft
    <3> QED  BY <3>1, <3>2, <3>3
  <2> QED  BY <1>6, <2>2 DEF finish_draft
<1>7. ASSUME NEW a \in Actions, update_expense(a) \/ delete_expense(a)
      PROVE  TypeOK'
  <2>1. \A r \in {"NONE", "EDITED"} : [expense[a] EXCEPT !.row = r] \in Expense
    BY DEF Expense
  <2>2. \E r \in {"NONE", "EDITED"} :
            expense' = [expense EXCEPT ![a] = [expense[a] EXCEPT !.row = r]]
    BY <1>7 DEF update_expense, delete_expense
  <2> QED  BY <1>7, <2>1, <2>2 DEF update_expense, delete_expense
<1>8. CASE UNCHANGED vars
  BY <1>8 DEF vars
<1> QED
  BY <1>1, <1>2, <1>3, <1>4, <1>5, <1>6, <1>7, <1>8, MemberType
  DEF Next, EventNext, DraftNext

\* The state stays well typed through everything members, draft tasks and the
\* clock do to it.
THEOREM TypeCorrect == Spec => []TypeOK
  BY InitType, NextType, PTL DEF Spec

----------------------------------------------------------------------------
(* What is approved is what its approver saw *)

\* What a member has on the screen is the action as it is, or as it was at a
\* lower version.
ScreensAreFaithful ==
    \A m \in Members, a \in Actions :
        screen[m].action = a =>
            /\ act[a].status # "ABSENT"
            /\ screen[m].version <= act[a].version
            /\ screen[m].version = act[a].version => screen[m].content = act[a].content

\* ApprovedAsSeen for one row, with a member on record as its approver.
ApprovedRow(a, row) ==
    approve_needed(a) /\ row.status \in {"APPROVED", "DONE"} =>
        /\ row.approved = [by |-> row.resolver, content |-> row.content]
        /\ row.resolver \in Members

SeenInv ==
    /\ TypeOK
    /\ ScreensAreFaithful
    /\ \A a \in Actions : ApprovedRow(a, act[a])

\* A row may not disappear, its version may not fall, and its content may not
\* change under the same version.
Advances(old, new) ==
    old.status # "ABSENT" =>
        /\ new.status # "ABSENT"
        /\ old.version <= new.version
        /\ old.version = new.version => old.content = new.content

LEMMA InitSeen == Init => SeenInv
<1> SUFFICES ASSUME Init PROVE SeenInv
  OBVIOUS
<1>1. ScreensAreFaithful
  BY OperationAssumption DEF Init, ScreensAreFaithful
<1>2. \A a \in Actions : ApprovedRow(a, act[a])
  BY DEF Init, NewAction, ApprovedRow
<1> QED  BY <1>1, <1>2, InitType DEF SeenInv

\* A step that advances every row, and leaves what is on the screens alone.
LEMMA AdvancingStep ==
    ASSUME SeenInv, TypeOK',
           \A m \in Members : /\ screen'[m].action = screen[m].action
                              /\ screen'[m].version = screen[m].version
                              /\ screen'[m].content = screen[m].content,
           \A a \in Actions : Advances(act[a], act'[a]) /\ ApprovedRow(a, act'[a])
    PROVE  SeenInv'
<1>1. \A a \in Actions : act[a].version \in Nat /\ act'[a].version \in Nat
  BY DEF SeenInv, TypeOK, Action
<1>2. \A m \in Members : screen[m].version \in Nat
  BY DEF SeenInv, TypeOK, Screen
<1>3. ScreensAreFaithful'
  BY <1>1, <1>2 DEF SeenInv, ScreensAreFaithful, Advances
<1>4. \A a \in Actions : ApprovedRow(a, act[a])'
  BY DEF ApprovedRow, approve_needed
<1> QED  BY <1>3, <1>4 DEF SeenInv

\* The usual case: one row is replaced, and a member may have to signal.
LEMMA RowStep ==
    ASSUME SeenInv, TypeOK', NEW a \in Actions, NEW row,
           act' = [act EXCEPT ![a] = row],
           screen' = screen \/ \E m \in Members : Signalling(m),
           Advances(act[a], row), ApprovedRow(a, row)
    PROVE  SeenInv'
<1>1. \A m \in Members : /\ screen'[m].action = screen[m].action
                         /\ screen'[m].version = screen[m].version
                         /\ screen'[m].content = screen[m].content
  BY DEF SeenInv, TypeOK, Screen, Signalling
<1>2. \A b \in Actions : Advances(act[b], act'[b]) /\ ApprovedRow(b, act'[b])
  BY DEF SeenInv, TypeOK, Action, Advances
<1> QED  BY <1>1, <1>2, AdvancingStep

\* The next version of a row is an advance whatever its content becomes.
LEMMA HigherVersion ==
    ASSUME TypeOK, NEW a \in Actions, NEW row,
           row.status # "ABSENT", row.version = act[a].version + 1
    PROVE  Advances(act[a], row)
<1>1. act[a].version \in Nat
  BY DEF TypeOK, Action
<1> QED  BY <1>1 DEF Advances

LEMMA MemberSeen ==
    ASSUME SeenInv, TypeOK', NEW m \in Members, MemberNext(m)
    PROVE  SeenInv'
<1>t. /\ TypeOK
      /\ ScreensAreFaithful
      /\ \A a \in Actions : act[a] \in Action /\ ApprovedRow(a, act[a])
  BY DEF SeenInv, TypeOK
<1>s. ASSUME Signalling(m), UNCHANGED act
      PROVE  SeenInv'
  <2>1. \A n \in Members : /\ screen'[n].action = screen[n].action
                           /\ screen'[n].version = screen[n].version
                           /\ screen'[n].content = screen[n].content
    BY <1>s, <1>t DEF TypeOK, Screen, Signalling
  <2>2. \A a \in Actions : Advances(act[a], act'[a]) /\ ApprovedRow(a, act'[a])
    BY <1>s, <1>t DEF Advances, Action
  <2> QED  BY <2>1, <2>2, AdvancingStep
<1>1. ASSUME NEW a \in Actions, View(m, a)
      PROVE  SeenInv'
  <2>1. ScreensAreFaithful'
    BY <1>1, <1>t DEF View, ScreensAreFaithful, TypeOK, Screen, Action
  <2>2. \A b \in Actions : ApprovedRow(b, act[b])'
    BY <1>1, <1>t DEF View, ApprovedRow, approve_needed
  <2> QED  BY <2>1, <2>2 DEF SeenInv
<1>2. ASSUME NEW a \in Actions, approve(m, a)
      PROVE  SeenInv'
  <2> DEFINE row == [Resolved(a, m, "APPROVED") EXCEPT
                        !.approved = [by |-> m, content |-> screen[m].content]]
  <2>1. act' = [act EXCEPT ![a] = row] /\ screen' = screen
    BY <1>2 DEF approve
  <2>2. screen[m].content = act[a].content
    BY <1>2, <1>t DEF approve, Submits, ScreensAreFaithful
  <2>3. /\ row.status = "APPROVED" /\ row.version = act[a].version + 1
        /\ row.resolver = m /\ row.content = act[a].content
        /\ row.approved = [by |-> m, content |-> screen[m].content]
    BY <1>t DEF Resolved, Action
  <2> HIDE DEF row
  <2>4. ApprovedRow(a, row)
    BY <2>2, <2>3 DEF ApprovedRow
  <2> QED  BY <1>t, <2>1, <2>3, <2>4, HigherVersion, RowStep
<1>3. ASSUME NEW a \in Actions, deny(m, a)
      PROVE  SeenInv'
  <2> DEFINE row == Resolved(a, m, "DENIED")
  <2>1. act' = [act EXCEPT ![a] = row] /\ screen' = screen
    BY <1>3 DEF deny
  <2>2. row.status = "DENIED" /\ row.version = act[a].version + 1
    BY <1>t DEF Resolved, Action
  <2> HIDE DEF row
  <2>3. ApprovedRow(a, row)
    BY <2>2 DEF ApprovedRow
  <2> QED  BY <1>t, <2>1, <2>2, <2>3, HigherVersion, RowStep
<1>4. ASSUME NEW a \in Actions, resolve(m, a)
      PROVE  SeenInv'
  <2> DEFINE row == Resolved(a, m, "DONE")
  <2>1. act' = [act EXCEPT ![a] = row] /\ Signalling(m)
    BY <1>4 DEF resolve
  <2>2. row.status = "DONE" /\ row.version = act[a].version + 1
    BY <1>t DEF Resolved, Action
  <2>3. ~approve_needed(a)
    BY <1>4 DEF resolve, is_confirmation, approve_needed
  <2> HIDE DEF row
  <2>4. ApprovedRow(a, row)
    BY <2>3 DEF ApprovedRow
  <2> QED  BY <1>t, <2>1, <2>2, <2>4, HigherVersion, RowStep
<1>5. ASSUME NEW a \in Actions, mark_done(m, a)
      PROVE  SeenInv'
  <2> DEFINE row == [act[a] EXCEPT !.status = "DONE", !.version = @ + 1,
                                   !.resolver = IF @ = Nobody THEN m ELSE @]
  <2>1. act' = [act EXCEPT ![a] = row] /\ Signalling(m)
    BY <1>5, <1>t DEF mark_done, TypeOK
  <2>2. /\ row.status = "DONE" /\ row.version = act[a].version + 1
        /\ row.content = act[a].content /\ row.approved = act[a].approved
        /\ act[a].resolver # Nobody => row.resolver = act[a].resolver
    BY <1>t DEF Action
  <2>3. approve_needed(a) => act[a].status = "APPROVED"
    BY <1>5 DEF mark_done, can_mark_done
  <2> HIDE DEF row
  <2>4. ApprovedRow(a, row)
    BY <1>t, <2>2, <2>3, OperationAssumption DEF ApprovedRow
  <2> QED  BY <1>t, <2>1, <2>2, <2>4, HigherVersion, RowStep
<1>6. ASSUME NEW a \in Actions, request_redraft(m, a)
      PROVE  SeenInv'
  <2> DEFINE row == [mark_drafting(act[a]) EXCEPT !.content = @ + 1,
                                                  !.source = "NONE",
                                                  !.version = @ + 1]
  <2>1. act' = [act EXCEPT ![a] = row] /\ screen' = screen
    BY <1>6 DEF request_redraft
  <2>2. row.status = "PENDING" /\ row.version = act[a].version + 1
    BY <1>6, <1>t DEF request_redraft, can_request_draft, mark_drafting, Action
  <2> HIDE DEF row
  <2>3. ApprovedRow(a, row)
    BY <2>2 DEF ApprovedRow
  <2> QED  BY <1>t, <2>1, <2>2, <2>3, HigherVersion, RowStep
<1>7. ASSUME NEW a \in Actions, NEW edit \in Edits,
             update_action(m, a, edit)
      PROVE  SeenInv'
  <2> DEFINE edited == Edited(a, edit)
             row == [edited EXCEPT
                        !.version = @ + 1, !.status = "PENDING",
                        !.resolver = IF act[a].status = "APPROVED" THEN Nobody ELSE @]
  <2>1. act' = [act EXCEPT ![a] = row] /\ screen' = screen
    BY <1>7 DEF update_action
  <2>2. edited \in Action /\ edited.version = act[a].version
    BY <1>t, EditedType
  <2> HIDE DEF edited
  <2>3. row.status = "PENDING" /\ row.version = act[a].version + 1
    BY <2>2 DEF Action
  <2> HIDE DEF row
  <2>4. ApprovedRow(a, row)
    BY <2>3 DEF ApprovedRow
  <2> QED  BY <1>t, <2>1, <2>3, <2>4, HigherVersion, RowStep
<1>8. ASSUME NEW st \in Steps, complete_step(m, st)
      PROVE  SeenInv'
  BY <1>s, <1>8 DEF complete_step
<1>9. CASE start_event(m)
  BY <1>s, <1>9 DEF start_event
<1>10. ASSUME request_current_step_drafts(m) \/ signal_lost(m)
       PROVE  SeenInv'
  <2>1. screen' = [screen EXCEPT ![m].signal = FALSE]
    BY <1>10 DEF request_current_step_drafts, signal_lost
  <2>2. \A n \in Members : /\ screen'[n].action = screen[n].action
                           /\ screen'[n].version = screen[n].version
                           /\ screen'[n].content = screen[n].content
    BY <1>t, <2>1 DEF TypeOK, Screen
  <2>3. \A a \in Actions : act'[a] = act[a] \/ act'[a] = mark_drafting(act[a])
    BY <1>10 DEF request_current_step_drafts, signal_lost
  <2>4. \A a \in Actions : /\ act'[a].status = act[a].status
                           /\ act'[a].version = act[a].version
                           /\ act'[a].content = act[a].content
                           /\ act'[a].resolver = act[a].resolver
                           /\ act'[a].approved = act[a].approved
    BY <1>t, <2>3 DEF mark_drafting, Action
  <2>5. \A a \in Actions : Advances(act[a], act'[a]) /\ ApprovedRow(a, act'[a])
    BY <1>t, <2>4 DEF Advances, ApprovedRow, Action
  <2> QED  BY <2>2, <2>5, AdvancingStep
<1> QED
  BY <1>1, <1>2, <1>3, <1>4, <1>5, <1>6, <1>7, <1>8, <1>9, <1>10
  DEF MemberNext

LEMMA NextSeen == SeenInv /\ [Next]_vars => SeenInv'
<1> SUFFICES ASSUME SeenInv, [Next]_vars PROVE SeenInv'
  OBVIOUS
<1>t. /\ TypeOK /\ TypeOK'
      /\ \A a \in Actions : act[a] \in Action /\ ApprovedRow(a, act[a])
  BY NextType DEF SeenInv, TypeOK
<1>u. ASSUME UNCHANGED <<act, screen>>
      PROVE  SeenInv'
  BY <1>u, <1>t, AdvancingStep DEF Advances, Action
<1>1. CASE EventNext
  <2>1. ASSUME NEW a \in Actions, open_confirmation(a)
        PROVE  SeenInv'
    <3> DEFINE row == NewAction("PENDING")
    <3>1. /\ act' = [act EXCEPT ![a] = row] /\ screen' = screen
          /\ act[a].status = "ABSENT"
      BY <2>1 DEF open_confirmation
    <3>2. Advances(act[a], row) /\ ApprovedRow(a, row)
      BY <3>1 DEF Advances, ApprovedRow, NewAction
    <3> QED  BY <1>t, <3>1, <3>2, RowStep
  <2> QED
    BY <1>1, <1>u, <2>1
    DEF EventNext, complete_event, begin_event_cancellation, complete_cancel_task,
        update_expense, delete_expense
<1>2. ASSUME NEW a \in Actions, draft_ages(a)
      PROVE  SeenInv'
  <2> DEFINE row == [act[a] EXCEPT !.stale = TRUE]
  <2>1. act' = [act EXCEPT ![a] = row] /\ screen' = screen
    BY <1>2 DEF draft_ages
  <2>2. /\ row.status = act[a].status /\ row.version = act[a].version
        /\ row.content = act[a].content /\ row.resolver = act[a].resolver
        /\ row.approved = act[a].approved
    BY <1>t DEF Action
  <2> HIDE DEF row
  <2>3. Advances(act[a], row) /\ ApprovedRow(a, row)
    BY <1>t, <2>2 DEF Advances, ApprovedRow, Action
  <2> QED  BY <1>t, <2>1, <2>3, RowStep
<1>3. ASSUME NEW a \in Actions, NEW n \in Attempts, draft_lost(a, n)
      PROVE  SeenInv'
  BY <1>u, <1>3 DEF draft_lost
<1>4. ASSUME NEW a \in Actions, NEW n \in Attempts, NEW ok \in BOOLEAN,
             finish_draft(a, n, ok)
      PROVE  SeenInv'
  <2> DEFINE written == [act[a] EXCEPT !.content = @ + 1, !.source = "AI",
                                       !.drafted = n, !.draft = "READY",
                                       !.version = @ + 1]
  <2>0. screen' = screen
    BY <1>4 DEF finish_draft
  <2>1. CASE act' = act
    BY <1>u, <2>0, <2>1
  <2>2. ASSUME NEW d, act' = [act EXCEPT ![a] = [act[a] EXCEPT !.draft = d]]
        PROVE  SeenInv'
    <3> DEFINE row == [act[a] EXCEPT !.draft = d]
    <3>1. /\ row.status = act[a].status /\ row.version = act[a].version
          /\ row.content = act[a].content /\ row.resolver = act[a].resolver
          /\ row.approved = act[a].approved
      BY <1>t DEF Action
    <3>2. act' = [act EXCEPT ![a] = row]
      BY <2>2
    <3> HIDE DEF row
    <3>3. Advances(act[a], row) /\ ApprovedRow(a, row)
      BY <1>t, <3>1 DEF Advances, ApprovedRow, Action
    <3> QED  BY <1>t, <2>0, <3>2, <3>3, RowStep
  <2>3. CASE act' = [act EXCEPT ![a] = written] /\ act[a].status = "PENDING"
    <3>1. written.status = "PENDING" /\ written.version = act[a].version + 1
      BY <1>t, <2>3 DEF Action
    <3>2. act' = [act EXCEPT ![a] = written]
      BY <2>3
    <3> HIDE DEF written
    <3>3. ApprovedRow(a, written)
      BY <3>1 DEF ApprovedRow
    <3> QED  BY <1>t, <2>0, <3>1, <3>2, <3>3, HigherVersion, RowStep
  <2>4. \/ act' = act
        \/ \E d \in {"NONE", "FAILED"} :
               act' = [act EXCEPT ![a] = [act[a] EXCEPT !.draft = d]]
        \/ act' = [act EXCEPT ![a] = written] /\ act[a].status = "PENDING"
    BY <1>4 DEF finish_draft, writable
  <2> QED  BY <2>1, <2>2, <2>3, <2>4
<1>5. CASE UNCHANGED vars
  BY <1>u, <1>5 DEF vars
<1>6. ASSUME NEW m \in Members, MemberNext(m)
      PROVE  SeenInv'
  BY <1>t, <1>6, MemberSeen
<1> QED  BY <1>1, <1>2, <1>3, <1>4, <1>5, <1>6 DEF Next, DraftNext

\* Whatever is approved or executed is exactly what its approver had on the
\* screen, however drafts, redrafts and edits by others interleave.
THEOREM ApprovalsAreInformed == Spec => []ApprovedAsSeen
<1>1. SeenInv => ApprovedAsSeen
  BY DEF SeenInv, ApprovedRow, ApprovedAsSeen
<1> QED  BY <1>1, InitSeen, NextSeen, PTL DEF Spec
----------------------------------------------------------------------------
(* What one step does to a row, an expense, a step and the event *)

\* All that members see of the row stays; its draft may end, fail or go stale,
\* but a draft does not come from nowhere.
DraftMoves(a) ==
    /\ act'[a].status = act[a].status /\ act'[a].version = act[a].version
    /\ act'[a].content = act[a].content /\ act'[a].priced = act[a].priced
    /\ act'[a].source = act[a].source /\ act'[a].attempt = act[a].attempt
    /\ act'[a].resolver = act[a].resolver /\ act'[a].drafted = act[a].drafted
    /\ act'[a].approved = act[a].approved
    /\ act'[a].draft # "NONE" => act[a].draft # "NONE" \/ act[a].attempt > 0

\* approve, deny, resolve and mark_done.
Decided(a) ==
    /\ is_operating /\ unfinished(a)
    /\ act'[a].status \in {"APPROVED", "DENIED", "DONE"}
    /\ act'[a].content = act[a].content /\ act'[a].priced = act[a].priced
    /\ act'[a].source = act[a].source /\ act'[a].draft = act[a].draft
    /\ act'[a].attempt = act[a].attempt /\ act'[a].drafted = act[a].drafted
    /\ act'[a].status = "DONE" =>
           /\ act'[a].approved = act[a].approved
           /\ approve_needed(a) => act[a].status = "APPROVED"
           /\ step' = finish_step_if_done(a, act')

\* update_action.
EditedBy(a) ==
    /\ status \notin {"CANCELLING", "CANCELLED"}
    /\ unfinished(a)
    /\ act'[a].status = "PENDING"
    /\ act'[a].attempt = act[a].attempt /\ act'[a].drafted = act[a].drafted
    /\ \/ act'[a].source = "USER"
       \/ act'[a].source = act[a].source /\ act'[a].draft = act[a].draft

\* open_confirmation.
Opened(a) ==
    /\ is_operating
    /\ StepOf[a] = 0
    /\ act[a].status = "ABSENT"
    /\ act'[a] = NewAction("PENDING")

\* _mark_drafting, for the current step or for a redraft.
Marked(a) ==
    /\ is_operating
    /\ awaits_draft(a) \/ can_request_draft(a)
    /\ act'[a].status = act[a].status
    /\ act'[a].source = "NONE"
    /\ act'[a].attempt = act[a].attempt + 1

\* _finish stores the text.
Written(a) ==
    /\ writable(a)
    /\ act'[a].status = act[a].status
    /\ act'[a].source = "AI"
    /\ act'[a].drafted = act[a].attempt /\ act'[a].attempt = act[a].attempt
    /\ act[a].attempt > 0

RowMoves(a) ==
    DraftMoves(a) \/ Decided(a) \/ EditedBy(a) \/ Opened(a) \/ Marked(a) \/ Written(a)

\* mark_done books a transfer when it executes it; otherwise an expense is at
\* most corrected or removed.
ExpenseMoves(a) ==
    IF records_expense(a) /\ act[a].status # "DONE" /\ act'[a].status = "DONE"
    THEN /\ expense'[a].times = expense[a].times + 1
         /\ expense'[a].content = act[a].content
    ELSE \/ expense'[a] = expense[a]
         \/ /\ expense[a].row # "NONE"
            /\ expense'[a].times = expense[a].times
            /\ expense'[a].content = expense[a].content

\* A step is closed once, by hand or because its actions are done.
StepMoves(s) ==
    \/ step'[s] = step[s]
    \/ /\ is_operating
       /\ \/ step'[s] = "MANUAL"
          \/ step'[s] = "AUTO" /\ is_step_done(s, act')

EventMoves ==
    \/ UNCHANGED <<status, cancelled>>
    \/ status' = "ON_GOING" /\ status = "PLANNING" /\ UNCHANGED cancelled
    \/ complete_event
    \/ begin_event_cancellation
    \/ \E i \in CancelTasks : complete_cancel_task(i)


\* What every action of the specification does to a row.
LEMMA RowsMove ==
    ASSUME TypeOK, [Next]_vars, NEW a \in Actions
    PROVE  RowMoves(a)
<1>t. act \in [Actions -> Action] /\ act[a] \in Action
  BY DEF TypeOK
<1>u. ASSUME act'[a] = act[a]
      PROVE  RowMoves(a)
  BY <1>u DEF RowMoves, DraftMoves
<1>o. ASSUME NEW b \in Actions, b # a, NEW row, act' = [act EXCEPT ![b] = row]
      PROVE  RowMoves(a)
  BY <1>t, <1>o, <1>u
<1>1. ASSUME NEW m \in Members, NEW b \in Actions, approve(m, b)
      PROVE  RowMoves(a)
  <2> DEFINE row == [Resolved(b, m, "APPROVED") EXCEPT
                        !.approved = [by |-> m, content |-> screen[m].content]]
  <2>1. act' = [act EXCEPT ![b] = row]
    BY <1>1 DEF approve
  <2>2. CASE b = a
    <3>1. /\ row.status = "APPROVED" /\ row.content = act[a].content
          /\ row.priced = act[a].priced /\ row.source = act[a].source
          /\ row.draft = act[a].draft /\ row.attempt = act[a].attempt
          /\ row.drafted = act[a].drafted
      BY <1>t, <2>2 DEF Resolved, Action
    <3> HIDE DEF row
    <3>2. act'[a] = row
      BY <1>t, <2>1, <2>2
    <3>3. is_operating /\ unfinished(a)
      BY <1>1, <2>2 DEF approve, unfinished
    <3> QED  BY <3>1, <3>2, <3>3 DEF RowMoves, Decided
  <2> HIDE DEF row
  <2> QED  BY <1>o, <2>1, <2>2
<1>2. ASSUME NEW m \in Members, NEW b \in Actions, deny(m, b)
      PROVE  RowMoves(a)
  <2> DEFINE row == Resolved(b, m, "DENIED")
  <2>1. act' = [act EXCEPT ![b] = row]
    BY <1>2 DEF deny
  <2>2. CASE b = a
    <3>1. /\ row.status = "DENIED" /\ row.content = act[a].content
          /\ row.priced = act[a].priced /\ row.source = act[a].source
          /\ row.draft = act[a].draft /\ row.attempt = act[a].attempt
          /\ row.drafted = act[a].drafted
      BY <1>t, <2>2 DEF Resolved, Action
    <3> HIDE DEF row
    <3>2. act'[a] = row
      BY <1>t, <2>1, <2>2
    <3>3. is_operating /\ unfinished(a)
      BY <1>2, <2>2 DEF deny, unfinished
    <3> QED  BY <3>1, <3>2, <3>3 DEF RowMoves, Decided
  <2> HIDE DEF row
  <2> QED  BY <1>o, <2>1, <2>2
<1>3. ASSUME NEW m \in Members, NEW b \in Actions, resolve(m, b)
      PROVE  RowMoves(a)
  <2> DEFINE row == Resolved(b, m, "DONE")
  <2>1. act' = [act EXCEPT ![b] = row]
    BY <1>3 DEF resolve
  <2>2. CASE b = a
    <3>1. /\ row.status = "DONE" /\ row.content = act[a].content
          /\ row.priced = act[a].priced /\ row.source = act[a].source
          /\ row.draft = act[a].draft /\ row.attempt = act[a].attempt
          /\ row.drafted = act[a].drafted /\ row.approved = act[a].approved
      BY <1>t, <2>2 DEF Resolved, Action
    <3> HIDE DEF row
    <3>2. act'[a] = row
      BY <1>t, <2>1, <2>2
    <3>3. is_operating /\ unfinished(a) /\ step' = finish_step_if_done(a, act')
      BY <1>3, <2>2 DEF resolve, unfinished
    <3>4. ~approve_needed(a)
      BY <1>3, <2>2 DEF resolve, is_confirmation, approve_needed
    <3> QED  BY <3>1, <3>2, <3>3, <3>4 DEF RowMoves, Decided
  <2> HIDE DEF row
  <2> QED  BY <1>o, <2>1, <2>2
<1>4. ASSUME NEW m \in Members, NEW b \in Actions, mark_done(m, b)
      PROVE  RowMoves(a)
  <2> DEFINE row == [act[b] EXCEPT !.status = "DONE", !.version = @ + 1,
                                   !.resolver = IF @ = Nobody THEN m ELSE @]
  <2>1. act' = [act EXCEPT ![b] = row]
    BY <1>4, <1>t DEF mark_done
  <2>2. CASE b = a
    <3>1. /\ row.status = "DONE" /\ row.content = act[a].content
          /\ row.priced = act[a].priced /\ row.source = act[a].source
          /\ row.draft = act[a].draft /\ row.attempt = act[a].attempt
          /\ row.drafted = act[a].drafted /\ row.approved = act[a].approved
      BY <1>t, <2>2 DEF Action
    <3> HIDE DEF row
    <3>2. act'[a] = row
      BY <1>t, <2>1, <2>2
    <3>3. is_operating /\ step' = finish_step_if_done(a, act')
      BY <1>4, <2>2 DEF mark_done
    <3>4. unfinished(a) /\ (approve_needed(a) => act[a].status = "APPROVED")
      BY <1>4, <2>2 DEF mark_done, can_mark_done, unfinished
    <3> QED  BY <3>1, <3>2, <3>3, <3>4 DEF RowMoves, Decided
  <2> HIDE DEF row
  <2> QED  BY <1>o, <2>1, <2>2
<1>5. ASSUME NEW m \in Members, NEW b \in Actions, request_redraft(m, b)
      PROVE  RowMoves(a)
  <2> DEFINE row == [mark_drafting(act[b]) EXCEPT !.content = @ + 1, !.source = "NONE",
                                                  !.version = @ + 1]
  <2>1. act' = [act EXCEPT ![b] = row]
    BY <1>5 DEF request_redraft
  <2>2. CASE b = a
    <3>1. /\ row.status = act[a].status /\ row.source = "NONE"
          /\ row.attempt = act[a].attempt + 1
      BY <1>t, <2>2 DEF mark_drafting, Action
    <3> HIDE DEF row
    <3>2. act'[a] = row
      BY <1>t, <2>1, <2>2
    <3>3. can_request_draft(a) /\ is_operating
      BY <1>5, <2>2 DEF request_redraft, can_request_draft
    <3> QED  BY <3>1, <3>2, <3>3 DEF RowMoves, Marked
  <2> HIDE DEF row
  <2> QED  BY <1>o, <2>1, <2>2
<1>6. ASSUME NEW m \in Members, NEW b \in Actions, NEW edit \in Edits,
             update_action(m, b, edit)
      PROVE  RowMoves(a)
  <2> DEFINE edited == Edited(b, edit)
             row == [edited EXCEPT
                        !.version = @ + 1, !.status = "PENDING",
                        !.resolver = IF act[b].status = "APPROVED" THEN Nobody ELSE @]
  <2>1. act' = [act EXCEPT ![b] = row]
    BY <1>6 DEF update_action
  <2>2. CASE b = a
    <3>1. /\ edited.attempt = act[a].attempt /\ edited.drafted = act[a].drafted
          /\ \/ edited.source = "USER"
             \/ edited.source = act[a].source /\ edited.draft = act[a].draft
      <4>1. CASE edit = "content"
        BY <1>t, <2>2, <4>1 DEF Edited, Action
      <4>2. CASE edit = "priced"
        BY <1>t, <2>2, <4>2 DEF Edited, Action
      <4>3. CASE edit = "unpriced"
        BY <1>t, <2>2, <4>3 DEF Edited, Action
      <4>4. CASE edit = "same"
        BY <1>t, <2>2, <4>4 DEF Edited
      <4> QED  BY <4>1, <4>2, <4>3, <4>4 DEF Edits
    <3>2. edited \in Action
      BY EditedType
    <3> HIDE DEF edited
    <3>3. /\ row.status = "PENDING" /\ row.attempt = edited.attempt
          /\ row.drafted = edited.drafted /\ row.source = edited.source
          /\ row.draft = edited.draft
      BY <3>2 DEF Action
    <3> HIDE DEF row
    <3>4. act'[a] = row
      BY <1>t, <2>1, <2>2
    <3>5. unfinished(a) /\ status \notin {"CANCELLING", "CANCELLED"}
      BY <1>6, <2>2 DEF update_action, is_editable, unfinished
    <3> QED  BY <3>1, <3>3, <3>4, <3>5 DEF RowMoves, EditedBy
  <2> HIDE DEF row
  <2> QED  BY <1>o, <2>1, <2>2
<1>7. ASSUME NEW m \in Members, request_current_step_drafts(m)
      PROVE  RowMoves(a)
  <2>1. \/ act'[a] = act[a]
        \/ act'[a] = mark_drafting(act[a]) /\ is_operating /\ awaits_draft(a)
    BY <1>7 DEF request_current_step_drafts
  <2>2. CASE act'[a] = mark_drafting(act[a]) /\ is_operating /\ awaits_draft(a)
    <3>1. /\ act'[a].status = act[a].status /\ act'[a].source = act[a].source
          /\ act'[a].attempt = act[a].attempt + 1
      BY <1>t, <2>2 DEF mark_drafting, Action
    <3>2. act[a].source = "NONE"
      BY <2>2 DEF awaits_draft
    <3> QED  BY <2>2, <3>1, <3>2 DEF RowMoves, Marked
  <2> QED  BY <1>u, <2>1, <2>2
<1>8. ASSUME NEW b \in Actions, StepOf[b] = 0, open_confirmation(b)
      PROVE  RowMoves(a)
  <2>1. act' = [act EXCEPT ![b] = NewAction("PENDING")]
    BY <1>8 DEF open_confirmation
  <2>2. CASE b = a
    BY <1>8, <1>t, <2>1, <2>2 DEF open_confirmation, RowMoves, Opened
  <2> QED  BY <1>o, <2>1, <2>2
<1>9. ASSUME NEW b \in Actions, draft_ages(b)
      PROVE  RowMoves(a)
  <2> DEFINE row == [act[b] EXCEPT !.stale = TRUE]
  <2>1. act' = [act EXCEPT ![b] = row]
    BY <1>9 DEF draft_ages
  <2>2. CASE b = a
    <3>1. act'[a] = row
      BY <1>t, <2>1, <2>2
    <3> QED  BY <1>t, <2>2, <3>1 DEF RowMoves, DraftMoves, Action
  <2> HIDE DEF row
  <2> QED  BY <1>o, <2>1, <2>2
<1>10. ASSUME NEW b \in Actions, NEW n \in Attempts, NEW ok \in BOOLEAN,
              finish_draft(b, n, ok)
       PROVE  RowMoves(a)
  <2> DEFINE written == [act[b] EXCEPT !.content = @ + 1, !.source = "AI",
                                       !.drafted = n, !.draft = "READY",
                                       !.version = @ + 1]
  <2>1. n > 0
    BY OperationAssumption DEF Attempts
  <2>2. \/ act' = act
        \/ /\ same_attempt(b, n)
           /\ \E d \in {"NONE", "FAILED"} :
                  act' = [act EXCEPT ![b] = [act[b] EXCEPT !.draft = d]]
        \/ /\ same_attempt(b, n) /\ writable(b)
           /\ act' = [act EXCEPT ![b] = written]
    BY <1>10 DEF finish_draft
  <2>3. ASSUME same_attempt(b, n),
               NEW d, act' = [act EXCEPT ![b] = [act[b] EXCEPT !.draft = d]]
        PROVE  RowMoves(a)
    <3>1. CASE b = a
      <4>1. act'[a] = [act[a] EXCEPT !.draft = d] /\ act[a].attempt > 0
        BY <1>t, <2>1, <2>3, <3>1 DEF same_attempt
      <4> QED  BY <1>t, <4>1 DEF RowMoves, DraftMoves, Action
    <3> QED  BY <1>o, <2>3, <3>1
  <2>4. ASSUME same_attempt(b, n), writable(b), act' = [act EXCEPT ![b] = written]
        PROVE  RowMoves(a)
    <3>1. CASE b = a
      <4>1. act'[a] = written /\ act[a].attempt = n
        BY <1>t, <2>4, <3>1 DEF same_attempt
      <4>2. /\ written.status = act[a].status /\ written.source = "AI"
            /\ written.drafted = n /\ written.attempt = act[a].attempt
        BY <1>t, <3>1 DEF Action
      <4> HIDE DEF written
      <4> QED  BY <2>1, <2>4, <3>1, <4>1, <4>2 DEF RowMoves, Written
    <3> HIDE DEF written
    <3> QED  BY <1>o, <2>4, <3>1
  <2> HIDE DEF written
  <2> QED  BY <1>u, <2>2, <2>3, <2>4
<1>11. ASSUME NEW m \in Members, MemberNext(m)
       PROVE  RowMoves(a)
  <2>1. ASSUME NEW b \in Actions, View(m, b) PROVE RowMoves(a)
    BY <1>u, <2>1 DEF View
  <2>2. ASSUME NEW s \in Steps, complete_step(m, s) PROVE RowMoves(a)
    BY <1>u, <2>2 DEF complete_step
  <2>3. CASE start_event(m) \/ signal_lost(m)
    BY <1>u, <2>3 DEF start_event, signal_lost
  <2> QED
    BY <1>1, <1>2, <1>3, <1>4, <1>5, <1>6, <1>7, <1>11, <2>1, <2>2, <2>3 DEF MemberNext
<1>12. CASE EventNext
  <2>1. CASE complete_event \/ begin_event_cancellation
    BY <1>u, <2>1 DEF complete_event, begin_event_cancellation
  <2>2. ASSUME NEW i \in CancelTasks, complete_cancel_task(i) PROVE RowMoves(a)
    BY <1>u, <2>2 DEF complete_cancel_task
  <2>3. ASSUME NEW b \in Actions, update_expense(b) \/ delete_expense(b)
        PROVE  RowMoves(a)
    BY <1>u, <2>3 DEF update_expense, delete_expense
  <2> QED  BY <1>8, <1>12, <2>1, <2>2, <2>3 DEF EventNext
<1>13. ASSUME NEW b \in Actions, NEW n \in Attempts, draft_lost(b, n)
       PROVE  RowMoves(a)
  BY <1>u, <1>13 DEF draft_lost
<1>14. CASE UNCHANGED vars
  BY <1>u, <1>14 DEF vars
<1> QED  BY <1>9, <1>10, <1>11, <1>12, <1>13, <1>14 DEF Next, DraftNext

\* What every action does to the ledger, the steps and the event.
LEMMA OthersMove ==
    ASSUME TypeOK, [Next]_vars
    PROVE  /\ \A a \in Actions : ExpenseMoves(a)
           /\ \A s \in Steps : StepMoves(s)
           /\ EventMoves
<1>t. /\ \A a \in Actions : act[a] \in Action /\ expense[a] \in Expense
      /\ act \in [Actions -> Action] /\ expense \in [Actions -> Expense]
      /\ step \in [Steps -> {"OPEN", "AUTO", "MANUAL"}]
  BY DEF TypeOK
<1> DEFINE Goal == /\ \A a \in Actions : ExpenseMoves(a)
                   /\ \A s \in Steps : StepMoves(s)
                   /\ EventMoves
           Same == UNCHANGED <<status, cancelled, step, expense>>
<1> SUFFICES Goal
  OBVIOUS
<1> HIDE DEF Goal
<1>n. ASSUME UNCHANGED expense,
             \A a \in Actions : act'[a].status = "DONE" =>
                 act[a].status = "DONE" \/ ~records_expense(a)
      PROVE  \A a \in Actions : ExpenseMoves(a)
  BY <1>n DEF ExpenseMoves
<1>s. ASSUME UNCHANGED step
      PROVE  \A s \in Steps : StepMoves(s)
  BY <1>s DEF StepMoves
<1>q. ASSUME Same, \A a \in Actions : act'[a].status = "DONE" => act[a].status = "DONE"
      PROVE  Goal
  BY <1>n, <1>s, <1>q DEF Goal, EventMoves
<1>f. ASSUME NEW a \in Actions, is_operating, step' = finish_step_if_done(a, act')
      PROVE  \A s \in Steps : StepMoves(s)
  BY <1>f DEF StepMoves, finish_step_if_done
<1>m. ASSUME NEW m \in Members, MemberNext(m)
      PROVE  Goal
  <2>1. ASSUME NEW a \in Actions, View(m, a) \/ request_redraft(m, a)
        PROVE  Goal
    <3>1. Same
      BY <2>1 DEF View, request_redraft
    <3>2. View(m, a) => act' = act
      BY DEF View
    <3>3. ASSUME request_redraft(m, a)
          PROVE  \A b \in Actions : act'[b].status = "DONE" => act[b].status = "DONE"
      <4> DEFINE row == [mark_drafting(act[a]) EXCEPT
                            !.content = @ + 1, !.source = "NONE", !.version = @ + 1]
      <4>1. act' = [act EXCEPT ![a] = row] /\ row.status = act[a].status
        BY <1>t, <3>3 DEF request_redraft, mark_drafting, Action
      <4> HIDE DEF row
      <4> QED  BY <1>t, <4>1
    <3> QED  BY <1>q, <2>1, <3>1, <3>2, <3>3
  <2>2. ASSUME NEW a \in Actions,
               approve(m, a) \/ deny(m, a) \/ \E edit \in Edits : update_action(m, a, edit)
        PROVE  Goal
    <3>1. Same
      <4>1. CASE approve(m, a) \/ deny(m, a)
        BY <4>1 DEF approve, deny
      <4>2. CASE \E edit \in Edits : update_action(m, a, edit)
        BY <4>2 DEF update_action
      <4> QED  BY <2>2, <4>1, <4>2
    <3>2. \E row : /\ act' = [act EXCEPT ![a] = row]
                   /\ row.status \in {"APPROVED", "DENIED", "PENDING"}
      <4>1. CASE approve(m, a)
        <5>1. [Resolved(a, m, "APPROVED") EXCEPT
                   !.approved = [by |-> m, content |-> screen[m].content]].status = "APPROVED"
          BY <1>t DEF Resolved, Action
        <5> QED  BY <4>1, <5>1 DEF approve
      <4>2. CASE deny(m, a)
        <5>1. Resolved(a, m, "DENIED").status = "DENIED"
          BY <1>t DEF Resolved, Action
        <5> QED  BY <4>2, <5>1 DEF deny
      <4>3. ASSUME NEW edit \in Edits, update_action(m, a, edit)
            PROVE  \E row : /\ act' = [act EXCEPT ![a] = row]
                            /\ row.status \in {"APPROVED", "DENIED", "PENDING"}
        <5> DEFINE edited == Edited(a, edit)
                   row == [edited EXCEPT
                              !.version = @ + 1, !.status = "PENDING",
                              !.resolver = IF act[a].status = "APPROVED" THEN Nobody
                                           ELSE @]
        <5>1. act' = [act EXCEPT ![a] = row] /\ edited \in Action
          BY <4>3, EditedType DEF update_action
        <5> HIDE DEF edited
        <5>2. row.status = "PENDING"
          BY <5>1 DEF Action
        <5> HIDE DEF row
        <5> QED  BY <5>1, <5>2
      <4> QED  BY <2>2, <4>1, <4>2, <4>3
    <3>3. \A b \in Actions : act'[b].status = "DONE" => act[b].status = "DONE"
      BY <1>t, <3>2
    <3> QED  BY <1>q, <3>1, <3>3
  <2>3. ASSUME NEW a \in Actions, resolve(m, a)
        PROVE  Goal
    <3>1. /\ is_operating /\ step' = finish_step_if_done(a, act')
          /\ UNCHANGED <<status, cancelled, expense>>
          /\ act' = [act EXCEPT ![a] = Resolved(a, m, "DONE")]
      BY <2>3 DEF resolve
    <3>2. ~records_expense(a)
      BY <2>3 DEF resolve, is_confirmation, records_expense
    <3>3. \A b \in Actions : act'[b] = act[b] \/ b = a
      BY <1>t, <3>1
    <3> QED  BY <1>f, <1>n, <3>1, <3>2, <3>3 DEF Goal, EventMoves
  <2>4. ASSUME NEW a \in Actions, mark_done(m, a)
        PROVE  Goal
    <3>1. /\ is_operating /\ step' = finish_step_if_done(a, act')
          /\ UNCHANGED <<status, cancelled>>
      BY <2>4 DEF mark_done
    <3>2. /\ \A b \in Actions \ {a} : act'[b] = act[b] /\ expense'[b] = expense[b]
          /\ act[a].status # "DONE" /\ act'[a].status = "DONE"
          /\ IF records_expense(a)
             THEN /\ expense'[a].times = expense[a].times + 1
                  /\ expense'[a].content = act[a].content
             ELSE expense'[a] = expense[a]
      BY <1>t, <2>4 DEF mark_done, can_mark_done, Action
    <3>3. \A b \in Actions : ExpenseMoves(b)
      BY <3>2 DEF ExpenseMoves
    <3> QED  BY <1>f, <3>1, <3>3 DEF Goal, EventMoves
  <2>5. ASSUME NEW s \in Steps, complete_step(m, s)
        PROVE  Goal
    <3>1. \A u \in Steps : StepMoves(u)
      BY <1>t, <2>5 DEF complete_step, StepMoves
    <3> QED  BY <1>n, <2>5, <3>1 DEF complete_step, Goal, EventMoves
  <2>6. CASE start_event(m)
    BY <1>n, <1>s, <2>6 DEF start_event, Goal, EventMoves
  <2>7. CASE request_current_step_drafts(m)
    <3>1. \A a \in Actions : act'[a] = act[a] \/ act'[a] = mark_drafting(act[a])
      BY <2>7 DEF request_current_step_drafts
    <3>2. ASSUME NEW a \in Actions
          PROVE  act'[a].status = act[a].status
      <4>1. mark_drafting(act[a]).status = act[a].status
        BY <1>t DEF mark_drafting, Action
      <4> QED  BY <3>1, <4>1
    <3> QED  BY <1>q, <2>7, <3>2 DEF request_current_step_drafts
  <2>8. CASE signal_lost(m)
    BY <1>q, <2>8 DEF signal_lost
  <2> QED
    BY <1>m, <2>1, <2>2, <2>3, <2>4, <2>5, <2>6, <2>7, <2>8 DEF MemberNext
<1>e. CASE EventNext
  <2>1. CASE complete_event
    BY <1>n, <1>s, <2>1 DEF complete_event, Goal, EventMoves
  <2>2. CASE begin_event_cancellation
    BY <1>n, <1>s, <2>2 DEF begin_event_cancellation, Goal, EventMoves
  <2>3. ASSUME NEW i \in CancelTasks, complete_cancel_task(i)
        PROVE  Goal
    BY <1>n, <1>s, <2>3 DEF complete_cancel_task, Goal, EventMoves
  <2>4. ASSUME NEW a \in Actions, open_confirmation(a)
        PROVE  Goal
    <3>1. \A b \in Actions : act'[b].status = "DONE" => act[b].status = "DONE"
      BY <1>t, <2>4 DEF open_confirmation, NewAction
    <3> QED  BY <1>q, <2>4, <3>1 DEF open_confirmation
  <2>5. ASSUME NEW a \in Actions, update_expense(a) \/ delete_expense(a)
        PROVE  Goal
    <3>1. UNCHANGED <<status, cancelled, step, act>>
      BY <2>5 DEF update_expense, delete_expense
    <3>2. /\ \A b \in Actions \ {a} : expense'[b] = expense[b]
          /\ expense[a].row # "NONE" /\ expense'[a].times = expense[a].times
          /\ expense'[a].content = expense[a].content
      BY <1>t, <2>5 DEF update_expense, delete_expense, Expense
    <3>3. \A b \in Actions : ExpenseMoves(b)
      BY <3>1, <3>2 DEF ExpenseMoves
    <3> QED  BY <1>s, <3>1, <3>3 DEF Goal, EventMoves
  <2> QED  BY <1>e, <2>1, <2>2, <2>3, <2>4, <2>5 DEF EventNext
<1>d. CASE DraftNext
  <2>1. ASSUME NEW a \in Actions, draft_ages(a)
        PROVE  Goal
    <3>1. \A b \in Actions : act'[b].status = act[b].status
      BY <1>t, <2>1 DEF draft_ages, Action
    <3> QED  BY <1>q, <2>1, <3>1 DEF draft_ages
  <2>2. ASSUME NEW a \in Actions, NEW n \in Attempts, draft_lost(a, n)
        PROVE  Goal
    BY <1>q, <2>2 DEF draft_lost
  <2>3. ASSUME NEW a \in Actions, NEW n \in Attempts, NEW ok \in BOOLEAN,
               finish_draft(a, n, ok)
        PROVE  Goal
    <3>1. \A b \in Actions : act'[b].status = act[b].status
      BY <1>t, <2>3 DEF finish_draft, Action
    <3> QED  BY <1>q, <2>3, <3>1 DEF finish_draft
  <2> QED  BY <1>d, <2>1, <2>2, <2>3 DEF DraftNext
<1>v. CASE UNCHANGED vars
  BY <1>q, <1>v DEF vars
<1> QED  BY <1>m, <1>e, <1>d, <1>v DEF Next

----------------------------------------------------------------------------
(* Drafts, the ledger, the steps and the end of the event *)

\* A confirmation that nobody has asked for is a blank row; only attempts
\* leave drafts, and members' own texts.
DraftHistory(a) ==
    /\ act[a].status = "ABSENT" => act[a].source = "NONE" /\ act[a].attempt = 0
    /\ act[a].draft # "NONE" /\ act[a].source # "USER" => act[a].attempt > 0

\* No cancellation work is done before the cancellation.
CancellationWaits ==
    status \notin {"CANCELLING", "CANCELLED"} => \A i \in CancelTasks : ~cancelled[i]

OperationInv ==
    /\ \A a \in Actions : DraftHistory(a)
    /\ LatestAttemptWins
    /\ DraftsFollowTheSteps
    /\ CancellationWaits
    /\ EventClosesInOrder
    /\ LedgerMatchesApprovals
    /\ StepClosesWithItsActions


LEMMA InitOperation == Init => OperationInv
<1> SUFFICES ASSUME Init PROVE OperationInv
  OBVIOUS
<1>1. \A a \in Actions : /\ act[a].status \in {"ABSENT", "PENDING"}
                         /\ act[a].source = "NONE" /\ act[a].draft = "NONE"
                         /\ act[a].attempt = 0
  BY DEF Init, NewAction
<1>2. /\ status = "PLANNING"
      /\ \A s \in Steps : step[s] = "OPEN"
      /\ \A a \in Actions : expense[a] = NoExpense
      /\ \A i \in CancelTasks : ~cancelled[i]
  BY DEF Init
<1>3. 1 \in CancelTasks
  BY OperationAssumption DEF CancelTasks
<1>4. /\ \A a \in Actions : DraftHistory(a)
      /\ LatestAttemptWins /\ DraftsFollowTheSteps
  BY <1>1 DEF DraftHistory, LatestAttemptWins, DraftsFollowTheSteps
<1>5. CancellationWaits /\ EventClosesInOrder
  BY <1>2, <1>3 DEF CancellationWaits, EventClosesInOrder, CompleteEventIsSettled,
                    CancellationInOrder
<1>6. LedgerMatchesApprovals /\ StepClosesWithItsActions
  BY <1>1, <1>2 DEF LedgerMatchesApprovals, StepClosesWithItsActions
<1> QED  BY <1>4, <1>5, <1>6 DEF OperationInv

\* A row that is done stays done, with its price and its approval.
LEMMA DoneIsFinal ==
    ASSUME NEW a \in Actions, RowMoves(a), act[a].status = "DONE"
    PROVE  /\ act'[a].status = "DONE"
           /\ act'[a].priced = act[a].priced
           /\ act'[a].approved = act[a].approved
  BY DEF RowMoves, DraftMoves, Decided, EditedBy, Opened, Marked, Written, unfinished,
         writable, awaits_draft, can_request_draft

LEMMA NextDrafts ==
    ASSUME TypeOK, [Next]_vars, OperationInv
    PROVE  /\ \A a \in Actions : DraftHistory(a)'
           /\ LatestAttemptWins'
           /\ DraftsFollowTheSteps'
<1>m. /\ \A a \in Actions : RowMoves(a)
      /\ \A s \in Steps : StepMoves(s)
  BY RowsMove, OthersMove
<1>t. \A a \in Actions : act[a].attempt \in Nat
  BY DEF TypeOK, Action
<1>1. ASSUME NEW a \in Actions
      PROVE  DraftHistory(a)'
  <2>1. DraftHistory(a) /\ RowMoves(a) /\ act[a].attempt \in Nat
    BY <1>m, <1>t DEF OperationInv
  <2>2. CASE DraftMoves(a)
    BY <2>1, <2>2 DEF DraftHistory, DraftMoves
  <2>3. CASE Decided(a)
    BY <2>1, <2>3 DEF DraftHistory, Decided
  <2>4. CASE EditedBy(a)
    BY <2>1, <2>4 DEF DraftHistory, EditedBy
  <2>5. CASE Opened(a)
    BY <2>5 DEF DraftHistory, Opened, NewAction
  <2>6. CASE Marked(a)
    BY <2>1, <2>6 DEF DraftHistory, Marked, awaits_draft, can_request_draft
  <2>7. CASE Written(a)
    BY <2>1, <2>7 DEF DraftHistory, Written, writable
  <2> QED  BY <2>1, <2>2, <2>3, <2>4, <2>5, <2>6, <2>7 DEF RowMoves
<1>2. ASSUME NEW a \in Actions, act'[a].source = "AI"
      PROVE  act'[a].drafted = act'[a].attempt
  BY <1>2, <1>m DEF OperationInv, LatestAttemptWins, RowMoves, DraftMoves, Decided,
                    EditedBy, Opened, NewAction, Marked, Written
<1>3. ASSUME NEW a \in Actions, act'[a].attempt > 0, NEW s \in Steps, s < StepOf[a]
      PROVE  step'[s] # "OPEN"
  <2>1. step[s] # "OPEN" => step'[s] # "OPEN"
    BY <1>m DEF StepMoves
  <2>2. CASE act[a].attempt > 0
    BY <1>3, <2>1, <2>2 DEF OperationInv, DraftsFollowTheSteps
  <2>3. CASE ~(act[a].attempt > 0)
    <3>1. Marked(a)
      BY <1>3, <1>m, <2>3 DEF RowMoves, DraftMoves, Decided, EditedBy, Opened,
                              NewAction, Written
    <3>2. ~can_request_draft(a)
      BY <2>3 DEF OperationInv, DraftHistory, can_request_draft
    <3>3. is_current(StepOf[a])
      BY <3>1, <3>2 DEF Marked, awaits_draft
    <3> QED  BY <1>3, <2>1, <3>3 DEF is_current
  <2> QED  BY <2>2, <2>3
<1> QED  BY <1>1, <1>2, <1>3 DEF LatestAttemptWins, DraftsFollowTheSteps

LEMMA NextLedger ==
    ASSUME SeenInv, [Next]_vars, OperationInv
    PROVE  LedgerMatchesApprovals'
<1> SUFFICES ASSUME NEW a \in Actions
             PROVE  IF records_expense(a)' /\ act'[a].status = "DONE"
                    THEN /\ expense'[a].times = 1
                         /\ expense'[a].content = act'[a].approved.content
                    ELSE expense'[a] = NoExpense
  BY DEF LedgerMatchesApprovals
<1>m. TypeOK /\ RowMoves(a) /\ ExpenseMoves(a)
  BY RowsMove, OthersMove DEF SeenInv
<1>l. IF records_expense(a) /\ act[a].status = "DONE"
      THEN expense[a].times = 1 /\ expense[a].content = act[a].approved.content
      ELSE expense[a] = NoExpense
  BY DEF OperationInv, LedgerMatchesApprovals
<1>e. NoExpense.row = "NONE" /\ NoExpense.times = 0
  BY DEF NoExpense
<1>1. CASE act[a].status = "DONE"
  <2>1. /\ act'[a].status = "DONE" /\ records_expense(a)' = records_expense(a)
        /\ act'[a].approved = act[a].approved
    BY <1>1, <1>m, DoneIsFinal DEF records_expense
  <2> QED  BY <1>1, <1>m, <1>l, <1>e, <2>1 DEF ExpenseMoves
<1>2. CASE act[a].status # "DONE" /\ act'[a].status = "DONE"
  <2>1. Decided(a)
    BY <1>2, <1>m DEF RowMoves, DraftMoves, EditedBy, Opened, NewAction, Marked,
                      Written
  <2>2. records_expense(a)' = records_expense(a)
    BY <2>1 DEF Decided, records_expense
  <2>3. records_expense(a) => approve_needed(a)
    BY DEF records_expense, approve_needed
  <2>4. records_expense(a) => act'[a].approved.content = act[a].content
    <3>1. records_expense(a) => /\ act[a].status = "APPROVED"
                                /\ act'[a].approved = act[a].approved
      BY <1>2, <2>1, <2>3 DEF Decided
    <3>2. records_expense(a) =>
              act[a].approved = [by |-> act[a].resolver, content |-> act[a].content]
      BY <2>3, <3>1 DEF SeenInv, ApprovedRow
    <3> QED  BY <3>1, <3>2
  <2> QED  BY <1>2, <1>m, <1>l, <1>e, <2>2, <2>4 DEF ExpenseMoves
<1>3. CASE act[a].status # "DONE" /\ act'[a].status # "DONE"
  BY <1>3, <1>m, <1>l, <1>e DEF ExpenseMoves
<1> QED  BY <1>1, <1>2, <1>3

LEMMA NextSteps ==
    ASSUME TypeOK, [Next]_vars, OperationInv
    PROVE  StepClosesWithItsActions'
<1>m. /\ \A a \in Actions : RowMoves(a)
      /\ \A s \in Steps : StepMoves(s)
  BY RowsMove, OthersMove
<1> SUFFICES ASSUME NEW s \in Steps
             PROVE  LET mine == {a \in Actions : StepOf[a] = s}
                        over == mine # {} /\ \A a \in mine : act'[a].status = "DONE"
                    IN (over => step'[s] # "OPEN") /\ (step'[s] = "AUTO" => over)
  BY DEF StepClosesWithItsActions
<1> DEFINE mine == {a \in Actions : StepOf[a] = s}
<1>1. /\ mine # {} /\ (\A a \in mine : act[a].status = "DONE") => step[s] # "OPEN"
      /\ step[s] = "AUTO" => mine # {} /\ \A a \in mine : act[a].status = "DONE"
  BY DEF OperationInv, StepClosesWithItsActions
<1>2. \A a \in mine : act[a].status = "DONE" => act'[a].status = "DONE"
  BY <1>m, DoneIsFinal
<1>3. step'[s] = "AUTO" => mine # {} /\ \A a \in mine : act'[a].status = "DONE"
  BY <1>m, <1>1, <1>2 DEF StepMoves, is_step_done
<1>4. ASSUME mine # {}, \A a \in mine : act'[a].status = "DONE"
      PROVE  step'[s] # "OPEN"
  <2>1. CASE \A a \in mine : act[a].status = "DONE"
    BY <1>m, <1>1, <1>4, <2>1 DEF StepMoves
  <2>2. ASSUME NEW a \in mine, act[a].status # "DONE"
        PROVE  step'[s] # "OPEN"
    <3>1. Decided(a)
      BY <1>4, <2>2, <1>m DEF RowMoves, DraftMoves, EditedBy, Opened, NewAction,
                              Marked, Written
    <3>2. step' = finish_step_if_done(a, act')
      BY <1>4, <3>1 DEF Decided
    <3>3. is_step_done(s, act')
      BY <1>4 DEF is_step_done
    <3> QED  BY <3>2, <3>3 DEF finish_step_if_done
  <2> QED  BY <2>1, <2>2
<1> QED  BY <1>3, <1>4

LEMMA NextEvent ==
    ASSUME TypeOK, [Next]_vars, OperationInv
    PROVE  CancellationWaits' /\ EventClosesInOrder'
<1>m. /\ \A a \in Actions : RowMoves(a)
      /\ \A s \in Steps : StepMoves(s)
      /\ EventMoves
  BY RowsMove, OthersMove
<1>c. CancellationWaits /\ CancellationInOrder /\ CompleteEventIsSettled
  BY DEF OperationInv, EventClosesInOrder
<1>i. /\ \A i \in CancelTasks : i \in Nat
      /\ 1 \in CancelTasks
  BY OperationAssumption DEF CancelTasks
<1>1. CompleteEventIsSettled'
  <2>1. CASE complete_event
    BY <2>1 DEF complete_event, CompleteEventIsSettled, unfinished
  <2>2. CASE status' = "COMPLETE" /\ ~complete_event
    <3>1. status = "COMPLETE"
      BY <1>m, <2>2 DEF EventMoves, begin_event_cancellation, complete_cancel_task
    <3>2. \A s \in Steps : step'[s] # "OPEN"
      BY <1>m, <1>c, <3>1 DEF CompleteEventIsSettled, StepMoves
    <3>3. ASSUME NEW a \in Actions
          PROVE  ~unfinished(a)'
      <4>1. ~unfinished(a) /\ ~is_operating /\ RowMoves(a)
        BY <1>m, <1>c, <3>1 DEF CompleteEventIsSettled, is_operating
      <4>2. DraftMoves(a)
        BY <4>1 DEF RowMoves, Decided, EditedBy, Opened, Marked, Written, writable
      <4> QED  BY <4>1, <4>2 DEF DraftMoves, unfinished
    <3> QED  BY <3>2, <3>3 DEF CompleteEventIsSettled
  <2> QED  BY <2>1, <2>2 DEF CompleteEventIsSettled
<1>2. CancellationWaits' /\ CancellationInOrder'
  <2>1. CASE UNCHANGED <<status, cancelled>>
    BY <1>c, <2>1 DEF CancellationWaits, CancellationInOrder
  <2>2. CASE UNCHANGED cancelled /\ status' # "CANCELLED" /\ is_operating
    BY <1>c, <1>i, <2>2 DEF CancellationWaits, CancellationInOrder, is_operating
  <2>3. CASE UNCHANGED cancelled /\ status' = "ON_GOING" /\ status = "PLANNING"
    BY <1>c, <1>i, <2>3 DEF CancellationWaits, CancellationInOrder
  <2>4. ASSUME NEW i \in CancelTasks, complete_cancel_task(i)
        PROVE  CancellationWaits' /\ CancellationInOrder'
    <3>1. /\ status = "CANCELLING"
          /\ \A j \in CancelTasks : j < i => cancelled[j]
          /\ cancelled' = [cancelled EXCEPT ![i] = TRUE]
          /\ status' = IF \A j \in CancelTasks : cancelled'[j] THEN "CANCELLED"
                       ELSE status
      BY <2>4 DEF complete_cancel_task
    <3>2. /\ cancelled'[i]
          /\ \A j \in CancelTasks \ {i} : cancelled'[j] = cancelled[j]
      BY <3>1 DEF TypeOK
    <3>3. ASSUME NEW j \in CancelTasks, NEW k \in CancelTasks, j < k, cancelled'[k]
          PROVE  cancelled'[j]
      BY <1>c, <3>1, <3>2, <3>3 DEF CancellationInOrder
    <3> QED  BY <3>1, <3>3 DEF CancellationWaits, CancellationInOrder
  <2> QED
    BY <1>m, <2>1, <2>2, <2>3, <2>4
    DEF EventMoves, complete_event, begin_event_cancellation
<1> QED  BY <1>1, <1>2 DEF EventClosesInOrder

LEMMA NextOperation == SeenInv /\ OperationInv /\ [Next]_vars => OperationInv'
<1> SUFFICES ASSUME SeenInv, OperationInv, [Next]_vars PROVE OperationInv'
  OBVIOUS
<1>1. TypeOK
  BY DEF SeenInv
<1> QED  BY <1>1, NextDrafts, NextLedger, NextSteps, NextEvent DEF OperationInv

LEMMA OperationHolds == Spec => [](SeenInv /\ OperationInv)
<1>1. Init => SeenInv /\ OperationInv
  BY InitSeen, InitOperation
<1>2. SeenInv /\ OperationInv /\ [Next]_vars => (SeenInv /\ OperationInv)'
  BY NextSeen, NextOperation
<1> QED  BY <1>1, <1>2, PTL DEF Spec

\* However many attempts time out, fail or end late, the text of the model on
\* an action is the latest attempt's.
THEOREM LateDraftsAreDropped == Spec => []LatestAttemptWins
<1>1. OperationInv => LatestAttemptWins
  BY DEF OperationInv
<1> QED  BY <1>1, OperationHolds, PTL

\* No notice or mail is drafted before every step ahead of its own is closed.
THEOREM NoDraftAhead == Spec => []DraftsFollowTheSteps
<1>1. OperationInv => DraftsFollowTheSteps
  BY DEF OperationInv
<1> QED  BY <1>1, OperationHolds, PTL

\* A completed event leaves nothing open behind it, and a cancellation is
\* worked off in order and ends when all of it is done.
THEOREM EventsCloseInOrder == Spec => []EventClosesInOrder
<1>1. OperationInv => EventClosesInOrder
  BY DEF OperationInv
<1> QED  BY <1>1, OperationHolds, PTL

\* Every executed transfer was booked once, with the amount its approver saw,
\* and nothing else was booked, whatever members do to the ledger afterwards.
THEOREM LedgerIsRight == Spec => []LedgerMatchesApprovals
<1>1. OperationInv => LedgerMatchesApprovals
  BY DEF OperationInv
<1> QED  BY <1>1, OperationHolds, PTL

\* A step is closed with its last action, and on its own only then.
THEOREM StepsCloseInTime == Spec => []StepClosesWithItsActions
<1>1. OperationInv => StepClosesWithItsActions
  BY DEF OperationInv
<1> QED  BY <1>1, OperationHolds, PTL

\* No draft task, however late, writes over a text of a member.
THEOREM MembersKeepTheirText == Spec => MemberTextIsKept
<1>1. SeenInv /\ OperationInv /\ [Next]_vars =>
          [\A a \in Actions : act[a].source = "USER" => act'[a].source = "USER"]_vars
  <2> SUFFICES ASSUME SeenInv, OperationInv, [Next]_vars,
                      NEW a \in Actions, act[a].source = "USER"
               PROVE  act'[a].source = "USER"
    OBVIOUS
  <2>1. RowMoves(a) /\ DraftHistory(a)
    BY RowsMove DEF SeenInv, OperationInv
  <2> QED
    BY <2>1 DEF RowMoves, DraftMoves, Decided, EditedBy, Opened, Marked, Written,
                DraftHistory, awaits_draft, can_request_draft, writable
<1> QED  BY <1>1, OperationHolds, PTL DEF Spec, MemberTextIsKept

\* Once the event is completed or being cancelled, its actions and steps stay
\* as they are and nothing more is booked for them.
THEOREM ClosedEventsStay == Spec => ClosedEventIsReadOnly
<1>1. SeenInv /\ OperationInv /\ [Next]_vars =>
          [(status \in {"COMPLETE", "CANCELLING", "CANCELLED"}) =>
               /\ UNCHANGED step
               /\ \A a \in Actions : /\ Settled(act'[a]) = Settled(act[a])
                                     /\ expense'[a].times = expense[a].times]_vars
  <2> SUFFICES ASSUME SeenInv, OperationInv, [Next]_vars,
                      status \in {"COMPLETE", "CANCELLING", "CANCELLED"}
               PROVE  /\ UNCHANGED step
                      /\ \A a \in Actions : /\ Settled(act'[a]) = Settled(act[a])
                                            /\ expense'[a].times = expense[a].times
    OBVIOUS
  <2>1. TypeOK /\ TypeOK' /\ ~is_operating
    BY NextType DEF SeenInv, is_operating
  <2>2. /\ \A a \in Actions : RowMoves(a) /\ ExpenseMoves(a)
        /\ \A s \in Steps : StepMoves(s)
    BY <2>1, RowsMove, OthersMove
  <2>3. UNCHANGED step
    BY <2>1, <2>2 DEF StepMoves, TypeOK
  <2>4. ASSUME NEW a \in Actions
        PROVE  DraftMoves(a)
    <3>1. ~EditedBy(a)
      BY DEF EditedBy, OperationInv, EventClosesInOrder, CompleteEventIsSettled
    <3> QED
      BY <2>1, <2>2, <3>1 DEF RowMoves, Decided, Opened, Marked, Written, writable
  <2> QED  BY <2>2, <2>3, <2>4 DEF DraftMoves, ExpenseMoves, Settled
<1> QED  BY <1>1, OperationHolds, PTL DEF Spec, ClosedEventIsReadOnly
=============================================================================
