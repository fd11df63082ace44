------------------------------ MODULE PlanDiff ------------------------------
(* What a review is told of the members' edits: the plan as it is now       *)
(* against the plan as it was generated (services/plan_review_service.py,   *)
(* snapshot_plan and build_review_request), after any edits of its steps    *)
(* and actions, and what becomes of the model's answer (review_plan_edit).  *)
(* When a review may run is in module Planning.                             *)
EXTENDS Naturals, Sequences, FiniteSets, SequencesExt

CONSTANTS
  PhaseOrder,   \* the phases in the order of the catalogue
  BY_CODE,      \* step code -> its phase
  DetailedStep, \* the one step whose actions the model tells apart
  MaxPlanEdits  \* bound: edits between the generation and the review

VARIABLES
  planned,   \* the steps in step_order: [code, when, actions]
  generated, \* the row of plan_reviews and event: baseline and the AI's exclusions
  told       \* the review request, and the answer as it is passed on

diffVars == <<planned, generated, told>>

Codes == DOMAIN BY_CODE

ASSUME DiffAssumption ==
  /\ IsFiniteSet(Codes) /\ PhaseOrder \in Seq(Range(PhaseOrder)) /\ IsInjective(PhaseOrder)
  /\ BY_CODE \in [Codes -> Range(PhaseOrder)] /\ MaxPlanEdits \in Nat

(* Titles are the step's own name, which a step put back gets, and another. *)
Titles == {"name", "other"}
PlanActions == [title : Titles, amount : 0..1, due : 0..1]
DefaultAction == [title |-> "name", amount |-> 0, due |-> 0]
NewStep(c) == [code |-> c, when |-> 0,
               actions |-> IF c = DetailedStep THEN <<DefaultAction>> ELSE <<>>]

NoChanges == [removed |-> {}, added |-> {}, moved |-> {}, rescheduled |-> {}, actions |-> {}]
NoRequest == [at |-> "none", included |-> <<>>, excluded |-> {}, changes |-> NoChanges,
              outcome |-> "none", named |-> {}]

rank(c) == CHOOSE i \in DOMAIN PhaseOrder : PhaseOrder[i] = BY_CODE[c]
codes_of(steps) == [i \in DOMAIN steps |-> steps[i].code]
step_of(steps, c) == steps[CHOOSE i \in DOMAIN steps : steps[i].code = c]

(* The codes among `chosen`, in their order.                                *)
keep_code(kept, c, chosen) == IF c \in chosen THEN Append(kept, c) ELSE kept
codes_in(codes, chosen) == FoldLeft(LAMBDA kept, c : keep_code(kept, c, chosen), <<>>, codes)
phase_codes(p) == {c \in Codes : BY_CODE[c] = p}

(* A stable sort by phase.                                                  *)
add_phase(sorted, p, codes) == sorted \o codes_in(codes, phase_codes(p))
by_phase(codes) == FoldLeft(LAMBDA sorted, p : add_phase(sorted, p, codes), <<>>, PhaseOrder)

Orders == {by_phase(s) : s \in UNION {SetToSeqs(cs) : cs \in (SUBSET Codes) \ {{}}}}

(* A generated plan partitions the catalogue (module Generation); the       *)
(* detailed step comes with one or two actions of any title.                *)
GeneratedActions == UNION {[1..n -> {[a EXCEPT !.due = 0] : a \in PlanActions}] : n \in 1..2}

DiffInit ==
  /\ planned = <<>>
  /\ generated = [baseline |-> <<>>, ai_excluded |-> Codes, edits |-> 0]
  /\ told = NoRequest

(* _materialize_preview and snapshot_plan: the steps and the baseline with  *)
(* them.  A later generation replaces both, which starts this over.         *)
snapshot_plan ==
  /\ generated.baseline = <<>>
  /\ \E order \in Orders, acts \in GeneratedActions :
       /\ DetailedStep \notin Range(order) => acts = <<DefaultAction>>
       /\ planned' = [i \in DOMAIN order |->
            [NewStep(order[i]) EXCEPT !.actions = IF order[i] = DetailedStep THEN acts ELSE @]]
       /\ generated' = [baseline |-> planned', ai_excluded |-> Codes \ Range(order), edits |-> 0]
  /\ UNCHANGED told

Editing == generated.baseline # <<>> /\ told.at = "none" /\ generated.edits < MaxPlanEdits
Edited_once == generated' = [generated EXCEPT !.edits = @ + 1]

(* replace_plan_steps: kept steps keep what they hold, a step put back is   *)
(* new; the order is the one sent, phase by phase.                          *)
replace_steps ==
  /\ Editing
  /\ \E codes \in Orders :
       planned' = [i \in DOMAIN codes |->
                     IF codes[i] \in Range(codes_of(planned))
                     THEN step_of(planned, codes[i]) ELSE NewStep(codes[i])]
  /\ Edited_once /\ UNCHANGED told

(* update_step.                                                             *)
reschedule_step ==
  /\ Editing
  /\ \E i \in DOMAIN planned, when \in 0..1 : planned' = [planned EXCEPT ![i].when = when]
  /\ Edited_once /\ UNCHANGED told

(* update_action: title, amount and due date, each as sent.                 *)
change_action ==
  /\ Editing
  /\ \E i \in DOMAIN planned : \E k \in DOMAIN planned[i].actions : \E a \in PlanActions :
       planned' = [planned EXCEPT ![i].actions[k] = a]
  /\ Edited_once /\ UNCHANGED told

(* _phase_sequences: the codes of each phase, in order.                     *)
_phase_sequences(codes) ==
  [p \in Range(PhaseOrder) |-> codes_in(codes, phase_codes(p))]

place(seq, c) == CHOOSE i \in DOMAIN seq : seq[i] = c

\* Fault: a step counts as moved when its place in the whole plan is another,
\* also where a step before it was merely taken out.
MovedInThePlan(current, baseline) ==
  {c \in Range(current) \cap Range(baseline) : place(current, c) # place(baseline, c)}

(* _moved_codes: among the steps of both plans, those with another place in *)
(* their phase.                                                             *)
_moved_codes(current, baseline) ==
  LET both   == Range(current) \cap Range(baseline)
      now    == _phase_sequences(codes_in(current, both))
      before == _phase_sequences(codes_in(baseline, both))
  IN {c \in both : place(now[BY_CODE[c]], c) # place(before[BY_CODE[c]], c)}

(* The dictionary of _action_changes: the last action of a title stands.    *)
by_title(acts, title) ==
  acts[CHOOSE k \in DOMAIN acts : /\ acts[k].title = title
                                  /\ \A j \in DOMAIN acts : acts[j].title = title => j <= k]

(* _action_changes: fields of actions whose title the baseline has.         *)
_action_changes(c, before, after) ==
  {x \in [code : {c}, title : Titles, field : {"amount", "due"}] :
     /\ \E i \in DOMAIN before : before[i].title = x.title
     /\ \E k \in DOMAIN after : /\ after[k].title = x.title
                                /\ after[k][x.field] # by_title(before, x.title)[x.field]}

(* build_review_request: the change set.                                    *)
change_set(now, old) ==
  LET nowCodes == Range(codes_of(now))
      oldCodes == Range(codes_of(old))
      both     == nowCodes \cap oldCodes
  IN [removed |-> oldCodes \ nowCodes,
      added |-> nowCodes \ oldCodes,
      moved |-> _moved_codes(codes_of(now), codes_of(old)),
      rescheduled |-> {c \in both : step_of(old, c).when # step_of(now, c).when},
      actions |-> UNION {_action_changes(c, step_of(old, c).actions, step_of(now, c).actions) : c \in both}]

(* build_review_request: the steps that are out, and who left them out.     *)
excluded_steps(now) ==
  {[code |-> c, by |-> IF c \in generated.ai_excluded THEN "ai" ELSE "user"] :
     c \in Codes \ Range(codes_of(now))}

build_review_request ==
  /\ told.at = "none" /\ generated.baseline # <<>>
  /\ told' = [told EXCEPT !.at = "asked", !.included = planned,
                       !.excluded = excluded_steps(planned),
                       !.changes = change_set(planned, generated.baseline)]
  /\ UNCHANGED <<planned, generated>>

(* review_plan_edit: an answer whose outcome and items disagree, or that    *)
(* names a step the request does not have, is no answer.                    *)
valid_review(outcome, named) ==
  /\ (outcome = "issues") <=> named # {}
  /\ named \subseteq Range(codes_of(told.included)) \cup {x.code : x \in told.excluded}

review_plan_edit ==
  /\ told.at = "asked"
  /\ \E outcome \in {"issues", "no_issues"}, named \in {{}, {DetailedStep}, {"unheard_of"}} :
       told' = IF valid_review(outcome, named)
               THEN [told EXCEPT !.at = "answered", !.outcome = outcome, !.named = named]
               ELSE [told EXCEPT !.at = "failed"]
  /\ UNCHANGED <<planned, generated>>

DiffNext ==
  \/ snapshot_plan \/ replace_steps \/ reschedule_step \/ change_action
  \/ build_review_request \/ review_plan_edit

DiffTypeOK ==
  /\ {codes_of(planned), codes_of(generated.baseline)} \subseteq Orders \cup {<<>>}
  /\ generated.ai_excluded \subseteq Codes /\ generated.edits \in 0..MaxPlanEdits
  /\ told.at \in {"none", "asked", "answered", "failed"}

(* A pair of steps of one phase that the members have put the other way     *)
(* round.                                                                   *)
Swapped(now, old) ==
  LET kept == Range(now) \cap Range(old) IN
  {pair \in kept \X kept :
     LET b == pair[1]  c == pair[2] IN
     BY_CODE[b] = BY_CODE[c] /\ place(now, b) < place(now, c) /\ place(old, c) < place(old, b)}

Once(acts, title) == Cardinality({k \in DOMAIN acts : acts[k].title = title}) = 1

(* What a review is told is what the members did (build_review_request):    *)
(* every step of the catalogue is either in the plan or out of it, and one  *)
(* that a member is said to have left out was in the generated plan; steps  *)
(* are reported as moved exactly when two of one phase have changed places, *)
(* whatever was taken out or put in around them, and each such pair has one *)
(* of its two steps reported; a schedule or, under a title that stands once *)
(* in both plans, a value is reported if and only if it differs.  An answer *)
(* passed on names only steps of the request.                               *)
ReviewIsToldTheEdits ==
  /\ DiffTypeOK
  /\ told.at # "none" =>
    LET old == generated.baseline
        now == told.included
        was == codes_of(old)
        is  == codes_of(now)
    IN /\ Range(is) \cup {x.code : x \in told.excluded} = Codes
       /\ \A x \in told.excluded :
            x.code \notin Range(is) /\ (x.by = "user" => x.code \in told.changes.removed)
       /\ told.changes.moved = {} <=> Swapped(is, was) = {}
       /\ \A pair \in Swapped(is, was) : Range(pair) \cap told.changes.moved # {}
       /\ \A c \in Range(is) \cap Range(was) :
            /\ c \in told.changes.rescheduled <=> step_of(now, c).when # step_of(old, c).when
            /\ \A t \in Titles :
                 LET a == step_of(old, c).actions
                     b == step_of(now, c).actions
                 IN Once(a, t) /\ Once(b, t) =>
                      \A f \in {"amount", "due"} :
                        [code |-> c, title |-> t, field |-> f] \in told.changes.actions
                          <=> by_title(a, t)[f] # by_title(b, t)[f]
       /\ told.at = "answered" => told.named \subseteq Codes
=============================================================================
