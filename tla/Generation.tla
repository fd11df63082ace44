----------------------------- MODULE Generation -----------------------------
(* Generating an event plan (ai/features/planning/generation): the model    *)
(* writes the plan as JSON text, StepCodeReader announces the step codes as *)
(* they are written, and validate_plan decides whether the completed plan   *)
(* may be shown.  A text is a sequence of characters of a small alphabet:   *)
(* JSON's signs, Quote, Escape, and one letter each for the words "steps",  *)
(* "code", every catalog code and any other word.  A date is a number.      *)
EXTENDS Naturals, Sequences, FiniteSets, SequencesExt

CONSTANTS
  Catalog,      \* step codes, each with its phase and the action types it allows
  PlanTexts,    \* JSON documents the model may write, as values
  Compositions, \* completed plans that may come out of them
  Bases         \* the event's [start_date, end_date] the plan is made for

VARIABLE generation

genVars == <<generation>>

NoDate == 0
Signs == {"ObjectStart", "ObjectEnd", "ArrayStart", "ArrayEnd", "Colon", "Comma", "Quote", "Escape"}
Shapes == {"plain", "before", "after", "twice"}

\* A code is a word, a date is a day, and an event does not end before it
\* starts (PlanningConditions refuses it).
ASSUME GenerationAssumption ==
  /\ IsFiniteSet(DOMAIN Catalog) /\ DOMAIN Catalog \cap Signs = {}
  /\ PlanTexts \subseteq [steps : Seq([code : DOMAIN Catalog, shape : Shapes]), steps_first : BOOLEAN]
  /\ \A b \in Bases : /\ {b.start_date, b.end_date} \subseteq Nat
                      /\ NoDate \in {b.start_date, b.end_date} \/ b.start_date <= b.end_date
  /\ \A c \in Compositions :
       /\ c.steps \in Seq(ToSet(c.steps)) /\ c.excluded \in Seq(ToSet(c.excluded))
       /\ \A s \in ToSet(c.steps) : {s.starts_at, s.deadline} \subseteq Nat
Words == {"steps", "code", "x"} \cup DOMAIN Catalog

Reader == [frames |-> <<>>, in_string |-> FALSE, escape |-> FALSE, is_key |-> FALSE,
           chars |-> <<>>, keep |-> FALSE, opened |-> 0, last_found |-> 0, found |-> <<>>]

GenInit == generation = [at |-> "idle", text |-> <<>>, value |-> <<>>, read |-> 0,
                         reader |-> Reader, preview |-> <<>>, outcome |-> "none"]

---------------------------------------------------------------------------
(* A frame is an open object with its current key and whether a value       *)
(* comes next, or an open array.                                            *)
Object == [kind |-> "object", key |-> <<>>, value |-> FALSE]
Array == [kind |-> "array", key |-> <<>>, value |-> FALSE]
Top(r) == Last(r.frames)

_top_object(r) == r.frames # <<>> /\ Top(r).kind = "object"

UnderSteps(r) ==
  /\ r.frames[1].kind = "object" /\ r.frames[1].key = <<"steps">>
  /\ r.frames[2].kind = "array"

_in_steps_array(r) == Len(r.frames) = 2 /\ UnderSteps(r)

\* Fault: a code key at any depth below a step is taken for the step's code.
AtAnyCode(r) ==
  /\ Len(r.frames) >= 3 /\ UnderSteps(r)
  /\ Top(r).kind = "object" /\ Top(r).key = <<"code">> /\ Top(r).value

_at_step_code(r) ==
  /\ Len(r.frames) = 3 /\ UnderSteps(r)
  /\ Top(r).kind = "object" /\ Top(r).key = <<"code">> /\ Top(r).value

(* Inside an object before the colon a string is a key.  A string in an     *)
(* array or outside everything is a value.                                  *)
_start_string(r) ==
  LET key == _top_object(r) /\ ~Top(r).value
  IN [r EXCEPT !.in_string = TRUE, !.is_key = key, !.chars = <<>>,
               !.keep = key \/ _at_step_code(r)]

(* A key is remembered in its object; the code of a step is found once.     *)
_end_string(r) ==
  LET closed == [r EXCEPT !.in_string = FALSE, !.keep = FALSE, !.chars = <<>>]
  IN IF r.is_key
     THEN [closed EXCEPT !.frames[Len(r.frames)].key = r.chars]
     ELSE IF r.keep /\ r.opened > r.last_found
     THEN [closed EXCEPT !.last_found = r.opened,
                         !.found = Append(@, [index |-> r.opened, code |-> r.chars])]
     ELSE closed

_read_string_char(r, char) ==
  LET kept == IF r.keep THEN Append(r.chars, char) ELSE r.chars
  IN IF r.escape THEN [r EXCEPT !.escape = FALSE, !.chars = kept]
     ELSE CASE char = "Escape" -> [r EXCEPT !.escape = TRUE]
            [] char = "Quote"  -> _end_string(r)
            [] OTHER           -> [r EXCEPT !.chars = kept]

(* StepCodeReader.feed, one character.                                      *)
feed(r, char) ==
  LET turn(value) == IF _top_object(r) THEN [r EXCEPT !.frames[Len(r.frames)].value = value] ELSE r
  IN IF r.in_string THEN _read_string_char(r, char)
     ELSE CASE char = "Quote" -> _start_string(r)
            [] char = "Colon" -> turn(TRUE)
            [] char = "Comma" -> turn(FALSE)
            [] char = "ObjectStart" -> [r EXCEPT !.frames = Append(@, Object),
                                                 !.opened = IF _in_steps_array(r) THEN @ + 1 ELSE @]
            [] char = "ArrayStart" -> [r EXCEPT !.frames = Append(@, Array)]
            [] char \in {"ObjectEnd", "ArrayEnd"} -> [r EXCEPT !.frames = IF @ = <<>> THEN @ ELSE Front(@)]
            [] OTHER          -> r

---------------------------------------------------------------------------
(* How the model's JSON is written: a step has a code and further members   *)
(* around it, among them an object of its own with a key "code".            *)
Word(w) == <<"Quote", w, "Quote">>
Escaped == <<"Quote", "x", "Escape", "Quote", "ObjectStart", "Quote">>
Entry(key, value) == Word(key) \o <<"Colon">> \o value
add_member(text, m) == IF text = <<>> THEN m ELSE text \o <<"Comma">> \o m
Members(ms) == FoldLeft(LAMBDA text, m : add_member(text, m), <<>>, ms)
Obj(ms) == <<"ObjectStart">> \o Members(ms) \o <<"ObjectEnd">>
Arr(vs) == <<"ArrayStart">> \o Members(vs) \o <<"ArrayEnd">>

Inner == Arr(<<Obj(<<Entry("code", Word("x"))>>)>>)
StepText(step) ==
  LET code == Entry("code", Word(step.code))
  IN Obj(CASE step.shape = "plain"  -> <<code>>
           [] step.shape = "before" -> <<Entry("x", Inner), code>>
           [] step.shape = "after"  -> <<code, Entry("x", Escaped), Entry("x", Inner)>>
           [] step.shape = "twice"  -> <<code, code>>)

PlanText(plan) ==
  LET steps == Entry("steps", Arr([i \in DOMAIN plan.steps |-> StepText(plan.steps[i])]))
      other == Entry("x", Arr(<<Obj(<<Entry("code", Word("x"))>>)>>))
  IN Obj(IF plan.steps_first THEN <<steps, other>> ELSE <<other, steps>>)

---------------------------------------------------------------------------
PHASE_ORDER == <<"PREPARATION", "RECRUITING", "EXECUTION">>
PhaseOf(code) == CHOOSE k \in DOMAIN PHASE_ORDER : PHASE_ORDER[k] = Catalog[code].phase
Dates(step) == {step.starts_at, step.deadline} \ {NoDate}

BEFORE_EVENT == {c \in DOMAIN Catalog : PhaseOf(c) <= 2 \/ c = "PRE_EVENT_NOTICE"}
AFTER_EVENT == {"SETTLE_EXPENSES", "REFUND_FEES", "RECORD_FEEDBACK"}

catalog_partition(c) ==
  LET codes == [i \in DOMAIN c.steps |-> c.steps[i].code]
  IN /\ IsInjective(codes) /\ IsInjective(c.excluded)
     /\ ToSet(codes) \cap ToSet(c.excluded) = {}
     /\ ToSet(codes) \cup ToSet(c.excluded) = DOMAIN Catalog

phase_order(c) ==
  \A i, j \in DOMAIN c.steps : i < j => PhaseOf(c.steps[i].code) <= PhaseOf(c.steps[j].code)

reversed_period(step) ==
  step.starts_at # NoDate /\ step.deadline # NoDate /\ step.deadline < step.starts_at

dates_when_unknown(step, base) ==
  base.start_date = NoDate /\ (Dates(step) # {} \/ \E a \in ToSet(step.actions) : a.due # NoDate)

action_type(step) == \E a \in ToSet(step.actions) : a.type \notin Catalog[step.code].actions

action_due_outside_step(step) ==
  \E a \in ToSet(step.actions) :
    /\ a.due # NoDate
    /\ \/ step.starts_at # NoDate /\ a.due < step.starts_at
       \/ step.deadline # NoDate /\ a.due > step.deadline

before_event_after_start(step, base) ==
  step.code \in BEFORE_EVENT /\ \E d \in Dates(step) : d > base.start_date

event_mismatch(step, base) ==
  /\ step.code = "EVENT_DAY"
  /\ \/ step.starts_at \notin {NoDate, base.start_date}
     \/ step.deadline \notin {NoDate, base.end_date}

after_event_before_end(step, base) ==
  /\ step.code \in AFTER_EVENT /\ base.end_date # NoDate
  /\ \E d \in Dates(step) : d < base.end_date

StepRefused(step, base) ==
  \/ reversed_period(step) \/ dates_when_unknown(step, base)
  \/ action_type(step) \/ action_due_outside_step(step)
  \/ /\ base.start_date # NoDate
     /\ \/ before_event_after_start(step, base) \/ event_mismatch(step, base)
        \/ after_event_before_end(step, base)

(* validate_plan: the preview is made of the composition unless a rule      *)
(* refuses it; without an event date the open questions ask for it.         *)
validate_plan(c, base) ==
  /\ catalog_partition(c) /\ phase_order(c)
  /\ \A i \in DOMAIN c.steps : ~StepRefused(c.steps[i], base)
  /\ c.fact_ids \subseteq c.facts

open_questions(c, base) == c.questions \cup (IF base.start_date = NoDate THEN {"event date"} ELSE {})

---------------------------------------------------------------------------
(* run_plan_generation: nothing is generated for an event without a type;   *)
(* otherwise the model starts to write.                                     *)
start_generation ==
  /\ generation.at = "idle"
  /\ \/ generation' = [generation EXCEPT !.at = "ended", !.outcome = "needs_clarification"]
     \/ \E plan \in PlanTexts :
          generation' = [generation EXCEPT !.at = "writing", !.text = PlanText(plan), !.value = plan.steps]

(* astream_structured: a piece of the text arrives and goes to the reader.  *)
text_arrives ==
  /\ generation.at = "writing" /\ generation.read < Len(generation.text)
  /\ LET n == generation.read + 1
     IN generation' = [generation EXCEPT !.read = n, !.reader = feed(@, generation.text[n])]

(* The finished text is parsed and validated.  Its dates, exclusions and    *)
(* facts do not bear on the reader, so they are chosen here.                *)
validate ==
  /\ generation.at = "writing" /\ generation.read = Len(generation.text)
  /\ \E c \in Compositions, base \in Bases :
       generation' = [generation EXCEPT !.at = "ended",
         !.preview = [composition |-> c, base |-> base, questions |-> open_questions(c, base)],
         !.outcome = IF validate_plan(c, base) THEN "generated" ELSE "invalid_plan"]

(* The provider fails, stops at its output limit or sends what cannot be    *)
(* read: no preview.                                                        *)
generation_fails ==
  /\ generation.at = "writing"
  /\ generation' = [generation EXCEPT !.at = "ended", !.outcome = "failed"]

GenNext == start_generation \/ text_arrives \/ validate \/ generation_fails

GenTypeOK ==
  /\ generation.at \in {"idle", "writing", "ended"}
  /\ generation.outcome \in {"none", "needs_clarification", "generated", "invalid_plan", "failed"}

---------------------------------------------------------------------------
(* What has been announced while the plan is being written.                 *)
AnnouncedInOrder ==
  LET found == generation.reader.found
  IN /\ Len(found) <= Len(generation.value)
     /\ \A i \in DOMAIN found : found[i] = [index |-> i, code |-> <<generation.value[i].code>>]
     /\ generation.at = "writing" /\ generation.read = Len(generation.text)
          => Len(found) = Len(generation.value)

(* A plan that may be shown lies on one time line: what comes before the    *)
(* event is not dated after anything that comes after it, every catalog     *)
(* step is in it or explained away, and an event without a date has a plan  *)
(* without dates that asks for one.                                         *)
OnOneTimeLine(c, base, questions) ==
  LET steps == ToSet(c.steps)
  IN /\ \A s, t \in steps : \A d \in Dates(s), e \in Dates(t) :
          s.code \in BEFORE_EVENT /\ t.code \in AFTER_EVENT /\ base.end_date # NoDate => d <= e
     /\ DOMAIN Catalog = {s.code : s \in steps} \cup ToSet(c.excluded)
     /\ Len(c.steps) + Len(c.excluded) = Cardinality(DOMAIN Catalog)
     /\ \/ base.start_date # NoDate
        \/ /\ "event date" \in questions
           /\ \A s \in steps : Dates(s) = {} /\ \A a \in ToSet(s.actions) : a.due = NoDate

(* Generation shows the plan that was written (StepCodeReader,              *)
(* validate_plan): the steps announced while the text arrives are the       *)
(* plan's steps in their order, each once, wherever the word "code" or a    *)
(* quoted brace occurs otherwise; and a plan that passes validation lies on *)
(* one time line and leaves no catalog step unexplained.                    *)
ShownPlanIsSound ==
  /\ GenTypeOK
  /\ AnnouncedInOrder
  /\ generation.outcome = "generated" =>
       OnOneTimeLine(generation.preview.composition, generation.preview.base, generation.preview.questions)
=============================================================================
