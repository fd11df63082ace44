----------------------------- MODULE AgentTurn -----------------------------
(***************************************************************************)
(* The planning agent: turns of one conversation.  In a chat turn the model*)
(* answers, or asks for tools that change the condition draft, search past *)
(* records, offer to generate a plan, put that offer off, or generate it;  *)
(* the tools of one response run in order and their results go back to the *)
(* model, at most MAX_TOOL_CALLS of them per turn.  A turn works on copies *)
(* and only a turn that ends with an answer is stored.                     *)
(*                                                                         *)
(*   ai/features/planning/agent        agent_node, tools_node,             *)
(*                                     generate_event_plan                 *)
(*   ai/features/planning/generation   generate_with_context,              *)
(*                                     update_generation_offer             *)
(*   ai/features/planning              chat, generate_preview              *)
(*                                                                         *)
(* When the turn's result is kept, and against which other requests, is   *)
(* module Planning's.                                                      *)
(***************************************************************************)
EXTENDS Naturals, FiniteSets

CONSTANTS MaxToolCalls,   \* MAX_TOOL_CALLS
          MaxPerResponse, \* bound on the tool calls of one model response
          MaxHistory,     \* MAX_PLANNING_HISTORY
          MaxTurns        \* bound on the requests of the conversation

ASSUME AgentAssumption ==
    MaxToolCalls \in Nat /\ MaxPerResponse \in Nat /\ MaxTurns \in Nat

VARIABLES kept,  \* draft, generation state and history length, as stored
          turn,    \* the turn under way
          requests \* requests so far; their numbers are the request ids

agentVars == <<kept, turn, requests>>

----------------------------------------------------------------------------
(* Types *)

Fields == {"event_type", "headcount"}

\* A draft: whether event_type is set, the headcount (0: none) and whether
\* its topic was put off.  Two drafts are the same basis iff they are equal;
\* evidence, which a basis ignores, is left out.
Draft == [event_type: BOOLEAN, headcount: 0 .. 1, deferred: BOOLEAN]

same_basis(left, right) == left = right

NoDraft == [event_type |-> FALSE, headcount |-> 0, deferred |-> FALSE]

Offer == [status: {"none", "pending", "deferred"}, basis: Draft]
NoOffer == [status |-> "none", basis |-> NoDraft]

\* `request` 0: no preview.  `accepted` is history: the basis of the offer
\* whose acceptance led to the preview (or the preview's own basis).
Preview == [request: Nat, source: {"CHAT", "BUTTON"}, basis: Draft,
            accepted: Draft]
NoPreview == [request |-> 0, source |-> "CHAT", basis |-> NoDraft,
              accepted |-> NoDraft]

\* PlanningGenerationState.
Generation == [offer: Offer, preview: Preview, pending: BOOLEAN,
               fields: SUBSET Fields]

\* History of the offers that were put off, up to the next plan: the drafts of
\* all of them, and the last one's as long as no offer was made for another.
PutOff == [latest: SUBSET Draft, ever: SUBSET Draft]
NonePutOff == [latest |-> {}, ever |-> {}]

\* What the turns leave to the next one.  `refused` is history too: the fields
\* with a refused change that nothing resolved since.
Kept == [draft: Draft, gen: Generation, history: Nat, refused: SUBSET Fields,
         declined: PutOff, made: BOOLEAN]

\* `left` tool calls of the last response still have to run; `searched` and
\* `put_off` are about the calls of that response that ran already.
Turn == [at: {"IDLE", "AGENT", "TOOLS"}, id: Nat, now: Kept,
         left: 0 .. MaxPerResponse, count: 0 .. MaxToolCalls,
         models: Nat, searched: BOOLEAN, put_off: BOOLEAN]

Empty == [draft |-> NoDraft,
          gen |-> [offer |-> NoOffer, preview |-> NoPreview, pending |-> FALSE,
                   fields |-> {}],
          history |-> 0, refused |-> {}, declined |-> NonePutOff, made |-> FALSE]

Rest == [at |-> "IDLE", id |-> 0, now |-> Empty, left |-> 0, count |-> 0,
         models |-> 0, searched |-> FALSE, put_off |-> FALSE]

AgentTypeOK == kept \in Kept /\ turn \in Turn /\ requests \in 0 .. MaxTurns

AgentInit == kept = Empty /\ turn = Rest /\ requests = 0

----------------------------------------------------------------------------
(* Conditions and readiness *)

\* The changes the model may ask for in one call: of both fields and of the
\* topic of the headcount.  One without evidence in the member's message, or
\* malformed, is not valid.
AskedChange == [event_type: {"keep", "set", "clear"},
          headcount: {"keep", "set", "clear"},
          defer: BOOLEAN, resume: BOOLEAN, valid: BOOLEAN]

\* Of what is not valid only the fields it names matter.
Changes == {change \in AskedChange :
              \/ change.valid
              \/ /\ ~change.defer /\ ~change.resume
                 /\ change.event_type # "clear" /\ change.headcount # "clear"}

named(change) == {f \in Fields : change[f] # "keep"}

\* The same topic is not put off while it is set or resumed.
applies(change) ==
    change.valid /\ (change.defer => ~change.resume /\ change.headcount # "set")

\* update_event_conditions: all of the changes or none.  Setting a value also
\* resumes its topic, clearing it does not.
update_event_conditions(d, change) ==
    IF ~applies(change) THEN d
    ELSE [event_type |-> IF change.event_type = "keep" THEN d.event_type
                         ELSE change.event_type = "set",
          headcount  |-> IF change.headcount = "keep" THEN d.headcount
                         ELSE IF change.headcount = "set" THEN 1 ELSE 0,
          deferred   |-> \/ change.defer
                         \/ /\ d.deferred
                            /\ ~change.resume /\ change.headcount # "set"]

\* Fault: any change that succeeds clears the refused ones.
AnySuccessClears(gen, change) ==
    [gen EXCEPT !.pending = ~applies(change),
                !.fields = IF applies(change) THEN {} ELSE @ \cup named(change)]

\* A refused change blocks generation until the same field is changed.
condition_generation_state(gen, change) ==
    LET fields == IF applies(change) THEN gen.fields \ named(change)
                                     ELSE gen.fields \cup named(change)
    IN  [gen EXCEPT !.fields = fields,
                    !.pending = \/ ~applies(change)
                                \/ fields # {}
                                \/ gen.pending /\ gen.fields = {}]

\* generation_blocks is empty.
ready(d, gen, use_current) ==
    /\ d.event_type
    /\ d.headcount # 0 \/ d.deferred
    /\ gen.pending => use_current

----------------------------------------------------------------------------
(* Turns *)

\* chat: the stored state is restored, the message appended.
begin_chat ==
    /\ turn.at = "IDLE"
    /\ requests < MaxTurns
    /\ requests' = requests + 1
    /\ turn' = [Rest EXCEPT !.at = "AGENT", !.id = requests + 1,
                            !.now = [kept EXCEPT !.history = @ + 1]]
    /\ UNCHANGED kept

\* agent_node: tools are offered while fewer than MAX_TOOL_CALLS ran.
allow_tools == turn.count < MaxToolCalls

\* The model asks for n tools.
ask_tools(n) ==
    /\ turn.at = "AGENT" /\ allow_tools
    /\ turn' = [turn EXCEPT !.at = "TOOLS", !.left = n, !.models = @ + 1,
                            !.searched = FALSE, !.put_off = FALSE,
                            !.now.history = @ + 1]
    /\ UNCHANGED <<kept, requests>>

\* The model answers and the turn is captured, unless the history is full.
answer ==
    /\ turn.at = "AGENT"
    /\ turn.now.history + 1 <= MaxHistory
    /\ kept' = [turn.now EXCEPT !.history = @ + 1]
    /\ turn' = Rest
    /\ UNCHANGED requests

\* The call fails, answers nothing, asks for a tool that was not offered or
\* repeats a call id, or the history is full: the turn leaves nothing.
turn_fails ==
    /\ turn.at = "AGENT"
    /\ turn' = Rest
    /\ UNCHANGED <<kept, requests>>

\* The next call of the response is run, not refused for the limit.
running == turn.at = "TOOLS" /\ turn.count < MaxToolCalls

counted(ok) == IF running THEN turn.count + 1 ELSE turn.count

\* One tool call has run: its result is in `now`, and the rest of the
\* response follows.
ran(now, ok) ==
    [turn EXCEPT !.now = [now EXCEPT !.history = @ + 1],
                 !.left = @ - 1, !.count = counted(ok),
                 !.at = IF turn.left = 1 THEN "AGENT" ELSE "TOOLS"]

\* A call that is refused without running: it is malformed or not
\* available, or the limit was reached earlier in this response.
tool_refused ==
    /\ turn.at = "TOOLS"
    /\ turn' = ran(turn.now, FALSE)
    /\ UNCHANGED <<kept, requests>>

\* search_past_events; its result, found or failed, changes no condition.
tool_search ==
    /\ running
    /\ turn' = [ran(turn.now, TRUE) EXCEPT !.searched = TRUE]
    /\ UNCHANGED <<kept, requests>>

\* An offer put off earlier in this response is put off for the new
\* conditions.
rebased(gen, d) == [gen EXCEPT !.offer.basis = d]

\* A change asked for after a search of the same response is refused, for it
\* was decided before the result was known, and so is one past the limit.
tool_conditions(asked) ==
    LET change == [asked EXCEPT !.valid = @ /\ ~turn.searched /\ running]
        now == turn.now
        d == update_event_conditions(now.draft, change)
        gen == condition_generation_state(now.gen, change)
        follows == /\ turn.put_off /\ gen.offer.status = "deferred"
                   /\ applies(change) /\ d # now.draft
    IN
    /\ turn.at = "TOOLS"
    /\ turn' = ran([now EXCEPT
                      !.draft = d,
                      !.gen = IF follows THEN rebased(gen, d) ELSE gen,
                      !.refused = IF applies(change) THEN @ \ named(change)
                                                     ELSE @ \cup named(change),
                      !.declined = IF follows
                                     THEN [latest |-> {d},
                                           ever |-> (@.ever \ @.latest) \cup {d}]
                                     ELSE @],
                   applies(change))
    /\ UNCHANGED <<kept, requests>>

\* update_generation_offer("offer"): not while something blocks generation,
\* not twice for one basis, and not for a basis that has a preview.
tool_offer ==
    LET now == turn.now
        gen == now.gen
        made == /\ ready(now.draft, gen, FALSE)
                /\ gen.offer.status # "none" =>
                     ~same_basis(gen.offer.basis, now.draft)
                /\ gen.preview.request # 0 =>
                     ~same_basis(gen.preview.basis, now.draft)
    IN
    /\ running
    /\ turn' = ran(IF made
                     THEN [now EXCEPT !.gen.offer = [status |-> "pending",
                                                     basis |-> now.draft],
                                      !.declined.latest = @ \cap {now.draft}]
                     ELSE now, made)
    /\ UNCHANGED <<kept, requests>>

\* update_generation_offer("defer"), with evidence or refused for want of it.
tool_defer(valid) ==
    LET now == turn.now IN
    /\ running
    /\ turn' = [ran(IF valid
                      THEN [now EXCEPT !.gen.offer = [status |-> "deferred",
                                                      basis |-> now.draft],
                                       !.declined = [latest |-> {now.draft},
                                                    ever |-> @.ever \cup {now.draft}]]
                      ELSE now, valid)
                EXCEPT !.put_off = @ \/ valid]
    /\ UNCHANGED <<kept, requests>>

----------------------------------------------------------------------------
(* Generating *)

\* generate_event_plan: the offer the member accepts is the pending one, and
\* the conditions are still those it was made for.
acceptable(gen, d) == gen.offer.status = "pending" /\ same_basis(gen.offer.basis, d)

\* What generate_with_context leaves of `now`, for request id of `source`:
\* nothing changes when it is blocked, when the model fails or its plan does
\* not pass validate_plan, and when the id was used for other conditions; a
\* repeated id gives the plan there is; otherwise the plan replaces offer,
\* preview and pending changes.
generate_with_context(now, id, source, accepted, use_current) ==
    LET old == now.gen.preview
        repeated == old.request = id /\ old.source = source
        With(preview) ==
            [now EXCEPT !.gen = [offer |-> NoOffer, preview |-> preview,
                                 pending |-> FALSE, fields |-> {}],
                        !.refused = {}, !.declined = NonePutOff, !.made = TRUE]
    IN  IF ~ready(now.draft, now.gen, use_current) THEN {now}
        ELSE IF repeated
               THEN IF same_basis(old.basis, now.draft) THEN {With(old)} ELSE {now}
        ELSE {now, With([request |-> id, source |-> source, basis |-> now.draft,
                         accepted |-> accepted])}

\* generate_event_plan, asked for directly or by accepting the offer.
tool_generate(accepts, use_current) ==
    LET now == turn.now
        basis == IF accepts THEN now.gen.offer.basis ELSE now.draft
    IN
    /\ running
    /\ IF accepts /\ ~acceptable(now.gen, now.draft)
         THEN turn' = ran(now, FALSE)
         ELSE \E next \in generate_with_context(now, turn.id, "CHAT", basis,
                                                use_current) :
                 turn' = ran(next, TRUE)
    /\ UNCHANGED <<kept, requests>>

\* generate_preview: the button, with its own request id or that of the last
\* click again.  A model failure is part of the result, which is stored.
generate_preview(use_current) ==
    /\ turn.at = "IDLE"
    /\ \E id \in {requests + 1, kept.gen.preview.request} \ {0} :
          /\ id <= MaxTurns
          /\ requests' = IF id > requests THEN id ELSE requests
          /\ kept' \in generate_with_context(kept, id, "BUTTON", kept.draft,
                                               use_current)
    /\ UNCHANGED turn

AgentNext ==
    \/ begin_chat
    \/ \E n \in 1 .. MaxPerResponse : ask_tools(n)
    \/ answer
    \/ turn_fails
    \/ tool_refused
    \/ tool_search
    \/ \E change \in Changes : tool_conditions(change)
    \/ tool_offer
    \/ \E valid \in BOOLEAN : tool_defer(valid)
    \/ \E accepts, use_current \in BOOLEAN : tool_generate(accepts, use_current)
    \/ \E use_current \in BOOLEAN : generate_preview(use_current)

AgentSpec == AgentInit /\ [][AgentNext]_agentVars

----------------------------------------------------------------------------
(* Properties *)

\* A plan once made is never lost to a later refusal or failure, and one made
\* by accepting an offer has the conditions of the offer.
PreviewIsKept ==
    /\ kept.made => kept.gen.preview.request # 0
    /\ kept.gen.preview.accepted = kept.gen.preview.basis

\* A refused change of a field blocks generation until that field is changed
\* or the member asks for a plan with what there is.
RefusalIsRemembered ==
    /\ kept.refused = kept.gen.fields
    /\ kept.refused # {} => kept.gen.pending

\* The agent does not come back with the offer the member has just put off: one
\* is not made again for the same conditions, also when they were changed in
\* the breath that put it off, unless one for other conditions came in between.
DeferralIsRespected ==
    kept.gen.offer.status = "pending" =>
        kept.gen.offer.basis \notin kept.declined.latest

\* "Put off: recorded; an offer for the same conditions is blocked"
\* (step-05-generation.md): the same of every offer that was put off.
NoOfferTwice ==
    kept.gen.offer.status = "pending" =>
        kept.gen.offer.basis \notin kept.declined.ever

\* A turn asks for tools, and runs them, at most MAX_TOOL_CALLS times.
TurnIsBounded == turn.models <= MaxToolCalls /\ turn.count <= MaxToolCalls

\* planning agent: however the model mixes its tools over the turns, what a
\* member was told about plan, offer and refused changes stays true.
AgentKeepsItsWord ==
    /\ AgentTypeOK
    /\ PreviewIsKept /\ RefusalIsRemembered /\ DeferralIsRespected /\ TurnIsBounded

=============================================================================
