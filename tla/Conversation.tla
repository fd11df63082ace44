---------------------------- MODULE Conversation ----------------------------
(* The history of a planning conversation and the progress lines of a turn. *)
(* A turn restores the stored messages, adds the member's message, the      *)
(* model's responses and a result for every tool call, tells the screen     *)
(* what is going on, and is stored again only if the next turn can restore  *)
(* it (ai/features/planning: state_codec.py, progress.py, agent/nodes.py,   *)
(* public_workflow.py).  What the tools do to the draft is module           *)
(* AgentTurn's, the stream of the reply itself module ReplyStream's.        *)
EXTENDS Naturals, Sequences, FiniteSets, SequencesExt

CONSTANTS
  UserIds,              \* message ids the client sends
  MAX_PLANNING_HISTORY, \* messages of a stored history
  MAX_TOOL_CALLS,       \* tools run in one turn
  MaxCallIds,           \* bound: tool-call ids of the conversation
  MaxCallsPerAnswer     \* bound: tool calls of one response

ASSUME TalkAssumption ==
  MAX_PLANNING_HISTORY \in Nat /\ MAX_TOOL_CALLS \in Nat /\ MaxCallIds \in Nat /\ MaxCallsPerAnswer \in Nat

VARIABLES
  history, \* the stored messages
  chat     \* the turn under way, or the last one

talkVars == <<history, chat>>

ToolNames == {"update_event_conditions", "search_past_events", "generate_event_plan"}
Calls == [id : 1..MaxCallIds, tool : ToolNames]

(* Stored messages.  `result` is the status in a tool's result; "topics"    *)
(* stands for conditions "applied" of which no field changed, as when a     *)
(* topic is only put off or taken up again.  Ids of                         *)
(* assistant and tool messages are the provider's and the SDK's, and new.   *)
UserMessage(u) == [role |-> "user", id |-> u, calls |-> <<>>, of |-> 0, tool |-> "", result |-> ""]
Assistant(calls) == [role |-> "assistant", id |-> "", calls |-> calls, of |-> 0, tool |-> "", result |-> ""]
ToolMessage(call, result) ==
  [role |-> "tool", id |-> "", calls |-> <<>>, of |-> call.id, tool |-> call.tool, result |-> result]

(* A turn: the messages so far, the calls of the last response still to be  *)
(* run, the one that is running, what the screen was told, and the position *)
(* of the search result whose facts each generation was given (0: none).    *)
Rested == [at |-> "idle", messages |-> <<>>, todo |-> <<>>, running |-> FALSE, count |-> 0,
           searched |-> FALSE, notices |-> <<>>, facts |-> {}]

TalkInit == history = <<>> /\ chat = Rested

Notice(op, kind, status) == [op |-> op, kind |-> kind, status |-> status]
notify(t, notices) == [t EXCEPT !.notices = @ \o notices]

CallsOf(messages) == UNION {Range(messages[i].calls) : i \in DOMAIN messages}
IdsOf(calls) == {call.id : call \in calls}

(* validate_planning_history and PlanningStatePayload.validate_pairs: one   *)
(* pass, with the calls that wait for a result and the ids seen.            *)
ValidStep(message, scan) ==
  LET ids == IdsOf(Range(message.calls))
  IN CASE message.role = "tool" ->
            [scan EXCEPT !.ok = @ /\ message.of \in scan.pending, !.pending = @ \ {message.of}]
       [] OTHER ->
            [scan EXCEPT !.ok = /\ @ /\ scan.pending = {} /\ ids \cap scan.seen = {}
                                /\ Cardinality(ids) = Len(message.calls)
                                /\ message.id = "" \/ message.id \notin scan.users,
                         !.pending = ids, !.seen = @ \cup ids, !.users = @ \cup {message.id}]

validate_planning_history(messages) ==
  LET end == FoldLeft(LAMBDA scan, message : ValidStep(message, scan),
                      [ok |-> TRUE, pending |-> {}, seen |-> {}, users |-> {}], messages)
  IN end.ok /\ end.pending = {}

(* restore_history of what was stored; PlanningChatRequest takes no message *)
(* that the history has.                                                    *)
restorable(u) ==
  /\ validate_planning_history(history)
  /\ u \notin {history[i].id : i \in DOMAIN history}

(* chat: the input, restored and checked, or an error.                      *)
begin_turn ==
  /\ chat.at = "idle"
  /\ \E u \in UserIds :
       chat' = IF restorable(u)
               THEN [Rested EXCEPT !.at = "agent", !.messages = Append(history, UserMessage(u))]
               ELSE [Rested EXCEPT !.at = "failed"]
  /\ UNCHANGED history

(* agent_node: the ids of a response are new in the whole conversation.     *)
fresh_ids(calls, messages) ==
  /\ Cardinality(IdsOf(Range(calls))) = Len(calls)
  /\ IdsOf(Range(calls)) \cap IdsOf(CallsOf(messages)) = {}

(* Ids the provider may use: any used one, or the next ones.                *)
Offered(messages) ==
  LET used == Cardinality(IdsOf(CallsOf(messages)))
  IN {calls \in UNION {[1..n -> Calls] : n \in 1..MaxCallsPerAnswer} :
        \A i \in DOMAIN calls : calls[i].id <= used + i}

(* call_agent_model: a call of update_event_conditions is announced as soon *)
(* as its name arrives; agent_node then takes the response or raises.       *)
announce_change(told, call) ==
  IF call.tool = "update_event_conditions"
  THEN Append(told, Notice(call.id, "condition_started", "running")) ELSE told

announced(calls) == FoldLeft(announce_change, <<>>, calls)

ask_for_tools ==
  /\ chat.at = "agent" /\ chat.count < MAX_TOOL_CALLS
  /\ \E calls \in Offered(chat.messages) :
       LET told == notify(chat, announced(calls))
       IN chat' = IF fresh_ids(calls, chat.messages)
                  THEN [told EXCEPT !.at = "tools", !.todo = calls, !.searched = FALSE,
                                    !.messages = Append(@, Assistant(calls))]
                  ELSE [told EXCEPT !.at = "failed"]
  /\ UNCHANGED history

CurrentCall == Head(chat.todo)
Ready(tool) == /\ chat.at = "tools" /\ chat.todo # <<>> /\ ~chat.running
               /\ chat.count < MAX_TOOL_CALLS /\ CurrentCall.tool = tool

(* A call ends with its result in the messages.                             *)
call_finished(t, result, counted) ==
  [t EXCEPT !.messages = Append(@, ToolMessage(CurrentCall, result)), !.todo = Tail(@), !.running = FALSE,
            !.count = @ + counted, !.searched = @ \/ CurrentCall.tool = "search_past_events"]

\* Fault: only a change that was made is told of.
ToldWhenApplied(result) ==
  IF result = "applied" THEN <<Notice(CurrentCall.id, "condition_applied", "completed")>> ELSE <<>>

(* condition_progress if a field changed, else condition_skipped.           *)
condition_told(result) ==
  <<Notice(CurrentCall.id, "condition_applied", IF result = "applied" THEN "completed" ELSE "skipped")>>

(* tools_node beyond the limit: nothing runs, and a change that was         *)
(* announced is taken back.                                                 *)
over_limit ==
  /\ chat.at = "tools" /\ chat.todo # <<>> /\ chat.count >= MAX_TOOL_CALLS
  /\ chat' = call_finished(IF CurrentCall.tool = "update_event_conditions"
                      THEN notify(chat, condition_told("rejected")) ELSE chat, "rejected", 0)
  /\ UNCHANGED history

run_conditions ==
  /\ Ready("update_event_conditions")
  /\ \E result \in IF chat.searched THEN {"rejected"} ELSE {"applied", "topics", "unchanged", "rejected"} :
       chat' = call_finished(notify(chat, condition_told(result)), result, 1)
  /\ UNCHANGED history

(* latest_reference_facts: the last search of the conversation, if it found *)
(* something.                                                               *)
Searches(messages) == {i \in DOMAIN messages : messages[i].tool = "search_past_events"}

latest_reference_facts(messages) ==
  LET all  == Searches(messages)
      last == CHOOSE i \in all : \A j \in all : j <= i
  IN IF all # {} /\ messages[last].result = "available" THEN last ELSE 0

(* A search or a generation starts: it is told, and runs.                   *)
start_search ==
  /\ Ready("search_past_events")
  /\ chat' = notify([chat EXCEPT !.running = TRUE], <<Notice(CurrentCall.id, "search_started", "running")>>)
  /\ UNCHANGED history

start_plan_generation ==
  /\ Ready("generate_event_plan")
  /\ chat' = notify([chat EXCEPT !.running = TRUE,
                                 !.facts = @ \cup {<<Len(chat.messages), latest_reference_facts(chat.messages)>>}],
                    <<Notice(CurrentCall.id, "generation_started", "running")>>)
  /\ UNCHANGED history

(* Arguments or conditions the code refuses, or a plan it already has: no   *)
(* progress is told.                                                        *)
refuse_call ==
  /\ Ready("search_past_events") \/ Ready("generate_event_plan")
  /\ chat' = call_finished(chat, "rejected", 1)
  /\ UNCHANGED history

search_told(result) ==
  <<Notice(CurrentCall.id, "search_finished",
           CASE result = "available" -> "completed"
             [] result = "not_found" -> "empty"
             [] result = "failed"    -> "failed")>>

search_ends ==
  /\ chat.at = "tools" /\ chat.running /\ CurrentCall.tool = "search_past_events"
  /\ \E result \in {"available", "not_found", "failed"} :
       chat' = call_finished(notify(chat, search_told(result)), result, 1)
  /\ UNCHANGED history

(* generate_with_context: the first text is told, then the steps as they    *)
(* are written (module Generation), then the end.                           *)
generation_told(op, result, wrote) ==
  (IF wrote THEN <<Notice(op, "generation_writing", "running")>> ELSE <<>>) \o
  <<Notice(op, "generation_finished", IF result = "generated" THEN "completed" ELSE "failed")>>

generation_ends ==
  /\ chat.at = "tools" /\ chat.running /\ CurrentCall.tool = "generate_event_plan"
  /\ \E result \in {"generated", "failed"}, wrote \in BOOLEAN :
       /\ result = "generated" => wrote
       /\ chat' = call_finished(notify(chat, generation_told(CurrentCall.id, result, wrote)), result, 1)
  /\ UNCHANGED history

all_run ==
  /\ chat.at = "tools" /\ chat.todo = <<>>
  /\ chat' = [chat EXCEPT !.at = "agent"]
  /\ UNCHANGED history

(* An error of the model or of a tool goes through: nothing is stored.      *)
turn_raises ==
  /\ chat.at = "agent" \/ (chat.at = "tools" /\ chat.running)
  /\ chat' = [chat EXCEPT !.at = "failed"]
  /\ UNCHANGED history

(* capture_turn_state: a history that could not be restored is an error.    *)
storable(messages) ==
  Len(messages) <= MAX_PLANNING_HISTORY /\ validate_planning_history(messages)

answer_member ==
  /\ chat.at = "agent"
  /\ LET messages == Append(chat.messages, Assistant(<<>>)) IN
       IF storable(messages)
       THEN history' = messages /\ chat' = [chat EXCEPT !.at = "answered", !.messages = messages]
       ELSE chat' = [chat EXCEPT !.at = "failed"] /\ UNCHANGED history

(* generate_preview: the button generates from the stored history and adds  *)
(* no message to it.  Its operation is named by the request (0).            *)
press_button ==
  /\ chat.at = "idle"
  /\ \E result \in {"generated", "failed", "refused"}, wrote \in BOOLEAN :
       /\ result = "generated" => wrote
       /\ chat' = IF ~validate_planning_history(history) THEN [Rested EXCEPT !.at = "failed"]
                  ELSE IF result = "refused" THEN [Rested EXCEPT !.at = "answered", !.messages = history]
                  ELSE [Rested EXCEPT !.at = "answered", !.messages = history,
                          !.notices = <<Notice(0, "generation_started", "running")>>
                                        \o generation_told(0, result, wrote),
                          !.facts = {<<Len(history), latest_reference_facts(history)>>}]
  /\ UNCHANGED history

next_request ==
  /\ chat.at \in {"answered", "failed"}
  /\ chat' = Rested /\ UNCHANGED history

TalkNext ==
  \/ begin_turn \/ ask_for_tools \/ over_limit \/ run_conditions
  \/ start_search \/ start_plan_generation \/ refuse_call \/ search_ends \/ generation_ends
  \/ all_run \/ turn_raises \/ answer_member \/ press_button \/ next_request

TalkTypeOK ==
  /\ chat.at \in {"idle", "agent", "tools", "answered", "failed"}
  /\ chat.count \in 0..MAX_TOOL_CALLS
  /\ CallsOf(history) \subseteq Calls

(* The stored history, read without the validator: every call is answered   *)
(* by exactly one message of the run of results right after it, and nothing *)
(* is said twice.                                                           *)
Whole(messages) ==
  /\ \A i \in DOMAIN messages : messages[i].role = "assistant" =>
       LET n == Len(messages[i].calls)
       IN /\ i + n <= Len(messages)
          /\ {messages[j].of : j \in i + 1..i + n} = IdsOf(Range(messages[i].calls))
          /\ \A j \in i + 1..i + n : messages[j].role = "tool"
  /\ \A j \in DOMAIN messages : messages[j].role = "tool" =>
       \E i \in 1..j - 1 : \E k \in DOMAIN messages[i].calls : messages[i].calls[k].id = messages[j].of
  /\ \A i, j \in DOMAIN messages : i # j =>
       /\ IdsOf(Range(messages[i].calls)) \cap IdsOf(Range(messages[j].calls)) = {}
       /\ messages[i].role = "user" /\ messages[j].role = "user" => messages[i].id # messages[j].id

(* What came of a call, as the screen should show it.                       *)
ShownAs(message) ==
  IF message.result \in {"applied", "available", "generated"} THEN "completed"
  ELSE IF message.result = "not_found" THEN "empty"
  ELSE IF message.tool = "update_event_conditions" THEN "skipped"
  ELSE "failed"

(* The notices of an operation: it has ended, once and last of all, as the  *)
(* result in the messages says.                                             *)
Spoken(notices, op) == {i \in DOMAIN notices : notices[i].op = op}

ToldToTheEnd(notices, messages, op) ==
  \E last \in Spoken(notices, op) :
    /\ notices[last].status # "running" /\ Spoken(notices, op) # {last}
    /\ \A i \in Spoken(notices, op) \ {last} : i < last /\ notices[i].status = "running"
    /\ op # 0 => \E m \in Range(messages) :
                   m.role = "tool" /\ m.of = op /\ notices[last].status = ShownAs(m)

(* The facts a generation was given: the message they are from, if any, has *)
(* some, and no search came after it.                                       *)
FactsOfLastSearch(messages, f) ==
  f[2] # 0 =>
    /\ messages[f[2]].result = "available"
    /\ \A j \in f[2] + 1..f[1] : messages[j].tool # "search_past_events"

(* A conversation can always go on from what is stored, and its screen was  *)
(* told what happened: the stored history is whole and within the limit, so *)
(* that the next turn can restore it, and both readings of it agree; in a   *)
(* turn that was answered every operation announced as running has ended,   *)
(* once, last of all that was said of it, and as its stored result says:    *)
(* completed only if a condition changed, skipped if the call was refused,  *)
(* over the limit, made next to a search or no more than put a topic off;   *)
(* a generation was given the facts of no search but the latest one, and of *)
(* that only if it found some ("실패/없음을 옛 성공 자료로 바꾸지 않는다").    *)
ConversationGoesOn ==
  /\ TalkTypeOK
  /\ Whole(history) /\ Len(history) <= MAX_PLANNING_HISTORY
  /\ validate_planning_history(history)
  /\ chat.at = "answered" =>
       /\ \A i \in DOMAIN chat.notices : ToldToTheEnd(chat.notices, chat.messages, chat.notices[i].op)
       /\ \A f \in chat.facts : FactsOfLastSearch(chat.messages, f)
=============================================================================
