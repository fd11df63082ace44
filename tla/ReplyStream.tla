---------------------------- MODULE ReplyStream ----------------------------
(* The streamed reply of a planning turn: the model's answer arrives in     *)
(* chunks (ai/llm_stream.py, astream_with_tools in ai/llm.py), is announced *)
(* to a port that only queues (services/planning_stream.py), and is read by *)
(* one client over SSE.  A text piece is the number of the chunk that       *)
(* brought it; a combined message is a sequence of text blocks, each with   *)
(* the phase the provider has given it so far, and a set of tool calls.     *)
EXTENDS Naturals, Sequences, FiniteSets, SequencesExt

CONSTANTS
  ToolIds,      \* ids of the tool calls a model may ask for in one call
  MaxChunks,    \* bound: chunks of one model call
  MaxBlocks,    \* bound: text blocks of one message
  MaxModelCalls \* bound: model calls of one turn; the last may use no tool

ASSUME ReplyAssumption ==
  MaxChunks \in Nat /\ MaxBlocks \in Nat /\ MaxModelCalls \in Nat \ {0}

VARIABLES
  message,  \* the combined message of the current model call
  display,  \* the ReplyStream object of the current model call
  task,     \* the turn's asyncio task
  port,     \* the queue port: notices not yet sent, and whether it is closed
  client    \* what the browser has put together from the events it has read

replyVars == <<message, display, task, port, client>>

Phase == {"final_answer", "commentary", "none"}
Block == [phase : Phase, text : Seq(1..MaxChunks)]
NewMessage(n) == [call |-> n, blocks |-> <<>>, tools |-> {}, chunks |-> 0]

(* ReplyStream.__init__: nothing sent, no tool seen, nothing held back.     *)
NewDisplay == [sent |-> <<>>, has_tools |-> FALSE, buffered |-> FALSE, started |-> {}]

ReplyInit ==
  /\ message = NewMessage(1)
  /\ display = NewDisplay
  /\ task = [at |-> "model", answer |-> <<>>, result |-> "none"]
  /\ port = [queue |-> <<>>, closed |-> FALSE]
  /\ client = [at |-> "reading", text |-> <<>>, tools |-> <<>>, last |-> "none"]

(* The text of the blocks in these phases, joined.                          *)
Joined(text, b, phases) == IF b.phase \in phases THEN text \o b.text ELSE text
TextOf(blocks, phases) == FoldLeft(LAMBDA text, b : Joined(text, b, phases), <<>>, blocks)

(* Only the blocks marked as the final answer, or every text when no block  *)
(* has a phase.                                                             *)
final_answer_text(m) ==
  TextOf(m.blocks, IF \E i \in DOMAIN m.blocks : m.blocks[i].phase # "none" THEN {"final_answer"} ELSE Phase)

Delta(text) == [kind |-> "reply_delta", text |-> text]
ResetNotice == [kind |-> "reply_reset", text |-> <<>>]
ToolNotice(m, id) == [kind |-> "progress", text |-> << <<m.call, id>> >>]
EndMark == [kind |-> "end", text |-> <<>>]

(* _QueuePort._put: after the connection has gone nothing is queued.        *)
put(p, notices) == IF p.closed THEN p ELSE [p EXCEPT !.queue = @ \o notices]

(* ReplyStream.reset: takes back what was sent, if anything was.            *)
reset(d) == IF d.sent = <<>> THEN <<>> ELSE <<ResetNotice>>

From(answer, d) == SubSeq(answer, Len(d.sent) + 1, Len(answer))
send(answer, d) == IF From(answer, d) = <<>> THEN <<>> ELSE <<Delta(From(answer, d))>>

(* The tool starts that have not been announced.                            *)
announce(d, m) == SetToSeq({ToolNotice(m, id) : id \in m.tools \ d.started})

(* ReplyStream.accept without a tool: a block that may still be classified, *)
(* or an answer that no longer continues what was sent, holds the reply     *)
(* back to the end.                                                         *)
show(d, m) ==
  LET unclear == \E i \in DOMAIN m.blocks :
                   m.blocks[i].text # <<>> /\ m.blocks[i].phase = "none"
      answer  == TextOf(m.blocks, {"final_answer"})
  IN IF d.buffered \/ unclear \/ ~IsPrefix(d.sent, answer)
     THEN [display |-> [d EXCEPT !.buffered = TRUE], notices |-> <<>>]
     ELSE [display |-> [d EXCEPT !.sent = answer], notices |-> send(answer, d)]

\* Fault: a tool call that comes after some text leaves the text on the screen.
AcceptKeepsText(d, m) ==
  IF d.has_tools \/ m.tools # {}
  THEN [display |-> [d EXCEPT !.has_tools = TRUE, !.started = @ \cup m.tools],
        notices |-> announce(d, m)]
  ELSE show(d, m)

(* ReplyStream.accept: the display and the notices after one more chunk.    *)
accept(d, m) ==
  IF d.has_tools \/ m.tools # {}
  THEN [display |-> [d EXCEPT !.has_tools = TRUE, !.sent = <<>>, !.started = @ \cup m.tools],
        notices |-> announce(d, m) \o reset(d)]
  ELSE show(d, m)

(* ReplyStream.finish: the notices that bring the screen to the completed   *)
(* message.                                                                 *)
finish(d, m) ==
  LET answer == final_answer_text(m)
      kept   == IF IsPrefix(d.sent, answer) THEN d ELSE [d EXCEPT !.sent = <<>>]
  IN IF d.has_tools \/ m.tools # {}
     THEN reset(d)
     ELSE (IF kept.sent = d.sent THEN <<>> ELSE reset(d)) \o send(answer, kept)

---------------------------------------------------------------------------
(* What the provider may send next: a new block, with or without its first  *)
(* text, more text of a block, the phase of a block it had left open, or a  *)
(* tool call (the name and id come first; its arguments follow).            *)
Grown(m) ==
  LET n == m.chunks + 1
      next == [m EXCEPT !.chunks = n]
  IN {[next EXCEPT !.blocks = Append(@, b)] :
         b \in [phase : Phase, text : IF Len(m.blocks) < MaxBlocks THEN {<<>>, <<n>>} ELSE {}]}
     \cup {[next EXCEPT !.blocks[i].text = Append(@, n)] : i \in DOMAIN m.blocks}
     \cup (UNION {{[next EXCEPT !.blocks[i].phase = p] : p \in Phase \ {"none"}} :
                    i \in {j \in DOMAIN m.blocks : m.blocks[j].phase = "none"}})
     \cup {[next EXCEPT !.tools = @ \cup {id}] : id \in ToolIds \ m.tools}

(* The loop of astream_with_tools.                                          *)
receive_chunk ==
  /\ task.at = "model" /\ message.chunks < MaxChunks
  /\ \E m \in Grown(message) :
       /\ message' = m
       /\ display' = accept(display, m).display
       /\ port' = put(port, accept(display, m).notices)
  /\ UNCHANGED <<task, client>>

tools_allowed == message.call < MaxModelCalls

(* The checks on the assembled message of a completed response; a response  *)
(* that the provider leaves incomplete fails before them (model_fails).     *)
invalid_response ==
  \/ message.chunks = 0
  \/ ~tools_allowed /\ message.tools # {}
  \/ message.tools = {} /\ final_answer_text(message) = <<>>

(* The stream closes with a message that passes: its answer ends the turn's *)
(* model calls, its tools are run and the model is called again.            *)
model_answers ==
  /\ task.at = "model" /\ ~invalid_response
  /\ port' = put(port, finish(display, message))
  /\ IF message.tools = {}
     THEN /\ task' = [task EXCEPT !.at = "saving", !.answer = final_answer_text(message)]
          /\ UNCHANGED <<message, display>>
     ELSE /\ message' = NewMessage(message.call + 1) /\ display' = NewDisplay
          /\ UNCHANGED task
  /\ UNCHANGED client

(* The except branch: whatever failed, the screen is cleared and the error  *)
(* goes up; the task's done callback queues the end mark.  The provider's   *)
(* error may come at any chunk.                                             *)
model_fails ==
  /\ task.at = "model"
  /\ port' = [put(port, reset(display)) EXCEPT !.queue = Append(@, EndMark)]
  /\ display' = [display EXCEPT !.sent = <<>>]
  /\ task' = [task EXCEPT !.at = "ended", !.result = "error"]
  /\ UNCHANGED <<message, client>>

(* PlanTurn.run saves the answer or fails (module Planning); the task's     *)
(* done callback then queues the end mark, even if the port is closed.      *)
turn_ends ==
  /\ task.at = "saving"
  /\ \E result \in {"done", "error"} :
       task' = [task EXCEPT !.at = "ended", !.result = result]
  /\ port' = [port EXCEPT !.queue = Append(@, EndMark)]
  /\ UNCHANGED <<message, display, client>>

---------------------------------------------------------------------------
(* How the browser applies an event.                                        *)
Applied(c, notice) ==
  CASE notice.kind = "reply_delta" -> [c EXCEPT !.text = @ \o notice.text, !.last = notice.kind]
    [] notice.kind = "reply_reset" -> [c EXCEPT !.text = <<>>, !.last = notice.kind]
    [] notice.kind = "progress"    -> [c EXCEPT !.tools = @ \o notice.text, !.last = notice.kind]

(* stream(): one notice from the queue is sent.                             *)
stream_sends ==
  /\ client.at = "reading" /\ port.queue # <<>> /\ Head(port.queue) # EndMark
  /\ client' = Applied(client, Head(port.queue))
  /\ port' = [port EXCEPT !.queue = Tail(@)]
  /\ UNCHANGED <<message, display, task>>

(* At the end mark the task's result is sent and the generator closes.      *)
stream_final ==
  /\ client.at = "reading" /\ port.queue # <<>> /\ Head(port.queue) = EndMark
  /\ client' = [client EXCEPT !.at = "ended", !.last = task.result]
  /\ port' = [queue |-> Tail(port.queue), closed |-> TRUE]
  /\ UNCHANGED <<message, display, task>>

(* The connection breaks: the generator is closed, the task goes on.        *)
disconnect ==
  /\ client.at = "reading"
  /\ client' = [client EXCEPT !.at = "gone"]
  /\ port' = [port EXCEPT !.closed = TRUE, !.queue = <<>>]
  /\ UNCHANGED <<message, display, task>>

ReplyNext ==
  \/ receive_chunk \/ model_answers \/ model_fails \/ turn_ends
  \/ stream_sends \/ stream_final \/ disconnect

ReplyTypeOK ==
  /\ message.blocks \in Seq(Block) /\ message.tools \subseteq ToolIds
  /\ message.chunks \in 0..MaxChunks /\ message.call \in 1..MaxModelCalls
  /\ display.has_tools \in BOOLEAN /\ display.buffered \in BOOLEAN
  /\ display.started \subseteq ToolIds
  /\ task.at \in {"model", "saving", "ended"}
  /\ port.closed \in BOOLEAN
  /\ client.at \in {"reading", "ended", "gone"}

(* What the screen shows once it has read everything that is queued.        *)
Pending == IF port.queue # <<>> /\ Last(port.queue) = EndMark THEN Front(port.queue) ELSE port.queue
Screen == FoldLeft(Applied, client, Pending)

(* The reply on the screen is the reply of the model (ReplyStream,          *)
(* planning_stream.stream): once everything queued is read, a call that is  *)
(* still running shows only text of blocks marked as the answer and none    *)
(* after a tool was asked for; a call that failed shows nothing; a turn     *)
(* that reached its answer shows exactly that answer, with no piece lost,   *)
(* doubled or out of order, whatever the provider reclassified on the way.  *)
(* Every tool start of a call is announced once, and the result is the last *)
(* event a client reads.                                                    *)
ScreenShowsTheAnswer ==
  /\ ReplyTypeOK
  /\ client.at # "gone" =>
    /\ task.at = "model" =>
         /\ Screen.text # <<>> => message.tools = {}
         /\ \A k \in DOMAIN Screen.text : \E i \in DOMAIN message.blocks :
              message.blocks[i].phase = "final_answer" /\ Contains(message.blocks[i].text, Screen.text[k])
    /\ task.at # "model" => Screen.text = task.answer
    /\ IsInjective(Screen.tools)
    /\ \A id \in message.tools : Contains(Screen.tools, <<message.call, id>>)
    /\ client.at = "ended" =>
         port.queue = <<>> /\ task.at = "ended" /\ client.last = task.result
=============================================================================
