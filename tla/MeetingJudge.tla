---------------------------- MODULE MeetingJudge ----------------------------
(***************************************************************************)
(* Judging one utterance of a meeting and answering it from the records.   *)
(*                                                                         *)
(*   ai/features/meeting/nodes.py        judge_utterance, _judge, _Run     *)
(*   ai/features/meeting/jev.py          call_jev and its retries          *)
(*   ai/features/meeting/lookup.py       RecordsLookup                     *)
(*   ai/features/meeting/event_facts.py, services/meeting_event_service.py *)
(*                                                                         *)
(* Module LiveJudgement starts the judgement and stores what it returns;   *)
(* here is what happens inside.  A probability is a percentage.  Errors of *)
(* the Jev API that the code does not convert (HTTP 400) leave without a   *)
(* trace, as does the call that the time limit of the judging step cuts.   *)
(***************************************************************************)
EXTENDS Retrieval

CONSTANTS
    Probabilities,         \* what Jev may answer, the threshold and its neighbours among them
    JEV_THRESHOLD,
    DEFAULT_MAX_RETRIES,
    SearchLimit,           \* MeetingSearchRequest.limit
    EventFactsLimit,       \* events shown in one answer (20)
    CandidateLists         \* ranked chunks [source, text, recap, attendance, year]

\* The search finds no chunk twice, and the limit leaves two places to the
\* items a question names (5 in the code).
ASSUME JudgeAssumption ==
    /\ DEFAULT_MAX_RETRIES \in Nat /\ EventFactsLimit \in Nat
    /\ SearchLimit \in Nat /\ SearchLimit >= 2
    /\ \A c \in CandidateLists : c \in Seq(ToSet(c)) /\ IsInjective(c)

VARIABLES
    judge,           \* one judge_utterance call
    eventAnswer      \* one meeting_event_service.answer call

judgeVars == <<judge, eventAnswer>>

\* ToolCall: the trace keeps which tool was called and how it ended.
ToolCall == [tool : {"judge.decide", "llm.generate", "records.search"},
             status : {"OK", "FAILED", "TIMEOUT"}]

Call(tool, status) == [tool |-> tool, status |-> status]

Judgements == {"none", "NO_LOOKUP", "NOT_FOUND", "ANSWER", "error", "untraced"}

new_run ==
    [stage |-> "JUDGING", attempt |-> 0, question |-> "none", calls |-> <<>>,
     chunks |-> <<>>, asked |-> {}, sources |-> {}, told |-> FALSE, kind |-> "none"]

\* Fault: the call that failed is not in the trace.
RaiseUnrecorded(run, tool, status) == [run EXCEPT !.kind = "error"]

\* _Run.call_tool on an AIError: the failed call is recorded and the error,
\* carrying the trace, ends the judgement.
tool_failed(run, tool, status) ==
    [run EXCEPT !.calls = Append(@, Call(tool, status)), !.kind = "error"]

tool_done(run, tool) == [run EXCEPT !.calls = Append(@, Call(tool, "OK"))]

(***************************************************************************)
(* JUDGING: Jev's probability, and for a lookup the query                  *)
(***************************************************************************)
\* _convert, _should_retry: what an HTTP failure becomes.
_convert(failure) ==
    CASE failure = "timeout" -> "TIMEOUT"
      [] failure \in {"connect", "429", "5xx"} -> "RETRY"
      [] failure \in {"401", "403", "404"} -> "CONFIG"
      [] OTHER -> "RAISE"

HttpFailures == {"timeout", "connect", "429", "5xx", "401", "403", "404", "400"}

AtJev == judge.kind = "none" /\ judge.stage = "JUDGING" /\ judge.calls = <<>>

call_jev_fails(failure) ==
    /\ AtJev
    /\ LET converted == _convert(failure)
       IN  judge' = CASE converted = "RAISE" -> [judge EXCEPT !.kind = "untraced"]
                      [] converted = "RETRY" /\ judge.attempt < DEFAULT_MAX_RETRIES ->
                            [judge EXCEPT !.attempt = @ + 1]
                      [] converted = "TIMEOUT" -> tool_failed(judge, "judge.decide", "TIMEOUT")
                      [] OTHER -> tool_failed(judge, "judge.decide", "FAILED")

\* _probability: an answer without a number in 0..1 is an invalid response.
call_jev_answers(probability) ==
    /\ AtJev
    /\ judge' = IF probability \notin 0..100
                THEN tool_failed(judge, "judge.decide", "FAILED")
                ELSE IF probability >= JEV_THRESHOLD
                     THEN [tool_done(judge, "judge.decide") EXCEPT !.stage = "QUERYING"]
                     ELSE [tool_done(judge, "judge.decide") EXCEPT !.kind = "NO_LOOKUP"]

\* The query model writes what to search for and what it asks about; a lookup
\* without a query is an error, never NO_LOOKUP.
query_answers(query, asked) ==
    /\ judge.kind = "none" /\ judge.stage = "QUERYING"
    /\ LET run == tool_done(judge, "llm.generate")
       IN  judge' = IF query = "" THEN [run EXCEPT !.kind = "error"]
                    ELSE [run EXCEPT !.stage = "SEARCHING", !.question = query, !.asked = asked]

\* JUDGE_TIMEOUT_SECONDS covers both calls; the one it cuts is cancelled
\* before call_tool can record it.
judging_times_out ==
    /\ judge.kind = "none" /\ judge.stage \in {"JUDGING", "QUERYING"}
    /\ judge' = [judge EXCEPT !.kind = "error"]

(***************************************************************************)
(* SEARCHING: RecordsLookup.search                                         *)
(***************************************************************************)
\* Whether a chunk holds the item a question asks for, in the year it names.
holds(chunk, item) ==
    CASE item = "recap" -> chunk.recap
      [] item = "attendance" -> chunk.attendance
      [] OTHER -> TRUE

\* The ranks of the candidates that hold an item and are not selected yet.
eligible(candidates, selected, item, year) ==
    {k \in DOMAIN candidates : /\ candidates[k] \notin ToSet(selected) /\ holds(candidates[k], item)
                               /\ year = "" \/ candidates[k].year = year}

upto(seq, n) == SubSeq(seq, 1, IF Len(seq) < n THEN Len(seq) ELSE n)

\* The best candidate with the item takes a place, if one is left.
supplement(candidates, selected, item, year) ==
    LET more == eligible(candidates, selected, item, year)
    IN  IF more # {} /\ Len(selected) < SearchLimit
        THEN Append(selected, candidates[CHOOSE k \in more : \A j \in more : k <= j])
        ELSE selected

fill(selected, c) ==
    IF Len(selected) < SearchLimit /\ c \notin ToSet(selected) THEN Append(selected, c) ELSE selected

\* The best candidates stay, two places go to the items the question names,
\* and what is left is filled in order.
select(candidates, asked, year) ==
    LET kept  == upto(candidates, IF SearchLimit > 2 THEN SearchLimit - 2 ELSE 0)
        recap == IF "recap" \in asked THEN supplement(candidates, kept, "recap", year) ELSE kept
        both  == IF "attendance" \in asked THEN supplement(candidates, recap, "attendance", year) ELSE recap
    IN  IF asked = {} THEN upto(candidates, SearchLimit) ELSE FoldLeft(fill, both, candidates)

search_finds(candidates, year) ==
    /\ judge.kind = "none" /\ judge.stage = "SEARCHING"
    /\ LET chunks == select(candidates, judge.asked, year)
           run == tool_done(judge, "records.search")
       IN  judge' = IF chunks = <<>> THEN [run EXCEPT !.kind = "NOT_FOUND"]
                    ELSE [run EXCEPT !.stage = "ANSWERING", !.chunks = chunks]

(***************************************************************************)
(* ANSWERING: RecordsLookup.answer                                         *)
(***************************************************************************)
\* to_meeting_answer: None when nothing was confirmed; the sources are those
\* of the facts and of the sides of the conflicts.
answer_sources(result) == UNION (result.facts \cup UNION result.conflicts)

\* assess_chunks checks the cited numbers before it filters; an answer told
\* as complete has lost nothing to the filter.
answer_comes(assessment, known) ==
    /\ judge.kind = "none" /\ judge.stage = "ANSWERING"
    /\ LET filtered == filter_evidence(assessment, known)
           result == build_result(filtered, judge.chunks)
           done == tool_done(judge, "llm.generate")
       IN  judge' = IF ~is_valid(assessment, judge.chunks)
                    THEN tool_failed(judge, "llm.generate", "FAILED")
                    ELSE IF claims(filtered) = {}
                         THEN [done EXCEPT !.kind = "NOT_FOUND"]
                         ELSE [done EXCEPT !.kind = "ANSWER",
                                           !.sources = answer_sources(result),
                                           !.told = result.not_found \/ claims(assessment) = claims(filtered)]

\* A query, search or answer call fails with an AIError.
tool_fails(status) ==
    /\ judge.kind = "none"
    /\ \/ judge.stage = "QUERYING" /\ judge' = tool_failed(judge, "llm.generate", status)
       \/ judge.stage = "SEARCHING" /\ judge' = tool_failed(judge, "records.search", status)
       \/ judge.stage = "ANSWERING" /\ judge' = tool_failed(judge, "llm.generate", status)

\* One claim, a good claim with another, or one conflict: enough to tell the
\* branches apart.
MeetingAssessments(n) ==
    LET good == [ids |-> {1}, supported |-> TRUE]
    IN  [facts : {{}} \cup {{f} : f \in EvidenceItem(n)} \cup {{good, f} : f \in EvidenceItem(n)},
         not_found : BOOLEAN, conflicts : {{}}] \cup
        [facts : {{}}, not_found : BOOLEAN,
         conflicts : {{{f, g}} : f \in EvidenceItem(1), g \in [ids : {{n}}, supported : BOOLEAN]}]

(***************************************************************************)
(* meeting_event_service.answer, beside the judgement                      *)
(***************************************************************************)
EventFields == {"status", "dates", "location", "expected_headcount", "actual_headcount"}

\* MeetingEventIntent, as its validator accepts it.
MeetingEventIntent ==
    {i \in [disposition : {"lookup", "none", "clarify"},
            scope : {"none", "current", "recent", "selected"}, fields : SUBSET EventFields,
            reference : BOOLEAN] :
        IF i.disposition = "lookup"
        THEN i.scope # "none" /\ i.fields # {} /\ (i.scope = "selected") = i.reference
        ELSE i.scope = "none" /\ i.fields = {} /\ ~i.reference}

NoEventAnswer == [phase |-> "classify", intent |-> "none", status |-> "none", shown |-> 0, stored |-> 0,
                  unknown |-> FALSE]

\* classify_meeting_event_facts: an event the meeting never named is refused.
classify_meeting_event_facts(intent, named) ==
    /\ eventAnswer.phase = "classify"
    /\ eventAnswer' =
          IF intent.reference /\ ~named THEN [eventAnswer EXCEPT !.phase = "failed"]
          ELSE IF intent.disposition = "lookup"
               THEN [eventAnswer EXCEPT !.phase = "read", !.intent = intent]
               ELSE [eventAnswer EXCEPT !.phase = "done", !.status = intent.disposition]

classify_fails ==
    /\ eventAnswer.phase = "classify"
    /\ eventAnswer' = [eventAnswer EXCEPT !.phase = "failed"]

\* answer_meeting_event_facts: `rows` of the limit plus one that was read.
answer_meeting_event_facts(intent, rows, missing) ==
    LET complete == rows <= EventFactsLimit
    IN  IF rows = 0 THEN "not_found"
        ELSE IF ~complete \/ missing \/ intent.scope = "recent" THEN "partial" ELSE "answered"

\* The events of the scope are read with a limit of one more than is shown;
\* the actual headcount is never filled in.
read_events(stored, unknown) ==
    /\ eventAnswer.phase = "read"
    /\ LET intent == eventAnswer.intent
           rows == IF stored < EventFactsLimit + 1 THEN stored ELSE EventFactsLimit + 1
           missing == \/ unknown /\ intent.fields \cap {"dates", "location", "expected_headcount"} # {}
                      \/ "actual_headcount" \in intent.fields
       IN  eventAnswer' = [eventAnswer EXCEPT
                !.phase = "done",
                !.status = answer_meeting_event_facts(intent, rows, missing),
                !.shown = IF rows < EventFactsLimit THEN rows ELSE EventFactsLimit,
                !.stored = stored, !.unknown = unknown]

JudgeInit == judge = new_run /\ eventAnswer = NoEventAnswer

UtteranceNext ==
    \/ AtJev /\ \E failure \in HttpFailures : call_jev_fails(failure)
    \/ AtJev /\ \E probability \in Probabilities : call_jev_answers(probability)
    \/ judge.stage = "QUERYING" /\ \E q \in QueryTexts, asked \in SUBSET {"recap", "attendance"} :
                                       query_answers(q, asked)
    \/ judging_times_out
    \/ judge.stage = "SEARCHING" /\ \E c \in CandidateLists, year \in {"", "2025"} : search_finds(c, year)
    \/ judge.stage = "ANSWERING" /\ \E a \in MeetingAssessments(Len(judge.chunks)), known \in BOOLEAN :
                                        answer_comes(a, known)
    \/ \E status \in {"FAILED", "TIMEOUT"} : tool_fails(status)

EventFactsNext ==
    \/ eventAnswer.phase = "classify" /\ \E i \in MeetingEventIntent, named \in BOOLEAN :
                                             classify_meeting_event_facts(i, named)
    \/ classify_fails
    \/ eventAnswer.phase = "read" /\ \E n \in 0..EventFactsLimit + 2, unknown \in BOOLEAN :
                                         read_events(n, unknown)

\* The two calls are gathered and share nothing: the second is followed once
\* the first has ended.
JudgeNext ==
    \/ judge.kind = "none" /\ UtteranceNext /\ UNCHANGED eventAnswer
    \/ judge.kind = "NO_LOOKUP" /\ EventFactsNext /\ UNCHANGED judge

JudgeTypeOK ==
    /\ judge.kind \in Judgements /\ judge.attempt \in 0..DEFAULT_MAX_RETRIES
    /\ \A i \in DOMAIN judge.calls : judge.calls[i] \in ToolCall

\* What the search must hand to the answering model: no chunk twice, as many
\* as were found up to the limit, the best ones, and each item asked for if a
\* candidate of the year holds it.
GoodSelection(candidates, asked, year, selected) ==
    /\ IsInjective(selected) /\ ToSet(selected) \subseteq ToSet(candidates)
    /\ Len(selected) = IF Len(candidates) < SearchLimit THEN Len(candidates) ELSE SearchLimit
    /\ \A i \in 1..(SearchLimit - 2) : i <= Len(candidates) => selected[i] = candidates[i]
    /\ \A item \in asked :
          (\E c \in ToSet(candidates) : holds(c, item) /\ (year = "" \/ c.year = year))
             => \E c \in ToSet(selected) : holds(c, item)

\* ai.features.meeting: a judgement is NO_LOOKUP only on Jev's word and with
\* no other call; an answer comes after all four calls succeeded, cites only
\* chunks the search found and admits what the filter removed; an error after
\* a call that failed has that call, and no other failed one, at the end of
\* its trace, and no call is made after it; whatever a search finds, the items
\* the question asks for are among the chunks that are read.
TraceTellsTheCalls ==
    /\ JudgeTypeOK
    /\ judge.kind = "NO_LOOKUP" => judge.calls = <<Call("judge.decide", "OK")>>
    /\ judge.kind = "ANSWER" =>
          /\ judge.calls = <<Call("judge.decide", "OK"), Call("llm.generate", "OK"),
                             Call("records.search", "OK"), Call("llm.generate", "OK")>>
          /\ judge.sources # {} /\ judge.sources \subseteq {c.source : c \in ToSet(judge.chunks)}
          /\ judge.told
    /\ \A i \in DOMAIN judge.calls :
          judge.calls[i].status # "OK" => i = Len(judge.calls) /\ judge.kind = "error"
    /\ judge.kind = "error" /\ judge.stage \in {"SEARCHING", "ANSWERING"} =>
          Last(judge.calls).status # "OK"
    /\ judge.stage = "SEARCHING" /\ judge.kind = "none" =>
          \A c \in CandidateLists, year \in {"", "2025"} :
             GoodSelection(c, judge.asked, year, select(c, judge.asked, year))

\* meeting_event_service: events are reported as answered only when all of
\* the scope were shown with every value asked for, and never as the latest.
EventAnswerIsHonest ==
    eventAnswer.status = "answered" =>
        /\ eventAnswer.shown = eventAnswer.stored /\ eventAnswer.stored > 0
        /\ eventAnswer.intent.scope # "recent"
        /\ eventAnswer.unknown => eventAnswer.intent.fields = {"status"}

=============================================================================
