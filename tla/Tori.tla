-------------------------------- MODULE Tori --------------------------------
(***************************************************************************)
(* One message to Tori, the assistant of the club's home screen.           *)
(*                                                                         *)
(*   routers/tori.py                       message                         *)
(*   ai/features/tori/intent.py, query.py  what the message asks for       *)
(*   ai/features/tori/records.py           answer_tori_records             *)
(*   services/record_discovery_service.py  search_records                  *)
(*                                                                         *)
(* The handler makes up to four model calls and holds no transaction       *)
(* across any of them, so that records are deleted or indexed, and the     *)
(* sender may lose the club, between any two.  A record stands for its     *)
(* chunks: a record's blocks never change once they are parsed.            *)
(***************************************************************************)
EXTENDS Retrieval

CONSTANTS
    ToriRecords,
    AnswerLimit,      \* SEMANTIC_LIMIT: chunks handed to the answering model
    LexicalLimit,     \* LEXICAL_ANSWER_LIMIT
    ListLimit         \* rows a list reply shows (20)

ASSUME ToriAssumption ==
    IsFiniteSet(ToriRecords) /\ AnswerLimit \in Nat /\ LexicalLimit \in Nat /\ ListLimit \in Nat

VARIABLES
    shelf,     \* the records' parse_status
    inClub,    \* the sender belongs to the club
    talk       \* the message handler

toriVars == <<shelf, inClub, talk>>

Intents == {"record_search", "task_list", "event_list", "event_planning", "meeting",
            "clarify", "unsupported", "self_intro"}

\* The first n of a list; which ones those are does not matter here.
FirstOf(S, n) == {s \in SUBSET S : Cardinality(s) = IF Cardinality(S) < n THEN Cardinality(S) ELSE n}

Stored(d) == shelf[d] \in {"COMPLETED", "INDEXED"}

\* What a search shows itself: the list of records, and the records its summary
\* was written from.
NoRecords == [items |-> {}, answer |-> {}]

\* ToriMessageIn with or without the clarification it answers.
Talk0 ==
    [at |-> "start", context |-> FALSE, follow_up |-> FALSE, ambiguous |-> FALSE,
     narrowed |-> FALSE, intent |-> "none", semantic_status |-> "none",
     lexical |-> {}, semantic |-> {}, attempt |-> 1, status |-> "none",
     facts |-> {}, lost |-> FALSE, not_found |-> FALSE, clarification |-> FALSE,
     records |-> NoRecords, shown |-> 0, stored |-> 0, more |-> FALSE]

ended == {"done", "error"}

(***************************************************************************)
(* What the message asks for                                               *)
(***************************************************************************)
\* A reply to a range question, by what its text matches: the words for
\* everything, an ordinal, how many options, years, options of that year.
ChoiceTexts == [all : BOOLEAN, ordinal : BOOLEAN, matches : 0..2, years : 0..2, of_year : 0..2]

_clear_clarification_choice(choice, options) ==
    \/ options = 0
    \/ choice.all \/ choice.ordinal \/ choice.matches = 1
    \/ choice.years > 1
    \/ choice.years = 1 /\ choice.of_year <= 1

receive(context) ==
    /\ talk.at = "start"
    /\ talk' = [talk EXCEPT !.at = IF context THEN "resolve" ELSE "classify", !.context = context]

\* build_tori_record_query: the message answers the range question or is a
\* request of its own.
resolve(follow_up) ==
    /\ talk.at = "resolve"
    /\ talk' = IF follow_up
               THEN [talk EXCEPT !.at = "asked", !.follow_up = TRUE, !.intent = "record_search"]
               ELSE [talk EXCEPT !.at = "classify"]

classify_tori_intent(intent) ==
    /\ talk.at = "classify"
    /\ talk' = [talk EXCEPT !.at = "asked", !.intent = intent]

\* AIMisconfigured or AIUnavailable.
intent_fails ==
    /\ talk.at \in {"resolve", "classify"}
    /\ talk' = [talk EXCEPT !.at = "error"]

\* An unclear choice widens the query to the original question again.
scope_of(t, clear) ==
    [t EXCEPT !.ambiguous = t.follow_up /\ ~clear, !.narrowed = t.follow_up /\ clear]

(***************************************************************************)
(* record_discovery_service.search_records                                 *)
(***************************************************************************)
\* Membership is checked again, a query of more than 200 characters refused
\* (the query of a follow-up is never longer), and the keyword matches are
\* read with the number of indexed records.  All matches are listed.
begin_record_search(clear, too_long, matching) ==
    /\ talk.at = "asked" /\ talk.intent = "record_search"
    /\ too_long => ~talk.follow_up
    /\ \E lexical \in FirstOf({d \in matching : Stored(d)}, LexicalLimit) :
          LET t == scope_of(talk, clear)
          IN  talk' = IF ~inClub THEN [t EXCEPT !.at = "error"]
                      ELSE IF too_long THEN [t EXCEPT !.at = "done", !.intent = "clarify"]
                      ELSE [t EXCEPT !.at = "searching", !.lexical = lexical,
                                !.records = [items |-> {d \in matching : Stored(d)}, answer |-> {}],
                                !.semantic_status = IF \E d \in ToriRecords : shelf[d] = "INDEXED"
                                                    THEN "AVAILABLE" ELSE "NO_INDEXED_RECORDS"]

\* The embedding call, then the vector search over what is indexed by then:
\* `close` are the records near enough to answer from.  If there are any, a
\* further model call sums up what the search found, the chunks that were not
\* near enough included, or fails; `assessed` are the records its text rests on.
search_related_records(close, assessed) ==
    /\ talk.at = "searching"
    /\ LET searched == IF talk.semantic_status = "AVAILABLE"
                       THEN {d \in ToriRecords : shelf[d] = "INDEXED"} ELSE {}
           answer == IF close \cap searched # {} THEN assessed \cap searched ELSE {}
       IN  talk' = [talk EXCEPT !.at = "assessing", !.semantic = close \cap searched,
                                !.records = [items |-> talk.records.items, answer |-> answer]]

search_related_fails ==
    /\ talk.at = "searching" /\ talk.semantic_status = "AVAILABLE"
    /\ talk' = [talk EXCEPT !.at = "assessing", !.semantic_status = "UNAVAILABLE"]

\* After these calls the handler keeps only chunks of records that are still
\* there; the list takes in the records found by the vector search.
keep_current ==
    /\ talk.at = "assessing"
    /\ LET lexical == {d \in talk.lexical : Stored(d)}
           semantic == {d \in talk.semantic \ lexical : shelf[d] = "INDEXED"}
           items == talk.records.items \cup {d \in talk.semantic : shelf[d] = "INDEXED"}
           t == [talk EXCEPT !.records = [items |-> items, answer |-> talk.records.answer]]
       IN  \E chosen \in FirstOf(semantic, AnswerLimit - Cardinality(lexical)) :
              talk' = IF ~inClub THEN [talk EXCEPT !.at = "error"]
                      ELSE IF lexical \cup chosen # {}
                           THEN [t EXCEPT !.at = "answering", !.lexical = lexical, !.semantic = chosen]
                           ELSE [t EXCEPT !.at = "checking", !.lexical = {}, !.semantic = {},
                                   !.status = IF talk.semantic_status = "UNAVAILABLE"
                                              THEN "failed" ELSE "insufficient"]

(***************************************************************************)
(* answer_tori_records                                                     *)
(***************************************************************************)
chunks_of(t) == [i \in 1..Cardinality(t.lexical \cup t.semantic) |->
                    [source |-> (SetToSeq(t.lexical) \o SetToSeq(t.semantic))[i]]]

\* ToriAssessment: claims, or a question with its options, or something wrong.
ToriAssessment(n) ==
    [asks : BOOLEAN, options : {"none", "valid", "invalid"}, not_found : BOOLEAN, conflicts : {{}},
     facts : {{}} \cup {{f} : f \in EvidenceItem(n)}
                  \cup {{[ids |-> {1}, supported |-> TRUE], f} : f \in EvidenceItem(n)}]

\* A question may be asked in the first turn and the first attempt only.
can_ask(t) == ~t.follow_up /\ t.attempt = 1

well_formed(t, a) ==
    IF a.asks THEN can_ask(t) /\ a.facts = {} /\ a.options = "valid" ELSE a.options = "none"

\* ToriRecordAnswerResult.status, then ToriRecordAnswer.status: an answer is
\* partial when something is missing or the vector search was down.
answer_status(t, result) ==
    IF result.facts = {} THEN "insufficient"
    ELSE IF result.not_found \/ t.semantic_status = "UNAVAILABLE" THEN "partial" ELSE "answered"

answer_tori_records(a) ==
    /\ talk.at = "answering"
    /\ LET chunks == chunks_of(talk)
           filtered == filter_evidence(a, TRUE)
           result == build_result(filtered, chunks)
       IN  talk' =
             IF ~well_formed(talk, a)
             THEN IF talk.attempt = 1 THEN [talk EXCEPT !.attempt = 2]
                  ELSE [talk EXCEPT !.at = "checking", !.status = "failed"]
             ELSE IF a.asks
             THEN [talk EXCEPT !.at = "checking", !.clarification = ~talk.follow_up,
                               !.status = IF talk.follow_up THEN "failed" ELSE "insufficient"]
             ELSE IF ~is_valid(a, chunks)
             THEN [talk EXCEPT !.at = "checking", !.status = "failed"]
             ELSE [talk EXCEPT !.at = "checking", !.status = answer_status(talk, result),
                               !.facts = UNION result.facts, !.not_found = result.not_found,
                               !.lost = filtered.facts # a.facts]

answer_fails ==
    /\ talk.at = "answering"
    /\ talk' = [talk EXCEPT !.at = "checking", !.status = "failed"]

\* Fault: what the model answered is shown as it came.
ShowAnyway(t) == TRUE

\* Every record the model saw is still there, and indexed if it was found as such.
still_stands(t) ==
    /\ \A d \in t.lexical \cup t.semantic : Stored(d)
    /\ \A d \in t.semantic : shelf[d] = "INDEXED"

\* Membership and records are read once more before the reply.  Besides the
\* answer it carries the search's own result: of the list only the records that
\* are still there, and the summary as the model wrote it, of which nothing is
\* read again.  A question is sent alone.
reply_records ==
    /\ talk.at = "checking"
    /\ LET kept == [items |-> {d \in talk.records.items : Stored(d)}, answer |-> talk.records.answer]
       IN  talk' = IF ~inClub THEN [talk EXCEPT !.at = "error", !.facts = {}, !.clarification = FALSE]
                   ELSE IF ~still_stands(talk)
                   THEN [talk EXCEPT !.at = "done", !.status = "failed", !.facts = {},
                                     !.clarification = FALSE, !.records = kept]
                   ELSE IF talk.clarification THEN [talk EXCEPT !.at = "done", !.records = NoRecords]
                   ELSE [talk EXCEPT !.at = "done", !.records = kept]

(***************************************************************************)
(* The other intents read once and reply                                   *)
(***************************************************************************)
\* task_list and event_list: `stored` rows match; scope or kind may be missing.
reply_list(understood, stored) ==
    /\ talk.at = "asked" /\ talk.intent \in {"task_list", "event_list"}
    /\ talk' = IF ~inClub THEN [talk EXCEPT !.at = "error"]
               ELSE IF ~understood /\ talk.intent = "task_list"
               THEN [talk EXCEPT !.at = "done", !.intent = "clarify"]
               ELSE [talk EXCEPT !.at = "done", !.stored = stored,
                                 !.shown = IF stored < ListLimit THEN stored ELSE ListLimit,
                                 !.more = stored > ListLimit]

\* Navigation, the introduction and refusals.
reply_other ==
    /\ talk.at = "asked"
    /\ talk.intent \in {"event_planning", "meeting", "self_intro", "clarify", "unsupported"}
    /\ talk' = [talk EXCEPT !.at = IF inClub THEN "done" ELSE "error"]

(***************************************************************************)
(* What others do meanwhile                                                *)
(***************************************************************************)
record_deleted(d) == Stored(d) /\ shelf' = [shelf EXCEPT ![d] = "DELETED"] /\ UNCHANGED inClub

record_indexed(d) == shelf[d] = "COMPLETED" /\ shelf' = [shelf EXCEPT ![d] = "INDEXED"] /\ UNCHANGED inClub

membership_ends == inClub /\ inClub' = FALSE /\ UNCHANGED shelf

ToriInit ==
    /\ shelf \in [ToriRecords -> {"COMPLETED", "INDEXED"}]
    /\ inClub = TRUE
    /\ talk = Talk0

MessageNext ==
    \/ \E context \in BOOLEAN : receive(context)
    \/ \E follow_up \in BOOLEAN : resolve(follow_up)
    \/ \E intent \in Intents : classify_tori_intent(intent)
    \/ intent_fails
    \/ talk.at = "asked" /\ \E clear \in {_clear_clarification_choice(c, n) : c \in ChoiceTexts, n \in {0, 2}},
                               too_long \in BOOLEAN, m \in SUBSET ToriRecords :
                               begin_record_search(clear, too_long, m)
    \/ \E close, assessed \in SUBSET ToriRecords : search_related_records(close, assessed)
    \/ search_related_fails
    \/ keep_current
    \/ talk.at = "answering" /\ \E a \in ToriAssessment(Len(chunks_of(talk))) : answer_tori_records(a)
    \/ answer_fails
    \/ reply_records
    \/ \E understood \in BOOLEAN, stored \in 0..ListLimit + 1 : reply_list(understood, stored)
    \/ reply_other

ToriNext ==
    /\ talk.at \notin ended
    /\ \/ MessageNext /\ UNCHANGED <<shelf, inClub>>
       \/ /\ \/ \E d \in ToriRecords : record_deleted(d) \/ record_indexed(d)
             \/ membership_ends
          /\ UNCHANGED talk

\* routers/tori.message: whatever happens to records and membership during the
\* model calls, the answer of a reply states facts of records that are still
\* there, its list names no other, it admits what it could not confirm, never
\* asks a second time nor about nothing nor beside a result, and an unclear
\* choice is never narrowed to one of the options.  The summary sent with the
\* list is not part of this: it rests on what was indexed when it was searched,
\* and a record deleted since is still in it.
ToriAnswersFromRecords ==
    talk.at = "done" =>
        /\ inClub
        /\ \A d \in talk.facts : Stored(d) /\ d \in talk.lexical \cup talk.semantic
        /\ \A d \in talk.records.items : Stored(d)
        /\ talk.records.answer # {} => talk.semantic_status = "AVAILABLE"
        /\ talk.clarification => /\ ~talk.follow_up /\ talk.facts = {}
                                 /\ talk.records = NoRecords
                                 /\ \A d \in talk.lexical \cup talk.semantic : Stored(d)
        /\ talk.status = "answered" => /\ ~talk.lost /\ talk.facts # {}
                                       /\ talk.semantic_status # "UNAVAILABLE"
        /\ talk.ambiguous => ~talk.narrowed
        /\ talk.shown < talk.stored => talk.more

=============================================================================
