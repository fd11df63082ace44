------------------------------ MODULE Retrieval ------------------------------
(***************************************************************************)
(* Looking for evidence in the club's records.                             *)
(*                                                                         *)
(*   ai/features/retrieval/nodes.py  search_records: rewrite_query,        *)
(*                                   retrieve, assess, build_result        *)
(*   ai/features/retrieval/schemas.py                                      *)
(*                                                                         *)
(* One search is a loop around two model calls and a vector search.  The   *)
(* model cites chunks by their number in the list that was found; the code *)
(* turns numbers into sources.  A query, a chunk and a claim are values    *)
(* the code only compares; the answers of the models and of the vector     *)
(* search are any that their schemas let through.  The operators on an     *)
(* assessment are shared by the meeting judge and by the Tori dialogue.    *)
(***************************************************************************)
EXTENDS Naturals, Sequences, FiniteSets, SequencesExt

CONSTANTS
    QueryTexts,      \* what a model writes as a query; "" is blank
    StoredChunks,    \* the chunks of the club's index: [source, text]
    MAX_QUERIES,     \* queries searched in one round
    MAX_SEARCH_ROUNDS,
    MaxHits          \* chunks the vector search returns for one query

ASSUME RetrievalAssumption ==
    MAX_QUERIES \in Nat \ {0} /\ MAX_SEARCH_ROUNDS \in Nat \ {0} /\ MaxHits \in Nat

VARIABLE search      \* SearchState of one search_records call

searchVars == <<search>>

\* SearchState.phase: which step search_records is about to take.
Phases == {"rewrite", "retrieve", "assess", "done", "failed"}

\* EvidenceItem: a claim, the numbers of the chunks it cites, and whether the
\* text of those chunks holds the claim's figures (tori.records._supported).
EvidenceItem(n) == [ids : SUBSET (1..n + 1), supported : BOOLEAN]

\* EvidenceAssessment over n chunks.  Its not_found list is only ever tested
\* for being empty; a conflict holds two values.
EvidenceAssessment(n) ==
    [sufficient : BOOLEAN,
     retry_queries : SeqOf(QueryTexts, 2),
     facts : SUBSET EvidenceItem(n),
     not_found : BOOLEAN,
     conflicts : SUBSET {c \in SUBSET EvidenceItem(n) : Cardinality(c) = 2}]

NoAssessment == [facts |-> {}, not_found |-> TRUE, conflicts |-> {}]

_clean_queries(queries, searched) ==
    LET Add(seen, q) == IF q = "" \/ q \in ToSet(searched) \/ q \in ToSet(seen)
                        THEN seen ELSE Append(seen, q)
        cleaned == FoldLeft(Add, <<>>, queries)
    IN  SubSeq(cleaned, 1, IF Len(cleaned) < MAX_QUERIES THEN Len(cleaned) ELSE MAX_QUERIES)

\* The chunks found by one more query go behind the ones known already, so
\* that the numbers given to earlier chunks do not move.
append_new(chunks, found) ==
    FoldLeft(LAMBDA known, c : IF c \in ToSet(known) THEN known ELSE Append(known, c),
             chunks, found)

\* _fact: only numbers of chunks that were found may be cited, and a fact
\* without a source is no RecordFact.
cites_found(item, chunks) == item.ids # {} /\ item.ids \subseteq 1..Len(chunks)

sources_of(item, chunks) == {chunks[i].source : i \in item.ids}

\* Everything an assessment claims, in facts and in the sides of a conflict.
claims(assessment) == assessment.facts \cup UNION assessment.conflicts

\* build_result raises AIInvalidResponse on a citation of something not found.
is_valid(assessment, chunks) ==
    \A item \in claims(assessment) : cites_found(item, chunks)

build_result(assessment, chunks) ==
    [facts |-> {sources_of(f, chunks) : f \in assessment.facts},
     not_found |-> assessment.not_found,
     conflicts |-> {{sources_of(f, chunks) : f \in c} : c \in assessment.conflicts}]

\* Fault: what could not be verified is dropped without a word.
FilterInSilence(assessment, known) ==
    [assessment EXCEPT
        !.facts = {f \in @ : f.supported},
        !.conflicts = {c \in @ : known /\ \A f \in c : f.supported}]

\* filter_evidence of the meeting and of Tori: a claim whose figures are not
\* in the text it cites is dropped, and then the user is told that something
\* could not be confirmed.  `known`: the figures in the conflicts'
\* descriptions are found in the conflicts' values.
filter_evidence(assessment, known) ==
    LET facts == {f \in assessment.facts : f.supported}
        conflicts == {c \in assessment.conflicts : known /\ \A f \in c : f.supported}
        removed == facts # assessment.facts \/ conflicts # assessment.conflicts
    IN  [assessment EXCEPT !.facts = facts, !.conflicts = conflicts,
                           !.not_found = @ \/ removed]

(***************************************************************************)
(* search_records                                                          *)
(***************************************************************************)
_new_state ==
    [phase |-> "rewrite", queries |-> <<>>, searched |-> <<>>, chunks |-> <<>>,
     rounds |-> 0, assessment |-> NoAssessment, result |-> NoAssessment]

\* rewrite=False: the caller's query is searched as it stands.
given_query(q) ==
    /\ search.phase = "rewrite"
    /\ q # ""
    /\ search' = [search EXCEPT !.phase = "retrieve", !.queries = <<q>>]

rewrite_query(output) ==
    /\ search.phase = "rewrite"
    /\ LET queries == _clean_queries(output, <<>>)
       IN  search' = IF queries = <<>>
                     THEN [search EXCEPT !.phase = "failed"]
                     ELSE [search EXCEPT !.phase = "retrieve", !.queries = queries]

\* The loop is left: the last assessment becomes the result, or an error.
finished(s) ==
    IF is_valid(s.assessment, s.chunks)
    THEN [s EXCEPT !.phase = "done", !.result = build_result(s.assessment, s.chunks)]
    ELSE [s EXCEPT !.phase = "failed"]

\* What the port finds for each query, one after the other; a round that
\* finds nothing new ends the search.
retrieve(hits) ==
    /\ search.phase = "retrieve"
    /\ LET chunks == FoldLeft(append_new, search.chunks, hits)
           after == [search EXCEPT !.chunks = chunks, !.searched = @ \o search.queries,
                                   !.queries = <<>>, !.rounds = @ + 1]
       IN  search' = IF Len(chunks) = Len(search.chunks) THEN finished(after)
                     ELSE [after EXCEPT !.phase = "assess"]

\* The last assessment stands; an insufficient one names further queries
\* while there are rounds left.
assess(assessment) ==
    /\ search.phase = "assess"
    /\ LET queries == IF search.rounds < MAX_SEARCH_ROUNDS /\ ~assessment.sufficient
                      THEN _clean_queries(assessment.retry_queries, search.searched)
                      ELSE <<>>
           after == [search EXCEPT
                        !.assessment = [facts |-> assessment.facts,
                                        not_found |-> assessment.not_found,
                                        conflicts |-> assessment.conflicts],
                        !.queries = queries]
       IN  search' = IF queries = <<>> THEN finished(after)
                     ELSE [after EXCEPT !.phase = "retrieve"]

\* A model, embedding or database call fails: the AI error goes up as it is.
search_fails ==
    /\ search.phase \in {"rewrite", "retrieve", "assess"}
    /\ search' = [search EXCEPT !.phase = "failed"]

\* What models and vector search may return here: one claim suffices to tell
\* apart everything the code does with claims.
Answers(n) ==
    {a \in [sufficient : BOOLEAN, retry_queries : SeqOf(QueryTexts, 2),
            facts : {{}} \cup {{f} : f \in EvidenceItem(n)}, not_found : BOOLEAN, conflicts : {{}}] :
        a.sufficient => a.retry_queries = <<>>}

Hits == {h \in SeqOf(StoredChunks, MaxHits) : IsInjective(h)}

RetrievalInit == search = _new_state

RetrievalNext ==
    \/ search.phase = "rewrite" /\ \E q \in QueryTexts : given_query(q)
    \/ search.phase = "rewrite" /\ \E output \in SeqOf(QueryTexts, 3) \ {<<>>} : rewrite_query(output)
    \/ search.phase = "retrieve" /\ \E hits \in [1..Len(search.queries) -> Hits] : retrieve(hits)
    \/ search.phase = "assess" /\ \E a \in Answers(Len(search.chunks)) : assess(a)
    \/ search_fails

RetrievalTypeOK ==
    /\ search.phase \in Phases
    /\ search.rounds \in 0..MAX_SEARCH_ROUNDS
    /\ ToSet(search.chunks) \subseteq StoredChunks

\* ai.features.retrieval: no query is searched twice nor more than MAX_QUERIES
\* in a round, rounds are bounded, no chunk is numbered twice, and a result
\* cites only chunks that were found -- also when a later round found nothing
\* and the assessment of the round before it becomes the result.
EvidenceIsFound ==
    /\ RetrievalTypeOK
    /\ IsInjective(search.searched) /\ "" \notin ToSet(search.searched)
    /\ Len(search.searched) <= MAX_QUERIES * MAX_SEARCH_ROUNDS
    /\ IsInjective(search.chunks)
    /\ search.phase = "done" =>
          /\ \A f \in search.result.facts :
                f # {} /\ f \subseteq {c.source : c \in ToSet(search.chunks)}
          /\ search.chunks = <<>> => search.result.not_found

=============================================================================
