----------------------------- MODULE MCServices -----------------------------
(* TLC instance of Services: Services.cfg.  The inputs whose shape matters  *)
(* are built here: documents and ledgers at the limits of a chunk, plans    *)
(* and texts of a model, ranked search results, words, marks of a draft.    *)
EXTENDS Services

\* Two phases whose order in the catalogue is not the alphabetical one.
MCPhases == <<"q", "p">>
MCByCode == [a |-> "p", b |-> "q", c |-> "q"]

\* Rows and lines shorter than, as long as and longer than a chunk of 6.
MCRows(n) == UNION {[1..k -> {0, 1, 3, 7}] : k \in 0..n}
MCSheets ==
    {<<[name |-> NoSheet, rows |-> r]>> : r \in MCRows(4)}
    \cup {<<[name |-> "s1", rows |-> r], [name |-> n, rows |-> q]>> :
            r \in MCRows(4), n \in {"s2", NoLabel}, q \in MCRows(2)}

MCLine(k, n, s) == [kind |-> k, number |-> n, sentences |-> s]
MCShort == {MCLine("numbered", 1, <<2>>), MCLine("numbered", 2, <<2>>), MCLine("text", 0, <<1>>)}
MCLines ==
    MCShort \cup
    {MCLine("chapter", 0, <<2>>), MCLine("article", 0, <<2>>), MCLine("article_body", 0, <<5>>),
     MCLine("text", 0, <<2>>), MCLine("text", 0, <<5>>), MCLine("text", 0, <<4, 8, 1>>)}
MCDocuments ==
    {<<p>> : p \in UNION {[1..k -> MCLines] : k \in 1..3}}
    \cup {<<p, q>> : p \in UNION {[1..k -> MCLines] : k \in 1..2},
                     q \in UNION {[1..k -> MCShort] : k \in 1..2}}

\* A catalogue with two phases, and plans for an event of no, one or two days.
MCCatalog ==
    [PREP            |-> [phase |-> "PREPARATION", actions |-> {"a"}],
     EVENT_DAY       |-> [phase |-> "EXECUTION", actions |-> {"a"}],
     SETTLE_EXPENSES |-> [phase |-> "EXECUTION", actions |-> {"b"}]]
MCShapes == {"plain", "before", "after", "twice"}
MCPlanTexts ==
    [steps : UNION {[1..k -> [code : {"PREP"}, shape : MCShapes]] : k \in 0..1}
             \cup [1..2 -> [code : {"EVENT_DAY"}, shape : MCShapes]],
     steps_first : BOOLEAN]
MCStep(c, s, d, a) == [code |-> c, starts_at |-> s, deadline |-> d, actions |-> a]
MCDated(c) ==
    {MCStep(c, s, d, <<>>) : s \in 0..2, d \in 0..2}
    \cup {MCStep(c, 1, 2, <<[type |-> "a", due |-> n]>>) : n \in {0, 1, 3}}
MCPlan(steps, out, ids) ==
    [steps |-> steps, excluded |-> out, questions |-> {}, facts |-> {1}, fact_ids |-> ids]
MCCompositions ==
    {MCPlan(<<s, t>>, <<"EVENT_DAY">>, {1}) : s \in MCDated("PREP"), t \in MCDated("SETTLE_EXPENSES")}
    \cup {MCPlan(<<s>>, <<"PREP", "SETTLE_EXPENSES">>, {}) : s \in MCDated("EVENT_DAY")}
    \cup {MCPlan(<<MCStep("EVENT_DAY", 0, 0, <<>>), MCStep("PREP", 0, 0, <<>>)>>, <<"SETTLE_EXPENSES">>, {}),
          MCPlan(<<>>, <<"PREP">>, {}),
          MCPlan(<<>>, <<"PREP", "EVENT_DAY", "SETTLE_EXPENSES">>, {2})}
MCBases == {[start_date |-> s, end_date |-> e] : s \in {1}, e \in 0..2} \cup {[start_date |-> 0, end_date |-> 0]}

\* Chunks of two sources, one of which has two.
MCChunks == {[source |-> "s1", text |-> 1], [source |-> "s1", text |-> 2], [source |-> "s2", text |-> 1]}

\* Ranked results, up to more events than are shown.
MCHit(s, x, r, a, y) == [source |-> s, text |-> x, recap |-> r, attendance |-> a, year |-> y]
MCCandidates ==
    LET one   == {MCHit("s1", 1, r, a, "2025") : r, a \in BOOLEAN}
        two   == {MCHit("s2", 2, r, ~r, y) : r \in BOOLEAN, y \in {"2024", "2025"}}
        three == {MCHit("s3", 2, r, TRUE, "2025") : r \in BOOLEAN}
        four  == {MCHit("s4", 2, TRUE, TRUE, y) : y \in {"2024", "2025"}}
    IN {<<>>} \cup {<<c>> : c \in one} \cup {<<c, d>> : c \in one, d \in two}
       \cup {<<c, d, e, f>> : c \in one, d \in two, e \in three, f \in four}

\* Words a recogniser repeats, short or too long to tell, and words it does not.
MCTexts == {<<>>, <<3>>, <<1, 1>>, <<3, 3>>, <<1, 2, 1, 2>>, <<3, 3, 3>>, <<3, 4, 3>>, <<12, 12, 12, 12>>}

\* What a draft may mention of dates, weekdays and money.
MCDates == {[month |-> 5, day |-> 10], [month |-> 5, day |-> 11], [month |-> 6, day |-> 11]}
MCWeekday(d) == IF d.day = 10 THEN "sun" ELSE IF d.month = 5 THEN "mon" ELSE "thu"
MCMarks ==
    [kind : {"date"}, month : {5, 6}, day : {10, 11}, weekday : {NoWeekday, "sun"}]
    \cup [kind : {"next"}, day : {10, 11}, weekday : {NoWeekday, "mon"}]
    \cup [kind : {"amount"}, won : {45000, 40000}]
    \cup [kind : {"korean", "time", "hole", "word"}]
MCDraftTexts == SeqOf(MCMarks, 3)
=============================================================================
