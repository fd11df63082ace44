----------------------------- MODULE ActionDraft -----------------------------
(***************************************************************************)
(* Writing the text of a notice, and checking what the model wrote.        *)
(*                                                                         *)
(*   ai/features/operations/action_draft.py  draft_action_content          *)
(*   ai/features/operations/schemas.py       ActionDraftRequest            *)
(*                                                                         *)
(* Module Operation has who asks for a draft and where it goes.  A text is *)
(* a sequence of what the patterns of the code find in it, in order:       *)
(* dates in four notations, weekdays, amounts, times and anything else.    *)
(* A date is a month and a day of one year; weekday[d] is the calendar.    *)
(***************************************************************************)
EXTENDS Naturals, Sequences, FiniteSets, SequencesExt

CONSTANTS
    AllowedDates,      \* [month, day] of the event, its step and the action
    AllowedAmounts,    \* fee per person and the action's amount
    WeekdayOf(_),      \* the weekday of a date
    DraftTexts,        \* what the model may write
    MAX_ATTEMPTS

\* The marks of a text: "5월 10일(일)" or "5/10" (also "13월 40일", which no
\* calendar has), "~11일", "45,000원", and of those that hold nothing to
\* compare "4만 5천원", "9시", "[집결 시간]", a word.
Marks ==
    [kind : {"date"}, month : 0..99, day : 0..99, weekday : STRING]
    \cup [kind : {"next"}, day : 0..99, weekday : STRING]
    \cup [kind : {"amount"}, won : Nat]
    \cup [kind : {"korean", "time", "hole", "word"}]

ASSUME DraftAssumption ==
    MAX_ATTEMPTS \in Nat \ {0} /\ \A text \in DraftTexts : text \in Seq(Marks)

VARIABLE writing       \* draft_attempts: [at, attempt, content]

draftVars == <<writing>>

NoWeekday == "none"

\* The state of the scan: the month a "~11일" may take over, if nothing but
\* blanks came since the date, and the violations so far.
Scan0 == [month |-> 0, adjacent |-> FALSE, wrong |-> {}]

date_violations(d, written) ==
    IF d \notin AllowedDates THEN {"date"}
    ELSE IF written # NoWeekday /\ written # WeekdayOf(d) THEN {"weekday"} ELSE {}

read_date(scan, d, written) ==
    [month |-> d.month, adjacent |-> TRUE, wrong |-> scan.wrong \cup date_violations(d, written)]

\* Fault: a bare day takes the month of the last date, however far back.
DateFromAnywhere(scan, mark) ==
    CASE mark.kind = "date" -> read_date(scan, [month |-> mark.month, day |-> mark.day], mark.weekday)
      [] mark.kind = "next" /\ scan.month # 0 ->
            read_date(scan, [month |-> scan.month, day |-> mark.day], mark.weekday)
      [] OTHER -> scan

\* One match of _DATE: a bare day belongs to the date right before it or is
\* no date at all.  Placeholders are blanked and Korean amounts cut out before
\* dates are read: neither stands between a date and its "~11일".
_date_violations(scan, mark) ==
    CASE mark.kind \in {"hole", "korean"} -> scan
      [] mark.kind = "date" -> read_date(scan, [month |-> mark.month, day |-> mark.day], mark.weekday)
      [] mark.kind = "next" /\ scan.adjacent ->
            read_date(scan, [month |-> scan.month, day |-> mark.day], mark.weekday)
      [] OTHER -> [scan EXCEPT !.adjacent = FALSE]

_amount_violations(text) ==
    {"korean amount" : m \in {m \in ToSet(text) : m.kind = "korean"}} \cup
    {"amount" : m \in {m \in ToSet(text) : m.kind = "amount" /\ m.won \notin AllowedAmounts}}

_time_violations(text) == {"time" : m \in {m \in ToSet(text) : m.kind = "time"}}

find_draft_violations(text) ==
    FoldLeft(_date_violations, Scan0, text).wrong
        \cup _amount_violations(text) \cup _time_violations(text)

(***************************************************************************)
(* draft_attempts, draft_action_content                                    *)
(***************************************************************************)
write(text) ==
    /\ writing.at = "writing"
    /\ writing' = [writing EXCEPT
            !.at = IF find_draft_violations(text) = {} THEN "written"
                   ELSE IF writing.attempt < MAX_ATTEMPTS THEN "sent back" ELSE "refused",
            !.content = text]

\* The violations go back to the model with the text (_retry_message).
write_again ==
    /\ writing.at = "sent back"
    /\ writing' = [at |-> "writing", attempt |-> writing.attempt + 1, content |-> <<>>]

write_fails ==
    /\ writing.at = "writing"
    /\ writing' = [writing EXCEPT !.at = "failed", !.content = <<>>]

DraftInit == writing = [at |-> "writing", attempt |-> 1, content |-> <<>>]

DraftNext ==
    \/ writing.at = "writing" /\ \E text \in DraftTexts : write(text)
    \/ write_again
    \/ write_fails

\* A reader's understanding of a text: the dates it names, a bare day taking
\* the month of a date that stands directly before it.
DateAt(text, i) ==
    LET seen == {k \in 1..(i - 1) : text[k].kind \notin {"hole", "korean"}}
        run == {k \in seen : \A j \in seen : j >= k => text[j].kind \in {"date", "next"}}
        heads == {k \in run : text[k].kind = "date"}
    IN  IF text[i].kind = "date" THEN {[month |-> text[i].month, day |-> text[i].day]}
        ELSE IF text[i].kind = "next" /\ heads # {}
             THEN {[month |-> text[CHOOSE k \in heads : \A j \in heads : j <= k].month,
                    day |-> text[i].day]}
             ELSE {}

\* action_draft: a text that comes out names only dates, weekdays and amounts
\* that went in and no time of day outside a placeholder; and a text that says
\* only such things is not sent back to the model.
DraftSaysWhatWasGiven ==
    LET text == writing.content
        true == /\ \A i \in DOMAIN text : \A d \in DateAt(text, i) :
                      d \in AllowedDates /\ text[i].weekday \in {NoWeekday, WeekdayOf(d)}
                /\ \A i \in DOMAIN text : /\ text[i].kind \notin {"korean", "time"}
                                          /\ text[i].kind = "amount" => text[i].won \in AllowedAmounts
    IN  /\ writing.attempt \in 1..MAX_ATTEMPTS
        /\ writing.at = "written" => true
        /\ writing.at \in {"sent back", "refused"} => ~true

=============================================================================
