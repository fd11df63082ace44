------------------------------- MODULE Figures -------------------------------
(***************************************************************************)
(* Comparing the figures of a claim with those of the text it cites.       *)
(*                                                                         *)
(*   ai/features/tori/records.py  _amount_value, _korean_value, _numbers,  *)
(*                                _found, _supported, _requested_years     *)
(*                                                                         *)
(* A figure in digits is a sequence of parts (a decimal number in tenths,  *)
(* and the units behind it), a numeral a sequence of syllables.  Both sides *)
(* of the comparison are written by others in any of the ways below; what  *)
(* the regular expressions cut out of a text is the code's.                *)
(***************************************************************************)
EXTENDS Naturals, Sequences, FiniteSets, SequencesExt

CONSTANTS
    FigureValues,    \* the figures that are written
    Units            \* "" and the units behind a figure

VARIABLE compared    \* a figure in a claim and one in the cited text

figureVars == <<compared>>

\* _BIG_VALUE: the syllables for 10, 100, 1000 and 10000 stand for themselves.
BigUnits == {10, 100, 1000, 10000}

\* A figure the code cannot read keeps its spelling.
Spelled(text) == <<"as written", text>>

\* _korean_value: digits are 0..9; ten, hundred and thousand make up the
\* section that ten thousand multiplies; two digits in a row are no numeral.
_korean_value(word) ==
    LET Digit(s) == IF s.digit = 10 THEN 0 ELSE s.digit
        Read(s, ch) ==
            CASE ch \notin BigUnits -> [s EXCEPT !.digit = ch, !.bad = @ \/ s.digit # 10]
              [] ch \in BigUnits \ {10000} ->
                    [s EXCEPT !.section = @ + (IF s.digit = 10 THEN 1 ELSE s.digit) * ch,
                              !.digit = 10]
              [] OTHER -> LET n == s.section + Digit(s)
                          IN  [s EXCEPT !.total = @ + (IF n = 0 THEN 1 ELSE n) * ch,
                                        !.section = 0, !.digit = 10]
        end == FoldLeft(Read, [total |-> 0, section |-> 0, digit |-> 10, bad |-> FALSE], word)
    IN  IF end.bad THEN Spelled(word) ELSE <<"value", end.total + end.section + Digit(end)>>

\* _amount_value: the units of the parts must fall; a half is counted exactly.
_amount_value(amount) ==
    LET Scale(units) == FoldLeft(LAMBDA n, u : n * u, 1, units)
        Add(s, part) == [total |-> s.total + part.tenths * Scale(part.units),
                         last |-> Scale(part.units),
                         bad |-> s.bad \/ (s.last # 0 /\ Scale(part.units) >= s.last)]
        end == FoldLeft(Add, [total |-> 0, last |-> 0, bad |-> FALSE], amount)
    IN  IF end.bad THEN Spelled(amount) ELSE <<"value", end.total \div 10>>

\* _AMOUNT: the parts go on as one amount as long as each has a unit.
IsOneAmount(parts) == Len(parts) = 1 \/ \A i \in DOMAIN parts : parts[i].units # <<>>

\* A last part without a unit is an amount of its own, and only the unit
\* directly behind it is its unit.
AmountsIn(text) ==
    IF IsOneAmount(text.parts)
      THEN {[value |-> _amount_value(text.parts), unit |-> text.unit]}
      ELSE {[value |-> _amount_value(Front(text.parts)), unit |-> ""],
            [value |-> _amount_value(<<Last(text.parts)>>), unit |-> text.unit]}

\* _KOREAN_NUMBER: a numeral is read when a unit follows; the syllable for one
\* is also that of a day.
NumeralsIn(text) ==
    IF text.unit # ""
      THEN {[value |-> _korean_value(text.syllables), unit |-> text.unit]}
    ELSE IF Len(text.syllables) > 1 /\ Last(text.syllables) = 1
      THEN {[value |-> _korean_value(Front(text.syllables)), unit |-> "day"]}
    ELSE {}

\* _numbers of a text with one figure.
_numbers(text) == IF text.style = "numeral" THEN NumeralsIn(text) ELSE AmountsIn(text)

\* Fault: only the values are compared.
FoundByValue(claimed, evidence) == \A c \in claimed : \E e \in evidence : c.value = e.value

_found(claimed, evidence) ==
    \A c \in claimed : \E e \in evidence :
        c.value = e.value /\ (c.unit = e.unit \/ c.unit = "" \/ e.unit = "")

(***************************************************************************)
(* How people write a figure below a hundred million                       *)
(***************************************************************************)
\* "이만삼천사백": a one before a unit may be left out.
Syllables(n, ones) ==
    LET Place(d, unit) == IF d = 0 THEN <<>> ELSE IF d = 1 /\ ~ones THEN <<unit>> ELSE <<d, unit>>
        Section(m) == Place((m \div 1000) % 10, 1000) \o Place((m \div 100) % 10, 100)
                        \o Place((m \div 10) % 10, 10)
                        \o (IF m % 10 = 0 THEN <<>> ELSE <<m % 10>>)
        man == n \div 10000
    IN  IF n = 0 THEN <<0>>
        ELSE (IF man = 0 THEN <<>> ELSE IF man = 1 /\ ~ones THEN <<10000>> ELSE Section(man) \o <<10000>>)
             \o Section(n % 10000)

\* "23,400".
Plain(n) == <<[tenths |-> 10 * n, units |-> <<>>]>>

\* "2만3400", "2만 3천400".
Part(k, units) == IF k = 0 THEN <<>> ELSE <<[tenths |-> 10 * k, units |-> units]>>

Mixed(n) == Part(n \div 10000, <<10000>>) \o Part(n % 10000, <<>>)
ByThousands(n) ==
    Part(n \div 10000, <<10000>>) \o Part((n \div 1000) % 10, <<1000>>) \o Part(n % 1000, <<>>)

\* "2.3만", where it is exact.
Decimals(n) == <<[tenths |-> n \div 1000, units |-> <<10000>>]>>

Writings(n) ==
    {[style |-> "numeral", syllables |-> Syllables(n, ones), unit |-> u] : ones \in BOOLEAN, u \in Units} \cup
    {[style |-> "amount", parts |-> p, unit |-> u] :
        p \in ({Plain(n), Mixed(n), ByThousands(n)} \ {<<>>})
                 \cup (IF n % 1000 = 0 THEN {Decimals(n)} ELSE {}), u \in Units}

\* How a figure is read: as one, in two parts, or not at all.
Reading(text) ==
    IF text.style = "numeral" THEN IF text.unit # "" THEN "whole" ELSE "not"
    ELSE IF IsOneAmount(text.parts) THEN "whole" ELSE "in parts"

FigureInit ==
    compared = [done |-> FALSE, claim |-> 0, evidence |-> 0, claim_read |-> "whole",
                text_read |-> "whole", same_unit |-> TRUE, supported |-> TRUE]

FigureNext ==
    /\ ~compared.done
    /\ \E n, m \in FigureValues : \E claim \in Writings(n), text \in Writings(m) :
          compared' = [done |-> TRUE, claim |-> n, evidence |-> m,
                       claim_read |-> Reading(claim), text_read |-> Reading(text),
                       same_unit |-> claim.unit = "" \/ text.unit = "" \/ claim.unit = text.unit,
                       supported |-> _found(_numbers(claim), _numbers(text))]

FigureSpec == FigureInit /\ [][FigureNext]_figureVars

\* tori.records: where the claim's and the text's figure are each read as one,
\* the claim passes exactly when they are the same figure, in whatever writing,
\* and without another unit behind it; a claim read in parts never passes on
\* another figure.
FiguresAreCompared ==
    compared.done =>
        /\ compared.claim_read = "whole" /\ compared.text_read = "whole" =>
              (compared.supported <=> compared.claim = compared.evidence /\ compared.same_unit)
        /\ compared.claim_read = "in parts" /\ compared.supported =>
              compared.claim = compared.evidence

\* "Code checks that the figures of the answer are in the cited text"
\* (tori/records.py): the same of a text whose figure is read in parts.
FigureIsInTheText ==
    compared.done /\ compared.claim_read = "whole" /\ compared.text_read # "not"
    /\ compared.supported => compared.claim = compared.evidence

=============================================================================
