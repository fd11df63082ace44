---------------------------- MODULE AnswerProofs ----------------------------
(***************************************************************************)
(* Answers, judgements and drafts: that what a search, the judge of a      *)
(* meeting, the meeting's answer, Tori's reply, a model call and an action *)
(* draft end with rests on what they were given, and that the screen of a  *)
(* planning turn ends with what the model answered.                        *)
(*                                                                         *)
(* The code is full of loops that build a list, modelled as folds.  UpTo   *)
(* and FoldReaches below carry the proofs about them: a set with 0 and the *)
(* successors of its numbers below n has every number up to n, and a fold  *)
(* stays in a family of sets each step of which leads to the next.         *)
(***************************************************************************)
EXTENDS Tori, MeetingJudge, LlmCall, ActionDraft, ReplyStream, SequenceTheorems,
        FiniteSetTheorems, WellFoundedInduction, TLAPS

\* A set of numbers that has 0 and the successor of each of its numbers below
\* n has every number up to n: induction, over a set.
LEMMA UpTo ==
    ASSUME NEW n \in Nat, NEW T, 0 \in T, \A i \in 0..n : i < n /\ i \in T => i + 1 \in T
    PROVE  \A i \in 0..n : i \in T
<1> DEFINE B == {i \in 0..n : i \notin T}
           R == {ss \in Nat \X Nat : ss[1] < ss[2]}
<1>1. SUFFICES B = {}
  OBVIOUS
<1>2. SUFFICES ASSUME B # {} PROVE FALSE
  OBVIOUS
<1>3. B \subseteq Nat
  OBVIOUS
<1>4. IsWellFoundedOn(R, Nat)
  BY NatLessThanWellFounded DEF OpToRel
<1>5. \A x, y \in Nat : x < y => <<x, y>> \in R
  OBVIOUS
<1> HIDE DEF R
<1>6. PICK x \in B : \A y \in B : ~(<<y, x>> \in R)
  <2> HIDE DEF B
  <2> QED
    BY <1>2, <1>3, <1>4, WFMin
<1>7. x \in 0..n /\ x # 0
  OBVIOUS
<1>8. x - 1 \in 0..n /\ x - 1 < x /\ x - 1 + 1 = x /\ x - 1 < n /\ x \in Nat /\ x - 1 \in Nat
  BY <1>7
<1>9. x - 1 \in T
  BY <1>5, <1>6, <1>8
<1> QED
  BY <1>8, <1>9

\* The greatest number of a set of the first n + 1 numbers that has n + 1.
LEMMA MaxOfUpper ==
    ASSUME NEW n \in Nat, NEW s \in SUBSET (1..n + 1), n + 1 \in s
    PROVE  Max(s) = n + 1 /\ s \ {n + 1} \subseteq 1..n
<1>1. \A x \in s : x \in 1..n + 1
  OBVIOUS
<1>2. \A x, y \in s : (\A z \in s : x >= z) /\ (\A z \in s : y >= z) => x = y
  BY <1>1
<1>3. \A z \in s : n + 1 >= z
  BY <1>1
<1>4. Max(s) \in s /\ \A z \in s : Max(s) >= z
  BY <1>3 DEF Max
<1>5. Max(s) = n + 1
  BY <1>2, <1>3, <1>4
<1> QED
  BY <1>1, <1>5

LEMMA MaxOfAll ==
    ASSUME NEW i \in Nat
    PROVE  Max(1..i + 1) = i + 1 /\ 1..i + 1 \ {i + 1} = 1..i
<1>1. 1..i + 1 \in SUBSET (1..i + 1) /\ i + 1 \in 1..i + 1
  OBVIOUS
<1> QED
  BY <1>1, MaxOfUpper

\* FoldLeft computes a function on the subsets of 1..k, from the lowest number
\* of a set to the highest; `step` is one step of it, on the values S.
FoldOn(k, S, base, step) ==
    \E it \in [SUBSET (1..k) -> S] :
        /\ it[{}] = base
        /\ \A s \in SUBSET (1..k) : s # {} => Max(s) \in s /\ it[s] = step[Max(s), it[s \ {Max(s)}]]

LEMMA FoldExists ==
    ASSUME NEW n \in Nat, NEW S, NEW base \in S, NEW step \in [(1..n) \X S -> S]
    PROVE  FoldOn(n, S, base, step)
<1> DEFINE T == {k \in 0..n : FoldOn(k, S, base, step)}
<1>1. 0 \in T
  <2> DEFINE it == [s \in SUBSET (1..0) |-> base]
  <2>1. \A s \in SUBSET (1..0) : s = {}
    OBVIOUS
  <2>2. it \in [SUBSET (1..0) -> S] /\ it[{}] = base
    OBVIOUS
  <2> HIDE DEF it
  <2>3. FoldOn(0, S, base, step)
    BY <2>1, <2>2 DEF FoldOn
  <2> QED
    BY <2>3
<1>2. ASSUME NEW k \in 0..n, k < n, k \in T PROVE k + 1 \in T
  <2>1. PICK it \in [SUBSET (1..k) -> S] :
           /\ it[{}] = base
           /\ \A s \in SUBSET (1..k) : s # {} => Max(s) \in s /\ it[s] = step[Max(s), it[s \ {Max(s)}]]
    BY <1>2 DEF FoldOn
  <2> DEFINE up == [s \in SUBSET (1..k + 1) |-> IF k + 1 \in s THEN step[k + 1, it[s \ {k + 1}]] ELSE it[s]]
  <2>2. k \in Nat /\ k + 1 \in 1..n /\ k + 1 \in 0..n /\ k + 1 \notin {}
    BY <1>2
  <2>3. \A s \in SUBSET (1..k + 1) : k + 1 \in s => Max(s) = k + 1 /\ s \ {k + 1} \in SUBSET (1..k)
    BY <2>2, MaxOfUpper
  <2>4. \A s \in SUBSET (1..k + 1) : k + 1 \notin s => s \in SUBSET (1..k)
    BY <2>2
  <2>5. \A s \in SUBSET (1..k + 1) : k + 1 \in s => up[s] = step[k + 1, it[s \ {k + 1}]]
    OBVIOUS
  <2>6. \A s \in SUBSET (1..k + 1) : k + 1 \notin s => up[s] = it[s]
    OBVIOUS
  <2>7. up \in [SUBSET (1..k + 1) -> S]
    <3> SUFFICES ASSUME NEW s \in SUBSET (1..k + 1) PROVE up[s] \in S
      OBVIOUS
    <3>1. CASE k + 1 \in s
      <4>1. it[s \ {k + 1}] \in S
        BY <2>3, <3>1
      <4>2. <<k + 1, it[s \ {k + 1}]>> \in (1..n) \X S
        BY <2>2, <4>1
      <4> QED
        BY <2>5, <3>1, <4>2
    <3>2. CASE k + 1 \notin s
      BY <2>4, <2>6, <3>2
    <3> QED
      BY <3>1, <3>2
  <2>8. up[{}] = base
    BY <2>1, <2>2, <2>6
  <2> HIDE DEF up
  <2>9. ASSUME NEW s \in SUBSET (1..k + 1), s # {}
        PROVE  Max(s) \in s /\ up[s] = step[Max(s), up[s \ {Max(s)}]]
    <3>1. CASE k + 1 \in s
      <4>1. Max(s) = k + 1 /\ s \ {k + 1} \in SUBSET (1..k) /\ k + 1 \notin s \ {k + 1}
        BY <2>3, <3>1
      <4>2. s \ {k + 1} \in SUBSET (1..k + 1)
        OBVIOUS
      <4>3. up[s \ {k + 1}] = it[s \ {k + 1}]
        BY <2>6, <4>1, <4>2
      <4> QED
        BY <2>5, <3>1, <4>1, <4>3
    <3>2. CASE k + 1 \notin s
      <4>1. s \in SUBSET (1..k) /\ Max(s) \in s /\ it[s] = step[Max(s), it[s \ {Max(s)}]]
        BY <2>1, <2>4, <2>9, <3>2
      <4>2. s \ {Max(s)} \in SUBSET (1..k + 1) /\ k + 1 \notin s \ {Max(s)}
        BY <3>2
      <4> QED
        BY <2>6, <3>2, <4>1, <4>2
    <3> QED
      BY <3>1, <3>2
  <2>10. FoldOn(k + 1, S, base, step)
    BY <2>7, <2>8, <2>9 DEF FoldOn
  <2> QED
    BY <2>2, <2>10
<1> HIDE DEF T
<1>3. \A i \in 0..n : i \in T
  BY <1>1, <1>2, UpTo
<1>4. n \in T
  BY <1>3
<1> QED
  BY <1>4 DEF T

\* What FoldLeft returns, step by step: g[i] is the value after i elements.
FoldRun(g, n, S, base, step) ==
    /\ g \in [0..n -> S] /\ g[0] = base
    /\ \A i \in 0..n : i < n => g[i + 1] = step[i + 1, g[i]]

\* A function on the subsets of 1..n that a fold computes.
Folds(c, n, S, base, step) ==
    /\ c[{}] = base
    /\ \A s \in SUBSET (1..n) :
          s # {} /\ c[s \ {Max(s)}] \in S => c[s] = step[Max(s), c[s \ {Max(s)}]]

RunsTo(c, n, S, base, step) == \E g : FoldRun(g, n, S, base, step) /\ c[1..n] = g[n]

LEMMA FoldRuns ==
    ASSUME NEW n \in Nat, NEW S, NEW base \in S, NEW step \in [(1..n) \X S -> S], NEW c,
           Folds(c, n, S, base, step)
    PROVE  RunsTo(c, n, S, base, step)
<1> DEFINE g == [i \in 0..n |-> c[1..i]]
<1>1. g[0] = base
  <2>1. 1..0 = {} /\ 0 \in 0..n
    OBVIOUS
  <2> QED
    BY <2>1 DEF Folds
<1>2. ASSUME NEW i \in 0..n, i < n, g[i] \in S PROVE g[i + 1] = step[i + 1, g[i]]
  <2>1. i \in Nat /\ i + 1 \in 0..n /\ i + 1 \in 1..i + 1
    BY <1>2
  <2>2. 1..i + 1 \in SUBSET (1..n) /\ 1..i + 1 # {}
    BY <1>2, <2>1
  <2>3. Max(1..i + 1) = i + 1 /\ 1..i + 1 \ {i + 1} = 1..i
    BY <2>1, MaxOfAll
  <2> QED
    BY <1>2, <2>1, <2>2, <2>3 DEF Folds
<1>3. g[n] = c[1..n]
  OBVIOUS
<1>4. g = [i \in 0..n |-> g[i]]
  OBVIOUS
<1> HIDE DEF g
<1>5. \A i \in 0..n : g[i] \in S
  <2> DEFINE T == {i \in 0..n : g[i] \in S}
  <2>1. 0 \in T
    BY <1>1
  <2>2. ASSUME NEW i \in 0..n, i < n, i \in T PROVE i + 1 \in T
    <3>1. i + 1 \in 1..n /\ i + 1 \in 0..n
      BY <2>2
    <3>2. g[i] \in S /\ g[i + 1] = step[i + 1, g[i]]
      BY <1>2, <2>2
    <3>3. <<i + 1, g[i]>> \in (1..n) \X S
      BY <3>1, <3>2
    <3> QED
      BY <3>1, <3>2, <3>3
  <2> HIDE DEF T
  <2>3. \A i \in 0..n : i \in T
    BY <2>1, <2>2, UpTo
  <2> QED
    BY <2>3 DEF T
<1>6. FoldRun(g, n, S, base, step)
  BY <1>1, <1>2, <1>4, <1>5 DEF FoldRun
<1> QED
  BY <1>3, <1>6 DEF RunsTo

\* Induction along a fold: I[i] is a set that has the value after i elements.
Leads(I, n, S, base, step) ==
    /\ base \in I[0]
    /\ \A i \in 0..n : i < n => \A x \in I[i] \cap S : step[i + 1, x] \in I[i + 1]

LEMMA FoldReaches ==
    ASSUME NEW n \in Nat, NEW S, NEW base \in S, NEW step \in [(1..n) \X S -> S], NEW c,
           Folds(c, n, S, base, step),
           NEW I, Leads(I, n, S, base, step)
    PROVE  c[1..n] \in I[n] \cap S
<1>1. PICK g : FoldRun(g, n, S, base, step) /\ c[1..n] = g[n]
  <2>1. RunsTo(c, n, S, base, step)
    BY FoldRuns
  <2> QED
    BY <2>1 DEF RunsTo
<1>2. /\ \A i \in 0..n : g[i] \in S
      /\ g[0] = base
      /\ \A i \in 0..n : i < n => g[i + 1] = step[i + 1, g[i]]
  BY <1>1 DEF FoldRun
<1> DEFINE T == {i \in 0..n : g[i] \in I[i]}
<1>3. 0 \in T
  <2>1. 0 \in 0..n
    OBVIOUS
  <2>2. g[0] \in I[0]
    BY <1>2 DEF Leads
  <2> QED
    BY <2>1, <2>2
<1>4. ASSUME NEW i \in 0..n, i < n, i \in T PROVE i + 1 \in T
  <2>1. i + 1 \in 0..n
    BY <1>4
  <2>2. g[i] \in I[i] \cap S
    BY <1>2, <1>4
  <2>3. step[i + 1, g[i]] \in I[i + 1]
    BY <1>4, <2>2 DEF Leads
  <2> QED
    BY <1>2, <1>4, <2>1, <2>3
<1> HIDE DEF T
<1>5. \A i \in 0..n : i \in T
  BY <1>3, <1>4, UpTo
<1>6. n \in T
  BY <1>5
<1> QED
  BY <1>1, <1>2, <1>6 DEF T

----------------------------------------------------------------------------
(* Sequences without repetition *)

LEMMA SetOfAppend ==
    ASSUME NEW A, NEW s \in Seq(A), NEW x
    PROVE  ToSet(Append(s, x)) = ToSet(s) \cup {x}
<1>1. Len(s) \in Nat /\ DOMAIN s = 1..Len(s) /\ DOMAIN Append(s, x) = 1..Len(s) + 1
  OBVIOUS
<1>2. \A i \in 1..Len(s) : Append(s, x)[i] = s[i]
  OBVIOUS
<1>3. Append(s, x)[Len(s) + 1] = x /\ 1..Len(s) + 1 = 1..Len(s) \cup {Len(s) + 1}
  OBVIOUS
<1> QED
  BY <1>1, <1>2, <1>3, Zenon DEF ToSet

LEMMA AppendUnrepeated ==
    ASSUME NEW A, NEW s \in Seq(A), NEW x \in A, IsInjective(s), x \notin ToSet(s)
    PROVE  IsInjective(Append(s, x))
<1>1. Len(s) \in Nat /\ DOMAIN s = 1..Len(s) /\ DOMAIN Append(s, x) = 1..Len(s) + 1
  OBVIOUS
<1>2. /\ \A i \in 1..Len(s) : Append(s, x)[i] = s[i]
      /\ Append(s, x)[Len(s) + 1] = x
      /\ 1..Len(s) + 1 = 1..Len(s) \cup {Len(s) + 1}
  OBVIOUS
<1>3. \A i \in 1..Len(s) : s[i] # x
  BY <1>1 DEF ToSet
<1>4. \A i, j \in 1..Len(s) : s[i] = s[j] => i = j
  BY <1>1 DEF IsInjective
<1>5. \A i, j \in 1..Len(s) + 1 : Append(s, x)[i] = Append(s, x)[j] => i = j
  <2> SUFFICES ASSUME NEW i \in 1..Len(s) + 1, NEW j \in 1..Len(s) + 1, Append(s, x)[i] = Append(s, x)[j]
               PROVE  i = j
    OBVIOUS
  <2>1. CASE i \in 1..Len(s) /\ j \in 1..Len(s)
    BY <1>2, <1>4, <2>1
  <2>2. CASE i \in 1..Len(s) /\ j = Len(s) + 1
    BY <1>2, <1>3, <2>2
  <2>3. CASE i = Len(s) + 1 /\ j \in 1..Len(s)
    BY <1>2, <1>3, <2>3
  <2> QED
    BY <1>2, <2>1, <2>2, <2>3
<1> QED
  BY <1>1, <1>5 DEF IsInjective

LEMMA EmptyUnrepeated == IsInjective(<<>>) /\ ToSet(<<>>) = {}
BY DEF IsInjective, ToSet

LEMMA SetOfConcat ==
    ASSUME NEW A, NEW s \in Seq(A), NEW t \in Seq(A)
    PROVE  ToSet(s \o t) = ToSet(s) \cup ToSet(t)
<1>1. /\ Len(s) \in Nat /\ DOMAIN s = 1..Len(s) /\ Len(t) \in Nat /\ DOMAIN t = 1..Len(t)
      /\ DOMAIN (s \o t) = 1..Len(s) + Len(t)
  OBVIOUS
<1>2. \A i \in 1..Len(s) + Len(t) : (s \o t)[i] = IF i <= Len(s) THEN s[i] ELSE t[i - Len(s)]
  OBVIOUS
<1>3. \A i \in 1..Len(s) + Len(t) : i > Len(s) => i - Len(s) \in 1..Len(t)
  BY <1>1
<1>4. \A i \in 1..Len(s) : (s \o t)[i] = s[i] /\ i \in 1..Len(s) + Len(t)
  BY <1>1, <1>2
<1>5. \A j \in 1..Len(t) : (s \o t)[j + Len(s)] = t[j] /\ j + Len(s) \in 1..Len(s) + Len(t)
  BY <1>1, <1>2
<1>6. \A i \in 1..Len(s) + Len(t) :
         (s \o t)[i] \in {s[k] : k \in 1..Len(s)} \cup {t[k] : k \in 1..Len(t)}
  BY <1>1, <1>2, <1>3
<1>7. ToSet(s \o t) = {(s \o t)[i] : i \in 1..Len(s) + Len(t)} /\ ToSet(s) = {s[k] : k \in 1..Len(s)}
      /\ ToSet(t) = {t[k] : k \in 1..Len(t)}
  BY <1>1 DEF ToSet
<1>8. ToSet(s) \subseteq ToSet(s \o t)
  BY <1>4, <1>7
<1>9. ToSet(t) \subseteq ToSet(s \o t)
  BY <1>5, <1>7
<1>10. ToSet(s \o t) \subseteq ToSet(s) \cup ToSet(t)
  BY <1>6, <1>7
<1> QED
  BY <1>8, <1>9, <1>10

LEMMA ConcatUnrepeated ==
    ASSUME NEW A, NEW s \in Seq(A), NEW t \in Seq(A), IsInjective(s), IsInjective(t),
           ToSet(s) \cap ToSet(t) = {}
    PROVE  IsInjective(s \o t)
<1>1. /\ Len(s) \in Nat /\ DOMAIN s = 1..Len(s) /\ Len(t) \in Nat /\ DOMAIN t = 1..Len(t)
      /\ DOMAIN (s \o t) = 1..Len(s) + Len(t)
  OBVIOUS
<1>2. \A i \in 1..Len(s) + Len(t) : (s \o t)[i] = IF i <= Len(s) THEN s[i] ELSE t[i - Len(s)]
  OBVIOUS
<1>3. \A i \in 1..Len(s), j \in 1..Len(t) : s[i] # t[j]
  BY <1>1 DEF ToSet
<1>4. \A i, j \in 1..Len(s) : s[i] = s[j] => i = j
  BY <1>1 DEF IsInjective
<1>5. \A i, j \in 1..Len(t) : t[i] = t[j] => i = j
  BY <1>1 DEF IsInjective
<1>6. SUFFICES ASSUME NEW i \in 1..Len(s) + Len(t), NEW j \in 1..Len(s) + Len(t), (s \o t)[i] = (s \o t)[j]
               PROVE  i = j
  BY <1>1 DEF IsInjective
<1>7. CASE i <= Len(s) /\ j <= Len(s)
  BY <1>1, <1>2, <1>4, <1>6, <1>7
<1>8. CASE i <= Len(s) /\ ~(j <= Len(s))
  BY <1>1, <1>2, <1>3, <1>6, <1>8
<1>9. CASE ~(i <= Len(s)) /\ j <= Len(s)
  BY <1>1, <1>2, <1>3, <1>6, <1>9
<1>10. CASE ~(i <= Len(s)) /\ ~(j <= Len(s))
  <2>1. i - Len(s) \in 1..Len(t) /\ j - Len(s) \in 1..Len(t) /\ t[i - Len(s)] = t[j - Len(s)]
    BY <1>1, <1>2, <1>6, <1>10
  <2>2. i - Len(s) = j - Len(s)
    BY <1>5, <2>1
  <2> QED
    BY <1>1, <2>2
<1> QED
  BY <1>7, <1>8, <1>9, <1>10

LEMMA PrefixUnrepeated ==
    ASSUME NEW A, NEW s \in Seq(A), NEW n \in 0..Len(s), IsInjective(s)
    PROVE  /\ SubSeq(s, 1, n) \in Seq(A) /\ Len(SubSeq(s, 1, n)) = n
           /\ IsInjective(SubSeq(s, 1, n)) /\ ToSet(SubSeq(s, 1, n)) \subseteq ToSet(s)
<1>1. Len(s) \in Nat /\ DOMAIN s = 1..Len(s)
  OBVIOUS
<1>2. SubSeq(s, 1, n) \in Seq(A) /\ Len(SubSeq(s, 1, n)) = n /\ DOMAIN SubSeq(s, 1, n) = 1..n
  OBVIOUS
<1>3. \A i \in 1..n : SubSeq(s, 1, n)[i] = s[i] /\ i \in 1..Len(s)
  OBVIOUS
<1> QED
  BY <1>1, <1>2, <1>3 DEF IsInjective, ToSet

----------------------------------------------------------------------------
(* Queries and chunks: what the loops of search_records build *)

\* _clean_queries with one more query; append_new with one more chunk.
Fresh(seen, q, searched) ==
    IF q = "" \/ q \in ToSet(searched) \/ q \in ToSet(seen) THEN seen ELSE Append(seen, q)

Cleaned(queries, searched) == FoldLeft(LAMBDA seen, q : Fresh(seen, q, searched), <<>>, queries)

WithChunk(known, c) == IF c \in ToSet(known) THEN known ELSE Append(known, c)

LEMMA CleanedReaches ==
    ASSUME NEW A, NEW searched, NEW queries \in Seq(A),
           NEW I, <<>> \in I[0],
           \A i \in 0..Len(queries) : i < Len(queries) =>
               \A x \in I[i] \cap Seq(A) : Fresh(x, queries[i + 1], searched) \in I[i + 1]
    PROVE  Cleaned(queries, searched) \in I[Len(queries)] \cap Seq(A)
<1> DEFINE n == Len(queries)
           step == [p \in (1..n) \X Seq(A) |-> Fresh(p[2], queries[p[1]], searched)]
           is(it) == it = [s \in SUBSET (DOMAIN queries) |->
                        IF s = {} THEN <<>> ELSE Fresh(it[s \ {Max(s)}], queries[Max(s)], searched)]
           c == CHOOSE it : is(it)
<1>1. n \in Nat /\ DOMAIN queries = 1..n
  OBVIOUS
<1>2. Cleaned(queries, searched) = c[DOMAIN queries]
  BY Zenon DEF Cleaned, FoldLeft, MapThenFoldSet
<1>3. \A i \in 1..n, x \in Seq(A) : Fresh(x, queries[i], searched) \in Seq(A)
  <2>1. ASSUME NEW i \in 1..n, NEW x \in Seq(A) PROVE Fresh(x, queries[i], searched) \in Seq(A)
    <3>1. queries[i] \in A
      BY <1>1
    <3>2. Append(x, queries[i]) \in Seq(A)
      BY <3>1
    <3> QED
      BY <3>2, Zenon DEF Fresh
  <2> QED
    BY <2>1
<1>4. step \in [(1..n) \X Seq(A) -> Seq(A)]
  BY <1>3
<1>5. \A i \in 1..n, x \in Seq(A) : step[i, x] = Fresh(x, queries[i], searched)
  OBVIOUS
<1> HIDE DEF n, step
<1>17. <<>> \in Seq(A)
  OBVIOUS
<1>6. FoldOn(n, Seq(A), <<>>, step)
  BY <1>1, <1>4, <1>17, FoldExists
<1>7. PICK it \in [SUBSET (1..n) -> Seq(A)] :
         /\ it[{}] = <<>>
         /\ \A s \in SUBSET (1..n) : s # {} => Max(s) \in s /\ it[s] = step[Max(s), it[s \ {Max(s)}]]
  BY <1>6 DEF FoldOn
<1>8. ASSUME NEW s \in SUBSET (1..n), s # {}
      PROVE  it[s] = Fresh(it[s \ {Max(s)}], queries[Max(s)], searched)
  <2>1. Max(s) \in 1..n /\ it[s \ {Max(s)}] \in Seq(A)
    BY <1>7, <1>8
  <2> QED
    BY <1>5, <1>7, <1>8, <2>1
<1>9. is(it)
  <2>1. it = [s \in SUBSET (1..n) |-> it[s]]
    OBVIOUS
  <2>2. \A s \in SUBSET (1..n) :
           it[s] = IF s = {} THEN <<>> ELSE Fresh(it[s \ {Max(s)}], queries[Max(s)], searched)
    BY <1>7, <1>8
  <2> QED
    BY <1>1, <2>1, <2>2
<1>10. is(c)
  <2> HIDE DEF is
  <2> QED
    BY <1>9
<1> HIDE DEF c
<1>11. c = [s \in SUBSET (1..n) |->
              IF s = {} THEN <<>> ELSE Fresh(c[s \ {Max(s)}], queries[Max(s)], searched)]
  BY <1>1, <1>10
<1> HIDE DEF is
<1>12. /\ c[{}] = <<>>
       /\ \A s \in SUBSET (1..n) : s # {} => c[s] = Fresh(c[s \ {Max(s)}], queries[Max(s)], searched)
  BY <1>11
<1>13. Folds(c, n, Seq(A), <<>>, step)
  <2> SUFFICES ASSUME NEW s \in SUBSET (1..n), s # {}, c[s \ {Max(s)}] \in Seq(A)
               PROVE  c[s] = step[Max(s), c[s \ {Max(s)}]]
    BY <1>12 DEF Folds
  <2>1. Max(s) \in 1..n
    BY <1>7
  <2> QED
    BY <1>5, <1>12, <2>1
<1>14. ASSUME NEW i \in 0..n, i < n, NEW x \in I[i] \cap Seq(A)
       PROVE  step[i + 1, x] \in I[i + 1]
  <2>1. i + 1 \in 1..n
    BY <1>1, <1>14
  <2>2. Fresh(x, queries[i + 1], searched) \in I[i + 1]
    BY <1>14 DEF n
  <2> QED
    BY <1>5, <1>14, <2>1, <2>2
<1>15. Leads(I, n, Seq(A), <<>>, step)
  BY <1>14 DEF Leads
<1>16. c[1..n] \in I[n] \cap Seq(A)
  BY <1>1, <1>17, <1>4, <1>13, <1>15, FoldReaches
<1> QED
  BY <1>1, <1>2, <1>16 DEF n

LEMMA AppendNewReaches ==
    ASSUME NEW A, NEW chunks \in Seq(A), NEW found \in Seq(A),
           NEW I, chunks \in I[0],
           \A i \in 0..Len(found) : i < Len(found) =>
               \A x \in I[i] \cap Seq(A) : WithChunk(x, found[i + 1]) \in I[i + 1]
    PROVE  append_new(chunks, found) \in I[Len(found)] \cap Seq(A)
<1> DEFINE n == Len(found)
           step == [p \in (1..n) \X Seq(A) |-> WithChunk(p[2], found[p[1]])]
           is(it) == it = [s \in SUBSET (DOMAIN found) |->
                        IF s = {} THEN chunks ELSE WithChunk(it[s \ {Max(s)}], found[Max(s)])]
           c == CHOOSE it : is(it)
<1>1. n \in Nat /\ DOMAIN found = 1..n
  OBVIOUS
<1>2. append_new(chunks, found) = c[DOMAIN found]
  BY Zenon DEF append_new, FoldLeft, MapThenFoldSet, WithChunk
<1>3. \A i \in 1..n, x \in Seq(A) : WithChunk(x, found[i]) \in Seq(A)
  BY DEF WithChunk
<1>4. step \in [(1..n) \X Seq(A) -> Seq(A)]
  BY <1>3
<1>5. \A i \in 1..n, x \in Seq(A) : step[i, x] = WithChunk(x, found[i])
  OBVIOUS
<1> HIDE DEF n, step
<1>17. chunks \in Seq(A)
  OBVIOUS
<1>6. FoldOn(n, Seq(A), chunks, step)
  BY <1>1, <1>4, <1>17, FoldExists
<1>7. PICK it \in [SUBSET (1..n) -> Seq(A)] :
         /\ it[{}] = chunks
         /\ \A s \in SUBSET (1..n) : s # {} => Max(s) \in s /\ it[s] = step[Max(s), it[s \ {Max(s)}]]
  BY <1>6 DEF FoldOn
<1>8. ASSUME NEW s \in SUBSET (1..n), s # {}
      PROVE  it[s] = WithChunk(it[s \ {Max(s)}], found[Max(s)])
  <2>1. Max(s) \in 1..n /\ it[s \ {Max(s)}] \in Seq(A)
    BY <1>7, <1>8
  <2> QED
    BY <1>5, <1>7, <1>8, <2>1
<1>9. is(it)
  <2>1. it = [s \in SUBSET (1..n) |-> it[s]]
    OBVIOUS
  <2>2. \A s \in SUBSET (1..n) :
           it[s] = IF s = {} THEN chunks ELSE WithChunk(it[s \ {Max(s)}], found[Max(s)])
    BY <1>7, <1>8
  <2> QED
    BY <1>1, <2>1, <2>2
<1>10. is(c)
  <2> HIDE DEF is
  <2> QED
    BY <1>9
<1> HIDE DEF c
<1>11. c = [s \in SUBSET (1..n) |->
              IF s = {} THEN chunks ELSE WithChunk(c[s \ {Max(s)}], found[Max(s)])]
  BY <1>1, <1>10
<1> HIDE DEF is
<1>12. /\ c[{}] = chunks
       /\ \A s \in SUBSET (1..n) : s # {} => c[s] = WithChunk(c[s \ {Max(s)}], found[Max(s)])
  BY <1>11
<1>13. Folds(c, n, Seq(A), chunks, step)
  <2> SUFFICES ASSUME NEW s \in SUBSET (1..n), s # {}, c[s \ {Max(s)}] \in Seq(A)
               PROVE  c[s] = step[Max(s), c[s \ {Max(s)}]]
    BY <1>12 DEF Folds
  <2>1. Max(s) \in 1..n
    BY <1>7
  <2> QED
    BY <1>5, <1>12, <2>1
<1>14. ASSUME NEW i \in 0..n, i < n, NEW x \in I[i] \cap Seq(A)
       PROVE  step[i + 1, x] \in I[i + 1]
  <2>1. i + 1 \in 1..n
    BY <1>1, <1>14
  <2>2. WithChunk(x, found[i + 1]) \in I[i + 1]
    BY <1>14 DEF n
  <2> QED
    BY <1>5, <1>14, <2>1, <2>2
<1>15. Leads(I, n, Seq(A), chunks, step)
  BY <1>14 DEF Leads
<1>16. c[1..n] \in I[n] \cap Seq(A)
  BY <1>1, <1>17, <1>4, <1>13, <1>15, FoldReaches
<1> QED
  BY <1>1, <1>2, <1>16 DEF n

LEMMA AppendNewTyped ==
    ASSUME NEW A PROVE \A s, f \in Seq(A) : append_new(s, f) \in Seq(A)
<1> SUFFICES ASSUME NEW s \in Seq(A), NEW f \in Seq(A) PROVE append_new(s, f) \in Seq(A)
  OBVIOUS
<1> DEFINE I == [i \in 0..Len(f) |-> Seq(A)]
<1>1. \A i \in 0..Len(f) : I[i] = Seq(A)
  OBVIOUS
<1>2. Len(f) \in Nat /\ \A i \in 0..Len(f) : i < Len(f) => i + 1 \in 0..Len(f) /\ f[i + 1] \in A
  OBVIOUS
<1>3. \A x \in Seq(A), y \in A : WithChunk(x, y) \in Seq(A)
  BY DEF WithChunk
<1> HIDE DEF I
<1>4. \A i \in 0..Len(f) : i < Len(f) => \A x \in I[i] \cap Seq(A) : WithChunk(x, f[i + 1]) \in I[i + 1]
  BY <1>1, <1>2, <1>3
<1>5. s \in I[0]
  BY <1>1, <1>2
<1> QED
  BY <1>4, <1>5, AppendNewReaches

LEMMA RoundReaches ==
    ASSUME NEW A, NEW chunks \in Seq(A), NEW hits \in Seq(Seq(A)),
           NEW I, chunks \in I[0],
           \A i \in 0..Len(hits) : i < Len(hits) =>
               \A x \in I[i] \cap Seq(A) : append_new(x, hits[i + 1]) \in I[i + 1]
    PROVE  FoldLeft(append_new, chunks, hits) \in I[Len(hits)] \cap Seq(A)
<1> DEFINE n == Len(hits)
           step == [p \in (1..n) \X Seq(A) |-> append_new(p[2], hits[p[1]])]
           is(it) == it = [s \in SUBSET (DOMAIN hits) |->
                        IF s = {} THEN chunks ELSE append_new(it[s \ {Max(s)}], hits[Max(s)])]
           c == CHOOSE it : is(it)
<1>1. n \in Nat /\ DOMAIN hits = 1..n
  OBVIOUS
<1>2. FoldLeft(append_new, chunks, hits) = c[DOMAIN hits]
  BY Zenon DEF FoldLeft, MapThenFoldSet
<1>3. \A i \in 1..n, x \in Seq(A) : append_new(x, hits[i]) \in Seq(A)
  BY AppendNewTyped
<1>4. step \in [(1..n) \X Seq(A) -> Seq(A)]
  BY <1>3
<1>5. \A i \in 1..n, x \in Seq(A) : step[i, x] = append_new(x, hits[i])
  OBVIOUS
<1> HIDE DEF n, step
<1>17. chunks \in Seq(A)
  OBVIOUS
<1>6. FoldOn(n, Seq(A), chunks, step)
  BY <1>1, <1>4, <1>17, FoldExists
<1>7. PICK it \in [SUBSET (1..n) -> Seq(A)] :
         /\ it[{}] = chunks
         /\ \A s \in SUBSET (1..n) : s # {} => Max(s) \in s /\ it[s] = step[Max(s), it[s \ {Max(s)}]]
  BY <1>6 DEF FoldOn
<1>8. ASSUME NEW s \in SUBSET (1..n), s # {}
      PROVE  it[s] = append_new(it[s \ {Max(s)}], hits[Max(s)])
  <2>1. Max(s) \in 1..n /\ it[s \ {Max(s)}] \in Seq(A)
    BY <1>7, <1>8
  <2> QED
    BY <1>5, <1>7, <1>8, <2>1
<1>9. is(it)
  <2>1. it = [s \in SUBSET (1..n) |-> it[s]]
    OBVIOUS
  <2>2. \A s \in SUBSET (1..n) :
           it[s] = IF s = {} THEN chunks ELSE append_new(it[s \ {Max(s)}], hits[Max(s)])
    BY <1>7, <1>8
  <2> QED
    BY <1>1, <2>1, <2>2
<1>10. is(c)
  <2> HIDE DEF is
  <2> QED
    BY <1>9
<1> HIDE DEF c
<1>11. c = [s \in SUBSET (1..n) |->
              IF s = {} THEN chunks ELSE append_new(c[s \ {Max(s)}], hits[Max(s)])]
  BY <1>1, <1>10
<1> HIDE DEF is
<1>12. /\ c[{}] = chunks
       /\ \A s \in SUBSET (1..n) : s # {} => c[s] = append_new(c[s \ {Max(s)}], hits[Max(s)])
  BY <1>11
<1>13. Folds(c, n, Seq(A), chunks, step)
  <2> SUFFICES ASSUME NEW s \in SUBSET (1..n), s # {}, c[s \ {Max(s)}] \in Seq(A)
               PROVE  c[s] = step[Max(s), c[s \ {Max(s)}]]
    BY <1>12 DEF Folds
  <2>1. Max(s) \in 1..n
    BY <1>7
  <2> QED
    BY <1>5, <1>12, <2>1
<1>14. ASSUME NEW i \in 0..n, i < n, NEW x \in I[i] \cap Seq(A)
       PROVE  step[i + 1, x] \in I[i + 1]
  <2>1. i + 1 \in 1..n
    BY <1>1, <1>14
  <2>2. append_new(x, hits[i + 1]) \in I[i + 1]
    BY <1>14 DEF n
  <2> QED
    BY <1>5, <1>14, <2>1, <2>2
<1>15. Leads(I, n, Seq(A), chunks, step)
  BY <1>14 DEF Leads
<1>16. c[1..n] \in I[n] \cap Seq(A)
  BY <1>1, <1>17, <1>4, <1>13, <1>15, FoldReaches
<1> QED
  BY <1>1, <1>2, <1>16 DEF n

\* A state of one search_records call, and one of its fields replaced.
SearchOf(v0, v1, v2, v3, v4, v5, v6) ==
    [phase |-> v0, queries |-> v1, searched |-> v2, chunks |-> v3, rounds |-> v4, assessment |-> v5, result |-> v6]

IsSearch(s) == s = SearchOf(s.phase, s.queries, s.searched, s.chunks, s.rounds, s.assessment, s.result)

SearchPhase(s, x) == [s EXCEPT !.phase = x]
SearchQueries(s, x) == [s EXCEPT !.queries = x]
SearchSearched(s, x) == [s EXCEPT !.searched = x]
SearchChunks(s, x) == [s EXCEPT !.chunks = x]
SearchRounds(s, x) == [s EXCEPT !.rounds = x]
SearchAssessment(s, x) == [s EXCEPT !.assessment = x]
SearchResult(s, x) == [s EXCEPT !.result = x]

LEMMA SearchFields ==
    ASSUME NEW v0, NEW v1, NEW v2, NEW v3, NEW v4, NEW v5, NEW v6
    PROVE  /\ SearchOf(v0, v1, v2, v3, v4, v5, v6).phase = v0
           /\ SearchOf(v0, v1, v2, v3, v4, v5, v6).queries = v1
           /\ SearchOf(v0, v1, v2, v3, v4, v5, v6).searched = v2
           /\ SearchOf(v0, v1, v2, v3, v4, v5, v6).chunks = v3
           /\ SearchOf(v0, v1, v2, v3, v4, v5, v6).rounds = v4
           /\ SearchOf(v0, v1, v2, v3, v4, v5, v6).assessment = v5
           /\ SearchOf(v0, v1, v2, v3, v4, v5, v6).result = v6
BY DEF SearchOf

LEMMA SearchPuts ==
    ASSUME NEW v0, NEW v1, NEW v2, NEW v3, NEW v4, NEW v5, NEW v6, NEW x
    PROVE  /\ SearchPhase(SearchOf(v0, v1, v2, v3, v4, v5, v6), x) = SearchOf(x, v1, v2, v3, v4, v5, v6)
           /\ SearchQueries(SearchOf(v0, v1, v2, v3, v4, v5, v6), x) = SearchOf(v0, x, v2, v3, v4, v5, v6)
           /\ SearchSearched(SearchOf(v0, v1, v2, v3, v4, v5, v6), x) = SearchOf(v0, v1, x, v3, v4, v5, v6)
           /\ SearchChunks(SearchOf(v0, v1, v2, v3, v4, v5, v6), x) = SearchOf(v0, v1, v2, x, v4, v5, v6)
           /\ SearchRounds(SearchOf(v0, v1, v2, v3, v4, v5, v6), x) = SearchOf(v0, v1, v2, v3, x, v5, v6)
           /\ SearchAssessment(SearchOf(v0, v1, v2, v3, v4, v5, v6), x) = SearchOf(v0, v1, v2, v3, v4, x, v6)
           /\ SearchResult(SearchOf(v0, v1, v2, v3, v4, v5, v6), x) = SearchOf(v0, v1, v2, v3, v4, v5, x)
<1>1. SearchPhase(SearchOf(v0, v1, v2, v3, v4, v5, v6), x) = SearchOf(x, v1, v2, v3, v4, v5, v6)
  BY DEF SearchOf, SearchPhase
<1>2. SearchQueries(SearchOf(v0, v1, v2, v3, v4, v5, v6), x) = SearchOf(v0, x, v2, v3, v4, v5, v6)
  BY DEF SearchOf, SearchQueries
<1>3. SearchSearched(SearchOf(v0, v1, v2, v3, v4, v5, v6), x) = SearchOf(v0, v1, x, v3, v4, v5, v6)
  BY DEF SearchOf, SearchSearched
<1>4. SearchChunks(SearchOf(v0, v1, v2, v3, v4, v5, v6), x) = SearchOf(v0, v1, v2, x, v4, v5, v6)
  BY DEF SearchOf, SearchChunks
<1>5. SearchRounds(SearchOf(v0, v1, v2, v3, v4, v5, v6), x) = SearchOf(v0, v1, v2, v3, x, v5, v6)
  BY DEF SearchOf, SearchRounds
<1>6. SearchAssessment(SearchOf(v0, v1, v2, v3, v4, v5, v6), x) = SearchOf(v0, v1, v2, v3, v4, x, v6)
  BY DEF SearchOf, SearchAssessment
<1>7. SearchResult(SearchOf(v0, v1, v2, v3, v4, v5, v6), x) = SearchOf(v0, v1, v2, v3, v4, v5, x)
  BY DEF SearchOf, SearchResult
<1> QED
  BY <1>1, <1>2, <1>3, <1>4, <1>5, <1>6, <1>7

----------------------------------------------------------------------------
(* What the loops of search_records build *)

\* Queries that may be searched after `others`.
CleanFor(others) ==
    {s \in Seq(QueryTexts) : IsInjective(s) /\ "" \notin ToSet(s) /\ ToSet(s) \cap ToSet(others) = {}}

upto_queries(s) == SubSeq(s, 1, IF Len(s) < MAX_QUERIES THEN Len(s) ELSE MAX_QUERIES)

LEMMA CleanIs ==
    ASSUME NEW queries, NEW searched
    PROVE  _clean_queries(queries, searched) = upto_queries(Cleaned(queries, searched))
BY Zenon DEF _clean_queries, Cleaned, Fresh, FoldLeft, MapThenFoldSet, upto_queries

LEMMA CleanQueries ==
    ASSUME NEW queries \in Seq(QueryTexts), NEW searched
    PROVE  _clean_queries(queries, searched) \in CleanFor(searched)
           /\ Len(_clean_queries(queries, searched)) <= MAX_QUERIES
<1> DEFINE I == [i \in 0..Len(queries) |-> CleanFor(searched)]
<1>1. \A i \in 0..Len(queries) : I[i] = CleanFor(searched)
  OBVIOUS
<1>2. Len(queries) \in Nat /\ \A i \in 0..Len(queries) : i < Len(queries) => i + 1 \in 0..Len(queries)
                                                                           /\ queries[i + 1] \in QueryTexts
  OBVIOUS
<1>3. ASSUME NEW s \in CleanFor(searched), NEW q \in QueryTexts
      PROVE  Fresh(s, q, searched) \in CleanFor(searched)
  <2>1. CASE q = "" \/ q \in ToSet(searched) \/ q \in ToSet(s)
    BY <2>1, Zenon DEF Fresh
  <2>2. CASE ~(q = "" \/ q \in ToSet(searched) \/ q \in ToSet(s))
    <3>1. Fresh(s, q, searched) = Append(s, q)
      BY <2>2, Zenon DEF Fresh
    <3>2. s \in Seq(QueryTexts) /\ IsInjective(s) /\ "" \notin ToSet(s) /\ ToSet(s) \cap ToSet(searched) = {}
      BY DEF CleanFor
    <3>7. s \in Seq(QueryTexts)
      BY <3>2, Zenon
    <3>3. Append(s, q) \in Seq(QueryTexts)
      BY <3>7
    <3>4. IsInjective(Append(s, q))
      BY <2>2, <3>2, AppendUnrepeated
    <3>5. ToSet(Append(s, q)) = ToSet(s) \cup {q}
      BY <3>2, SetOfAppend
    <3>6. "" \notin ToSet(Append(s, q)) /\ ToSet(Append(s, q)) \cap ToSet(searched) = {}
      BY <2>2, <3>2, <3>5
    <3> QED
      BY <3>1, <3>3, <3>4, <3>6 DEF CleanFor
  <2> QED
    BY <2>1, <2>2
<1>4. <<>> \in CleanFor(searched)
  <2>1. <<>> \in Seq(QueryTexts)
    OBVIOUS
  <2> QED
    BY <2>1, EmptyUnrepeated DEF CleanFor
<1>5. <<>> \in I[0]
  BY <1>1, <1>2, <1>4
<1> HIDE DEF I
<1>6. \A i \in 0..Len(queries) : i < Len(queries) =>
          \A x \in I[i] \cap Seq(QueryTexts) : Fresh(x, queries[i + 1], searched) \in I[i + 1]
  BY <1>1, <1>2, <1>3
<1>7. Cleaned(queries, searched) \in I[Len(queries)]
  BY <1>5, <1>6, CleanedReaches
<1>8. Cleaned(queries, searched) \in CleanFor(searched)
  BY <1>1, <1>2, <1>7
<1>9. PICK c : c = Cleaned(queries, searched)
  OBVIOUS
<1>10. c \in Seq(QueryTexts) /\ IsInjective(c) /\ "" \notin ToSet(c) /\ ToSet(c) \cap ToSet(searched) = {}
  BY <1>8, <1>9 DEF CleanFor
<1>11. PICK n \in 0..Len(c) : upto_queries(c) = SubSeq(c, 1, n) /\ n <= MAX_QUERIES
  <2>1. Len(c) \in Nat
    <3>1. c \in Seq(QueryTexts)
      BY <1>10, Zenon
    <3> QED
      BY <3>1
  <2> QED
    BY <2>1, RetrievalAssumption DEF upto_queries
<1>12. /\ SubSeq(c, 1, n) \in Seq(QueryTexts) /\ Len(SubSeq(c, 1, n)) = n
       /\ IsInjective(SubSeq(c, 1, n)) /\ ToSet(SubSeq(c, 1, n)) \subseteq ToSet(c)
  BY <1>10, PrefixUnrepeated
<1>13. SubSeq(c, 1, n) \in CleanFor(searched)
  BY <1>10, <1>12 DEF CleanFor
<1> QED
  BY <1>9, <1>11, <1>12, <1>13, CleanIs

\* Chunks that `chunks` may grow to: none is moved or taken away.
GrownChunks(chunks) ==
    {s \in Seq(StoredChunks) : IsInjective(s) /\ Len(s) >= Len(chunks)}

LEMMA KnownGrows ==
    ASSUME NEW chunks, Len(chunks) \in Nat, NEW s \in GrownChunks(chunks), NEW c \in StoredChunks
    PROVE  WithChunk(s, c) \in GrownChunks(chunks)
<1>1. s \in Seq(StoredChunks) /\ IsInjective(s) /\ Len(s) >= Len(chunks)
  BY DEF GrownChunks
<1>2. CASE c \in ToSet(s)
  BY <1>2, Zenon DEF WithChunk
<1>3. CASE c \notin ToSet(s)
  <2>1. WithChunk(s, c) = Append(s, c)
    BY <1>3, Zenon DEF WithChunk
  <2>2. IsInjective(Append(s, c))
    BY <1>1, <1>3, AppendUnrepeated
  <2>3. Append(s, c) \in Seq(StoredChunks) /\ Len(Append(s, c)) >= Len(chunks)
    BY <1>1
  <2> QED
    BY <2>1, <2>2, <2>3 DEF GrownChunks
<1> QED
  BY <1>2, <1>3

LEMMA AppendNewGrows ==
    ASSUME NEW chunks, Len(chunks) \in Nat, NEW s \in GrownChunks(chunks), NEW found \in Seq(StoredChunks)
    PROVE  append_new(s, found) \in GrownChunks(chunks)
<1> DEFINE I == [i \in 0..Len(found) |-> GrownChunks(chunks)]
<1>1. \A i \in 0..Len(found) : I[i] = GrownChunks(chunks)
  OBVIOUS
<1>2. Len(found) \in Nat /\ \A i \in 0..Len(found) : i < Len(found) => i + 1 \in 0..Len(found)
                                                                     /\ found[i + 1] \in StoredChunks
  OBVIOUS
<1>3. s \in I[0] /\ s \in Seq(StoredChunks)
  BY <1>1, <1>2 DEF GrownChunks
<1> HIDE DEF I
<1>4. \A i \in 0..Len(found) : i < Len(found) =>
          \A x \in I[i] \cap Seq(StoredChunks) : WithChunk(x, found[i + 1]) \in I[i + 1]
  BY <1>1, <1>2, KnownGrows
<1>5. append_new(s, found) \in I[Len(found)]
  BY <1>3, <1>4, AppendNewReaches
<1> QED
  BY <1>1, <1>2, <1>5

LEMMA RoundGrows ==
    ASSUME NEW chunks \in Seq(StoredChunks), IsInjective(chunks), NEW hits \in Seq(Seq(StoredChunks))
    PROVE  FoldLeft(append_new, chunks, hits) \in GrownChunks(chunks)
<1> DEFINE I == [i \in 0..Len(hits) |-> GrownChunks(chunks)]
<1>1. \A i \in 0..Len(hits) : I[i] = GrownChunks(chunks)
  OBVIOUS
<1>2. Len(hits) \in Nat /\ \A i \in 0..Len(hits) : i < Len(hits) => i + 1 \in 0..Len(hits)
                                                                  /\ hits[i + 1] \in Seq(StoredChunks)
  OBVIOUS
<1>3. chunks \in I[0] /\ Len(chunks) \in Nat
  BY <1>1, <1>2 DEF GrownChunks
<1> HIDE DEF I
<1>4. \A i \in 0..Len(hits) : i < Len(hits) =>
          \A x \in I[i] \cap Seq(StoredChunks) : append_new(x, hits[i + 1]) \in I[i + 1]
  BY <1>1, <1>2, <1>3, AppendNewGrows
<1>5. FoldLeft(append_new, chunks, hits) \in I[Len(hits)]
  BY <1>3, <1>4, RoundReaches
<1> QED
  BY <1>1, <1>2, <1>5

----------------------------------------------------------------------------
(* search_records *)

\* A result that cites found chunks only, and tells that nothing was found.
RestsOn(result, chunks) ==
    /\ \A f \in result.facts : f # {} /\ f \subseteq {c.source : c \in ToSet(chunks)}
    /\ chunks = <<>> => result.not_found

SearchInv(s) ==
    /\ IsSearch(s)
    /\ s.phase \in Phases /\ s.rounds \in 0..MAX_SEARCH_ROUNDS
    /\ s.searched \in Seq(QueryTexts) /\ IsInjective(s.searched) /\ "" \notin ToSet(s.searched)
    /\ Len(s.searched) <= MAX_QUERIES * s.rounds
    /\ s.chunks \in Seq(StoredChunks) /\ IsInjective(s.chunks)
    /\ s.chunks = <<>> => s.assessment.not_found /\ s.phase # "assess"
    /\ s.phase = "rewrite" => s = _new_state
    /\ s.phase = "retrieve" =>
          s.rounds < MAX_SEARCH_ROUNDS /\ s.queries \in CleanFor(s.searched) /\ Len(s.queries) <= MAX_QUERIES
    /\ s.phase = "done" => RestsOn(s.result, s.chunks)

LEMMA SearchInvInit == RetrievalInit => SearchInv(search)
<1> SUFFICES ASSUME RetrievalInit PROVE SearchInv(search)
  OBVIOUS
<1>1. search = SearchOf("rewrite", <<>>, <<>>, <<>>, 0, NoAssessment, NoAssessment)
  BY DEF RetrievalInit, _new_state, SearchOf
<1>2. /\ search.phase = "rewrite" /\ search.queries = <<>> /\ search.searched = <<>> /\ search.chunks = <<>>
      /\ search.rounds = 0 /\ search.assessment = NoAssessment /\ search.result = NoAssessment
  BY <1>1, SearchFields
<1>3. IsSearch(search)
  BY <1>1, <1>2 DEF IsSearch
<1>4. <<>> \in Seq(QueryTexts) /\ <<>> \in Seq(StoredChunks) /\ Len(<<>>) = 0 /\ NoAssessment.not_found
      /\ MAX_QUERIES * 0 = 0 /\ 0 \in 0..MAX_SEARCH_ROUNDS
  BY RetrievalAssumption DEF NoAssessment
<1>5. Len(search.searched) <= MAX_QUERIES * search.rounds
  BY <1>2, <1>4
<1>6. search.phase \in Phases /\ search.phase # "assess" /\ search.phase # "retrieve" /\ search.phase # "done"
  BY <1>2 DEF Phases
<1>7. "" \notin ToSet(<<>>)
  BY EmptyUnrepeated, Zenon
<1>8. search = _new_state
  BY DEF RetrievalInit
<1> QED
  BY <1>2, <1>3, <1>4, <1>5, <1>6, <1>7, <1>8, EmptyUnrepeated, Zenon DEF SearchInv

\* Leaving the loop: what is found true stays, and a result rests on chunks.
Leaving(s) ==
    /\ IsSearch(s)
    /\ s.rounds \in 0..MAX_SEARCH_ROUNDS
    /\ s.searched \in Seq(QueryTexts) /\ IsInjective(s.searched) /\ "" \notin ToSet(s.searched)
    /\ Len(s.searched) <= MAX_QUERIES * s.rounds
    /\ s.chunks \in Seq(StoredChunks) /\ IsInjective(s.chunks)
    /\ s.chunks = <<>> => s.assessment.not_found

LEMMA SourcesOfFound ==
    ASSUME NEW A, NEW chunks \in Seq(A), NEW item, cites_found(item, chunks)
    PROVE  sources_of(item, chunks) # {} /\ sources_of(item, chunks) \subseteq {c.source : c \in ToSet(chunks)}
<1>1. DOMAIN chunks = 1..Len(chunks)
  OBVIOUS
<1>2. item.ids # {} /\ \A i \in item.ids : i \in DOMAIN chunks
  BY <1>1 DEF cites_found
<1>3. \A i \in item.ids : chunks[i] \in ToSet(chunks)
  BY <1>2 DEF ToSet
<1> QED
  BY <1>2, <1>3 DEF sources_of

LEMMA ResultRests ==
    ASSUME NEW a, NEW chunks \in Seq(StoredChunks), is_valid(a, chunks), chunks = <<>> => a.not_found
    PROVE  RestsOn(build_result(a, chunks), chunks)
<1>1. build_result(a, chunks).facts = {sources_of(f, chunks) : f \in a.facts}
      /\ build_result(a, chunks).not_found = a.not_found
  BY DEF build_result
<1>2. \A f \in a.facts : cites_found(f, chunks)
  BY Zenon DEF is_valid, claims
<1>3. \A f \in a.facts : sources_of(f, chunks) # {}
                         /\ sources_of(f, chunks) \subseteq {c.source : c \in ToSet(chunks)}
  BY <1>2, SourcesOfFound
<1> QED
  BY <1>1, <1>3, Zenon DEF RestsOn

LEMMA FinishedInv ==
    ASSUME NEW s, Leaving(s)
    PROVE  SearchInv(finished(s))
<1>1. IsSearch(s) /\ s.chunks \in Seq(StoredChunks) /\ (s.chunks = <<>> => s.assessment.not_found)
  BY Zenon DEF Leaving
<1>2. PICK t : t = finished(s)
  OBVIOUS
<1>3. \E p, r : /\ t = SearchOf(p, s.queries, s.searched, s.chunks, s.rounds, s.assessment, r)
                /\ p \in {"done", "failed"} /\ (p = "done" => RestsOn(r, s.chunks))
  <2>1. CASE is_valid(s.assessment, s.chunks)
    <3>1. t = SearchResult(SearchPhase(s, "done"), build_result(s.assessment, s.chunks))
      BY <1>2, <2>1, Zenon DEF finished, SearchResult, SearchPhase
    <3>2. t = SearchOf("done", s.queries, s.searched, s.chunks, s.rounds, s.assessment, build_result(s.assessment, s.chunks))
      BY <1>1, <3>1, SearchPuts DEF IsSearch
    <3>3. RestsOn(build_result(s.assessment, s.chunks), s.chunks)
      BY <1>1, <2>1, ResultRests
    <3> QED
      BY <3>2, <3>3
  <2>2. CASE ~is_valid(s.assessment, s.chunks)
    <3>1. t = SearchPhase(s, "failed")
      BY <1>2, <2>2, Zenon DEF finished, SearchPhase
    <3>2. t = SearchOf("failed", s.queries, s.searched, s.chunks, s.rounds, s.assessment, s.result)
      BY <1>1, <3>1, SearchPuts DEF IsSearch
    <3> QED
      BY <3>2
  <2> QED
    BY <2>1, <2>2
<1>4. PICK p, r : /\ t = SearchOf(p, s.queries, s.searched, s.chunks, s.rounds, s.assessment, r)
                  /\ p \in {"done", "failed"} /\ (p = "done" => RestsOn(r, s.chunks))
  BY <1>3
<1>5. /\ t.phase = p /\ t.queries = s.queries /\ t.searched = s.searched /\ t.chunks = s.chunks
      /\ t.rounds = s.rounds /\ t.assessment = s.assessment /\ t.result = r
  BY <1>4, SearchFields
<1>6. IsSearch(t)
  BY <1>4, <1>5 DEF IsSearch
<1>7. t.phase \in Phases /\ t.phase # "assess" /\ t.phase # "rewrite" /\ t.phase # "retrieve"
  BY <1>4, <1>5 DEF Phases
<1> QED
  BY <1>2, <1>4, <1>5, <1>6, <1>7, Zenon DEF Leaving, SearchInv

LEMMA SomeQueries ==
    ASSUME NEW n \in Nat, NEW q \in SeqOf(QueryTexts, n) PROVE q \in Seq(QueryTexts)
BY DEF SeqOf

LEMMA SomeHits ==
    ASSUME NEW n \in Nat, NEW hits \in [1..n -> Hits] PROVE hits \in Seq(Seq(StoredChunks))
<1>1. ASSUME NEW h \in Hits PROVE h \in Seq(StoredChunks)
  BY RetrievalAssumption DEF Hits, SeqOf
<1> QED
  BY <1>1

\* A state left for another round of retrieving: its queries are new ones.
LEMMA RetrievingInv ==
    ASSUME NEW s, Leaving(s), s.phase = "retrieve", s.rounds < MAX_SEARCH_ROUNDS,
           s.queries \in CleanFor(s.searched), Len(s.queries) <= MAX_QUERIES
    PROVE  SearchInv(s)
<1>1. "retrieve" \in Phases /\ "retrieve" # "assess" /\ "retrieve" # "rewrite" /\ "retrieve" # "done"
  BY DEF Phases
<1> QED
  BY <1>1, Zenon DEF SearchInv, Leaving

LEMMA SearchLeaving ==
    ASSUME NEW s, SearchInv(s) PROVE Leaving(s)
BY Zenon DEF SearchInv, Leaving

\* A state that differs from another one in its phase and its queries alone,
\* which keeps everything that has to stay true of the rest.
LEMMA LeavingOther ==
    ASSUME NEW s, Leaving(s), NEW p, NEW q,
           NEW t, t = SearchOf(p, q, s.searched, s.chunks, s.rounds, s.assessment, s.result)
    PROVE  Leaving(t) /\ t.phase = p /\ t.queries = q /\ t.searched = s.searched /\ t.chunks = s.chunks
           /\ t.rounds = s.rounds
<1>1. /\ t.phase = p /\ t.queries = q /\ t.searched = s.searched /\ t.chunks = s.chunks
      /\ t.rounds = s.rounds /\ t.assessment = s.assessment /\ t.result = s.result
  BY SearchFields
<1>2. IsSearch(t)
  BY <1>1 DEF IsSearch
<1> QED
  BY <1>1, <1>2, Zenon DEF Leaving

LEMMA FailedInv ==
    ASSUME NEW s, Leaving(s), NEW t, t = [s EXCEPT !.phase = "failed"]
    PROVE  SearchInv(t)
<1>1. t = SearchPhase(s, "failed")
  BY DEF SearchPhase
<1>2. t = SearchOf("failed", s.queries, s.searched, s.chunks, s.rounds, s.assessment, s.result)
  <2>1. IsSearch(s)
    BY Zenon DEF Leaving
  <2> QED
    BY <1>1, <2>1, SearchPuts DEF IsSearch
<1>3. Leaving(t) /\ t.phase = "failed"
  BY <1>2, LeavingOther
<1>4. "failed" \in Phases /\ "failed" # "assess" /\ "failed" # "rewrite" /\ "failed" # "done" /\ "failed" # "retrieve"
  BY DEF Phases
<1> QED
  BY <1>3, <1>4, Zenon DEF SearchInv, Leaving

\* Both ways to the first round.
LEMMA FirstRound ==
    ASSUME SearchInv(search), search.phase = "rewrite", NEW q \in CleanFor(<<>>), Len(q) <= MAX_QUERIES,
           search' = [search EXCEPT !.phase = "retrieve", !.queries = q]
    PROVE  SearchInv(search')
<1>1. Leaving(search) /\ IsSearch(search)
  BY SearchLeaving, Zenon DEF Leaving
<1>2. search' = SearchQueries(SearchPhase(search, "retrieve"), q)
  BY DEF SearchQueries, SearchPhase
<1>3. search' = SearchOf("retrieve", q, search.searched, search.chunks, search.rounds, search.assessment, search.result)
  BY <1>1, <1>2, SearchPuts DEF IsSearch
<1>4. Leaving(search') /\ search'.phase = "retrieve" /\ search'.queries = q
      /\ search'.searched = search.searched /\ search'.rounds = search.rounds
  BY <1>1, <1>3, LeavingOther
<1>5. search.searched = <<>> /\ search.rounds = 0
  <2>1. search = _new_state
    BY Zenon DEF SearchInv
  <2> QED
    BY <2>1 DEF _new_state
<1>6. 0 < MAX_SEARCH_ROUNDS
  BY RetrievalAssumption
<1> QED
  BY <1>4, <1>5, <1>6, RetrievingInv

LEMMA GivenQueryInv ==
    ASSUME SearchInv(search), NEW q \in QueryTexts, given_query(q) PROVE SearchInv(search')
<1>1. search.phase = "rewrite" /\ q # "" /\ search' = [search EXCEPT !.phase = "retrieve", !.queries = <<q>>]
  BY Zenon DEF given_query
<1>2. <<q>> \in Seq(QueryTexts) /\ Len(<<q>>) = 1 /\ DOMAIN <<q>> = {1} /\ <<q>>[1] = q
  OBVIOUS
<1>3. IsInjective(<<q>>)
  BY <1>2 DEF IsInjective
<1>4. ToSet(<<q>>) = {q}
  BY <1>2 DEF ToSet
<1>5. <<q>> \in CleanFor(<<>>)
  BY <1>1, <1>2, <1>3, <1>4, EmptyUnrepeated, Zenon DEF CleanFor
<1>6. Len(<<q>>) <= MAX_QUERIES
  BY RetrievalAssumption
<1> QED
  BY <1>1, <1>5, <1>6, FirstRound

LEMMA RewriteQueryInv ==
    ASSUME SearchInv(search), NEW output \in Seq(QueryTexts), rewrite_query(output) PROVE SearchInv(search')
<1>1. PICK q : q = _clean_queries(output, <<>>)
  OBVIOUS
<1>2. search.phase = "rewrite"
      /\ search' = IF q = <<>> THEN [search EXCEPT !.phase = "failed"]
                   ELSE [search EXCEPT !.phase = "retrieve", !.queries = q]
  BY <1>1, Zenon DEF rewrite_query
<1>3. q \in CleanFor(<<>>) /\ Len(q) <= MAX_QUERIES
  BY <1>1, CleanQueries
<1>4. CASE q = <<>>
  <2>1. search' = [search EXCEPT !.phase = "failed"]
    BY <1>2, <1>4, Zenon
  <2> QED
    BY <2>1, SearchLeaving, FailedInv
<1>5. CASE q # <<>>
  <2>1. search' = [search EXCEPT !.phase = "retrieve", !.queries = q]
    BY <1>2, <1>5, Zenon
  <2> QED
    BY <1>2, <1>3, <2>1, FirstRound
<1> QED
  BY <1>4, <1>5

\* The bound on what was searched: a round adds no more than MAX_QUERIES.
LEMMA OneMoreRound ==
    ASSUME NEW r \in Nat, NEW n \in Nat, NEW m \in Nat, n <= MAX_QUERIES * r, m <= MAX_QUERIES
    PROVE  n + m <= MAX_QUERIES * (r + 1)
BY RetrievalAssumption

LEMMA RetrieveInv ==
    ASSUME SearchInv(search), NEW hits \in Seq(Seq(StoredChunks)), retrieve(hits) PROVE SearchInv(search')
<1>1. PICK chunks : chunks = FoldLeft(append_new, search.chunks, hits)
  OBVIOUS
<1>2. PICK after : after = [search EXCEPT !.chunks = chunks, !.searched = @ \o search.queries,
                                         !.queries = <<>>, !.rounds = @ + 1]
  OBVIOUS
<1>3. search.phase = "retrieve"
      /\ search' = IF Len(chunks) = Len(search.chunks) THEN finished(after) ELSE [after EXCEPT !.phase = "assess"]
  BY <1>1, <1>2, Zenon DEF retrieve
<1>4. IsSearch(search) /\ search.rounds < MAX_SEARCH_ROUNDS /\ search.queries \in CleanFor(search.searched)
      /\ Len(search.queries) <= MAX_QUERIES
  BY <1>3, Zenon DEF SearchInv
<1>5. after = SearchRounds(SearchQueries(SearchSearched(SearchChunks(search, chunks),
                 search.searched \o search.queries), <<>>), search.rounds + 1)
  BY <1>2 DEF SearchRounds, SearchQueries, SearchSearched, SearchChunks
<1>6. after = SearchOf(search.phase, <<>>, search.searched \o search.queries, chunks, search.rounds + 1,
                     search.assessment, search.result)
  BY <1>4, <1>5, SearchPuts DEF IsSearch
<1>7. /\ after.phase = search.phase /\ after.queries = <<>> /\ after.searched = search.searched \o search.queries
      /\ after.chunks = chunks /\ after.rounds = search.rounds + 1 /\ after.assessment = search.assessment
      /\ after.result = search.result
  BY <1>6 DEF SearchOf
<1>8. IsSearch(after)
  BY <1>6, <1>7 DEF IsSearch
<1>9. /\ search.searched \in Seq(QueryTexts) /\ IsInjective(search.searched) /\ "" \notin ToSet(search.searched)
      /\ search.rounds \in 0..MAX_SEARCH_ROUNDS /\ Len(search.searched) <= MAX_QUERIES * search.rounds
      /\ search.chunks \in Seq(StoredChunks) /\ IsInjective(search.chunks)
      /\ search.chunks = <<>> => search.assessment.not_found
  BY Zenon DEF SearchInv
<1>10. /\ search.queries \in Seq(QueryTexts) /\ IsInjective(search.queries) /\ "" \notin ToSet(search.queries)
       /\ ToSet(search.queries) \cap ToSet(search.searched) = {}
  BY <1>4, Zenon DEF CleanFor
<1>11. chunks \in GrownChunks(search.chunks)
  BY <1>1, <1>9, RoundGrows
<1>12. chunks \in Seq(StoredChunks) /\ IsInjective(chunks) /\ Len(chunks) >= Len(search.chunks)
  BY <1>11, Zenon DEF GrownChunks
<1>13. search.searched \in Seq(QueryTexts) /\ search.queries \in Seq(QueryTexts) /\ search.chunks \in Seq(StoredChunks)
  BY <1>9, <1>10, Zenon
<1>14. after.searched \in Seq(QueryTexts) /\ Len(after.searched) = Len(search.searched) + Len(search.queries)
  BY <1>7, <1>13
<1>15. IsInjective(after.searched)
  <2>1. ToSet(search.searched) \cap ToSet(search.queries) = {}
    BY <1>10, Zenon
  <2>2. IsInjective(search.searched) /\ IsInjective(search.queries)
    BY <1>9, <1>10, Zenon
  <2> QED
    BY <1>7, <1>13, <2>1, <2>2, ConcatUnrepeated
<1>16. "" \notin ToSet(after.searched)
  <2>1. ToSet(after.searched) = ToSet(search.searched) \cup ToSet(search.queries)
    BY <1>7, <1>13, SetOfConcat
  <2> QED
    BY <1>9, <1>10, <2>1, Zenon
<1>17. Len(after.searched) <= MAX_QUERIES * after.rounds /\ after.rounds \in 0..MAX_SEARCH_ROUNDS
  <2>1. search.rounds \in 0..MAX_SEARCH_ROUNDS /\ Len(search.searched) <= MAX_QUERIES * search.rounds
    BY <1>9, Zenon
  <2>2. search.rounds \in Nat /\ Len(search.searched) \in Nat /\ Len(search.queries) \in Nat
    BY <1>13, <2>1
  <2>3. Len(search.searched) + Len(search.queries) <= MAX_QUERIES * (search.rounds + 1)
    BY <1>4, <2>1, <2>2, OneMoreRound
  <2>4. search.rounds + 1 \in 0..MAX_SEARCH_ROUNDS
    BY <1>4, <2>1, RetrievalAssumption
  <2> QED
    BY <1>7, <1>14, <2>3, <2>4
<1>18. chunks = <<>> => search.chunks = <<>>
  BY <1>12, <1>13
<1>19. Leaving(after)
  BY <1>7, <1>8, <1>9, <1>12, <1>14, <1>15, <1>16, <1>17, <1>18, Zenon DEF Leaving
<1>20. CASE Len(chunks) = Len(search.chunks)
  <2>1. search' = finished(after)
    BY <1>3, <1>20, Zenon
  <2> QED
    BY <1>19, <2>1, FinishedInv
<1>21. CASE Len(chunks) # Len(search.chunks)
  <2>1. search' = SearchPhase(after, "assess")
    BY <1>3, <1>21, Zenon DEF SearchPhase
  <2>2. search' = SearchOf("assess", after.queries, after.searched, after.chunks, after.rounds, after.assessment, after.result)
    BY <1>8, <2>1, SearchPuts DEF IsSearch
  <2>3. Leaving(search') /\ search'.phase = "assess" /\ search'.chunks = after.chunks
    BY <1>19, <2>2, LeavingOther
  <2>4. chunks # <<>>
    BY <1>12, <1>13, <1>21
  <2>5. "assess" \in Phases /\ "assess" # "rewrite" /\ "assess" # "retrieve" /\ "assess" # "done"
    BY DEF Phases
  <2> QED
    BY <1>7, <2>3, <2>4, <2>5, Zenon DEF SearchInv, Leaving
<1> QED
  BY <1>20, <1>21

LEMMA AssessInv ==
    ASSUME SearchInv(search), NEW a, a.retry_queries \in Seq(QueryTexts), assess(a) PROVE SearchInv(search')
<1> DEFINE kept == [facts |-> a.facts, not_found |-> a.not_found, conflicts |-> a.conflicts]
<1>1. PICK q : q = IF search.rounds < MAX_SEARCH_ROUNDS /\ ~a.sufficient
                   THEN _clean_queries(a.retry_queries, search.searched) ELSE <<>>
  OBVIOUS
<1>2. PICK k : k = kept
  OBVIOUS
<1>3. PICK after : after = [search EXCEPT !.assessment = k, !.queries = q]
  OBVIOUS
<1>4. search.phase = "assess"
      /\ search' = IF q = <<>> THEN finished(after) ELSE [after EXCEPT !.phase = "retrieve"]
  BY <1>1, <1>2, <1>3, Zenon DEF assess
<1>5. Leaving(search) /\ IsSearch(search) /\ search.chunks # <<>>
  BY <1>4, SearchLeaving, Zenon DEF Leaving, SearchInv
<1>6. after = SearchQueries(SearchAssessment(search, k), q)
  BY <1>3 DEF SearchQueries, SearchAssessment
<1>7. after = SearchOf(search.phase, q, search.searched, search.chunks, search.rounds, k, search.result)
  BY <1>5, <1>6, SearchPuts DEF IsSearch
<1>8. /\ after.phase = search.phase /\ after.queries = q /\ after.searched = search.searched
      /\ after.chunks = search.chunks /\ after.rounds = search.rounds /\ after.assessment = k
      /\ after.result = search.result
  BY <1>7 DEF SearchOf
<1>9. IsSearch(after)
  BY <1>7, <1>8 DEF IsSearch
<1>10. Leaving(after)
  BY <1>5, <1>8, <1>9, Zenon DEF Leaving
<1>11. CASE q = <<>>
  <2>1. search' = finished(after)
    BY <1>4, <1>11, Zenon
  <2> QED
    BY <1>10, <2>1, FinishedInv
<1>12. CASE q # <<>>
  <2>1. search' = SearchPhase(after, "retrieve")
    BY <1>4, <1>12, Zenon DEF SearchPhase
  <2>2. search' = SearchOf("retrieve", after.queries, after.searched, after.chunks, after.rounds, after.assessment, after.result)
    BY <1>9, <2>1, SearchPuts DEF IsSearch
  <2>3. Leaving(search') /\ search'.phase = "retrieve" /\ search'.queries = after.queries
        /\ search'.searched = after.searched /\ search'.rounds = after.rounds
    BY <1>10, <2>2, LeavingOther
  <2>4. search.rounds < MAX_SEARCH_ROUNDS /\ q = _clean_queries(a.retry_queries, search.searched)
    BY <1>1, <1>12, Zenon
  <2>5. q \in CleanFor(search.searched) /\ Len(q) <= MAX_QUERIES
    BY <2>4, CleanQueries
  <2>6. search'.rounds < MAX_SEARCH_ROUNDS /\ search'.queries \in CleanFor(search'.searched)
        /\ Len(search'.queries) <= MAX_QUERIES
    BY <1>8, <2>3, <2>4, <2>5, Zenon
  <2> QED
    BY <2>3, <2>6, RetrievingInv
<1> QED
  BY <1>11, <1>12

LEMMA SearchInvNext == SearchInv(search) /\ [RetrievalNext]_searchVars => SearchInv(search')
<1> SUFFICES ASSUME SearchInv(search), [RetrievalNext]_searchVars PROVE SearchInv(search')
  OBVIOUS
<1>1. CASE search.phase = "rewrite" /\ \E q \in QueryTexts : given_query(q)
  BY <1>1, GivenQueryInv
<1>2. CASE search.phase = "rewrite" /\ \E output \in SeqOf(QueryTexts, 3) \ {<<>>} : rewrite_query(output)
  <2>1. PICK output \in SeqOf(QueryTexts, 3) : rewrite_query(output)
    BY <1>2, Zenon
  <2>2. output \in Seq(QueryTexts)
    <3>1. 3 \in Nat
      OBVIOUS
    <3> QED
      BY <2>1, <3>1, SomeQueries
  <2> QED
    BY <2>1, <2>2, RewriteQueryInv
<1>3. CASE search.phase = "retrieve" /\ \E hits \in [1..Len(search.queries) -> Hits] : retrieve(hits)
  <2>1. PICK hits \in [1..Len(search.queries) -> Hits] : retrieve(hits)
    BY <1>3, Zenon
  <2>2. search.queries \in Seq(QueryTexts)
    BY <1>3, Zenon DEF SearchInv, CleanFor
  <2>3. Len(search.queries) \in Nat
    BY <2>2
  <2>4. hits \in Seq(Seq(StoredChunks))
    BY <2>1, <2>3, SomeHits
  <2> QED
    BY <2>1, <2>4, RetrieveInv
<1>4. CASE search.phase = "assess" /\ \E a \in Answers(Len(search.chunks)) : assess(a)
  <2>1. PICK a \in Answers(Len(search.chunks)) : assess(a)
    BY <1>4, Zenon
  <2>2. a.retry_queries \in SeqOf(QueryTexts, 2)
    BY <2>1 DEF Answers
  <2>3. a.retry_queries \in Seq(QueryTexts)
    <3>1. 2 \in Nat
      OBVIOUS
    <3> QED
      BY <2>2, <3>1, SomeQueries
  <2> QED
    BY <2>1, <2>3, AssessInv
<1>5. CASE search_fails
  <2>1. search' = [search EXCEPT !.phase = "failed"]
    BY <1>5, Zenon DEF search_fails
  <2> QED
    BY <2>1, SearchLeaving, FailedInv
<1>6. CASE UNCHANGED searchVars
  <2>1. search' = search
    BY <1>6 DEF searchVars
  <2> QED
    BY <2>1
<1> QED
  BY <1>1, <1>2, <1>3, <1>4, <1>5, <1>6, Zenon DEF RetrievalNext

LEMMA SearchInvEvidence == SearchInv(search) => EvidenceIsFound
<1> SUFFICES ASSUME SearchInv(search) PROVE EvidenceIsFound
  OBVIOUS
<1>1. /\ search.phase \in Phases /\ search.rounds \in 0..MAX_SEARCH_ROUNDS
      /\ search.searched \in Seq(QueryTexts) /\ search.chunks \in Seq(StoredChunks)
      /\ Len(search.searched) <= MAX_QUERIES * search.rounds
  BY Zenon DEF SearchInv
<1>2. ToSet(search.chunks) \subseteq StoredChunks
  BY <1>1 DEF ToSet
<1>3. Len(search.searched) <= MAX_QUERIES * MAX_SEARCH_ROUNDS
  <2>1. ASSUME NEW n \in Nat, NEW r \in 0..MAX_SEARCH_ROUNDS, n <= MAX_QUERIES * r
        PROVE  n <= MAX_QUERIES * MAX_SEARCH_ROUNDS
    <3>1. MAX_QUERIES * r <= MAX_QUERIES * MAX_SEARCH_ROUNDS
      BY RetrievalAssumption
    <3> QED
      BY <2>1, <3>1, RetrievalAssumption
  <2>2. Len(search.searched) \in Nat
    BY <1>1
  <2> QED
    BY <1>1, <2>1, <2>2
<1> QED
  BY <1>1, <1>2, <1>3, Zenon DEF SearchInv, RestsOn, EvidenceIsFound, RetrievalTypeOK

----------------------------------------------------------------------------
(* A selection of chunks *)

LEMMA CountUnrepeated ==
    ASSUME NEW A, NEW s \in Seq(A), IsInjective(s)
    PROVE  IsFiniteSet(ToSet(s)) /\ Cardinality(ToSet(s)) = Len(s)
<1>1. Len(s) \in Nat /\ DOMAIN s = 1..Len(s) /\ s \in [1..Len(s) -> A]
  OBVIOUS
<1>2. s \in [1..Len(s) -> ToSet(s)] /\ \A x \in ToSet(s) : \E i \in 1..Len(s) : s[i] = x
  BY <1>1 DEF ToSet
<1>3. \A i, j \in 1..Len(s) : s[i] = s[j] => i = j
  BY <1>1 DEF IsInjective
<1>4. s \in Bijection(1..Len(s), ToSet(s))
  BY <1>2, <1>3 DEF Bijection, Injection, Surjection
<1>5. ExistsBijection(1..Len(s), ToSet(s))
  BY <1>4 DEF ExistsBijection
<1> QED
  BY <1>1, <1>5, FS_CountingElements, FS_NatBijection

LEMMA FillTyped ==
    ASSUME NEW A PROVE \A s \in Seq(A), c \in A : fill(s, c) \in Seq(A)
<1>1. ASSUME NEW s \in Seq(A), NEW c \in A PROVE fill(s, c) \in {s, Append(s, c)} /\ Append(s, c) \in Seq(A)
  <2>1. Append(s, c) \in Seq(A)
    OBVIOUS
  <2> QED
    BY <2>1, Zenon DEF fill
<1>2. ASSUME NEW s \in Seq(A), NEW c \in A PROVE fill(s, c) \in Seq(A)
  <2>1. fill(s, c) = s \/ fill(s, c) = Append(s, c)
    BY <1>1
  <2> QED
    BY <1>1, <2>1
<1> QED
  BY <1>2

LEMMA FillReaches ==
    ASSUME NEW A, NEW both \in Seq(A), NEW candidates \in Seq(A),
           NEW I, both \in I[0],
           \A i \in 0..Len(candidates) : i < Len(candidates) =>
               \A x \in I[i] \cap Seq(A) : fill(x, candidates[i + 1]) \in I[i + 1]
    PROVE  FoldLeft(fill, both, candidates) \in I[Len(candidates)] \cap Seq(A)
<1> DEFINE n == Len(candidates)
           step == [p \in (1..n) \X Seq(A) |-> fill(p[2], candidates[p[1]])]
           is(it) == it = [s \in SUBSET (DOMAIN candidates) |->
                        IF s = {} THEN both ELSE fill(it[s \ {Max(s)}], candidates[Max(s)])]
           c == CHOOSE it : is(it)
<1>1. n \in Nat /\ DOMAIN candidates = 1..n
  OBVIOUS
<1>2. FoldLeft(fill, both, candidates) = c[DOMAIN candidates]
  BY Zenon DEF FoldLeft, MapThenFoldSet
<1>3. \A i \in 1..n, x \in Seq(A) : fill(x, candidates[i]) \in Seq(A)
  BY FillTyped
<1>4. step \in [(1..n) \X Seq(A) -> Seq(A)]
  BY <1>3
<1>5. \A i \in 1..n, x \in Seq(A) : step[i, x] = fill(x, candidates[i])
  OBVIOUS
<1> HIDE DEF n, step
<1>17. both \in Seq(A)
  OBVIOUS
<1>6. FoldOn(n, Seq(A), both, step)
  BY <1>1, <1>4, <1>17, FoldExists
<1>7. PICK it \in [SUBSET (1..n) -> Seq(A)] :
         /\ it[{}] = both
         /\ \A s \in SUBSET (1..n) : s # {} => Max(s) \in s /\ it[s] = step[Max(s), it[s \ {Max(s)}]]
  BY <1>6 DEF FoldOn
<1>8. ASSUME NEW s \in SUBSET (1..n), s # {}
      PROVE  it[s] = fill(it[s \ {Max(s)}], candidates[Max(s)])
  <2>1. Max(s) \in 1..n /\ it[s \ {Max(s)}] \in Seq(A)
    BY <1>7, <1>8
  <2> QED
    BY <1>5, <1>7, <1>8, <2>1
<1>9. is(it)
  <2>1. it = [s \in SUBSET (1..n) |-> it[s]]
    OBVIOUS
  <2>2. \A s \in SUBSET (1..n) :
           it[s] = IF s = {} THEN both ELSE fill(it[s \ {Max(s)}], candidates[Max(s)])
    BY <1>7, <1>8
  <2> QED
    BY <1>1, <2>1, <2>2
<1>10. is(c)
  <2> HIDE DEF is
  <2> QED
    BY <1>9
<1> HIDE DEF c
<1>11. c = [s \in SUBSET (1..n) |->
              IF s = {} THEN both ELSE fill(c[s \ {Max(s)}], candidates[Max(s)])]
  BY <1>1, <1>10
<1> HIDE DEF is
<1>12. /\ c[{}] = both
       /\ \A s \in SUBSET (1..n) : s # {} => c[s] = fill(c[s \ {Max(s)}], candidates[Max(s)])
  BY <1>11
<1>13. Folds(c, n, Seq(A), both, step)
  <2> SUFFICES ASSUME NEW s \in SUBSET (1..n), s # {}, c[s \ {Max(s)}] \in Seq(A)
               PROVE  c[s] = step[Max(s), c[s \ {Max(s)}]]
    BY <1>12 DEF Folds
  <2>1. Max(s) \in 1..n
    BY <1>7
  <2> QED
    BY <1>5, <1>12, <2>1
<1>14. ASSUME NEW i \in 0..n, i < n, NEW x \in I[i] \cap Seq(A)
       PROVE  step[i + 1, x] \in I[i + 1]
  <2>1. i + 1 \in 1..n
    BY <1>1, <1>14
  <2>2. fill(x, candidates[i + 1]) \in I[i + 1]
    BY <1>14 DEF n
  <2> QED
    BY <1>5, <1>14, <2>1, <2>2
<1>15. Leads(I, n, Seq(A), both, step)
  BY <1>14 DEF Leads
<1>16. c[1..n] \in I[n] \cap Seq(A)
  BY <1>1, <1>17, <1>4, <1>13, <1>15, FoldReaches
<1> QED
  BY <1>1, <1>2, <1>16 DEF n

\* What every step of the selection keeps: no chunk twice, none that was not
\* found, no more than the limit, the best ones in front.
Selection(candidates) ==
    {s \in Seq(ToSet(candidates)) :
        /\ IsInjective(s) /\ Len(s) <= SearchLimit
        /\ \A i \in 1..SearchLimit - 2 : i <= Len(candidates) => i <= Len(s) /\ s[i] = candidates[i]}

LEMMA AppendSelected ==
    ASSUME NEW candidates, NEW s \in Selection(candidates), NEW c \in ToSet(candidates), c \notin ToSet(s),
           Len(s) < SearchLimit
    PROVE  /\ Append(s, c) \in Selection(candidates) /\ Len(Append(s, c)) = Len(s) + 1
           /\ ToSet(s) \subseteq ToSet(Append(s, c)) /\ c \in ToSet(Append(s, c))
<1>1. /\ s \in Seq(ToSet(candidates)) /\ IsInjective(s) /\ Len(s) <= SearchLimit
      /\ \A i \in 1..SearchLimit - 2 : i <= Len(candidates) => i <= Len(s) /\ s[i] = candidates[i]
  BY DEF Selection
<1>2. Append(s, c) \in Seq(ToSet(candidates)) /\ Len(Append(s, c)) = Len(s) + 1 /\ Len(s) \in Nat
      /\ \A i \in 1..Len(s) : Append(s, c)[i] = s[i]
  BY <1>1
<1>3. IsInjective(Append(s, c))
  BY <1>1, AppendUnrepeated
<1>4. Len(s) + 1 <= SearchLimit
  BY <1>2, JudgeAssumption
<1>5. \A i \in 1..SearchLimit - 2 : i <= Len(candidates) => i <= Len(s) + 1 /\ Append(s, c)[i] = candidates[i]
  <2> SUFFICES ASSUME NEW i \in 1..SearchLimit - 2, i <= Len(candidates)
               PROVE  i <= Len(s) + 1 /\ Append(s, c)[i] = candidates[i]
    OBVIOUS
  <2>1. i <= Len(s) /\ s[i] = candidates[i]
    BY <1>1
  <2>2. i \in 1..Len(s)
    BY <1>2, <2>1
  <2> QED
    BY <1>2, <2>1, <2>2
<1>6. ToSet(Append(s, c)) = ToSet(s) \cup {c}
  BY <1>1, SetOfAppend
<1> QED
  BY <1>2, <1>3, <1>4, <1>5, <1>6 DEF Selection

LEMMA UptoSelects ==
    ASSUME NEW candidates \in CandidateLists, NEW n \in Nat, n <= SearchLimit, n >= SearchLimit - 2
    PROVE  /\ upto(candidates, n) \in Selection(candidates)
           /\ Len(upto(candidates, n)) = IF Len(candidates) < n THEN Len(candidates) ELSE n
<1>1. candidates \in Seq(ToSet(candidates)) /\ IsInjective(candidates)
  BY JudgeAssumption
<1>2. Len(candidates) \in Nat
  BY <1>1
<1>3. PICK m \in 0..Len(candidates) : m = IF Len(candidates) < n THEN Len(candidates) ELSE n
  BY <1>2
<1>4. upto(candidates, n) = SubSeq(candidates, 1, m)
  BY <1>3 DEF upto
<1>5. /\ SubSeq(candidates, 1, m) \in Seq(ToSet(candidates)) /\ Len(SubSeq(candidates, 1, m)) = m
      /\ IsInjective(SubSeq(candidates, 1, m))
  BY <1>1, PrefixUnrepeated
<1>6. \A i \in 1..m : SubSeq(candidates, 1, m)[i] = candidates[i]
  BY <1>1, <1>2, <1>3
<1>7. m <= SearchLimit
  BY <1>2, <1>3, JudgeAssumption
<1>8. \A i \in 1..SearchLimit - 2 : i <= Len(candidates) => i <= m
  BY <1>2, <1>3, JudgeAssumption
<1>9. \A i \in 1..SearchLimit - 2 : i <= Len(candidates) => i <= m /\ SubSeq(candidates, 1, m)[i] = candidates[i]
  BY <1>3, <1>6, <1>8
<1> QED
  BY <1>3, <1>4, <1>5, <1>7, <1>9 DEF Selection

\* An item that a candidate of the year holds, and one that was selected.
Offers(candidates, item, year) ==
    \E c \in ToSet(candidates) : holds(c, item) /\ (year = "" \/ c.year = year)
Selected(s, item) == \E c \in ToSet(s) : holds(c, item)

LEMMA LeastRank ==
    ASSUME NEW n \in Nat, NEW S \in SUBSET (1..n), S # {}
    PROVE  \E k \in S : \A j \in S : k <= j
<1> DEFINE R == {ss \in Nat \X Nat : ss[1] < ss[2]}
<1>1. IsWellFoundedOn(R, Nat)
  BY NatLessThanWellFounded DEF OpToRel
<1>2. \A x, y \in Nat : x < y => <<x, y>> \in R
  OBVIOUS
<1>3. S \subseteq Nat
  OBVIOUS
<1> HIDE DEF R
<1>4. PICK x \in S : \A y \in S : ~(<<y, x>> \in R)
  BY <1>1, <1>3, WFMin
<1>5. \A y \in S : ~(y < x)
  BY <1>2, <1>3, <1>4, Zenon
<1>6. \A y \in S : x <= y
  BY <1>5
<1> QED
  BY <1>6

LEMMA SupplementSelects ==
    ASSUME NEW candidates \in CandidateLists, NEW s \in Selection(candidates), Len(s) < SearchLimit,
           NEW item, NEW year
    PROVE  LET t == supplement(candidates, s, item, year)
           IN  /\ t \in Selection(candidates) /\ Len(t) <= Len(s) + 1 /\ ToSet(s) \subseteq ToSet(t)
               /\ Offers(candidates, item, year) => Selected(t, item)
<1>1. PICK more : more = eligible(candidates, s, item, year)
  OBVIOUS
<1>2. candidates \in Seq(ToSet(candidates)) /\ s \in Seq(ToSet(candidates))
  BY JudgeAssumption DEF Selection
<1>3. Len(candidates) \in Nat /\ DOMAIN candidates = 1..Len(candidates) /\ Len(s) \in Nat
  BY <1>2
<1>4. more = {k \in 1..Len(candidates) : /\ candidates[k] \notin ToSet(s) /\ holds(candidates[k], item)
                                         /\ year = "" \/ candidates[k].year = year}
  BY <1>1, <1>3, Zenon DEF eligible
<1>5. PICK t : t = supplement(candidates, s, item, year)
  OBVIOUS
<1>6. CASE more # {}
  <2>1. PICK best : best = CHOOSE k \in more : \A j \in more : k <= j
    OBVIOUS
  <2>2. more \in SUBSET (1..Len(candidates))
    BY <1>4, Zenon
  <2>3. \E k \in more : \A j \in more : k <= j
    BY <1>3, <1>6, <2>2, LeastRank
  <2>4. best \in more
    BY <2>1, <2>3, Zenon
  <2>5. best \in 1..Len(candidates) /\ candidates[best] \notin ToSet(s) /\ holds(candidates[best], item)
    BY <1>4, <2>4, Zenon
  <2>6. candidates[best] \in ToSet(candidates)
    BY <1>3, <2>5 DEF ToSet
  <2>7. t = Append(s, candidates[best])
    BY <1>1, <1>5, <1>6, <2>1, Zenon DEF supplement
  <2>8. /\ Append(s, candidates[best]) \in Selection(candidates) /\ Len(Append(s, candidates[best])) = Len(s) + 1
        /\ ToSet(s) \subseteq ToSet(Append(s, candidates[best]))
        /\ candidates[best] \in ToSet(Append(s, candidates[best]))
    BY <2>5, <2>6, AppendSelected
  <2>9. Selected(t, item)
    BY <2>5, <2>7, <2>8, Zenon DEF Selected
  <2>10. Len(t) <= Len(s) + 1
    BY <1>3, <2>7, <2>8
  <2> QED
    BY <1>5, <2>7, <2>8, <2>9, <2>10, Zenon
<1>7. CASE more = {}
  <2>1. t = s
    BY <1>1, <1>5, <1>7, Zenon DEF supplement
  <2>2. ASSUME NEW c \in ToSet(candidates), holds(c, item), year = "" \/ c.year = year
        PROVE  c \in ToSet(s)
    <3>1. PICK k \in DOMAIN candidates : c = candidates[k]
      BY Zenon DEF ToSet
    <3> QED
      BY <1>3, <1>4, <1>7, <2>2, <3>1, Zenon
  <2>3. Offers(candidates, item, year) => Selected(t, item)
    BY <2>1, <2>2, Zenon DEF Offers, Selected
  <2>4. Len(t) <= Len(s) + 1
    BY <1>3, <2>1
  <2> QED
    BY <1>5, <2>1, <2>3, <2>4, Zenon
<1> QED
  BY <1>6, <1>7

LEMMA FillSelects ==
    ASSUME NEW candidates, NEW s \in Selection(candidates), NEW c \in ToSet(candidates)
    PROVE  /\ fill(s, c) \in Selection(candidates) /\ ToSet(s) \subseteq ToSet(fill(s, c))
           /\ Len(fill(s, c)) = SearchLimit \/ c \in ToSet(fill(s, c))
           /\ Len(s) = SearchLimit => Len(fill(s, c)) = SearchLimit
<1>1. Len(s) \in Nat /\ Len(s) <= SearchLimit
  BY DEF Selection
<1>2. CASE Len(s) < SearchLimit /\ c \notin ToSet(s)
  <2>1. fill(s, c) = Append(s, c)
    BY <1>2, Zenon DEF fill
  <2>2. /\ Append(s, c) \in Selection(candidates)
        /\ ToSet(s) \subseteq ToSet(Append(s, c)) /\ c \in ToSet(Append(s, c))
    BY <1>2, AppendSelected
  <2>3. Len(s) # SearchLimit
    BY <1>1, <1>2, JudgeAssumption
  <2> QED
    BY <2>1, <2>2, <2>3, Zenon
<1>3. CASE ~(Len(s) < SearchLimit /\ c \notin ToSet(s))
  <2>1. fill(s, c) = s
    BY <1>3, Zenon DEF fill
  <2>2. Len(s) = SearchLimit \/ c \in ToSet(s)
    BY <1>1, <1>3, JudgeAssumption
  <2> QED
    BY <2>1, <2>2, Zenon
<1> QED
  BY <1>2, <1>3

\* Filled with the first i candidates.
Filled(candidates, both, i) ==
    {s \in Selection(candidates) :
        /\ ToSet(both) \subseteq ToSet(s)
        /\ Len(s) = SearchLimit \/ \A j \in 1..i : candidates[j] \in ToSet(s)}

LEMMA FillFills ==
    ASSUME NEW candidates, candidates \in Seq(ToSet(candidates)), NEW both \in Selection(candidates)
    PROVE  FoldLeft(fill, both, candidates) \in Filled(candidates, both, Len(candidates))
<1> DEFINE I == [i \in 0..Len(candidates) |-> Filled(candidates, both, i)]
<1>1. \A i \in 0..Len(candidates) : I[i] = Filled(candidates, both, i)
  OBVIOUS
<1>2. Len(candidates) \in Nat /\ DOMAIN candidates = 1..Len(candidates) /\ both \in Seq(ToSet(candidates))
  BY DEF Selection
<1>3. both \in I[0]
  <2>1. both \in Filled(candidates, both, 0)
    <3>1. \A j \in 1..0 : candidates[j] \in ToSet(both)
      OBVIOUS
    <3> QED
      BY <3>1, Zenon DEF Filled
  <2> QED
    BY <1>1, <1>2, <2>1
<1>4. ASSUME NEW i \in 0..Len(candidates), i < Len(candidates), NEW s \in Filled(candidates, both, i)
      PROVE  fill(s, candidates[i + 1]) \in Filled(candidates, both, i + 1)
  <2>1. i + 1 \in 1..Len(candidates) /\ candidates[i + 1] \in ToSet(candidates)
    BY <1>2, <1>4 DEF ToSet
  <2>2. PICK t : t = fill(s, candidates[i + 1])
    OBVIOUS
  <2>3. s \in Selection(candidates) /\ ToSet(both) \subseteq ToSet(s)
        /\ (Len(s) = SearchLimit \/ \A j \in 1..i : candidates[j] \in ToSet(s))
    BY Zenon DEF Filled
  <2>4. /\ t \in Selection(candidates) /\ ToSet(s) \subseteq ToSet(t)
        /\ Len(t) = SearchLimit \/ candidates[i + 1] \in ToSet(t)
        /\ Len(s) = SearchLimit => Len(t) = SearchLimit
    BY <2>1, <2>2, <2>3, FillSelects
  <2>5. \A j \in 1..i + 1 : j \in 1..i \/ j = i + 1
    OBVIOUS
  <2>6. Len(t) = SearchLimit \/ \A j \in 1..i + 1 : candidates[j] \in ToSet(t)
    BY <2>3, <2>4, <2>5, Zenon
  <2> QED
    BY <2>2, <2>3, <2>4, <2>6, Zenon DEF Filled
<1>5. \A i \in 0..Len(candidates) : i < Len(candidates) => i + 1 \in 0..Len(candidates)
  BY <1>2
<1> HIDE DEF I
<1>6. \A i \in 0..Len(candidates) : i < Len(candidates) =>
          \A x \in I[i] \cap Seq(ToSet(candidates)) : fill(x, candidates[i + 1]) \in I[i + 1]
  BY <1>1, <1>4, <1>5
<1>7. FoldLeft(fill, both, candidates) \in I[Len(candidates)]
  BY <1>2, <1>3, <1>6, FillReaches
<1>8. Len(candidates) \in 0..Len(candidates)
  BY <1>2
<1> QED
  BY <1>1, <1>7, <1>8

\* The whole selection is as long as it can be: a chunk is not counted twice.
LEMMA FilledIsWhole ==
    ASSUME NEW candidates \in CandidateLists, NEW both, NEW s \in Filled(candidates, both, Len(candidates))
    PROVE  Len(s) = IF Len(candidates) < SearchLimit THEN Len(candidates) ELSE SearchLimit
<1>1. candidates \in Seq(ToSet(candidates)) /\ IsInjective(candidates)
  BY JudgeAssumption
<1>2. s \in Selection(candidates) /\ (Len(s) = SearchLimit \/ \A j \in 1..Len(candidates) : candidates[j] \in ToSet(s))
  BY Zenon DEF Filled
<1>3. s \in Seq(ToSet(candidates)) /\ IsInjective(s) /\ Len(s) <= SearchLimit
  BY <1>2 DEF Selection
<1>4. Len(candidates) \in Nat /\ Len(s) \in Nat /\ DOMAIN candidates = 1..Len(candidates) /\ DOMAIN s = 1..Len(s)
  BY <1>1, <1>3
<1>5. ToSet(s) \subseteq ToSet(candidates)
  BY <1>3, <1>4 DEF ToSet
<1>6. /\ IsFiniteSet(ToSet(s)) /\ Cardinality(ToSet(s)) = Len(s)
      /\ IsFiniteSet(ToSet(candidates)) /\ Cardinality(ToSet(candidates)) = Len(candidates)
  BY <1>1, <1>3, CountUnrepeated
<1>7. Len(s) <= Len(candidates)
  BY <1>5, <1>6, FS_Subset
<1>10. SearchLimit \in Nat
  BY JudgeAssumption
<1>11. PICK n \in Nat, m \in Nat : n = Len(candidates) /\ m = Len(s)
  BY <1>4
<1>8. CASE Len(s) = SearchLimit
  <2>1. m = IF n < SearchLimit THEN n ELSE SearchLimit
    BY <1>7, <1>8, <1>10, <1>11
  <2> QED
    BY <1>11, <2>1
<1>9. CASE \A j \in 1..Len(candidates) : candidates[j] \in ToSet(s)
  <2>1. ToSet(candidates) = ToSet(s)
    BY <1>4, <1>5, <1>9, Zenon DEF ToSet
  <2>2. Len(s) = Len(candidates)
    BY <1>6, <2>1
  <2>3. m = IF n < SearchLimit THEN n ELSE SearchLimit
    BY <1>3, <1>10, <1>11, <2>2
  <2> QED
    BY <1>11, <2>3
<1> QED
  BY <1>2, <1>8, <1>9

LEMMA SelectionIsGood ==
    ASSUME NEW candidates \in CandidateLists, NEW asked \in SUBSET {"recap", "attendance"}, NEW year,
           NEW s \in Selection(candidates),
           Len(s) = IF Len(candidates) < SearchLimit THEN Len(candidates) ELSE SearchLimit,
           \A item \in asked : Offers(candidates, item, year) => Selected(s, item)
    PROVE  GoodSelection(candidates, asked, year, s)
<1>1. s \in Seq(ToSet(candidates)) /\ IsInjective(s)
      /\ \A i \in 1..SearchLimit - 2 : i <= Len(candidates) => i <= Len(s) /\ s[i] = candidates[i]
  BY DEF Selection
<1>2. ToSet(s) \subseteq ToSet(candidates)
  <2>1. \A i \in DOMAIN s : s[i] \in ToSet(candidates)
    BY <1>1
  <2> QED
    BY <2>1 DEF ToSet
<1>3. \A item \in asked :
          (\E c \in ToSet(candidates) : holds(c, item) /\ (year = "" \/ c.year = year))
             => \E c \in ToSet(s) : holds(c, item)
  BY Zenon DEF Offers, Selected
<1> QED
  BY <1>1, <1>2, <1>3, Zenon DEF GoodSelection

LEMMA SelectIsGood ==
    ASSUME NEW candidates \in CandidateLists, NEW asked \in SUBSET {"recap", "attendance"}, NEW year
    PROVE  GoodSelection(candidates, asked, year, select(candidates, asked, year))
           /\ select(candidates, asked, year) \in Selection(candidates)
<1>1. candidates \in Seq(ToSet(candidates)) /\ IsInjective(candidates)
  BY JudgeAssumption
<1>2. Len(candidates) \in Nat
  BY <1>1
<1>3. CASE asked = {}
  <2>1. select(candidates, asked, year) = upto(candidates, SearchLimit)
    BY <1>3, Zenon DEF select
  <2>2. SearchLimit \in Nat /\ SearchLimit <= SearchLimit /\ SearchLimit >= SearchLimit - 2
    BY JudgeAssumption
  <2>3. upto(candidates, SearchLimit) \in Selection(candidates)
        /\ Len(upto(candidates, SearchLimit)) = IF Len(candidates) < SearchLimit THEN Len(candidates) ELSE SearchLimit
    BY <2>2, UptoSelects
  <2>4. \A item \in asked : FALSE
    BY <1>3
  <2> QED
    BY <2>1, <2>3, <2>4, SelectionIsGood, Zenon
<1>4. CASE asked # {}
  <2>1. PICK kept : kept = upto(candidates, IF SearchLimit > 2 THEN SearchLimit - 2 ELSE 0)
    OBVIOUS
  <2>2. PICK recap : recap = IF "recap" \in asked THEN supplement(candidates, kept, "recap", year) ELSE kept
    OBVIOUS
  <2>3. PICK both : both = IF "attendance" \in asked THEN supplement(candidates, recap, "attendance", year) ELSE recap
    OBVIOUS
  <2>4. PICK s : s = FoldLeft(fill, both, candidates)
    OBVIOUS
  <2>5. select(candidates, asked, year) = s
    BY <1>4, <2>1, <2>2, <2>3, <2>4, Zenon DEF select
  <2>6. kept \in Selection(candidates) /\ Len(kept) <= SearchLimit - 2
    <3>1. PICK m \in Nat : m = SearchLimit - 2
      BY JudgeAssumption
    <3>2. m <= SearchLimit /\ m >= SearchLimit - 2 /\ m = IF SearchLimit > 2 THEN SearchLimit - 2 ELSE 0
      BY <3>1, JudgeAssumption
    <3>3. kept = upto(candidates, m)
      BY <2>1, <3>2, Zenon
    <3>4. kept \in Selection(candidates) /\ Len(kept) = IF Len(candidates) < m THEN Len(candidates) ELSE m
      BY <3>2, <3>3, UptoSelects
    <3> QED
      BY <1>2, <3>1, <3>4
  <2>7. Len(kept) \in Nat /\ Len(kept) < SearchLimit
    <3>1. Len(kept) \in Nat
      BY <2>6 DEF Selection
    <3> QED
      BY <2>6, <3>1, JudgeAssumption
  <2>8. recap \in Selection(candidates) /\ Len(recap) <= Len(kept) + 1
        /\ ("recap" \in asked => (Offers(candidates, "recap", year) => Selected(recap, "recap")))
    <3>1. CASE "recap" \in asked
      <4>1. recap = supplement(candidates, kept, "recap", year)
        BY <2>2, <3>1, Zenon
      <4> QED
        BY <2>6, <2>7, <4>1, SupplementSelects
    <3>2. CASE "recap" \notin asked
      <4>1. recap = kept
        BY <2>2, <3>2, Zenon
      <4>2. Len(kept) <= Len(kept) + 1
        BY <2>7
      <4> QED
        BY <2>6, <3>2, <4>1, <4>2, Zenon
    <3> QED
      BY <3>1, <3>2
  <2>9. Len(recap) < SearchLimit
    <3>1. Len(recap) \in Nat
      BY <2>8 DEF Selection
    <3> QED
      BY <2>6, <2>7, <2>8, <3>1, JudgeAssumption
  <2>10. both \in Selection(candidates) /\ ToSet(recap) \subseteq ToSet(both)
         /\ ("attendance" \in asked => (Offers(candidates, "attendance", year) => Selected(both, "attendance")))
    <3>1. CASE "attendance" \in asked
      <4>1. both = supplement(candidates, recap, "attendance", year)
        BY <2>3, <3>1, Zenon
      <4> QED
        BY <2>8, <2>9, <4>1, SupplementSelects
    <3>2. CASE "attendance" \notin asked
      <4>1. both = recap
        BY <2>3, <3>2, Zenon
      <4> QED
        BY <2>8, <3>2, <4>1, Zenon
    <3> QED
      BY <3>1, <3>2
  <2>11. s \in Filled(candidates, both, Len(candidates))
    BY <1>1, <2>4, <2>10, FillFills
  <2>12. s \in Selection(candidates) /\ ToSet(both) \subseteq ToSet(s)
    BY <2>11, Zenon DEF Filled
  <2>13. Len(s) = IF Len(candidates) < SearchLimit THEN Len(candidates) ELSE SearchLimit
    BY <2>11, FilledIsWhole
  <2>14. ASSUME NEW item \in asked, Offers(candidates, item, year) PROVE Selected(s, item)
    <3>1. item \in {"recap", "attendance"}
      BY Zenon
    <3>2. CASE item = "recap"
      BY <2>8, <2>10, <2>12, <2>14, <3>2, Zenon DEF Selected
    <3>3. CASE item = "attendance"
      BY <2>10, <2>12, <2>14, <3>3, Zenon DEF Selected
    <3> QED
      BY <3>1, <3>2, <3>3
  <2> QED
    BY <2>5, <2>12, <2>13, <2>14, SelectionIsGood, Zenon
<1> QED
  BY <1>3, <1>4

LEMMA SelectTyped ==
    ASSUME NEW candidates \in CandidateLists, NEW asked \in SUBSET {"recap", "attendance"}, NEW year
    PROVE  select(candidates, asked, year) \in Seq(ToSet(candidates))
<1>1. select(candidates, asked, year) \in Selection(candidates)
  BY SelectIsGood
<1> QED
  BY <1>1, Zenon DEF Selection

\* A state of one judge_utterance call, and one of its fields replaced.
Run(v0, v1, v2, v3, v4, v5, v6, v7, v8) ==
    [stage |-> v0, attempt |-> v1, question |-> v2, calls |-> v3, chunks |-> v4, asked |-> v5, sources |-> v6, told |-> v7, kind |-> v8]

IsRun(s) == s = Run(s.stage, s.attempt, s.question, s.calls, s.chunks, s.asked, s.sources, s.told, s.kind)

RunStage(s, x) == [s EXCEPT !.stage = x]
RunAttempt(s, x) == [s EXCEPT !.attempt = x]
RunQuestion(s, x) == [s EXCEPT !.question = x]
RunCalls(s, x) == [s EXCEPT !.calls = x]
RunChunks(s, x) == [s EXCEPT !.chunks = x]
RunAsked(s, x) == [s EXCEPT !.asked = x]
RunSources(s, x) == [s EXCEPT !.sources = x]
RunTold(s, x) == [s EXCEPT !.told = x]
RunKind(s, x) == [s EXCEPT !.kind = x]

LEMMA RunFields ==
    ASSUME NEW v0, NEW v1, NEW v2, NEW v3, NEW v4, NEW v5, NEW v6, NEW v7, NEW v8
    PROVE  /\ Run(v0, v1, v2, v3, v4, v5, v6, v7, v8).stage = v0
           /\ Run(v0, v1, v2, v3, v4, v5, v6, v7, v8).attempt = v1
           /\ Run(v0, v1, v2, v3, v4, v5, v6, v7, v8).question = v2
           /\ Run(v0, v1, v2, v3, v4, v5, v6, v7, v8).calls = v3
           /\ Run(v0, v1, v2, v3, v4, v5, v6, v7, v8).chunks = v4
           /\ Run(v0, v1, v2, v3, v4, v5, v6, v7, v8).asked = v5
           /\ Run(v0, v1, v2, v3, v4, v5, v6, v7, v8).sources = v6
           /\ Run(v0, v1, v2, v3, v4, v5, v6, v7, v8).told = v7
           /\ Run(v0, v1, v2, v3, v4, v5, v6, v7, v8).kind = v8
BY DEF Run

LEMMA RunPuts ==
    ASSUME NEW v0, NEW v1, NEW v2, NEW v3, NEW v4, NEW v5, NEW v6, NEW v7, NEW v8, NEW x
    PROVE  /\ RunStage(Run(v0, v1, v2, v3, v4, v5, v6, v7, v8), x) = Run(x, v1, v2, v3, v4, v5, v6, v7, v8)
           /\ RunAttempt(Run(v0, v1, v2, v3, v4, v5, v6, v7, v8), x) = Run(v0, x, v2, v3, v4, v5, v6, v7, v8)
           /\ RunQuestion(Run(v0, v1, v2, v3, v4, v5, v6, v7, v8), x) = Run(v0, v1, x, v3, v4, v5, v6, v7, v8)
           /\ RunCalls(Run(v0, v1, v2, v3, v4, v5, v6, v7, v8), x) = Run(v0, v1, v2, x, v4, v5, v6, v7, v8)
           /\ RunChunks(Run(v0, v1, v2, v3, v4, v5, v6, v7, v8), x) = Run(v0, v1, v2, v3, x, v5, v6, v7, v8)
           /\ RunAsked(Run(v0, v1, v2, v3, v4, v5, v6, v7, v8), x) = Run(v0, v1, v2, v3, v4, x, v6, v7, v8)
           /\ RunSources(Run(v0, v1, v2, v3, v4, v5, v6, v7, v8), x) = Run(v0, v1, v2, v3, v4, v5, x, v7, v8)
           /\ RunTold(Run(v0, v1, v2, v3, v4, v5, v6, v7, v8), x) = Run(v0, v1, v2, v3, v4, v5, v6, x, v8)
           /\ RunKind(Run(v0, v1, v2, v3, v4, v5, v6, v7, v8), x) = Run(v0, v1, v2, v3, v4, v5, v6, v7, x)
<1>1. RunStage(Run(v0, v1, v2, v3, v4, v5, v6, v7, v8), x) = Run(x, v1, v2, v3, v4, v5, v6, v7, v8)
  BY DEF Run, RunStage
<1>2. RunAttempt(Run(v0, v1, v2, v3, v4, v5, v6, v7, v8), x) = Run(v0, x, v2, v3, v4, v5, v6, v7, v8)
  BY DEF Run, RunAttempt
<1>3. RunQuestion(Run(v0, v1, v2, v3, v4, v5, v6, v7, v8), x) = Run(v0, v1, x, v3, v4, v5, v6, v7, v8)
  BY DEF Run, RunQuestion
<1>4. RunCalls(Run(v0, v1, v2, v3, v4, v5, v6, v7, v8), x) = Run(v0, v1, v2, x, v4, v5, v6, v7, v8)
  BY DEF Run, RunCalls
<1>5. RunChunks(Run(v0, v1, v2, v3, v4, v5, v6, v7, v8), x) = Run(v0, v1, v2, v3, x, v5, v6, v7, v8)
  BY DEF Run, RunChunks
<1>6. RunAsked(Run(v0, v1, v2, v3, v4, v5, v6, v7, v8), x) = Run(v0, v1, v2, v3, v4, x, v6, v7, v8)
  BY DEF Run, RunAsked
<1>7. RunSources(Run(v0, v1, v2, v3, v4, v5, v6, v7, v8), x) = Run(v0, v1, v2, v3, v4, v5, x, v7, v8)
  BY DEF Run, RunSources
<1>8. RunTold(Run(v0, v1, v2, v3, v4, v5, v6, v7, v8), x) = Run(v0, v1, v2, v3, v4, v5, v6, x, v8)
  BY DEF Run, RunTold
<1>9. RunKind(Run(v0, v1, v2, v3, v4, v5, v6, v7, v8), x) = Run(v0, v1, v2, v3, v4, v5, v6, v7, x)
  BY DEF Run, RunKind
<1> QED
  BY <1>1, <1>2, <1>3, <1>4, <1>5, <1>6, <1>7, <1>8, <1>9

----------------------------------------------------------------------------
(* judge_utterance *)

\* Calls that succeeded, as far as they go.
OkCalls ==
    {<<>>, <<Call("judge.decide", "OK")>>,
     <<Call("judge.decide", "OK"), Call("llm.generate", "OK")>>,
     <<Call("judge.decide", "OK"), Call("llm.generate", "OK"), Call("records.search", "OK")>>,
     <<Call("judge.decide", "OK"), Call("llm.generate", "OK"), Call("records.search", "OK"),
       Call("llm.generate", "OK")>>}

\* The calls behind a judgement that goes on, at each of its stages.
CallsAt(stage) ==
    CASE stage = "JUDGING" -> <<>>
      [] stage = "QUERYING" -> <<Call("judge.decide", "OK")>>
      [] stage = "SEARCHING" -> <<Call("judge.decide", "OK"), Call("llm.generate", "OK")>>
      [] OTHER -> <<Call("judge.decide", "OK"), Call("llm.generate", "OK"), Call("records.search", "OK")>>

\* The last call failed, and those before it succeeded.
FailedLast(calls) ==
    \E before \in OkCalls, tool \in {"judge.decide", "llm.generate", "records.search"},
       status \in {"FAILED", "TIMEOUT"} : calls = Append(before, Call(tool, status))

Candidates == UNION {ToSet(c) : c \in CandidateLists}

JudgeStages == {"JUDGING", "QUERYING", "SEARCHING", "ANSWERING"}

AnswerRests(run) ==
    /\ run.calls = <<Call("judge.decide", "OK"), Call("llm.generate", "OK"),
                     Call("records.search", "OK"), Call("llm.generate", "OK")>>
    /\ run.sources # {} /\ run.sources \subseteq {c.source : c \in ToSet(run.chunks)}
    /\ run.told

JudgeInv(run) ==
    /\ IsRun(run)
    /\ run.kind \in Judgements /\ run.stage \in JudgeStages /\ run.attempt \in 0..DEFAULT_MAX_RETRIES
    /\ run.asked \in SUBSET {"recap", "attendance"}
    /\ run.chunks \in Seq(Candidates)
    /\ run.calls \in OkCalls \/ (run.kind = "error" /\ FailedLast(run.calls))
    /\ run.kind = "none" => run.calls = CallsAt(run.stage)
    /\ run.kind = "NO_LOOKUP" => run.calls = <<Call("judge.decide", "OK")>>
    /\ run.kind = "error" /\ run.stage \in {"SEARCHING", "ANSWERING"} => FailedLast(run.calls)
    /\ run.kind = "ANSWER" => AnswerRests(run)

LEMMA CallsOfStages ==
    /\ CallsAt("JUDGING") = <<>>
    /\ CallsAt("QUERYING") = <<Call("judge.decide", "OK")>>
    /\ CallsAt("SEARCHING") = <<Call("judge.decide", "OK"), Call("llm.generate", "OK")>>
    /\ CallsAt("ANSWERING") = <<Call("judge.decide", "OK"), Call("llm.generate", "OK"), Call("records.search", "OK")>>
    /\ \A stage \in JudgeStages : CallsAt(stage) \in OkCalls
<1>1. /\ CallsAt("JUDGING") = <<>>
      /\ CallsAt("QUERYING") = <<Call("judge.decide", "OK")>>
      /\ CallsAt("SEARCHING") = <<Call("judge.decide", "OK"), Call("llm.generate", "OK")>>
      /\ CallsAt("ANSWERING") = <<Call("judge.decide", "OK"), Call("llm.generate", "OK"), Call("records.search", "OK")>>
  BY DEF CallsAt
<1>2. \A stage \in JudgeStages : CallsAt(stage) \in OkCalls
  BY <1>1, Zenon DEF JudgeStages, OkCalls
<1> QED
  BY <1>1, <1>2

LEMMA AppendIs ==
    ASSUME NEW A, NEW s \in Seq(A), NEW x \in A, NEW t \in Seq(A), Len(t) = Len(s) + 1,
           \A i \in 1..Len(s) : t[i] = s[i], t[Len(s) + 1] = x
    PROVE  Append(s, x) = t
<1>1. Len(s) \in Nat /\ Len(Append(s, x)) = Len(s) + 1 /\ Append(s, x) \in Seq(A)
  OBVIOUS
<1>2. \A i \in 1..Len(s) + 1 : i \in 1..Len(s) \/ i = Len(s) + 1
  BY <1>1
<1>3. \A i \in 1..Len(s) : Append(s, x)[i] = s[i]
  OBVIOUS
<1>4. Append(s, x)[Len(s) + 1] = x
  OBVIOUS
<1>5. \A i \in 1..Len(s) + 1 : Append(s, x)[i] = t[i]
  BY <1>2, <1>3, <1>4
<1>6. Len(Append(s, x)) = Len(t) /\ \A i \in 1..Len(Append(s, x)) : Append(s, x)[i] = t[i]
  BY <1>1, <1>5
<1> QED
  BY <1>1, <1>6, SeqEqual

\* One more call that succeeded.
LEMMA NextCalls ==
    /\ Append(CallsAt("JUDGING"), Call("judge.decide", "OK")) = CallsAt("QUERYING")
    /\ Append(CallsAt("QUERYING"), Call("llm.generate", "OK")) = CallsAt("SEARCHING")
    /\ Append(CallsAt("SEARCHING"), Call("records.search", "OK")) = CallsAt("ANSWERING")
    /\ Append(CallsAt("ANSWERING"), Call("llm.generate", "OK"))
          = <<Call("judge.decide", "OK"), Call("llm.generate", "OK"), Call("records.search", "OK"),
              Call("llm.generate", "OK")>>
<1>1. ASSUME NEW a, NEW b, NEW c, NEW d
      PROVE  /\ Append(<<>>, a) = <<a>> /\ Append(<<a>>, b) = <<a, b>>
             /\ Append(<<a, b>>, c) = <<a, b, c>> /\ Append(<<a, b, c>>, d) = <<a, b, c, d>>
  <2>1. Append(<<>>, a) = <<a>>
    OBVIOUS
  <2>5. PICK A : A = {a, b, c, d}
    OBVIOUS
  <2>6. a \in A /\ b \in A /\ c \in A /\ d \in A
    BY <2>5
  <2>7. <<a>> \in Seq(A) /\ <<a, b>> \in Seq(A) /\ <<a, b, c>> \in Seq(A)
    BY <2>6
  <2>2. Append(<<a>>, b) = <<a, b>>
    <3>1. PICK s, t : s = <<a>> /\ t = <<a, b>>
      OBVIOUS
    <3>2. s \in Seq(A) /\ t \in Seq(A) /\ Len(s) = 1 /\ Len(t) = 2
      BY <2>6, <3>1
    <3>3. s[1] = t[1] /\ t[2] = b
      BY <3>1
    <3>4. \A i \in 1..1 : i = 1
      OBVIOUS
    <3>5. \A i \in 1..1 : t[i] = s[i]
      BY <3>3, <3>4
    <3>7. Len(t) = Len(s) + 1
      BY <3>2
    <3>8. \A i \in 1..Len(s) : t[i] = s[i]
      BY <3>2, <3>5
    <3>9. t[Len(s) + 1] = b
      <4>1. Len(s) + 1 = Len(t)
        BY <3>7
      <4> QED
        BY <3>2, <3>3, <4>1
    <3>6. Append(s, b) = t
      BY <2>6, <3>2, <3>7, <3>8, <3>9, AppendIs
    <3> QED
      BY <3>1, <3>6
  <2>3. Append(<<a, b>>, c) = <<a, b, c>>
    <3>1. PICK s, t : s = <<a, b>> /\ t = <<a, b, c>>
      OBVIOUS
    <3>2. s \in Seq(A) /\ t \in Seq(A) /\ Len(s) = 2 /\ Len(t) = 3
      BY <2>6, <3>1
    <3>3. s[1] = t[1] /\ s[2] = t[2] /\ t[3] = c
      BY <3>1
    <3>4. \A i \in 1..2 : i = 1 \/ i = 2
      OBVIOUS
    <3>5. \A i \in 1..2 : t[i] = s[i]
      BY <3>3, <3>4
    <3>7. Len(t) = Len(s) + 1
      BY <3>2
    <3>8. \A i \in 1..Len(s) : t[i] = s[i]
      BY <3>2, <3>5
    <3>9. t[Len(s) + 1] = c
      <4>1. Len(s) + 1 = Len(t)
        BY <3>7
      <4> QED
        BY <3>2, <3>3, <4>1
    <3>6. Append(s, c) = t
      BY <2>6, <3>2, <3>7, <3>8, <3>9, AppendIs
    <3> QED
      BY <3>1, <3>6
  <2>4. Append(<<a, b, c>>, d) = <<a, b, c, d>>
    <3>1. PICK s, t : s = <<a, b, c>> /\ t = <<a, b, c, d>>
      OBVIOUS
    <3>2. s \in Seq(A) /\ t \in Seq(A) /\ Len(s) = 3 /\ Len(t) = 4
      BY <2>6, <3>1
    <3>3. s[1] = t[1] /\ s[2] = t[2] /\ s[3] = t[3] /\ t[4] = d
      BY <3>1
    <3>4. \A i \in 1..3 : i = 1 \/ i = 2 \/ i = 3
      OBVIOUS
    <3>5. \A i \in 1..3 : t[i] = s[i]
      BY <3>3, <3>4
    <3>7. Len(t) = Len(s) + 1
      BY <3>2
    <3>8. \A i \in 1..Len(s) : t[i] = s[i]
      BY <3>2, <3>5
    <3>9. t[Len(s) + 1] = d
      <4>1. Len(s) + 1 = Len(t)
        BY <3>7
      <4> QED
        BY <3>2, <3>3, <4>1
    <3>6. Append(s, d) = t
      BY <2>6, <3>2, <3>7, <3>8, <3>9, AppendIs
    <3> QED
      BY <3>1, <3>6
  <2> QED
    BY <2>1, <2>2, <2>3, <2>4
<1>2. PICK j, l, r : j = Call("judge.decide", "OK") /\ l = Call("llm.generate", "OK") /\ r = Call("records.search", "OK")
  OBVIOUS
<1>3. CallsAt("JUDGING") = <<>> /\ CallsAt("QUERYING") = <<j>> /\ CallsAt("SEARCHING") = <<j, l>>
      /\ CallsAt("ANSWERING") = <<j, l, r>>
  BY <1>2, CallsOfStages
<1>4. Append(CallsAt("JUDGING"), j) = CallsAt("QUERYING")
  BY <1>1, <1>3
<1>5. Append(CallsAt("QUERYING"), l) = CallsAt("SEARCHING")
  BY <1>1, <1>3
<1>6. Append(CallsAt("SEARCHING"), r) = CallsAt("ANSWERING")
  BY <1>1, <1>3
<1>7. Append(CallsAt("ANSWERING"), l) = <<j, l, r, l>>
  BY <1>1, <1>3
<1> QED
  BY <1>2, <1>4, <1>5, <1>6, <1>7

LEMMA JudgeInvInit == JudgeInit => JudgeInv(judge)
<1> SUFFICES ASSUME JudgeInit PROVE JudgeInv(judge)
  OBVIOUS
<1>1. judge = Run("JUDGING", 0, "none", <<>>, <<>>, {}, {}, FALSE, "none")
  BY DEF JudgeInit, new_run, Run
<1>2. /\ judge.stage = "JUDGING" /\ judge.attempt = 0 /\ judge.question = "none" /\ judge.calls = <<>>
      /\ judge.chunks = <<>> /\ judge.asked = {} /\ judge.sources = {} /\ judge.told = FALSE /\ judge.kind = "none"
  BY <1>1 DEF Run
<1>3. IsRun(judge)
  BY <1>1, <1>2 DEF IsRun
<1>4. 0 \in 0..DEFAULT_MAX_RETRIES /\ <<>> \in Seq(Candidates) /\ {} \in SUBSET {"recap", "attendance"}
  BY JudgeAssumption
<1>5. "none" \in Judgements /\ "JUDGING" \in JudgeStages /\ "none" # "NO_LOOKUP" /\ "none" # "error" /\ "none" # "ANSWER"
  BY DEF Judgements, JudgeStages
<1>6. <<>> \in OkCalls
  BY DEF OkCalls
<1> QED
  BY <1>2, <1>3, <1>4, <1>5, <1>6, CallsOfStages, Zenon DEF JudgeInv

\* What an action leaves of a run, with another outcome and other calls.
LEMMA RunParts ==
    ASSUME NEW r, JudgeInv(r)
    PROVE  /\ IsRun(r) /\ r.stage \in JudgeStages /\ r.attempt \in 0..DEFAULT_MAX_RETRIES
           /\ r.asked \in SUBSET {"recap", "attendance"} /\ r.chunks \in Seq(Candidates)
           /\ r.kind = "none" => r.calls = CallsAt(r.stage)
BY Zenon DEF JudgeInv

\* A run rebuilt out of fields that fit.
LEMMA GoingOn ==
    ASSUME NEW stage \in JudgeStages, NEW attempt \in 0..DEFAULT_MAX_RETRIES, NEW question,
           NEW chunks \in Seq(Candidates), NEW asked \in SUBSET {"recap", "attendance"}, NEW sources, NEW told,
           NEW t, t = Run(stage, attempt, question, CallsAt(stage), chunks, asked, sources, told, "none")
    PROVE  JudgeInv(t)
<1>1. /\ t.stage = stage /\ t.attempt = attempt /\ t.question = question /\ t.calls = CallsAt(stage)
      /\ t.chunks = chunks /\ t.asked = asked /\ t.sources = sources /\ t.told = told /\ t.kind = "none"
  BY DEF Run
<1>2. IsRun(t)
  BY <1>1 DEF IsRun
<1>3. "none" \in Judgements /\ "none" # "NO_LOOKUP" /\ "none" # "error" /\ "none" # "ANSWER"
  BY DEF Judgements
<1>4. t.calls \in OkCalls
  BY <1>1, CallsOfStages, Zenon
<1> QED
  BY <1>1, <1>2, <1>3, <1>4, Zenon DEF JudgeInv

LEMMA Ended ==
    ASSUME NEW stage \in JudgeStages, NEW attempt \in 0..DEFAULT_MAX_RETRIES, NEW question, NEW calls,
           NEW chunks \in Seq(Candidates), NEW asked \in SUBSET {"recap", "attendance"}, NEW sources, NEW told,
           NEW kind \in Judgements \ {"none"},
           NEW t, t = Run(stage, attempt, question, calls, chunks, asked, sources, told, kind),
           calls \in OkCalls \/ (kind = "error" /\ FailedLast(calls)),
           kind = "NO_LOOKUP" => calls = CallsAt("QUERYING"),
           kind = "error" => stage \in {"JUDGING", "QUERYING"} \/ FailedLast(calls),
           kind = "ANSWER" => AnswerRests(t)
    PROVE  JudgeInv(t)
<1>1. /\ t.stage = stage /\ t.attempt = attempt /\ t.question = question /\ t.calls = calls
      /\ t.chunks = chunks /\ t.asked = asked /\ t.sources = sources /\ t.told = told /\ t.kind = kind
  BY DEF Run
<1>2. IsRun(t)
  BY <1>1 DEF IsRun
<1>3. kind \in Judgements /\ kind # "none"
  OBVIOUS
<1>4. kind = "error" /\ stage \in {"SEARCHING", "ANSWERING"} => FailedLast(calls)
  OBVIOUS
<1> QED
  BY <1>1, <1>2, <1>3, <1>4, CallsOfStages, Zenon DEF JudgeInv

\* tool_failed and tool_done, on the fields of a run.
LEMMA ToolFailed ==
    ASSUME NEW r, IsRun(r), NEW tool, NEW status
    PROVE  tool_failed(r, tool, status)
             = Run(r.stage, r.attempt, r.question, Append(r.calls, Call(tool, status)), r.chunks, r.asked,
                   r.sources, r.told, "error")
<1>1. tool_failed(r, tool, status) = RunKind(RunCalls(r, Append(r.calls, Call(tool, status))), "error")
  BY DEF tool_failed, RunKind, RunCalls
<1> QED
  BY <1>1, RunPuts DEF IsRun

LEMMA ToolDone ==
    ASSUME NEW r, IsRun(r), NEW tool
    PROVE  tool_done(r, tool)
             = Run(r.stage, r.attempt, r.question, Append(r.calls, Call(tool, "OK")), r.chunks, r.asked,
                   r.sources, r.told, r.kind)
<1>1. tool_done(r, tool) = RunCalls(r, Append(r.calls, Call(tool, "OK")))
  BY DEF tool_done, RunCalls
<1> QED
  BY <1>1, RunPuts DEF IsRun

LEMMA ToolFailedInv ==
    ASSUME NEW r, JudgeInv(r), r.kind = "none", NEW tool \in {"judge.decide", "llm.generate", "records.search"},
           NEW status \in {"FAILED", "TIMEOUT"}
    PROVE  JudgeInv(tool_failed(r, tool, status))
<1>1. /\ IsRun(r) /\ r.stage \in JudgeStages /\ r.attempt \in 0..DEFAULT_MAX_RETRIES
      /\ r.asked \in SUBSET {"recap", "attendance"} /\ r.chunks \in Seq(Candidates)
      /\ r.calls = CallsAt(r.stage)
  BY RunParts
<1>2. r.calls \in OkCalls
  BY <1>1, CallsOfStages, Zenon
<1>3. FailedLast(Append(r.calls, Call(tool, status)))
  BY <1>2, Zenon DEF FailedLast
<1>4. "error" \in Judgements \ {"none"} /\ "error" # "NO_LOOKUP" /\ "error" # "ANSWER"
  BY DEF Judgements
<1>5. PICK t : t = tool_failed(r, tool, status)
  OBVIOUS
<1>6. t = Run(r.stage, r.attempt, r.question, Append(r.calls, Call(tool, status)), r.chunks, r.asked,
              r.sources, r.told, "error")
  BY <1>1, <1>5, ToolFailed, Zenon
<1>7. JudgeInv(t)
  BY <1>1, <1>3, <1>4, <1>6, Ended
<1> QED
  BY <1>5, <1>7

LEMMA ErrorInv ==
    ASSUME NEW r, JudgeInv(r), r.kind = "none", r.stage \in {"JUDGING", "QUERYING"},
           NEW t, t = [r EXCEPT !.kind = "error"]
    PROVE  JudgeInv(t)
<1>1. /\ IsRun(r) /\ r.stage \in JudgeStages /\ r.attempt \in 0..DEFAULT_MAX_RETRIES
      /\ r.asked \in SUBSET {"recap", "attendance"} /\ r.chunks \in Seq(Candidates)
      /\ r.calls = CallsAt(r.stage)
  BY RunParts
<1>2. r.calls \in OkCalls
  BY <1>1, CallsOfStages, Zenon
<1>3. t = RunKind(r, "error")
  BY DEF RunKind
<1>4. t = Run(r.stage, r.attempt, r.question, r.calls, r.chunks, r.asked, r.sources, r.told, "error")
  BY <1>1, <1>3, RunPuts DEF IsRun
<1>5. "error" \in Judgements \ {"none"} /\ "error" # "NO_LOOKUP" /\ "error" # "ANSWER"
  BY DEF Judgements
<1> QED
  BY <1>1, <1>2, <1>4, <1>5, Ended

LEMMA JevFailsInv ==
    ASSUME JudgeInv(judge), NEW failure, call_jev_fails(failure) PROVE JudgeInv(judge')
<1>1. judge.kind = "none" /\ judge.stage = "JUDGING" /\ judge.calls = <<>>
  BY Zenon DEF call_jev_fails, AtJev
<1>2. /\ IsRun(judge) /\ judge.stage \in JudgeStages /\ judge.attempt \in 0..DEFAULT_MAX_RETRIES
      /\ judge.asked \in SUBSET {"recap", "attendance"} /\ judge.chunks \in Seq(Candidates)
  BY RunParts
<1>3. \/ judge' = [judge EXCEPT !.kind = "untraced"]
      \/ judge.attempt < DEFAULT_MAX_RETRIES /\ judge' = [judge EXCEPT !.attempt = judge.attempt + 1]
      \/ judge' = tool_failed(judge, "judge.decide", "TIMEOUT")
      \/ judge' = tool_failed(judge, "judge.decide", "FAILED")
  BY Zenon DEF call_jev_fails
<1>4. CASE judge' = [judge EXCEPT !.kind = "untraced"]
  <2>1. judge' = RunKind(judge, "untraced")
    BY <1>4 DEF RunKind
  <2>2. judge' = Run(judge.stage, judge.attempt, judge.question, judge.calls, judge.chunks, judge.asked,
                     judge.sources, judge.told, "untraced")
    BY <1>2, <2>1, RunPuts DEF IsRun
  <2>3. "untraced" \in Judgements \ {"none"} /\ "untraced" # "NO_LOOKUP" /\ "untraced" # "ANSWER" /\ "untraced" # "error"
    BY DEF Judgements
  <2>4. judge.calls \in OkCalls
    BY <1>1 DEF OkCalls
  <2> QED
    BY <1>2, <2>2, <2>3, <2>4, Ended
<1>5. CASE judge.attempt < DEFAULT_MAX_RETRIES /\ judge' = [judge EXCEPT !.attempt = judge.attempt + 1]
  <2>1. judge' = RunAttempt(judge, judge.attempt + 1)
    BY <1>5 DEF RunAttempt
  <2>2. judge' = Run(judge.stage, judge.attempt + 1, judge.question, judge.calls, judge.chunks, judge.asked,
                     judge.sources, judge.told, judge.kind)
    BY <1>2, <2>1, RunPuts DEF IsRun
  <2>3. judge.attempt + 1 \in 0..DEFAULT_MAX_RETRIES
    BY <1>2, <1>5, JudgeAssumption
  <2>4. judge.calls = CallsAt(judge.stage)
    BY <1>1, CallsOfStages, Zenon
  <2>5. judge' = Run(judge.stage, judge.attempt + 1, judge.question, CallsAt(judge.stage), judge.chunks, judge.asked,
                     judge.sources, judge.told, "none")
    BY <1>1, <2>2, <2>4, Zenon
  <2> QED
    BY <1>2, <2>3, <2>5, GoingOn
<1>6. CASE judge' = tool_failed(judge, "judge.decide", "TIMEOUT")
  BY <1>1, <1>6, ToolFailedInv
<1>7. CASE judge' = tool_failed(judge, "judge.decide", "FAILED")
  BY <1>1, <1>7, ToolFailedInv
<1> QED
  BY <1>3, <1>4, <1>5, <1>6, <1>7

LEMMA JevAnswersInv ==
    ASSUME JudgeInv(judge), NEW p, call_jev_answers(p) PROVE JudgeInv(judge')
<1>1. judge.kind = "none" /\ judge.stage = "JUDGING"
  BY Zenon DEF call_jev_answers, AtJev
<1>2. /\ IsRun(judge) /\ judge.attempt \in 0..DEFAULT_MAX_RETRIES
      /\ judge.asked \in SUBSET {"recap", "attendance"} /\ judge.chunks \in Seq(Candidates)
      /\ judge.calls = CallsAt("JUDGING")
  BY <1>1, RunParts
<1>3. PICK run : run = tool_done(judge, "judge.decide")
  OBVIOUS
<1>4. run = Run("JUDGING", judge.attempt, judge.question, CallsAt("QUERYING"), judge.chunks, judge.asked,
                judge.sources, judge.told, "none")
  BY <1>1, <1>2, <1>3, ToolDone, NextCalls, Zenon
<1>5. \/ judge' = tool_failed(judge, "judge.decide", "FAILED")
      \/ judge' = [run EXCEPT !.stage = "QUERYING"]
      \/ judge' = [run EXCEPT !.kind = "NO_LOOKUP"]
  BY <1>3, Zenon DEF call_jev_answers
<1>6. CASE judge' = tool_failed(judge, "judge.decide", "FAILED")
  BY <1>1, <1>6, ToolFailedInv
<1>7. CASE judge' = [run EXCEPT !.stage = "QUERYING"]
  <2>1. judge' = RunStage(run, "QUERYING")
    BY <1>7 DEF RunStage
  <2>2. judge' = Run("QUERYING", judge.attempt, judge.question, CallsAt("QUERYING"), judge.chunks, judge.asked,
                     judge.sources, judge.told, "none")
    BY <1>4, <2>1, RunPuts
  <2>3. "QUERYING" \in JudgeStages
    BY DEF JudgeStages
  <2> QED
    BY <1>2, <2>2, <2>3, GoingOn
<1>8. CASE judge' = [run EXCEPT !.kind = "NO_LOOKUP"]
  <2>1. judge' = RunKind(run, "NO_LOOKUP")
    BY <1>8 DEF RunKind
  <2>2. judge' = Run("JUDGING", judge.attempt, judge.question, CallsAt("QUERYING"), judge.chunks, judge.asked,
                     judge.sources, judge.told, "NO_LOOKUP")
    BY <1>4, <2>1, RunPuts
  <2>3. "JUDGING" \in JudgeStages /\ "QUERYING" \in JudgeStages
    BY DEF JudgeStages
  <2>4. "NO_LOOKUP" \in Judgements \ {"none"} /\ "NO_LOOKUP" # "ANSWER" /\ "NO_LOOKUP" # "error"
    BY DEF Judgements
  <2>5. CallsAt("QUERYING") \in OkCalls
    BY <2>3, CallsOfStages
  <2> QED
    BY <1>2, <2>2, <2>3, <2>4, <2>5, Ended
<1> QED
  BY <1>5, <1>6, <1>7, <1>8

LEMMA QueryAnswersInv ==
    ASSUME JudgeInv(judge), NEW query, NEW asked \in SUBSET {"recap", "attendance"}, query_answers(query, asked)
    PROVE  JudgeInv(judge')
<1>1. judge.kind = "none" /\ judge.stage = "QUERYING"
  BY Zenon DEF query_answers
<1>2. /\ IsRun(judge) /\ judge.attempt \in 0..DEFAULT_MAX_RETRIES
      /\ judge.asked \in SUBSET {"recap", "attendance"} /\ judge.chunks \in Seq(Candidates)
      /\ judge.calls = CallsAt("QUERYING")
  BY <1>1, RunParts
<1>3. PICK run : run = tool_done(judge, "llm.generate")
  OBVIOUS
<1>4. run = Run("QUERYING", judge.attempt, judge.question, CallsAt("SEARCHING"), judge.chunks, judge.asked,
                judge.sources, judge.told, "none")
  BY <1>1, <1>2, <1>3, ToolDone, NextCalls, Zenon
<1>5. "QUERYING" \in JudgeStages /\ "SEARCHING" \in JudgeStages
  BY DEF JudgeStages
<1>6. \/ judge' = [run EXCEPT !.kind = "error"]
      \/ judge' = [run EXCEPT !.stage = "SEARCHING", !.question = query, !.asked = asked]
  BY <1>3, Zenon DEF query_answers
<1>7. CASE judge' = [run EXCEPT !.kind = "error"]
  <2>1. judge' = RunKind(run, "error")
    BY <1>7 DEF RunKind
  <2>2. judge' = Run("QUERYING", judge.attempt, judge.question, CallsAt("SEARCHING"), judge.chunks, judge.asked,
                     judge.sources, judge.told, "error")
    BY <1>4, <2>1, RunPuts
  <2>3. "error" \in Judgements \ {"none"} /\ "error" # "NO_LOOKUP" /\ "error" # "ANSWER"
    BY DEF Judgements
  <2>4. CallsAt("SEARCHING") \in OkCalls
    BY <1>5, CallsOfStages
  <2> QED
    BY <1>2, <1>5, <2>2, <2>3, <2>4, Ended
<1>8. CASE judge' = [run EXCEPT !.stage = "SEARCHING", !.question = query, !.asked = asked]
  <2>1. judge' = RunAsked(RunQuestion(RunStage(run, "SEARCHING"), query), asked)
    BY <1>8 DEF RunAsked, RunQuestion, RunStage
  <2>2. judge' = Run("SEARCHING", judge.attempt, query, CallsAt("SEARCHING"), judge.chunks, asked,
                     judge.sources, judge.told, "none")
    BY <1>4, <2>1, RunPuts
  <2> QED
    BY <1>2, <1>5, <2>2, GoingOn
<1> QED
  BY <1>6, <1>7, <1>8

LEMMA SearchFindsInv ==
    ASSUME JudgeInv(judge), NEW candidates \in CandidateLists, NEW year, search_finds(candidates, year)
    PROVE  JudgeInv(judge')
<1>1. judge.kind = "none" /\ judge.stage = "SEARCHING"
  BY Zenon DEF search_finds
<1>2. /\ IsRun(judge) /\ judge.attempt \in 0..DEFAULT_MAX_RETRIES
      /\ judge.asked \in SUBSET {"recap", "attendance"} /\ judge.chunks \in Seq(Candidates)
      /\ judge.calls = CallsAt("SEARCHING")
  BY <1>1, RunParts
<1>3. PICK run : run = tool_done(judge, "records.search")
  OBVIOUS
<1>4. run = Run("SEARCHING", judge.attempt, judge.question, CallsAt("ANSWERING"), judge.chunks, judge.asked,
                judge.sources, judge.told, "none")
  BY <1>1, <1>2, <1>3, ToolDone, NextCalls, Zenon
<1>5. "SEARCHING" \in JudgeStages /\ "ANSWERING" \in JudgeStages
  BY DEF JudgeStages
<1>6. PICK chunks : chunks = select(candidates, judge.asked, year)
  OBVIOUS
<1>7. \/ judge' = [run EXCEPT !.kind = "NOT_FOUND"]
      \/ judge' = [run EXCEPT !.stage = "ANSWERING", !.chunks = chunks]
  BY <1>3, <1>6, Zenon DEF search_finds
<1>8. chunks \in Seq(Candidates)
  <2>1. GoodSelection(candidates, judge.asked, year, chunks)
    BY <1>2, <1>6, SelectIsGood
  <2>2. ToSet(chunks) \subseteq ToSet(candidates)
    BY <2>1, Zenon DEF GoodSelection
  <2>3. ToSet(candidates) \subseteq Candidates
    BY DEF Candidates
  <2>4. chunks \in Seq(ToSet(candidates))
    BY <1>2, <1>6, SelectTyped
  <2> QED
    BY <2>3, <2>4
<1>9. CASE judge' = [run EXCEPT !.kind = "NOT_FOUND"]
  <2>1. judge' = RunKind(run, "NOT_FOUND")
    BY <1>9 DEF RunKind
  <2>2. judge' = Run("SEARCHING", judge.attempt, judge.question, CallsAt("ANSWERING"), judge.chunks, judge.asked,
                     judge.sources, judge.told, "NOT_FOUND")
    BY <1>4, <2>1, RunPuts
  <2>3. "NOT_FOUND" \in Judgements \ {"none"} /\ "NOT_FOUND" # "NO_LOOKUP" /\ "NOT_FOUND" # "ANSWER" /\ "NOT_FOUND" # "error"
    BY DEF Judgements
  <2>4. CallsAt("ANSWERING") \in OkCalls
    BY <1>5, CallsOfStages
  <2> QED
    BY <1>2, <1>5, <2>2, <2>3, <2>4, Ended
<1>10. CASE judge' = [run EXCEPT !.stage = "ANSWERING", !.chunks = chunks]
  <2>1. judge' = RunChunks(RunStage(run, "ANSWERING"), chunks)
    BY <1>10 DEF RunChunks, RunStage
  <2>2. judge' = Run("ANSWERING", judge.attempt, judge.question, CallsAt("ANSWERING"), chunks, judge.asked,
                     judge.sources, judge.told, "none")
    BY <1>4, <2>1, RunPuts
  <2> QED
    BY <1>2, <1>5, <1>8, <2>2, GoingOn
<1> QED
  BY <1>7, <1>9, <1>10

\* What is told of an assessment: all of its claims, or that some are missing.
\* An assessment has the three fields filter_evidence replaces.
IsAssessment(a) ==
    a = [f \in DOMAIN a |-> a[f]] /\ {"facts", "not_found", "conflicts"} \subseteq DOMAIN a

LEMMA AssessmentFilled ==
    ASSUME NEW a, IsAssessment(a), NEW x, NEW y, NEW z
    PROVE  LET t == [a EXCEPT !.facts = x, !.conflicts = y, !.not_found = z]
           IN  t.facts = x /\ t.conflicts = y /\ t.not_found = z
BY DEF IsAssessment

LEMMA FilterTells ==
    ASSUME NEW a, NEW known, IsAssessment(a)
    PROVE  LET filtered == filter_evidence(a, known)
           IN  /\ claims(filtered) \subseteq claims(a)
               /\ filtered.facts \subseteq a.facts /\ filtered.conflicts \subseteq a.conflicts
               /\ filtered.not_found \/ claims(a) = claims(filtered)
               /\ filtered.not_found \/ filtered.facts = a.facts
<1>1. PICK facts : facts = {f \in a.facts : f.supported}
  OBVIOUS
<1>2. PICK conflicts : conflicts = {c \in a.conflicts : known /\ \A f \in c : f.supported}
  OBVIOUS
<1>3. PICK filtered : filtered = filter_evidence(a, known)
  OBVIOUS
<1>4. filtered = [a EXCEPT !.facts = facts, !.conflicts = conflicts,
                           !.not_found = a.not_found \/ (facts # a.facts \/ conflicts # a.conflicts)]
  BY <1>1, <1>2, <1>3, Zenon DEF filter_evidence
<1>5. filtered.facts = facts /\ filtered.conflicts = conflicts
      /\ filtered.not_found = (a.not_found \/ (facts # a.facts \/ conflicts # a.conflicts))
  BY <1>4, AssessmentFilled
<1>6. facts \subseteq a.facts /\ conflicts \subseteq a.conflicts
  BY <1>1, <1>2
<1>7. claims(filtered) \subseteq claims(a)
  BY <1>5, <1>6 DEF claims
<1>8. filtered.not_found \/ claims(a) = claims(filtered)
  <2>1. facts = a.facts /\ conflicts = a.conflicts => claims(filtered) = claims(a)
    BY <1>5, Zenon DEF claims
  <2> QED
    BY <1>5, <2>1, Zenon
<1> QED
  BY <1>3, <1>5, <1>6, <1>7, <1>8, Zenon

\* The sources of an answer are those of everything the assessment claims.
LEMMA AnswerSources ==
    ASSUME NEW a, NEW chunks
    PROVE  answer_sources(build_result(a, chunks)) = UNION {sources_of(f, chunks) : f \in claims(a)}
<1>1. PICK r : r = build_result(a, chunks)
  OBVIOUS
<1>2. r.facts = {sources_of(f, chunks) : f \in a.facts}
      /\ r.conflicts = {{sources_of(f, chunks) : f \in c} : c \in a.conflicts}
  BY <1>1 DEF build_result
<1>3. r.facts \cup UNION r.conflicts = {sources_of(f, chunks) : f \in claims(a)}
  <2>1. ASSUME NEW x \in UNION r.conflicts PROVE \E f \in claims(a) : x = sources_of(f, chunks)
    <3>1. PICK c \in a.conflicts : x \in {sources_of(f, chunks) : f \in c}
      BY <1>2, Zenon
    <3>2. PICK f \in c : x = sources_of(f, chunks)
      BY <3>1, Zenon
    <3> QED
      BY <3>1, <3>2, Zenon DEF claims
  <2>2. ASSUME NEW f \in claims(a) PROVE sources_of(f, chunks) \in r.facts \cup UNION r.conflicts
    <3>1. CASE f \in a.facts
      BY <1>2, <3>1, Zenon
    <3>2. CASE \E c \in a.conflicts : f \in c
      <4>1. PICK c \in a.conflicts : f \in c
        BY <3>2
      <4>2. {sources_of(g, chunks) : g \in c} \in r.conflicts /\ sources_of(f, chunks) \in {sources_of(g, chunks) : g \in c}
        BY <1>2, <4>1, Zenon
      <4> QED
        BY <4>2, Zenon
    <3> QED
      BY <3>1, <3>2, Zenon DEF claims
  <2>3. \A x \in r.facts : \E f \in claims(a) : x = sources_of(f, chunks)
    BY <1>2, Zenon DEF claims
  <2> QED
    BY <2>1, <2>2, <2>3, Zenon
<1> QED
  BY <1>1, <1>3, Zenon DEF answer_sources

LEMMA AnswerComesInv ==
    ASSUME JudgeInv(judge), NEW a, IsAssessment(a), NEW known, answer_comes(a, known) PROVE JudgeInv(judge')
<1>1. judge.kind = "none" /\ judge.stage = "ANSWERING"
  BY Zenon DEF answer_comes
<1>2. /\ IsRun(judge) /\ judge.attempt \in 0..DEFAULT_MAX_RETRIES
      /\ judge.asked \in SUBSET {"recap", "attendance"} /\ judge.chunks \in Seq(Candidates)
      /\ judge.calls = CallsAt("ANSWERING")
  BY <1>1, RunParts
<1>3. PICK filtered : filtered = filter_evidence(a, known)
  OBVIOUS
<1>4. PICK result : result = build_result(filtered, judge.chunks)
  OBVIOUS
<1>5. PICK done : done = tool_done(judge, "llm.generate")
  OBVIOUS
<1>6. PICK calls : calls = Append(CallsAt("ANSWERING"), Call("llm.generate", "OK"))
  OBVIOUS
<1>7. done = Run("ANSWERING", judge.attempt, judge.question, calls, judge.chunks, judge.asked,
                 judge.sources, judge.told, "none")
  BY <1>1, <1>2, <1>5, <1>6, ToolDone, Zenon
<1>8. calls = <<Call("judge.decide", "OK"), Call("llm.generate", "OK"), Call("records.search", "OK"),
                Call("llm.generate", "OK")>> /\ calls \in OkCalls
  BY <1>6, NextCalls, Zenon DEF OkCalls
<1>9. "ANSWERING" \in JudgeStages
  BY DEF JudgeStages
<1>10. CASE ~is_valid(a, judge.chunks)
  <2>1. judge' = tool_failed(judge, "llm.generate", "FAILED")
    BY <1>10, Zenon DEF answer_comes
  <2> QED
    BY <1>1, <2>1, ToolFailedInv
<1>11. CASE is_valid(a, judge.chunks) /\ claims(filtered) = {}
  <2>1. judge' = RunKind(done, "NOT_FOUND")
    BY <1>3, <1>5, <1>11, Zenon DEF answer_comes, RunKind
  <2>2. judge' = Run("ANSWERING", judge.attempt, judge.question, calls, judge.chunks, judge.asked,
                     judge.sources, judge.told, "NOT_FOUND")
    BY <1>7, <2>1, RunPuts
  <2>3. "NOT_FOUND" \in Judgements \ {"none"} /\ "NOT_FOUND" # "NO_LOOKUP" /\ "NOT_FOUND" # "ANSWER" /\ "NOT_FOUND" # "error"
    BY DEF Judgements
  <2> QED
    BY <1>2, <1>8, <1>9, <2>2, <2>3, Ended
<1>12. CASE is_valid(a, judge.chunks) /\ claims(filtered) # {}
  <2>1. PICK sources : sources = answer_sources(result)
    OBVIOUS
  <2>2. PICK told : told = (result.not_found \/ claims(a) = claims(filtered))
    OBVIOUS
  <2>3. judge' = [done EXCEPT !.kind = "ANSWER", !.sources = sources, !.told = told]
    BY <1>3, <1>4, <1>5, <1>12, <2>1, <2>2, Zenon DEF answer_comes
  <2>4. judge' = RunTold(RunSources(RunKind(done, "ANSWER"), sources), told)
    BY <2>3 DEF RunTold, RunSources, RunKind
  <2>5. judge' = Run("ANSWERING", judge.attempt, judge.question, calls, judge.chunks, judge.asked,
                     sources, told, "ANSWER")
    BY <1>7, <2>4, RunPuts
  <2>6. claims(filtered) \subseteq claims(a) /\ (filtered.not_found \/ claims(a) = claims(filtered))
    BY <1>3, FilterTells
  <2>7. told
    <3>1. result.not_found = filtered.not_found
      BY <1>4 DEF build_result
    <3> QED
      BY <2>2, <2>6, <3>1, Zenon
  <2>8. sources = UNION {sources_of(f, judge.chunks) : f \in claims(filtered)}
    BY <1>4, <2>1, AnswerSources
  <2>9. \A f \in claims(filtered) : cites_found(f, judge.chunks)
    BY <1>12, <2>6, Zenon DEF is_valid
  <2>10. \A f \in claims(filtered) : /\ sources_of(f, judge.chunks) # {}
                                     /\ sources_of(f, judge.chunks) \subseteq {c.source : c \in ToSet(judge.chunks)}
    BY <1>2, <2>9, SourcesOfFound
  <2>11. sources # {} /\ sources \subseteq {c.source : c \in ToSet(judge.chunks)}
    <3>1. PICK S : S = {c.source : c \in ToSet(judge.chunks)}
      OBVIOUS
    <3>2. PICK f \in claims(filtered) : TRUE
      BY <1>12
    <3>3. PICK x : x \in sources_of(f, judge.chunks)
      BY <2>10
    <3>4. x \in sources
      BY <2>8, <3>3
    <3>5. \A y \in sources : y \in S
      BY <2>8, <2>10, <3>1
    <3> QED
      BY <3>1, <3>4, <3>5
  <2>12. judge'.calls = calls /\ judge'.sources = sources /\ judge'.chunks = judge.chunks /\ judge'.told = told
    BY <2>5 DEF Run
  <2>13. AnswerRests(judge')
    BY <1>8, <2>7, <2>11, <2>12, Zenon DEF AnswerRests
  <2>14. "ANSWER" \in Judgements \ {"none"} /\ "ANSWER" # "NO_LOOKUP" /\ "ANSWER" # "error"
    BY DEF Judgements
  <2> QED
    BY <1>2, <1>8, <1>9, <2>5, <2>13, <2>14, Ended
<1> QED
  BY <1>10, <1>11, <1>12

LEMMA MeetingAssessed ==
    ASSUME NEW n, NEW a \in MeetingAssessments(n) PROVE IsAssessment(a)
<1> DEFINE good == [ids |-> {1}, supported |-> TRUE]
           F == {{}} \cup {{f} : f \in EvidenceItem(n)} \cup {{good, f} : f \in EvidenceItem(n)}
           C == {{{f, g}} : f \in EvidenceItem(1), g \in [ids : {{n}}, supported : BOOLEAN]}
<1>1. a \in [facts : F, not_found : BOOLEAN, conflicts : {{}}] \cup [facts : {{}}, not_found : BOOLEAN, conflicts : C]
  BY DEF MeetingAssessments
<1>2. ASSUME NEW G, NEW D, a \in [facts : G, not_found : BOOLEAN, conflicts : D] PROVE IsAssessment(a)
  BY <1>2 DEF IsAssessment
<1> HIDE DEF F, C
<1>3. CASE a \in [facts : F, not_found : BOOLEAN, conflicts : {{}}]
  BY <1>2, <1>3
<1>4. CASE a \in [facts : {{}}, not_found : BOOLEAN, conflicts : C]
  BY <1>2, <1>4
<1> QED
  BY <1>1, <1>3, <1>4

LEMMA ToolFailsInv ==
    ASSUME JudgeInv(judge), NEW status \in {"FAILED", "TIMEOUT"}, tool_fails(status) PROVE JudgeInv(judge')
<1>1. judge.kind = "none"
      /\ \/ judge' = tool_failed(judge, "llm.generate", status)
         \/ judge' = tool_failed(judge, "records.search", status)
  BY Zenon DEF tool_fails
<1>2. CASE judge' = tool_failed(judge, "llm.generate", status)
  BY <1>1, <1>2, ToolFailedInv
<1>3. CASE judge' = tool_failed(judge, "records.search", status)
  BY <1>1, <1>3, ToolFailedInv
<1> QED
  BY <1>1, <1>2, <1>3

LEMMA UtteranceInv == JudgeInv(judge) /\ UtteranceNext => JudgeInv(judge')
<1> SUFFICES ASSUME JudgeInv(judge), UtteranceNext PROVE JudgeInv(judge')
  OBVIOUS
<1>1. CASE AtJev /\ \E failure \in HttpFailures : call_jev_fails(failure)
  BY <1>1, JevFailsInv
<1>2. CASE AtJev /\ \E probability \in Probabilities : call_jev_answers(probability)
  BY <1>2, JevAnswersInv
<1>3. CASE judge.stage = "QUERYING" /\ \E q \in QueryTexts, asked \in SUBSET {"recap", "attendance"} :
                                          query_answers(q, asked)
  BY <1>3, QueryAnswersInv
<1>4. CASE judging_times_out
  BY <1>4, ErrorInv, Zenon DEF judging_times_out
<1>5. CASE judge.stage = "SEARCHING" /\ \E c \in CandidateLists, year \in {"", "2025"} : search_finds(c, year)
  BY <1>5, SearchFindsInv
<1>6. CASE judge.stage = "ANSWERING" /\ \E a \in MeetingAssessments(Len(judge.chunks)), known \in BOOLEAN :
                                           answer_comes(a, known)
  BY <1>6, MeetingAssessed, AnswerComesInv
<1>7. CASE \E status \in {"FAILED", "TIMEOUT"} : tool_fails(status)
  BY <1>7, ToolFailsInv
<1> QED
  BY <1>1, <1>2, <1>3, <1>4, <1>5, <1>6, <1>7, Zenon DEF UtteranceNext

LEMMA JudgeInvNext == JudgeInv(judge) /\ [JudgeNext]_judgeVars => JudgeInv(judge')
<1> SUFFICES ASSUME JudgeInv(judge), [JudgeNext]_judgeVars PROVE JudgeInv(judge')
  OBVIOUS
<1>1. CASE UtteranceNext
  BY <1>1, UtteranceInv
<1>2. CASE UNCHANGED judge
  BY <1>2
<1>3. UNCHANGED judgeVars => UNCHANGED judge
  BY DEF judgeVars
<1> QED
  BY <1>1, <1>2, <1>3, Zenon DEF JudgeNext

\* What the traces of the invariant look like from outside.
LEMMA OkCallsTyped ==
    ASSUME NEW calls \in OkCalls
    PROVE  calls \in Seq(ToolCall) /\ \A i \in DOMAIN calls : calls[i] \in ToolCall /\ calls[i].status = "OK"
<1>1. PICK j, l, r : j = Call("judge.decide", "OK") /\ l = Call("llm.generate", "OK") /\ r = Call("records.search", "OK")
  OBVIOUS
<1>2. j \in ToolCall /\ l \in ToolCall /\ r \in ToolCall /\ j.status = "OK" /\ l.status = "OK" /\ r.status = "OK"
  BY <1>1 DEF Call, ToolCall
<1>3. PICK S : S = {c \in ToolCall : c.status = "OK"}
  OBVIOUS
<1>4. j \in S /\ l \in S /\ r \in S
  BY <1>2, <1>3
<1>5. calls \in {<<>>, <<j>>, <<j, l>>, <<j, l, r>>, <<j, l, r, l>>}
  BY <1>1, Zenon DEF OkCalls
<1>6. calls \in Seq(S)
  <2>1. <<>> \in Seq(S)
    OBVIOUS
  <2>2. <<j>> \in Seq(S)
    BY <1>4
  <2>3. <<j, l>> \in Seq(S)
    BY <1>4
  <2>4. <<j, l, r>> \in Seq(S)
    BY <1>4
  <2>5. <<j, l, r, l>> \in Seq(S)
    BY <1>4
  <2> QED
    BY <1>5, <2>1, <2>2, <2>3, <2>4, <2>5, Zenon
<1>7. \A i \in DOMAIN calls : calls[i] \in S
  BY <1>6
<1>8. calls \in Seq(ToolCall)
  BY <1>3, <1>6
<1> QED
  BY <1>3, <1>7, <1>8

LEMMA FailedLastCalls ==
    ASSUME NEW calls, FailedLast(calls)
    PROVE  /\ \A i \in DOMAIN calls : calls[i] \in ToolCall
           /\ \A i \in DOMAIN calls : calls[i].status # "OK" => i = Len(calls)
           /\ Last(calls).status # "OK"
<1>1. PICK before \in OkCalls, tool \in {"judge.decide", "llm.generate", "records.search"},
           status \in {"FAILED", "TIMEOUT"} : calls = Append(before, Call(tool, status))
  BY Zenon DEF FailedLast
<1>2. before \in Seq(ToolCall) /\ \A i \in DOMAIN before : before[i] \in ToolCall /\ before[i].status = "OK"
  BY OkCallsTyped
<1>3. PICK c : c = Call(tool, status)
  OBVIOUS
<1>4. c \in ToolCall /\ c.status # "OK"
  BY <1>3 DEF Call, ToolCall
<1>5. /\ DOMAIN calls = 1..Len(before) + 1 /\ Len(calls) = Len(before) + 1 /\ Len(before) \in Nat
      /\ DOMAIN before = 1..Len(before)
      /\ \A i \in 1..Len(before) : calls[i] = before[i]
      /\ calls[Len(before) + 1] = c
  BY <1>1, <1>2, <1>3, <1>4
<1>6. \A i \in DOMAIN calls : i \in DOMAIN before \/ i = Len(calls)
  BY <1>5
<1>7. \A i \in DOMAIN before : calls[i] \in ToolCall /\ calls[i].status = "OK"
  BY <1>2, <1>5
<1>8. calls[Len(calls)] = c
  BY <1>5
<1> QED
  BY <1>4, <1>6, <1>7, <1>8 DEF Last

LEMMA JudgeInvTrace == JudgeInv(judge) => TraceTellsTheCalls
<1> SUFFICES ASSUME JudgeInv(judge) PROVE TraceTellsTheCalls
  OBVIOUS
<1>1. judge.kind \in Judgements /\ judge.attempt \in 0..DEFAULT_MAX_RETRIES
      /\ judge.asked \in SUBSET {"recap", "attendance"}
      /\ (judge.calls \in OkCalls \/ (judge.kind = "error" /\ FailedLast(judge.calls)))
  BY Zenon DEF JudgeInv
<1>3. \A i \in DOMAIN judge.calls : judge.calls[i] \in ToolCall
  BY <1>1, OkCallsTyped, FailedLastCalls
<1>4. \A i \in DOMAIN judge.calls : judge.calls[i].status # "OK" => i = Len(judge.calls) /\ judge.kind = "error"
  BY <1>1, OkCallsTyped, FailedLastCalls
<1>5. judge.kind = "error" /\ judge.stage \in {"SEARCHING", "ANSWERING"} => Last(judge.calls).status # "OK"
  <2>1. judge.kind = "error" /\ judge.stage \in {"SEARCHING", "ANSWERING"} => FailedLast(judge.calls)
    BY Zenon DEF JudgeInv
  <2> QED
    BY <2>1, FailedLastCalls
<1>6. \A c \in CandidateLists, year \in {"", "2025"} :
         GoodSelection(c, judge.asked, year, select(c, judge.asked, year))
  BY <1>1, SelectIsGood
<1>7. JudgeTypeOK
  BY <1>1, <1>3, Zenon DEF JudgeTypeOK
<1>8. judge.kind = "NO_LOOKUP" => judge.calls = <<Call("judge.decide", "OK")>>
  BY Zenon DEF JudgeInv
<1>9. judge.kind = "ANSWER" => AnswerRests(judge)
  BY Zenon DEF JudgeInv
<1> QED
  BY <1>4, <1>5, <1>6, <1>7, <1>8, <1>9, Zenon DEF TraceTellsTheCalls, AnswerRests

----------------------------------------------------------------------------
(* meeting_event_service.answer *)

EventInv ==
    /\ eventAnswer \in [phase : {"classify", "read", "done", "failed"},
                        intent : MeetingEventIntent \cup {"none"},
                        status : {"none", "clarify", "not_found", "partial", "answered"},
                        shown : Nat, stored : Nat, unknown : BOOLEAN]
    /\ eventAnswer.phase \in {"classify", "read"} => eventAnswer.status = "none"
    /\ eventAnswer.phase = "read" =>
          eventAnswer.intent \in MeetingEventIntent /\ eventAnswer.intent.disposition = "lookup"
    /\ EventAnswerIsHonest

LEMMA EventInvInit == JudgeInit => EventInv
<1> SUFFICES ASSUME JudgeInit PROVE EventInv
  OBVIOUS
<1>1. eventAnswer = NoEventAnswer
  BY DEF JudgeInit
<1> HIDE DEF MeetingEventIntent
<1>2. eventAnswer \in [phase : {"classify", "read", "done", "failed"},
                       intent : MeetingEventIntent \cup {"none"},
                       status : {"none", "clarify", "not_found", "partial", "answered"},
                       shown : Nat, stored : Nat, unknown : BOOLEAN]
  BY <1>1 DEF NoEventAnswer
<1>3. eventAnswer.phase = "classify" /\ eventAnswer.status = "none"
  BY <1>1 DEF NoEventAnswer
<1>4. "classify" # "read" /\ "none" # "answered"
  OBVIOUS
<1> QED
  BY <1>2, <1>3, <1>4, Zenon DEF EventInv, EventAnswerIsHonest

EventStates ==
    [phase : {"classify", "read", "done", "failed"}, intent : MeetingEventIntent \cup {"none"},
     status : {"none", "clarify", "not_found", "partial", "answered"}, shown : Nat, stored : Nat,
     unknown : BOOLEAN]

LEMMA EventTyped == EventInv => eventAnswer \in EventStates
BY DEF EventInv, EventStates

\* A call that has answered, but not with facts, or that goes on.
LEMMA NothingAnswered ==
    ASSUME eventAnswer' \in EventStates, eventAnswer'.status # "answered",
           eventAnswer'.phase \in {"classify", "read"} => eventAnswer'.status = "none",
           eventAnswer'.phase = "read" =>
               eventAnswer'.intent \in MeetingEventIntent /\ eventAnswer'.intent.disposition = "lookup"
    PROVE  EventInv'
BY DEF EventInv, EventStates, EventAnswerIsHonest

LEMMA ClassifyInv ==
    ASSUME EventInv, NEW intent \in MeetingEventIntent, NEW named, classify_meeting_event_facts(intent, named)
    PROVE  EventInv'
<1>1. eventAnswer \in EventStates /\ eventAnswer.phase = "classify" /\ eventAnswer.status = "none"
  BY EventTyped, Zenon DEF EventInv, classify_meeting_event_facts
<1>2. intent.disposition \in {"lookup", "none", "clarify"}
  BY DEF MeetingEventIntent
<1>3. \/ eventAnswer' = [eventAnswer EXCEPT !.phase = "failed"]
      \/ intent.disposition = "lookup" /\ eventAnswer' = [eventAnswer EXCEPT !.phase = "read", !.intent = intent]
      \/ /\ intent.disposition # "lookup"
         /\ eventAnswer' = [eventAnswer EXCEPT !.phase = "done", !.status = intent.disposition]
  BY Zenon DEF classify_meeting_event_facts
<1>4. CASE eventAnswer' = [eventAnswer EXCEPT !.phase = "failed"]
  BY <1>1, <1>4, NothingAnswered DEF EventStates
<1>5. CASE intent.disposition = "lookup" /\ eventAnswer' = [eventAnswer EXCEPT !.phase = "read", !.intent = intent]
  BY <1>1, <1>5, NothingAnswered DEF EventStates
<1>6. CASE /\ intent.disposition # "lookup"
           /\ eventAnswer' = [eventAnswer EXCEPT !.phase = "done", !.status = intent.disposition]
  BY <1>1, <1>2, <1>6, NothingAnswered DEF EventStates
<1> QED
  BY <1>3, <1>4, <1>5, <1>6

LEMMA ReadEventsInv ==
    ASSUME EventInv, NEW stored \in Nat, NEW unknown \in BOOLEAN, read_events(stored, unknown)
    PROVE  EventInv'
<1>1. /\ eventAnswer \in EventStates /\ eventAnswer.phase = "read"
      /\ eventAnswer.intent \in MeetingEventIntent /\ eventAnswer.intent.disposition = "lookup"
  BY EventTyped, Zenon DEF EventInv, read_events
<1>2. PICK intent : intent = eventAnswer.intent
  OBVIOUS
<1>3. PICK rows : rows = IF stored < EventFactsLimit + 1 THEN stored ELSE EventFactsLimit + 1
  OBVIOUS
<1>4. PICK missing : missing = (\/ unknown /\ intent.fields \cap {"dates", "location", "expected_headcount"} # {}
                                \/ "actual_headcount" \in intent.fields)
  OBVIOUS
<1>5. PICK status : status = answer_meeting_event_facts(intent, rows, missing)
  OBVIOUS
<1>6. PICK shown : shown = IF rows < EventFactsLimit THEN rows ELSE EventFactsLimit
  OBVIOUS
<1>7. eventAnswer' = [eventAnswer EXCEPT !.phase = "done", !.status = status, !.shown = shown,
                                         !.stored = stored, !.unknown = unknown]
  BY <1>2, <1>3, <1>4, <1>5, <1>6, Zenon DEF read_events
<1>8. rows \in Nat /\ shown \in Nat /\ EventFactsLimit \in Nat
  BY <1>3, <1>6, JudgeAssumption
<1>9. status \in {"not_found", "partial", "answered"}
  BY <1>5, Zenon DEF answer_meeting_event_facts
<1>10. eventAnswer' \in EventStates
  BY <1>1, <1>7, <1>8, <1>9 DEF EventStates
<1>11. eventAnswer'.phase = "done" /\ eventAnswer'.status = status /\ eventAnswer'.shown = shown
       /\ eventAnswer'.stored = stored /\ eventAnswer'.unknown = unknown /\ eventAnswer'.intent = intent
  BY <1>1, <1>2, <1>7 DEF EventStates
<1>12. CASE status # "answered"
  BY <1>10, <1>11, <1>12, NothingAnswered
<1>13. CASE status = "answered"
  <2>1. rows # 0 /\ rows <= EventFactsLimit /\ ~missing /\ intent.scope # "recent"
    BY <1>5, <1>13 DEF answer_meeting_event_facts
  <2>2. shown = stored /\ stored > 0
    BY <1>3, <1>6, <1>8, <2>1
  <2>3. intent.fields \in SUBSET EventFields /\ intent.fields # {}
    BY <1>1, <1>2 DEF MeetingEventIntent
  <2>4. ASSUME unknown PROVE intent.fields = {"status"}
    <3>1. intent.fields \cap {"dates", "location", "expected_headcount"} = {} /\ "actual_headcount" \notin intent.fields
      BY <1>4, <2>1, <2>4, Zenon
    <3> QED
      BY <2>3, <3>1 DEF EventFields
  <2>5. EventAnswerIsHonest'
    BY <1>11, <2>1, <2>2, <2>4, Zenon DEF EventAnswerIsHonest
  <2>6. "done" # "classify" /\ "done" # "read" /\ "done" \notin {"classify", "read"}
    OBVIOUS
  <2> QED
    BY <1>10, <1>11, <2>5, <2>6, Zenon DEF EventInv, EventStates
<1> QED
  BY <1>12, <1>13

LEMMA EventInvNext == EventInv /\ [JudgeNext]_judgeVars => EventInv'
<1> SUFFICES ASSUME EventInv, [JudgeNext]_judgeVars PROVE EventInv'
  OBVIOUS
<1>1. CASE UNCHANGED eventAnswer
  BY <1>1 DEF EventInv, EventAnswerIsHonest
<1>2. CASE \E i \in MeetingEventIntent, named \in BOOLEAN : classify_meeting_event_facts(i, named)
  BY <1>2, ClassifyInv
<1>3. CASE classify_fails
  <2>1. eventAnswer.phase = "classify" /\ eventAnswer' = [eventAnswer EXCEPT !.phase = "failed"]
        /\ eventAnswer.status = "none" /\ eventAnswer \in EventStates
    BY <1>3, EventTyped, Zenon DEF classify_fails, EventInv
  <2> QED
    BY <2>1, NothingAnswered DEF EventStates
<1>4. CASE \E n \in 0..EventFactsLimit + 2, unknown \in BOOLEAN : read_events(n, unknown)
  <2>1. \A n \in 0..EventFactsLimit + 2 : n \in Nat
    OBVIOUS
  <2> QED
    BY <1>4, <2>1, ReadEventsInv
<1>5. UNCHANGED judgeVars => UNCHANGED eventAnswer
  BY DEF judgeVars
<1> QED
  BY <1>1, <1>2, <1>3, <1>4, <1>5, Zenon DEF JudgeNext, EventFactsNext

----------------------------------------------------------------------------
(* What a reply may cite *)

LEMMA SetToSeqOf ==
    ASSUME NEW S, IsFiniteSet(S)
    PROVE  SetToSeq(S) \in [1..Cardinality(S) -> S] /\ Cardinality(S) \in Nat
<1>1. PICK n \in Nat : ExistsBijection(1..n, S)
  BY FS_NatBijection
<1>2. Cardinality(S) = n
  BY <1>1, FS_CountingElements
<1>3. PICK f \in Bijection(1..n, S) : TRUE
  BY <1>1 DEF ExistsBijection
<1>4. f \in [1..n -> S] /\ \A a, b \in 1..n : f[a] = f[b] => a = b
  <2>1. f \in Injection(1..n, S)
    BY <1>3, Zenon DEF Bijection
  <2> QED
    BY <2>1, Zenon DEF Injection, IsInjective
<1>5. IsInjective(f)
  <2>1. DOMAIN f = 1..n
    BY <1>4
  <2> QED
    BY <1>4, <2>1 DEF IsInjective
<1>6. \E g \in [1..Cardinality(S) -> S] : IsInjective(g)
  BY <1>2, <1>4, <1>5
<1> QED
  BY <1>1, <1>2, <1>6, Zenon DEF SetToSeq

\* Every chunk the model may cite is of a record that was found.
LEMMA ChunksOfFound ==
    ASSUME NEW t, IsFiniteSet(t.lexical), IsFiniteSet(t.semantic)
    PROVE  /\ Len(chunks_of(t)) \in Nat /\ DOMAIN chunks_of(t) = 1..Len(chunks_of(t))
           /\ \A i \in 1..Len(chunks_of(t)) : chunks_of(t)[i].source \in t.lexical \cup t.semantic
<1>1. PICK L, S : L = t.lexical /\ S = t.semantic
  OBVIOUS
<1>2. PICK l, s : l = SetToSeq(L) /\ s = SetToSeq(S)
  OBVIOUS
<1>3. l \in [1..Cardinality(L) -> L] /\ s \in [1..Cardinality(S) -> S] /\ Cardinality(L) \in Nat /\ Cardinality(S) \in Nat
  BY <1>1, <1>2, SetToSeqOf
<1>4. PICK n \in Nat : n = Cardinality(L \cup S) /\ n <= Cardinality(L) + Cardinality(S)
  <2>1. IsFiniteSet(L \cup S) /\ Cardinality(L \cup S) = Cardinality(L) + Cardinality(S) - Cardinality(L \cap S)
    BY <1>1, FS_Union
  <2>2. IsFiniteSet(L \cap S)
    BY <1>1, FS_Intersection
  <2>3. Cardinality(L \cap S) \in Nat /\ Cardinality(L \cup S) \in Nat
    BY <2>1, <2>2, FS_CardinalityType
  <2> QED
    BY <1>3, <2>1, <2>3
<1>5. l \in Seq(L \cup S) /\ s \in Seq(L \cup S) /\ Len(l) = Cardinality(L) /\ Len(s) = Cardinality(S)
  BY <1>3
<1>6. l \o s \in Seq(L \cup S) /\ Len(l \o s) = Len(l) + Len(s)
  BY <1>5
<1>7. \A i \in 1..n : (l \o s)[i] \in L \cup S
  <2>1. \A i \in 1..n : i \in 1..Len(l \o s)
    BY <1>3, <1>4, <1>5, <1>6
  <2>2. \A i \in 1..Len(l \o s) : (l \o s)[i] \in L \cup S
    BY <1>6
  <2> QED
    BY <2>1, <2>2
<1>8. chunks_of(t) = [i \in 1..n |-> [source |-> (l \o s)[i]]]
  BY <1>1, <1>2, <1>4, Zenon DEF chunks_of
<1>9. PICK c : c = chunks_of(t)
  OBVIOUS
<1>10. PICK X : X = {[source |-> x] : x \in L \cup S}
  OBVIOUS
<1>11. \A i \in 1..n : [source |-> (l \o s)[i]] \in X
  BY <1>7, <1>10
<1>12. c \in [1..n -> X]
  BY <1>8, <1>9, <1>11
<1>13. c \in Seq(X) /\ Len(c) = n /\ DOMAIN c = 1..n
  BY <1>12
<1>14. \A i \in 1..n : c[i].source \in L \cup S
  BY <1>10, <1>12
<1> QED
  BY <1>1, <1>9, <1>13, <1>14

----------------------------------------------------------------------------
(* A record with some of its fields replaced, one after the other *)

IsRec(s, D) == s = [f \in D |-> s[f]]
Put(s, k, x) == [s EXCEPT ![k] = x]

LEMMA Put1 ==
    ASSUME NEW D, NEW s, IsRec(s, D), NEW k1 \in D, NEW x1
    PROVE  /\ IsRec(Put(s, k1, x1), D) /\ Put(s, k1, x1)[k1] = x1
           /\ \A j \in D : j # k1 => Put(s, k1, x1)[j] = s[j]
BY DEF IsRec, Put

LEMMA Put2 ==
    ASSUME NEW D, NEW s, IsRec(s, D), NEW k1 \in D, NEW k2 \in D,
           NEW x1, NEW x2,
           k1 # k2,
           NEW t, t = Put(Put(s, k1, x1), k2, x2)
    PROVE  /\ IsRec(t, D) /\ t[k1] = x1 /\ t[k2] = x2
           /\ \A j \in D : j # k1 /\ j # k2 => t[j] = s[j]
<1>1. PICK u : u = Put(s, k1, x1)
  OBVIOUS
<1>2. /\ IsRec(u, D) /\ u[k1] = x1
      /\ \A j \in D : j # k1 => u[j] = s[j]
  BY <1>1, Put1
<1>3. t = Put(u, k2, x2)
  BY <1>1
<1>4. IsRec(t, D) /\ t[k2] = x2 /\ \A j \in D : j # k2 => t[j] = u[j]
  BY <1>2, <1>3, Put1
<1> QED
  BY <1>2, <1>4

LEMMA Put3 ==
    ASSUME NEW D, NEW s, IsRec(s, D), NEW k1 \in D, NEW k2 \in D, NEW k3 \in D,
           NEW x1, NEW x2, NEW x3,
           k1 # k2, k1 # k3, k2 # k3,
           NEW t, t = Put(Put(Put(s, k1, x1), k2, x2), k3, x3)
    PROVE  /\ IsRec(t, D) /\ t[k1] = x1 /\ t[k2] = x2 /\ t[k3] = x3
           /\ \A j \in D : j # k1 /\ j # k2 /\ j # k3 => t[j] = s[j]
<1>1. PICK u : u = Put(Put(s, k1, x1), k2, x2)
  OBVIOUS
<1>2. /\ IsRec(u, D) /\ u[k1] = x1 /\ u[k2] = x2
      /\ \A j \in D : j # k1 /\ j # k2 => u[j] = s[j]
  BY <1>1, Put2
<1>3. t = Put(u, k3, x3)
  BY <1>1
<1>4. IsRec(t, D) /\ t[k3] = x3 /\ \A j \in D : j # k3 => t[j] = u[j]
  BY <1>2, <1>3, Put1
<1> QED
  BY <1>2, <1>4

----------------------------------------------------------------------------
(* The message handler *)

TalkFields ==
    {"at", "context", "follow_up", "ambiguous", "narrowed", "intent", "semantic_status", "lexical", "semantic",
     "attempt", "status", "facts", "lost", "not_found", "clarification", "records", "shown", "stored", "more"}

LEMMA TalkFieldsHave ==
    /\ "at" \in TalkFields /\ "context" \in TalkFields /\ "follow_up" \in TalkFields /\ "ambiguous" \in TalkFields
    /\ "narrowed" \in TalkFields /\ "intent" \in TalkFields /\ "semantic_status" \in TalkFields
    /\ "lexical" \in TalkFields /\ "semantic" \in TalkFields /\ "attempt" \in TalkFields /\ "status" \in TalkFields
    /\ "facts" \in TalkFields /\ "lost" \in TalkFields /\ "not_found" \in TalkFields
    /\ "clarification" \in TalkFields /\ "records" \in TalkFields /\ "shown" \in TalkFields /\ "stored" \in TalkFields /\ "more" \in TalkFields
BY DEF TalkFields

Settled == {"checking", "done", "error"}

\* Nothing is listed before the search, and nothing summed up before or without it.
FoundInv(t) ==
    /\ t.at \in {"start", "resolve", "classify", "asked"} => t.records = NoRecords
    /\ t.at = "searching" => t.records.answer = {}
    /\ t.records.answer # {} => t.semantic_status = "AVAILABLE"

\* What holds of the handler at every step, whatever others do.
TalkInv(t) ==
    /\ IsRec(t, TalkFields) /\ FoundInv(t)
    /\ t.lexical \in SUBSET ToriRecords /\ t.semantic \in SUBSET ToriRecords
    /\ t.facts \subseteq t.lexical \cup t.semantic
    /\ t.ambiguous => ~t.narrowed
    /\ t.shown < t.stored => t.more
    /\ t.clarification => ~t.follow_up /\ t.facts = {}
    /\ t.at \notin Settled => t.facts = {} /\ t.status = "none" /\ ~t.clarification
    /\ t.at # "error" /\ t.status = "answered" =>
          ~t.lost /\ t.facts # {} /\ t.semantic_status # "UNAVAILABLE"

\* What is true of a reply when it leaves, with the records as they are then.
Leaves(t) ==
    t.at = "done" =>
        /\ inClub /\ \A d \in t.facts : Stored(d)
        /\ \A d \in t.records.items : Stored(d)
        /\ t.clarification => t.records = NoRecords /\ \A d \in t.lexical \cup t.semantic : Stored(d)

ToriInv == TalkInv(talk) /\ Leaves(talk)

LEMMA ToriInvReply == ToriInv => ToriAnswersFromRecords
<1> SUFFICES ASSUME ToriInv, talk.at = "done" PROVE ToriAnswersFromRecords
  BY Zenon DEF ToriAnswersFromRecords
<1>1. "done" # "error"
  OBVIOUS
<1>2. \A d \in talk.facts : d \in talk.lexical \cup talk.semantic
  BY Zenon DEF ToriInv, TalkInv
<1>3. talk.records.answer # {} => talk.semantic_status = "AVAILABLE"
  BY Zenon DEF ToriInv, TalkInv, FoundInv
<1> QED
  BY <1>1, <1>2, <1>3, Zenon DEF ToriInv, TalkInv, Leaves, ToriAnswersFromRecords

LEMMA ToriInvInit == ToriInit => ToriInv
<1> SUFFICES ASSUME ToriInit PROVE ToriInv
  OBVIOUS
<1>1. talk = Talk0
  BY DEF ToriInit
<1>2. /\ talk.at = "start" /\ talk.lexical = {} /\ talk.semantic = {} /\ talk.facts = {} /\ talk.status = "none"
      /\ talk.shown = 0 /\ talk.stored = 0
  BY <1>1 DEF Talk0
<1>3. talk.ambiguous = FALSE /\ talk.clarification = FALSE
  BY <1>1 DEF Talk0
<1>4. IsRec(talk, TalkFields)
  BY <1>1 DEF Talk0, IsRec, TalkFields
<1>5. ~(talk.shown < talk.stored)
  BY <1>2
<1>6. talk.at # "done" /\ talk.status # "answered"
  BY <1>2
<1>7. talk.lexical \in SUBSET ToriRecords /\ talk.semantic \in SUBSET ToriRecords
      /\ talk.facts \subseteq talk.lexical \cup talk.semantic
  BY <1>2
<1>8. FoundInv(talk)
  BY <1>1 DEF Talk0, FoundInv, NoRecords
<1> QED
  BY <1>2, <1>3, <1>4, <1>5, <1>6, <1>7, <1>8, Zenon DEF ToriInv, TalkInv, Leaves

\* A step of a handler that has not answered yet and does not answer by it.
LEMMA OpenInv ==
    ASSUME ToriInv, UNCHANGED <<shelf, inClub>>, talk.at \notin Settled, IsRec(talk', TalkFields),
           talk'.lexical \in SUBSET ToriRecords, talk'.semantic \in SUBSET ToriRecords,
           talk'.ambiguous => ~talk'.narrowed, talk'.shown < talk'.stored => talk'.more,
           talk'.facts = talk.facts, talk'.clarification = talk.clarification, talk'.status # "answered",
           talk'.at \in Settled \/ talk'.status = "none", FoundInv(talk'),
           talk'.at = "done" => inClub /\ talk'.records = NoRecords
    PROVE  ToriInv'
<1>1. talk'.facts = {} /\ ~talk'.clarification
  BY Zenon DEF ToriInv, TalkInv
<1>2. TalkInv(talk')
  BY <1>1, Zenon DEF TalkInv
<1>3. NoRecords.items = {}
  BY DEF NoRecords
<1>4. Leaves(talk)'
  BY <1>1, <1>3, Zenon DEF Leaves
<1> QED
  BY <1>2, <1>4, Zenon DEF ToriInv

LEMMA ReceiveInv ==
    ASSUME ToriInv, UNCHANGED <<shelf, inClub>>, NEW context, receive(context) PROVE ToriInv'
<1>1. PICK at : at = IF context THEN "resolve" ELSE "classify"
  OBVIOUS
<1>2. talk.at = "start" /\ talk' = [talk EXCEPT !.at = at, !.context = context]
  BY <1>1, Zenon DEF receive
<1>3. IsRec(talk, TalkFields) /\ FoundInv(talk)
  BY Zenon DEF ToriInv, TalkInv
<1>4. talk' = Put(Put(talk, "at", at), "context", context)
  BY <1>2, Zenon DEF Put
<1>5. /\ IsRec(talk', TalkFields) /\ talk'.at = at /\ talk'.context = context
      /\ \A j \in TalkFields : j # "at" /\ j # "context" => talk'[j] = talk[j]
  BY <1>4, <1>3, TalkFieldsHave, Put2
<1>6. /\ talk'.follow_up = talk.follow_up /\ talk'.ambiguous = talk.ambiguous
      /\ talk'.narrowed = talk.narrowed /\ talk'.semantic_status = talk.semantic_status
      /\ talk'.lexical = talk.lexical /\ talk'.semantic = talk.semantic /\ talk'.status = talk.status
      /\ talk'.facts = talk.facts /\ talk'.lost = talk.lost /\ talk'.clarification = talk.clarification
      /\ talk'.shown = talk.shown /\ talk'.records = talk.records /\ talk'.stored = talk.stored /\ talk'.more = talk.more
  BY <1>5, TalkFieldsHave
<1>7. talk.at \notin Settled /\ at \notin Settled /\ at # "done"
  BY <1>1, <1>2 DEF Settled
<1>8. FoundInv(talk') /\ (talk'.at = "done" => talk'.records = NoRecords)
  BY <1>1, <1>2, <1>3, <1>5, <1>6, <1>7 DEF FoundInv
<1> QED
  BY <1>5, <1>6, <1>7, <1>8, OpenInv, Zenon DEF ToriInv, TalkInv

LEMMA ResolveInv ==
    ASSUME ToriInv, UNCHANGED <<shelf, inClub>>, NEW follow_up, resolve(follow_up) PROVE ToriInv'
<1>1. talk.at = "resolve" /\ IsRec(talk, TalkFields) /\ FoundInv(talk) /\ talk.status = "none"
  BY Zenon DEF resolve, ToriInv, TalkInv, Settled
<1>2. talk.at \notin Settled /\ "asked" \notin Settled /\ "classify" \notin Settled
      /\ "asked" # "done" /\ "classify" # "done" /\ "none" # "answered"
  BY <1>1 DEF Settled
<1>3. CASE follow_up
  <2>1. PICK yes : yes = TRUE
    OBVIOUS
  <2>2. talk' = [talk EXCEPT !.at = "asked", !.follow_up = yes, !.intent = "record_search"]
    BY <1>3, <2>1, Zenon DEF resolve
  <2>3. talk' = Put(Put(Put(talk, "at", "asked"), "follow_up", yes), "intent", "record_search")
    BY <2>2, Zenon DEF Put
  <2>4. /\ IsRec(talk', TalkFields) /\ talk'.at = "asked" /\ talk'.follow_up = yes /\ talk'.intent = "record_search"
        /\ \A j \in TalkFields : j # "at" /\ j # "follow_up" /\ j # "intent" => talk'[j] = talk[j]
    BY <2>3, <1>1, TalkFieldsHave, Put3
  <2>5. /\ talk'.ambiguous = talk.ambiguous /\ talk'.narrowed = talk.narrowed
        /\ talk'.semantic_status = talk.semantic_status /\ talk'.lexical = talk.lexical
        /\ talk'.semantic = talk.semantic /\ talk'.status = talk.status /\ talk'.facts = talk.facts
        /\ talk'.lost = talk.lost /\ talk'.clarification = talk.clarification
        /\ talk'.shown = talk.shown /\ talk'.records = talk.records /\ talk'.stored = talk.stored /\ talk'.more = talk.more
    BY <2>4, TalkFieldsHave
  <2>6. FoundInv(talk') /\ (talk'.at = "done" => talk'.records = NoRecords)
    BY <1>1, <1>2, <2>4, <2>5 DEF FoundInv
  <2> QED
    BY <1>1, <1>2, <2>4, <2>5, <2>6, OpenInv, Zenon DEF ToriInv, TalkInv
<1>4. CASE ~follow_up
  <2>2. talk' = [talk EXCEPT !.at = "classify"]
    BY <1>4, Zenon DEF resolve
  <2>3. talk' = Put(talk, "at", "classify")
    BY <2>2, Zenon DEF Put
  <2>4. /\ IsRec(talk', TalkFields) /\ talk'.at = "classify"
        /\ \A j \in TalkFields : j # "at" => talk'[j] = talk[j]
    BY <2>3, <1>1, TalkFieldsHave, Put1
  <2>5. /\ talk'.follow_up = talk.follow_up /\ talk'.ambiguous = talk.ambiguous
        /\ talk'.narrowed = talk.narrowed /\ talk'.semantic_status = talk.semantic_status
        /\ talk'.lexical = talk.lexical /\ talk'.semantic = talk.semantic /\ talk'.status = talk.status
        /\ talk'.facts = talk.facts /\ talk'.lost = talk.lost
        /\ talk'.clarification = talk.clarification /\ talk'.shown = talk.shown /\ talk'.records = talk.records
        /\ talk'.stored = talk.stored /\ talk'.more = talk.more
    BY <2>4, TalkFieldsHave
  <2>6. FoundInv(talk') /\ (talk'.at = "done" => talk'.records = NoRecords)
    BY <1>1, <1>2, <2>4, <2>5 DEF FoundInv
  <2> QED
    BY <1>1, <1>2, <2>4, <2>5, <2>6, OpenInv, Zenon DEF ToriInv, TalkInv
<1> QED
  BY <1>3, <1>4

LEMMA ClassifyIntentInv ==
    ASSUME ToriInv, UNCHANGED <<shelf, inClub>>, NEW intent, classify_tori_intent(intent) PROVE ToriInv'
<1>1. talk.at = "classify" /\ IsRec(talk, TalkFields) /\ FoundInv(talk) /\ talk' = [talk EXCEPT !.at = "asked", !.intent = intent]
  BY Zenon DEF classify_tori_intent, ToriInv, TalkInv
<1>2. talk.at \notin Settled /\ "asked" \notin Settled /\ "asked" # "done" /\ "none" # "answered"
  BY <1>1 DEF Settled
<1>3. talk' = Put(Put(talk, "at", "asked"), "intent", intent)
  BY <1>1, Zenon DEF Put
<1>4. /\ IsRec(talk', TalkFields) /\ talk'.at = "asked" /\ talk'.intent = intent
      /\ \A j \in TalkFields : j # "at" /\ j # "intent" => talk'[j] = talk[j]
  BY <1>3, <1>1, TalkFieldsHave, Put2
<1>5. /\ talk'.follow_up = talk.follow_up /\ talk'.ambiguous = talk.ambiguous
      /\ talk'.narrowed = talk.narrowed /\ talk'.semantic_status = talk.semantic_status
      /\ talk'.lexical = talk.lexical /\ talk'.semantic = talk.semantic /\ talk'.status = talk.status
      /\ talk'.facts = talk.facts /\ talk'.lost = talk.lost /\ talk'.clarification = talk.clarification
      /\ talk'.shown = talk.shown /\ talk'.records = talk.records /\ talk'.stored = talk.stored /\ talk'.more = talk.more
  BY <1>4, TalkFieldsHave
<1>6. FoundInv(talk') /\ (talk'.at = "done" => talk'.records = NoRecords)
  BY <1>1, <1>2, <1>4, <1>5 DEF FoundInv
<1> QED
  BY <1>2, <1>4, <1>5, <1>6, OpenInv, Zenon DEF ToriInv, TalkInv

LEMMA IntentFailsInv ==
    ASSUME ToriInv, UNCHANGED <<shelf, inClub>>, intent_fails PROVE ToriInv'
<1>1. talk.at \in {"resolve", "classify"} /\ IsRec(talk, TalkFields) /\ FoundInv(talk) /\ talk' = [talk EXCEPT !.at = "error"]
  BY Zenon DEF intent_fails, ToriInv, TalkInv
<1>2. talk.at \notin Settled /\ "error" \in Settled /\ "error" # "done" /\ "none" # "answered"
  BY <1>1 DEF Settled
<1>3. talk' = Put(talk, "at", "error")
  BY <1>1, Zenon DEF Put
<1>4. /\ IsRec(talk', TalkFields) /\ talk'.at = "error"
      /\ \A j \in TalkFields : j # "at" => talk'[j] = talk[j]
  BY <1>3, <1>1, TalkFieldsHave, Put1
<1>5. /\ talk'.follow_up = talk.follow_up /\ talk'.ambiguous = talk.ambiguous
      /\ talk'.narrowed = talk.narrowed /\ talk'.semantic_status = talk.semantic_status
      /\ talk'.lexical = talk.lexical /\ talk'.semantic = talk.semantic /\ talk'.status = talk.status
      /\ talk'.facts = talk.facts /\ talk'.lost = talk.lost /\ talk'.clarification = talk.clarification
      /\ talk'.shown = talk.shown /\ talk'.records = talk.records /\ talk'.stored = talk.stored /\ talk'.more = talk.more
  BY <1>4, TalkFieldsHave
<1>6. FoundInv(talk') /\ (talk'.at = "done" => talk'.records = NoRecords)
  BY <1>1, <1>2, <1>4, <1>5 DEF FoundInv
<1> QED
  BY <1>2, <1>4, <1>5, <1>6, OpenInv, Zenon DEF ToriInv, TalkInv

LEMMA BeginSearchInv ==
    ASSUME ToriInv, UNCHANGED <<shelf, inClub>>, NEW clear, NEW too_long, NEW matching \in SUBSET ToriRecords,
           begin_record_search(clear, too_long, matching)
    PROVE  ToriInv'
<1>1. talk.at = "asked" /\ IsRec(talk, TalkFields) /\ FoundInv(talk) /\ talk.status = "none"
  BY Zenon DEF begin_record_search, ToriInv, TalkInv, Settled
<1>2. talk.at \notin Settled /\ "searching" \notin Settled /\ "searching" # "done" /\ "error" \in Settled
      /\ "done" \in Settled /\ "error" # "done" /\ "none" # "answered"
  BY <1>1 DEF Settled
<1>3. PICK wide, narrow : wide = (talk.follow_up /\ ~clear) /\ narrow = (talk.follow_up /\ clear)
  OBVIOUS
<1>4. wide => ~narrow
  BY <1>3, Zenon
<1>5. PICK t : t = [talk EXCEPT !.ambiguous = wide, !.narrowed = narrow]
  OBVIOUS
<1>6. t = scope_of(talk, clear)
  BY <1>3, <1>5, Zenon DEF scope_of
<1>7. PICK lexical \in FirstOf({d \in matching : Stored(d)}, LexicalLimit) :
         \/ ~inClub /\ talk' = [t EXCEPT !.at = "error"]
         \/ inClub /\ talk' = [t EXCEPT !.at = "done", !.intent = "clarify"]
         \/ \E s, items : inClub /\ talk' = [t EXCEPT !.at = "searching", !.lexical = lexical,
                                  !.records = [items |-> items, answer |-> {}], !.semantic_status = s]
  <2>1. PICK lexical \in FirstOf({d \in matching : Stored(d)}, LexicalLimit) :
           talk' = IF ~inClub THEN [t EXCEPT !.at = "error"]
                   ELSE IF too_long THEN [t EXCEPT !.at = "done", !.intent = "clarify"]
                   ELSE [t EXCEPT !.at = "searching", !.lexical = lexical,
                             !.records = [items |-> {d \in matching : Stored(d)}, answer |-> {}],
                             !.semantic_status = IF \E d \in ToriRecords : shelf[d] = "INDEXED"
                                                 THEN "AVAILABLE" ELSE "NO_INDEXED_RECORDS"]
    BY <1>6, Zenon DEF begin_record_search
  <2> QED
    BY <2>1, Zenon
<1>8. lexical \in SUBSET ToriRecords
  BY <1>7 DEF FirstOf
<1>9. t = Put(Put(talk, "ambiguous", wide), "narrowed", narrow)
  BY <1>5, Zenon DEF Put
<1>10. /\ IsRec(t, TalkFields) /\ t.ambiguous = wide /\ t.narrowed = narrow
      /\ \A j \in TalkFields : j # "ambiguous" /\ j # "narrowed" => t[j] = talk[j]
  BY <1>9, <1>1, TalkFieldsHave, Put2
<1>11. /\ t.at = talk.at /\ t.follow_up = talk.follow_up /\ t.semantic_status = talk.semantic_status
      /\ t.lexical = talk.lexical /\ t.semantic = talk.semantic /\ t.status = talk.status
      /\ t.facts = talk.facts /\ t.lost = talk.lost /\ t.clarification = talk.clarification
      /\ t.shown = talk.shown /\ t.records = talk.records /\ t.stored = talk.stored /\ t.more = talk.more
  BY <1>10, TalkFieldsHave
<1>12. CASE ~inClub /\ talk' = [t EXCEPT !.at = "error"]
  <2>1. talk' = Put(t, "at", "error")
    BY <1>12, Zenon DEF Put
  <2>2. /\ IsRec(talk', TalkFields) /\ talk'.at = "error"
        /\ \A j \in TalkFields : j # "at" => talk'[j] = t[j]
    BY <2>1, <1>10, TalkFieldsHave, Put1
  <2>3. /\ talk'.follow_up = t.follow_up /\ talk'.ambiguous = t.ambiguous /\ talk'.narrowed = t.narrowed
        /\ talk'.semantic_status = t.semantic_status /\ talk'.lexical = t.lexical
        /\ talk'.semantic = t.semantic /\ talk'.status = t.status /\ talk'.facts = t.facts
        /\ talk'.lost = t.lost /\ talk'.clarification = t.clarification /\ talk'.shown = t.shown /\ talk'.records = t.records
        /\ talk'.stored = t.stored /\ talk'.more = t.more
    BY <2>2, TalkFieldsHave
  <2>4. FoundInv(talk') /\ (talk'.at = "done" => talk'.records = NoRecords)
    BY <1>1, <1>2, <1>4, <1>10, <1>11, <2>2, <2>3 DEF FoundInv
  <2> QED
    BY <1>1, <1>2, <1>4, <1>10, <1>11, <2>2, <2>3, <2>4, OpenInv, Zenon DEF ToriInv, TalkInv
<1>13. CASE inClub /\ talk' = [t EXCEPT !.at = "done", !.intent = "clarify"]
  <2>1. talk' = Put(Put(t, "at", "done"), "intent", "clarify")
    BY <1>13, Zenon DEF Put
  <2>2. /\ IsRec(talk', TalkFields) /\ talk'.at = "done" /\ talk'.intent = "clarify"
        /\ \A j \in TalkFields : j # "at" /\ j # "intent" => talk'[j] = t[j]
    BY <2>1, <1>10, TalkFieldsHave, Put2
  <2>3. /\ talk'.follow_up = t.follow_up /\ talk'.ambiguous = t.ambiguous /\ talk'.narrowed = t.narrowed
        /\ talk'.semantic_status = t.semantic_status /\ talk'.lexical = t.lexical
        /\ talk'.semantic = t.semantic /\ talk'.status = t.status /\ talk'.facts = t.facts
        /\ talk'.lost = t.lost /\ talk'.clarification = t.clarification /\ talk'.shown = t.shown /\ talk'.records = t.records
        /\ talk'.stored = t.stored /\ talk'.more = t.more
    BY <2>2, TalkFieldsHave
  <2>4. FoundInv(talk') /\ (talk'.at = "done" => talk'.records = NoRecords)
    BY <1>1, <1>2, <1>4, <1>10, <1>11, <1>13, <2>2, <2>3 DEF FoundInv
  <2> QED
    BY <1>1, <1>2, <1>4, <1>10, <1>11, <1>13, <2>2, <2>3, <2>4, OpenInv, Zenon DEF ToriInv, TalkInv
<1>14. CASE \E s, items : inClub /\ talk' = [t EXCEPT !.at = "searching", !.lexical = lexical,
                             !.records = [items |-> items, answer |-> {}], !.semantic_status = s]
  <2>1. PICK s, items : talk' = [t EXCEPT !.at = "searching", !.lexical = lexical,
                                   !.records = [items |-> items, answer |-> {}], !.semantic_status = s]
    BY <1>14
  <2>2. PICK records : records = [items |-> items, answer |-> {}]
    OBVIOUS
  <2>3. records.answer = {}
    BY <2>2
  <2>4. talk' = Put(Put(Put(Put(t, "at", "searching"), "lexical", lexical), "records", records), "semantic_status", s)
    BY <2>1, <2>2, Zenon DEF Put
  <2>5. /\ IsRec(talk', TalkFields) /\ talk'.at = "searching" /\ talk'.lexical = lexical
        /\ talk'.records = records /\ talk'.semantic_status = s
        /\ \A j \in TalkFields : j # "at" /\ j # "lexical" /\ j # "records" /\ j # "semantic_status" => talk'[j] = t[j]
    <3>1. PICK u : u = Put(Put(t, "at", "searching"), "lexical", lexical)
      OBVIOUS
    <3>2. /\ IsRec(u, TalkFields) /\ u.at = "searching" /\ u.lexical = lexical
          /\ \A j \in TalkFields : j # "at" /\ j # "lexical" => u[j] = t[j]
      BY <3>1, <1>10, TalkFieldsHave, Put2
    <3>3. talk' = Put(Put(u, "records", records), "semantic_status", s)
      BY <2>4, <3>1, Zenon
    <3>4. /\ IsRec(talk', TalkFields) /\ talk'.records = records /\ talk'.semantic_status = s
          /\ \A j \in TalkFields : j # "records" /\ j # "semantic_status" => talk'[j] = u[j]
      BY <3>2, <3>3, TalkFieldsHave, Put2
    <3> QED
      BY <3>2, <3>4, TalkFieldsHave
  <2>6. /\ talk'.follow_up = t.follow_up /\ talk'.ambiguous = t.ambiguous /\ talk'.narrowed = t.narrowed
        /\ talk'.semantic = t.semantic /\ talk'.status = t.status /\ talk'.facts = t.facts
        /\ talk'.lost = t.lost /\ talk'.clarification = t.clarification /\ talk'.shown = t.shown
        /\ talk'.stored = t.stored /\ talk'.more = t.more
    BY <2>5, TalkFieldsHave
  <2>7. FoundInv(talk') /\ (talk'.at = "done" => talk'.records = NoRecords)
    BY <2>3, <2>5 DEF FoundInv
  <2> QED
    BY <1>1, <1>2, <1>4, <1>8, <1>10, <1>11, <2>5, <2>6, <2>7, OpenInv, Zenon DEF ToriInv, TalkInv
<1> QED
  BY <1>7, <1>12, <1>13, <1>14

LEMMA SearchRelatedInv ==
    ASSUME ToriInv, UNCHANGED <<shelf, inClub>>, NEW close \in SUBSET ToriRecords, NEW assessed,
           search_related_records(close, assessed)
    PROVE  ToriInv'
<1>1. PICK searched : searched = IF talk.semantic_status = "AVAILABLE"
                                 THEN {d \in ToriRecords : shelf[d] = "INDEXED"} ELSE {}
  OBVIOUS
<1>2. PICK found, answer : /\ found = close \cap searched
                           /\ answer = IF close \cap searched # {} THEN assessed \cap searched ELSE {}
  OBVIOUS
<1>3. PICK records : records = [items |-> talk.records.items, answer |-> answer]
  OBVIOUS
<1>4. /\ talk.at = "searching" /\ IsRec(talk, TalkFields)
      /\ talk' = [talk EXCEPT !.at = "assessing", !.semantic = found, !.records = records]
  BY <1>1, <1>2, <1>3, Zenon DEF search_related_records, ToriInv, TalkInv
<1>5. found \in SUBSET ToriRecords /\ (answer # {} => talk.semantic_status = "AVAILABLE")
  BY <1>1, <1>2
<1>6. records.answer = answer
  BY <1>3
<1>7. talk.at \notin Settled /\ "assessing" \notin Settled /\ "assessing" # "done" /\ "none" # "answered"
  BY <1>4 DEF Settled
<1>8. talk' = Put(Put(Put(talk, "at", "assessing"), "semantic", found), "records", records)
  BY <1>4, Zenon DEF Put
<1>9. /\ IsRec(talk', TalkFields) /\ talk'.at = "assessing" /\ talk'.semantic = found /\ talk'.records = records
      /\ \A j \in TalkFields : j # "at" /\ j # "semantic" /\ j # "records" => talk'[j] = talk[j]
  BY <1>8, <1>4, TalkFieldsHave, Put3
<1>10. /\ talk'.follow_up = talk.follow_up /\ talk'.ambiguous = talk.ambiguous
      /\ talk'.narrowed = talk.narrowed /\ talk'.semantic_status = talk.semantic_status
      /\ talk'.lexical = talk.lexical /\ talk'.status = talk.status /\ talk'.facts = talk.facts
      /\ talk'.lost = talk.lost /\ talk'.clarification = talk.clarification /\ talk'.shown = talk.shown
      /\ talk'.stored = talk.stored /\ talk'.more = talk.more
  BY <1>9, TalkFieldsHave
<1>11. FoundInv(talk') /\ talk'.at # "done"
  BY <1>5, <1>6, <1>9, <1>10 DEF FoundInv
<1> QED
  BY <1>5, <1>7, <1>9, <1>10, <1>11, OpenInv, Zenon DEF ToriInv, TalkInv

LEMMA SearchRelatedFailsInv ==
    ASSUME ToriInv, UNCHANGED <<shelf, inClub>>, search_related_fails PROVE ToriInv'
<1>1. talk.at = "searching" /\ IsRec(talk, TalkFields) /\ FoundInv(talk)
      /\ talk' = [talk EXCEPT !.at = "assessing", !.semantic_status = "UNAVAILABLE"]
  BY Zenon DEF search_related_fails, ToriInv, TalkInv
<1>2. talk.at \notin Settled /\ "assessing" \notin Settled /\ "assessing" # "done" /\ "none" # "answered"
  BY <1>1 DEF Settled
<1>3. talk' = Put(Put(talk, "at", "assessing"), "semantic_status", "UNAVAILABLE")
  BY <1>1, Zenon DEF Put
<1>4. /\ IsRec(talk', TalkFields) /\ talk'.at = "assessing" /\ talk'.semantic_status = "UNAVAILABLE"
      /\ \A j \in TalkFields : j # "at" /\ j # "semantic_status" => talk'[j] = talk[j]
  BY <1>3, <1>1, TalkFieldsHave, Put2
<1>5. /\ talk'.follow_up = talk.follow_up /\ talk'.ambiguous = talk.ambiguous
      /\ talk'.narrowed = talk.narrowed /\ talk'.lexical = talk.lexical
      /\ talk'.semantic = talk.semantic /\ talk'.status = talk.status /\ talk'.facts = talk.facts
      /\ talk'.lost = talk.lost /\ talk'.clarification = talk.clarification /\ talk'.shown = talk.shown /\ talk'.records = talk.records
      /\ talk'.stored = talk.stored /\ talk'.more = talk.more
  BY <1>4, TalkFieldsHave
<1>6. FoundInv(talk') /\ (talk'.at = "done" => talk'.records = NoRecords)
  BY <1>1, <1>2, <1>4, <1>5 DEF FoundInv
<1> QED
  BY <1>2, <1>4, <1>5, <1>6, OpenInv, Zenon DEF ToriInv, TalkInv

LEMMA KeepCurrentInv ==
    ASSUME ToriInv, UNCHANGED <<shelf, inClub>>, keep_current PROVE ToriInv'
<1>1. talk.at = "assessing" /\ IsRec(talk, TalkFields) /\ FoundInv(talk) /\ talk.status = "none"
  BY Zenon DEF keep_current, ToriInv, TalkInv, Settled
<1>2. talk.at \notin Settled /\ "answering" \notin Settled /\ "checking" \in Settled /\ "error" \in Settled
      /\ "answering" # "done" /\ "checking" # "done" /\ "error" # "done"
      /\ "none" # "answered" /\ "failed" # "answered" /\ "insufficient" # "answered"
  BY <1>1 DEF Settled
<1>3. PICK lexical, semantic : lexical = {d \in talk.lexical : Stored(d)}
                               /\ semantic = {d \in talk.semantic \ lexical : shelf[d] = "INDEXED"}
  OBVIOUS
<1>4. PICK items, records : /\ items = talk.records.items \cup {d \in talk.semantic : shelf[d] = "INDEXED"}
                            /\ records = [items |-> items, answer |-> talk.records.answer]
  OBVIOUS
<1>5. PICK t : t = [talk EXCEPT !.records = records]
  OBVIOUS
<1>6. PICK chosen \in FirstOf(semantic, AnswerLimit - Cardinality(lexical)) :
         \/ talk' = [talk EXCEPT !.at = "error"]
         \/ talk' = [t EXCEPT !.at = "answering", !.lexical = lexical, !.semantic = chosen]
         \/ \E s \in {"failed", "insufficient"} :
               talk' = [t EXCEPT !.at = "checking", !.lexical = {}, !.semantic = {}, !.status = s]
  <2>1. PICK chosen \in FirstOf(semantic, AnswerLimit - Cardinality(lexical)) :
           talk' = IF ~inClub THEN [talk EXCEPT !.at = "error"]
                   ELSE IF lexical \cup chosen # {}
                        THEN [t EXCEPT !.at = "answering", !.lexical = lexical, !.semantic = chosen]
                        ELSE [t EXCEPT !.at = "checking", !.lexical = {}, !.semantic = {},
                                !.status = IF talk.semantic_status = "UNAVAILABLE"
                                           THEN "failed" ELSE "insufficient"]
    BY <1>3, <1>4, <1>5, Zenon DEF keep_current
  <2>2. PICK s \in {"failed", "insufficient"} :
           s = IF talk.semantic_status = "UNAVAILABLE" THEN "failed" ELSE "insufficient"
    OBVIOUS
  <2> QED
    BY <2>1, <2>2, Zenon
<1>7. lexical \in SUBSET ToriRecords /\ chosen \in SUBSET ToriRecords
  <2>1. talk.lexical \in SUBSET ToriRecords /\ talk.semantic \in SUBSET ToriRecords
    BY Zenon DEF ToriInv, TalkInv
  <2>2. chosen \in SUBSET semantic
    BY <1>6, Zenon DEF FirstOf
  <2> QED
    BY <1>3, <2>1, <2>2
<1>8. t = Put(talk, "records", records)
  BY <1>5, Zenon DEF Put
<1>9. IsRec(t, TalkFields) /\ t.records = records /\ \A j \in TalkFields : j # "records" => t[j] = talk[j]
  BY <1>1, <1>8, TalkFieldsHave, Put1
<1>10. /\ t.follow_up = talk.follow_up /\ t.ambiguous = talk.ambiguous
       /\ t.narrowed = talk.narrowed /\ t.semantic_status = talk.semantic_status
       /\ t.status = talk.status /\ t.facts = talk.facts /\ t.lost = talk.lost
       /\ t.clarification = talk.clarification /\ t.shown = talk.shown /\ t.stored = talk.stored /\ t.more = talk.more
  BY <1>9, TalkFieldsHave
<1>11. records.answer = talk.records.answer
  BY <1>4
<1>12. CASE talk' = [talk EXCEPT !.at = "error"]
  <2>1. talk' = Put(talk, "at", "error")
    BY <1>12, Zenon DEF Put
  <2>2. /\ IsRec(talk', TalkFields) /\ talk'.at = "error"
        /\ \A j \in TalkFields : j # "at" => talk'[j] = talk[j]
    BY <2>1, <1>1, TalkFieldsHave, Put1
  <2>3. /\ talk'.follow_up = talk.follow_up /\ talk'.ambiguous = talk.ambiguous
        /\ talk'.narrowed = talk.narrowed /\ talk'.semantic_status = talk.semantic_status
        /\ talk'.lexical = talk.lexical /\ talk'.semantic = talk.semantic /\ talk'.status = talk.status
        /\ talk'.facts = talk.facts /\ talk'.lost = talk.lost
        /\ talk'.clarification = talk.clarification /\ talk'.shown = talk.shown /\ talk'.records = talk.records
        /\ talk'.stored = talk.stored /\ talk'.more = talk.more
    BY <2>2, TalkFieldsHave
  <2>4. FoundInv(talk') /\ (talk'.at = "done" => talk'.records = NoRecords)
    BY <1>1, <1>2, <2>2, <2>3 DEF FoundInv
  <2> QED
    BY <1>1, <1>2, <2>2, <2>3, <2>4, OpenInv, Zenon DEF ToriInv, TalkInv
<1>13. CASE talk' = [t EXCEPT !.at = "answering", !.lexical = lexical, !.semantic = chosen]
  <2>1. talk' = Put(Put(Put(t, "at", "answering"), "lexical", lexical), "semantic", chosen)
    BY <1>13, Zenon DEF Put
  <2>2. /\ IsRec(talk', TalkFields) /\ talk'.at = "answering" /\ talk'.lexical = lexical /\ talk'.semantic = chosen
        /\ \A j \in TalkFields : j # "at" /\ j # "lexical" /\ j # "semantic" => talk'[j] = t[j]
    BY <2>1, <1>9, TalkFieldsHave, Put3
  <2>3. /\ talk'.follow_up = t.follow_up /\ talk'.ambiguous = t.ambiguous
        /\ talk'.narrowed = t.narrowed /\ talk'.semantic_status = t.semantic_status
        /\ talk'.status = t.status /\ talk'.facts = t.facts /\ talk'.lost = t.lost
        /\ talk'.clarification = t.clarification /\ talk'.shown = t.shown /\ talk'.records = t.records
        /\ talk'.stored = t.stored /\ talk'.more = t.more
    BY <2>2, TalkFieldsHave
  <2>4. FoundInv(talk') /\ (talk'.at = "done" => talk'.records = NoRecords)
    BY <1>1, <1>2, <1>7, <1>9, <1>10, <1>11, <2>2, <2>3 DEF FoundInv
  <2> QED
    BY <1>1, <1>2, <1>7, <1>9, <1>10, <1>11, <2>2, <2>3, <2>4, OpenInv, Zenon DEF ToriInv, TalkInv
<1>14. CASE \E s \in {"failed", "insufficient"} :
              talk' = [t EXCEPT !.at = "checking", !.lexical = {}, !.semantic = {}, !.status = s]
  <2>1. PICK s, none :
           s \in {"failed", "insufficient"} /\ none = {} /\ talk' = [t EXCEPT !.at = "checking", !.lexical = none, !.semantic = none, !.status = s]
    BY <1>14
  <2>2. PICK u : u = [t EXCEPT !.at = "checking", !.status = s]
    OBVIOUS
  <2>3. u = Put(Put(t, "at", "checking"), "status", s)
    BY <2>2, Zenon DEF Put
  <2>4. /\ IsRec(u, TalkFields) /\ u.at = "checking" /\ u.status = s
        /\ \A j \in TalkFields : j # "at" /\ j # "status" => u[j] = t[j]
    BY <2>3, <1>9, TalkFieldsHave, Put2
  <2>5. /\ u.follow_up = t.follow_up /\ u.ambiguous = t.ambiguous /\ u.narrowed = t.narrowed
        /\ u.semantic_status = t.semantic_status /\ u.lexical = t.lexical
        /\ u.semantic = t.semantic /\ u.facts = t.facts /\ u.lost = t.lost
        /\ u.clarification = t.clarification /\ u.shown = t.shown /\ u.records = t.records /\ u.stored = t.stored
        /\ u.more = t.more
    BY <2>4, TalkFieldsHave
  <2>6. talk' = [u EXCEPT !.lexical = none, !.semantic = none]
    <3>1. \A f \in TalkFields : IF f \in {"lexical", "semantic"} THEN talk'[f] = none ELSE talk'[f] = u[f]
      BY <1>9, <2>1, <2>2 DEF IsRec, TalkFields
    <3> QED
      BY <1>9, <2>1, <2>2, <2>4 DEF IsRec, TalkFields
  <2>7. talk' = Put(Put(u, "lexical", none), "semantic", none)
    BY <2>6, Zenon DEF Put
  <2>8. /\ IsRec(talk', TalkFields) /\ talk'.lexical = none /\ talk'.semantic = none
        /\ \A j \in TalkFields : j # "lexical" /\ j # "semantic" => talk'[j] = u[j]
    BY <2>7, <2>4, TalkFieldsHave, Put2
  <2>9. /\ talk'.at = u.at /\ talk'.follow_up = u.follow_up /\ talk'.ambiguous = u.ambiguous
        /\ talk'.narrowed = u.narrowed /\ talk'.semantic_status = u.semantic_status
        /\ talk'.status = u.status /\ talk'.facts = u.facts /\ talk'.lost = u.lost
        /\ talk'.clarification = u.clarification /\ talk'.shown = u.shown /\ talk'.records = u.records /\ talk'.stored = u.stored
        /\ talk'.more = u.more
    BY <2>8, TalkFieldsHave
  <2>10. none \in SUBSET ToriRecords /\ s # "answered"
    BY <2>1
  <2>11. FoundInv(talk') /\ (talk'.at = "done" => talk'.records = NoRecords)
    BY <1>1, <1>2, <1>9, <1>10, <1>11, <2>4, <2>5, <2>8, <2>9, <2>10 DEF FoundInv
  <2> QED
    BY <1>1, <1>2, <1>9, <1>10, <1>11, <2>4, <2>5, <2>8, <2>9, <2>10, <2>11, OpenInv, Zenon DEF ToriInv, TalkInv
<1> QED
  BY <1>6, <1>12, <1>13, <1>14

\* What the model answered, when it is taken over: the reply is checked next.
LEMMA CheckingInv ==
    ASSUME ToriInv, IsRec(talk', TalkFields), talk'.at = "checking", FoundInv(talk'),
           talk'.lexical = talk.lexical, talk'.semantic = talk.semantic,
           talk'.facts \subseteq talk.lexical \cup talk.semantic,
           talk'.ambiguous = talk.ambiguous, talk'.narrowed = talk.narrowed,
           talk'.shown = talk.shown, talk'.stored = talk.stored, talk'.more = talk.more,
           talk'.clarification => ~talk'.follow_up /\ talk'.facts = {},
           talk'.status = "answered" => ~talk'.lost /\ talk'.facts # {} /\ talk'.semantic_status # "UNAVAILABLE"
    PROVE  ToriInv'
<1>1. "checking" \in Settled /\ "checking" # "done"
  BY DEF Settled
<1>2. TalkInv(talk')
  BY <1>1, Zenon DEF ToriInv, TalkInv
<1>3. Leaves(talk)'
  BY <1>1, Zenon DEF Leaves
<1> QED
  BY <1>2, <1>3, Zenon DEF ToriInv

LEMMA ToriAssessed ==
    ASSUME NEW n, NEW a \in ToriAssessment(n) PROVE IsAssessment(a)
<1> DEFINE good == [ids |-> {1}, supported |-> TRUE]
           F == {{}} \cup {{f} : f \in EvidenceItem(n)} \cup {{good, f} : f \in EvidenceItem(n)}
<1>1. a \in [asks : BOOLEAN, options : {"none", "valid", "invalid"}, not_found : BOOLEAN, conflicts : {{}}, facts : F]
  BY Zenon DEF ToriAssessment
<1> HIDE DEF F
<1> QED
  BY <1>1 DEF IsAssessment

\* The facts of an answer are records whose chunks were found and cited.
LEMMA AnsweredFacts ==
    ASSUME NEW t, IsFiniteSet(t.lexical), IsFiniteSet(t.semantic), NEW a, IsAssessment(a),
           is_valid(a, chunks_of(t)), NEW result, result = build_result(filter_evidence(a, TRUE), chunks_of(t))
    PROVE  /\ UNION result.facts \subseteq t.lexical \cup t.semantic
           /\ result.facts # {} => UNION result.facts # {}
           /\ result.not_found \/ filter_evidence(a, TRUE).facts = a.facts
<1>1. PICK filtered, chunks, n : filtered = filter_evidence(a, TRUE) /\ chunks = chunks_of(t) /\ n = Len(chunks)
  OBVIOUS
<1>2. \A i \in 1..n : chunks[i].source \in t.lexical \cup t.semantic
  BY <1>1, ChunksOfFound
<1>3. filtered.facts \subseteq a.facts /\ (filtered.not_found \/ filtered.facts = a.facts)
  BY <1>1, FilterTells
<1>4. result.facts = {sources_of(f, chunks) : f \in filtered.facts} /\ result.not_found = filtered.not_found
  BY <1>1 DEF build_result
<1>5. \A f \in filtered.facts : f.ids # {} /\ f.ids \subseteq 1..n
  <2>1. \A f \in a.facts : cites_found(f, chunks)
    BY <1>1, Zenon DEF is_valid, claims
  <2> QED
    BY <1>1, <1>3, <2>1, Zenon DEF cites_found
<1>6. PICK found : found = t.lexical \cup t.semantic
  OBVIOUS
<1>7. \A f \in filtered.facts : sources_of(f, chunks) # {} /\ sources_of(f, chunks) \subseteq found
  BY <1>2, <1>5, <1>6 DEF sources_of
<1>8. \A r \in result.facts : r # {} /\ r \subseteq found
  BY <1>4, <1>7, Zenon
<1>9. UNION result.facts \subseteq found
  BY <1>8, Zenon
<1>10. result.facts # {} => UNION result.facts # {}
  <2>1. ASSUME NEW r \in result.facts PROVE UNION result.facts # {}
    <3>1. PICK d : d \in r
      BY <1>8, <2>1
    <3>2. d \in UNION result.facts
      BY <2>1, <3>1, Zenon
    <3> QED
      BY <3>2, Zenon
  <2> QED
    BY <2>1
<1> QED
  BY <1>1, <1>3, <1>4, <1>6, <1>9, <1>10, Zenon

LEMMA AnswerInv ==
    ASSUME ToriInv, UNCHANGED <<shelf, inClub>>, NEW a, IsAssessment(a), answer_tori_records(a) PROVE ToriInv'
<1>1. talk.at = "answering" /\ IsRec(talk, TalkFields) /\ FoundInv(talk) /\ talk.status = "none" /\ talk.facts = {}
      /\ talk.lexical \in SUBSET ToriRecords /\ talk.semantic \in SUBSET ToriRecords
  BY Zenon DEF answer_tori_records, ToriInv, TalkInv, Settled
<1>2. talk.at \notin Settled /\ "checking" \in Settled /\ "checking" # "done"
      /\ "none" # "answered" /\ "failed" # "answered" /\ "insufficient" # "answered"
  BY <1>1 DEF Settled
<1>3. PICK result : result = build_result(filter_evidence(a, TRUE), chunks_of(talk))
  OBVIOUS
<1>4. PICK lost : lost = (filter_evidence(a, TRUE).facts # a.facts)
  OBVIOUS
<1>5. PICK status : status = answer_status(talk, result)
  OBVIOUS
<1>6. \/ talk' = [talk EXCEPT !.attempt = 2]
      \/ talk' = [talk EXCEPT !.at = "checking", !.status = "failed"]
      \/ well_formed(talk, a) /\ a.asks
         /\ talk' = [talk EXCEPT !.at = "checking", !.clarification = ~talk.follow_up,
                                 !.status = IF talk.follow_up THEN "failed" ELSE "insufficient"]
      \/ is_valid(a, chunks_of(talk))
         /\ talk' = [talk EXCEPT !.at = "checking", !.status = status, !.facts = UNION result.facts,
                                 !.not_found = result.not_found, !.lost = lost]
  BY <1>3, <1>4, <1>5, Zenon DEF answer_tori_records
<1>7. CASE talk' = [talk EXCEPT !.attempt = 2]
  <2>1. talk' = Put(talk, "attempt", 2)
    BY <1>7, Zenon DEF Put
  <2>2. /\ IsRec(talk', TalkFields) /\ talk'.attempt = 2
        /\ \A j \in TalkFields : j # "attempt" => talk'[j] = talk[j]
    BY <2>1, <1>1, TalkFieldsHave, Put1
  <2>3. /\ talk'.at = talk.at /\ talk'.follow_up = talk.follow_up /\ talk'.ambiguous = talk.ambiguous
        /\ talk'.narrowed = talk.narrowed /\ talk'.semantic_status = talk.semantic_status
        /\ talk'.lexical = talk.lexical /\ talk'.semantic = talk.semantic /\ talk'.status = talk.status
        /\ talk'.facts = talk.facts /\ talk'.lost = talk.lost
        /\ talk'.clarification = talk.clarification /\ talk'.shown = talk.shown /\ talk'.records = talk.records
        /\ talk'.stored = talk.stored /\ talk'.more = talk.more
    BY <2>2, TalkFieldsHave
  <2>4. FoundInv(talk') /\ (talk'.at = "done" => talk'.records = NoRecords)
    BY <1>1, <1>2, <2>2, <2>3 DEF FoundInv
  <2> QED
    BY <1>1, <1>2, <2>2, <2>3, <2>4, OpenInv, Zenon DEF ToriInv, TalkInv
<1>8. CASE talk' = [talk EXCEPT !.at = "checking", !.status = "failed"]
  <2>1. talk' = Put(Put(talk, "at", "checking"), "status", "failed")
    BY <1>8, Zenon DEF Put
  <2>2. /\ IsRec(talk', TalkFields) /\ talk'.at = "checking" /\ talk'.status = "failed"
        /\ \A j \in TalkFields : j # "at" /\ j # "status" => talk'[j] = talk[j]
    BY <2>1, <1>1, TalkFieldsHave, Put2
  <2>3. /\ talk'.follow_up = talk.follow_up /\ talk'.ambiguous = talk.ambiguous
        /\ talk'.narrowed = talk.narrowed /\ talk'.semantic_status = talk.semantic_status
        /\ talk'.lexical = talk.lexical /\ talk'.semantic = talk.semantic /\ talk'.facts = talk.facts
        /\ talk'.lost = talk.lost /\ talk'.clarification = talk.clarification
        /\ talk'.shown = talk.shown /\ talk'.records = talk.records /\ talk'.stored = talk.stored /\ talk'.more = talk.more
    BY <2>2, TalkFieldsHave
  <2>4. FoundInv(talk') /\ (talk'.at = "done" => talk'.records = NoRecords)
    BY <1>1, <1>2, <2>2, <2>3 DEF FoundInv
  <2> QED
    BY <1>1, <1>2, <2>2, <2>3, <2>4, OpenInv, Zenon DEF ToriInv, TalkInv
<1>9. CASE well_formed(talk, a) /\ a.asks
           /\ talk' = [talk EXCEPT !.at = "checking", !.clarification = ~talk.follow_up,
                                   !.status = IF talk.follow_up THEN "failed" ELSE "insufficient"]
  <2>1. ~talk.follow_up
    BY <1>9, Zenon DEF well_formed, can_ask
  <2>2. PICK s, yes :
           s \in {"failed", "insufficient"} /\ s = (IF talk.follow_up THEN "failed" ELSE "insufficient") /\ yes = ~talk.follow_up
    OBVIOUS
  <2>7. talk' = [talk EXCEPT !.at = "checking", !.clarification = yes, !.status = s]
    BY <1>9, <2>2, Zenon
  <2>3. talk' = Put(Put(Put(talk, "at", "checking"), "clarification", yes), "status", s)
    BY <2>7, Zenon DEF Put
  <2>4. /\ IsRec(talk', TalkFields) /\ talk'.at = "checking" /\ talk'.clarification = yes /\ talk'.status = s
        /\ \A j \in TalkFields : j # "at" /\ j # "clarification" /\ j # "status" => talk'[j] = talk[j]
    BY <2>3, <1>1, TalkFieldsHave, Put3
  <2>5. /\ talk'.follow_up = talk.follow_up /\ talk'.ambiguous = talk.ambiguous
        /\ talk'.narrowed = talk.narrowed /\ talk'.semantic_status = talk.semantic_status
        /\ talk'.lexical = talk.lexical /\ talk'.semantic = talk.semantic /\ talk'.facts = talk.facts
        /\ talk'.lost = talk.lost /\ talk'.shown = talk.shown /\ talk'.records = talk.records /\ talk'.stored = talk.stored
        /\ talk'.more = talk.more
    BY <2>4, TalkFieldsHave
  <2>6. s # "answered"
    BY <2>2
  <2>8. FoundInv(talk') /\ (talk'.at = "done" => talk'.records = NoRecords)
    BY <1>1, <1>2, <2>1, <2>4, <2>5, <2>6 DEF FoundInv
  <2> QED
    BY <1>1, <1>2, <2>1, <2>4, <2>5, <2>6, <2>8, CheckingInv, Zenon
<1>10. CASE is_valid(a, chunks_of(talk))
            /\ talk' = [talk EXCEPT !.at = "checking", !.status = status, !.facts = UNION result.facts,
                                    !.not_found = result.not_found, !.lost = lost]
  <2>1. PICK facts, missing : facts = UNION result.facts /\ missing = result.not_found
    OBVIOUS
  <2>2. IsFiniteSet(talk.lexical) /\ IsFiniteSet(talk.semantic)
    BY <1>1, ToriAssumption, FS_Subset
  <2>3. /\ facts \subseteq talk.lexical \cup talk.semantic
        /\ result.facts # {} => facts # {}
        /\ missing \/ ~lost
    BY <1>3, <1>4, <1>10, <2>1, <2>2, AnsweredFacts
  <2>4. PICK u : u = [talk EXCEPT !.at = "checking", !.status = status, !.facts = facts]
    OBVIOUS
  <2>5. u = Put(Put(Put(talk, "at", "checking"), "status", status), "facts", facts)
    BY <2>4, Zenon DEF Put
  <2>6. /\ IsRec(u, TalkFields) /\ u.at = "checking" /\ u.status = status /\ u.facts = facts
        /\ \A j \in TalkFields : j # "at" /\ j # "status" /\ j # "facts" => u[j] = talk[j]
    BY <2>5, <1>1, TalkFieldsHave, Put3
  <2>7. /\ u.follow_up = talk.follow_up /\ u.ambiguous = talk.ambiguous /\ u.narrowed = talk.narrowed
        /\ u.semantic_status = talk.semantic_status /\ u.lexical = talk.lexical
        /\ u.semantic = talk.semantic /\ u.lost = talk.lost /\ u.clarification = talk.clarification
        /\ u.shown = talk.shown /\ u.records = talk.records /\ u.stored = talk.stored /\ u.more = talk.more
    BY <2>6, TalkFieldsHave
  <2>8. talk' = [u EXCEPT !.not_found = missing, !.lost = lost]
    BY <1>10, <2>1, <2>4, Zenon
  <2>9. talk' = Put(Put(u, "not_found", missing), "lost", lost)
    BY <2>8, Zenon DEF Put
  <2>10. /\ IsRec(talk', TalkFields) /\ talk'.not_found = missing /\ talk'.lost = lost
        /\ \A j \in TalkFields : j # "not_found" /\ j # "lost" => talk'[j] = u[j]
    BY <2>9, <2>6, TalkFieldsHave, Put2
  <2>11. /\ talk'.at = u.at /\ talk'.follow_up = u.follow_up /\ talk'.ambiguous = u.ambiguous
        /\ talk'.narrowed = u.narrowed /\ talk'.semantic_status = u.semantic_status
        /\ talk'.lexical = u.lexical /\ talk'.semantic = u.semantic /\ talk'.status = u.status
        /\ talk'.facts = u.facts /\ talk'.clarification = u.clarification /\ talk'.shown = u.shown /\ talk'.records = u.records
        /\ talk'.stored = u.stored /\ talk'.more = u.more
    BY <2>10, TalkFieldsHave
  <2>12. status = "answered" => result.facts # {} /\ ~missing /\ talk.semantic_status # "UNAVAILABLE"
    <3>1. "insufficient" # "answered" /\ "partial" # "answered"
      OBVIOUS
    <3> QED
      BY <1>5, <2>1, <3>1, Zenon DEF answer_status
  <2>13. talk'.at = "checking" /\ talk'.facts = facts /\ talk'.status = status /\ talk'.lost = lost
         /\ talk'.semantic_status = talk.semantic_status /\ talk'.clarification = talk.clarification
    BY <2>6, <2>7, <2>10, <2>11, Zenon
  <2>14. ~talk.clarification
    BY <1>2, Zenon DEF ToriInv, TalkInv
  <2>15. talk'.lexical = talk.lexical /\ talk'.semantic = talk.semantic
         /\ talk'.ambiguous = talk.ambiguous /\ talk'.narrowed = talk.narrowed
         /\ talk'.shown = talk.shown /\ talk'.records = talk.records /\ talk'.stored = talk.stored /\ talk'.more = talk.more
    BY <2>7, <2>11, Zenon
  <2>16. FoundInv(talk') /\ (talk'.at = "done" => talk'.records = NoRecords)
    BY <1>1, <2>6, <2>7, <2>11, <2>10, <2>12, <2>13, <2>14, <2>15 DEF FoundInv
  <2> QED
    BY <2>3, <2>10, <2>12, <2>13, <2>14, <2>15, <2>16, CheckingInv, Zenon
<1> QED
  BY <1>6, <1>7, <1>8, <1>9, <1>10

LEMMA AnswerFailsInv ==
    ASSUME ToriInv, UNCHANGED <<shelf, inClub>>, answer_fails PROVE ToriInv'
<1>1. talk.at = "answering" /\ IsRec(talk, TalkFields) /\ FoundInv(talk) /\ talk' = [talk EXCEPT !.at = "checking", !.status = "failed"]
  BY Zenon DEF answer_fails, ToriInv, TalkInv
<1>2. talk.at \notin Settled /\ "checking" \in Settled /\ "checking" # "done" /\ "failed" # "answered"
  BY <1>1 DEF Settled
<1>3. talk' = Put(Put(talk, "at", "checking"), "status", "failed")
  BY <1>1, Zenon DEF Put
<1>4. /\ IsRec(talk', TalkFields) /\ talk'.at = "checking" /\ talk'.status = "failed"
      /\ \A j \in TalkFields : j # "at" /\ j # "status" => talk'[j] = talk[j]
  BY <1>3, <1>1, TalkFieldsHave, Put2
<1>5. /\ talk'.follow_up = talk.follow_up /\ talk'.ambiguous = talk.ambiguous
      /\ talk'.narrowed = talk.narrowed /\ talk'.semantic_status = talk.semantic_status
      /\ talk'.lexical = talk.lexical /\ talk'.semantic = talk.semantic /\ talk'.facts = talk.facts
      /\ talk'.lost = talk.lost /\ talk'.clarification = talk.clarification /\ talk'.shown = talk.shown /\ talk'.records = talk.records
      /\ talk'.stored = talk.stored /\ talk'.more = talk.more
  BY <1>4, TalkFieldsHave
<1>6. FoundInv(talk') /\ (talk'.at = "done" => talk'.records = NoRecords)
  BY <1>1, <1>2, <1>4, <1>5 DEF FoundInv
<1> QED
  BY <1>2, <1>4, <1>5, <1>6, OpenInv, Zenon DEF ToriInv, TalkInv

LEMMA ReplyRecordsInv ==
    ASSUME ToriInv, UNCHANGED <<shelf, inClub>>, reply_records PROVE ToriInv'
<1>1. talk.at = "checking" /\ IsRec(talk, TalkFields) /\ FoundInv(talk)
  BY Zenon DEF reply_records, ToriInv, TalkInv
<1>2. "done" # "error" /\ "done" \in Settled /\ "error" \in Settled /\ "checking" # "error" /\ "failed" # "answered"
  BY DEF Settled
<1>3. PICK nothing, no : nothing = {} /\ no = FALSE
  OBVIOUS
<1>4. PICK kept : kept = [items |-> {d \in talk.records.items : Stored(d)}, answer |-> talk.records.answer]
  OBVIOUS
<1>5. /\ kept.answer = talk.records.answer /\ (\A d \in kept.items : Stored(d))
      /\ NoRecords.answer = {} /\ NoRecords.items = {}
  BY <1>4 DEF NoRecords
<1>6. \/ talk' = [talk EXCEPT !.at = "error", !.facts = nothing, !.clarification = no]
      \/ inClub /\ still_stands(talk) /\ \E sent :
            /\ sent = NoRecords \/ (sent = kept /\ ~talk.clarification)
            /\ talk' = [talk EXCEPT !.at = "done", !.records = sent]
      \/ inClub /\ talk' = [talk EXCEPT !.at = "done", !.status = "failed", !.facts = nothing,
                                        !.clarification = no, !.records = kept]
  BY <1>3, <1>4, Zenon DEF reply_records
<1>7. CASE talk' = [talk EXCEPT !.at = "error", !.facts = nothing, !.clarification = no]
  <2>1. talk' = Put(Put(Put(talk, "at", "error"), "facts", nothing), "clarification", no)
    BY <1>7, Zenon DEF Put
  <2>2. /\ IsRec(talk', TalkFields) /\ talk'.at = "error" /\ talk'.facts = nothing /\ talk'.clarification = no
        /\ \A j \in TalkFields : j # "at" /\ j # "facts" /\ j # "clarification" => talk'[j] = talk[j]
    BY <2>1, <1>1, TalkFieldsHave, Put3
  <2>3. /\ talk'.follow_up = talk.follow_up /\ talk'.ambiguous = talk.ambiguous
        /\ talk'.narrowed = talk.narrowed /\ talk'.semantic_status = talk.semantic_status
        /\ talk'.lexical = talk.lexical /\ talk'.semantic = talk.semantic /\ talk'.status = talk.status
        /\ talk'.lost = talk.lost /\ talk'.shown = talk.shown /\ talk'.records = talk.records /\ talk'.stored = talk.stored
        /\ talk'.more = talk.more
    BY <2>2, TalkFieldsHave
  <2>4. talk'.facts \subseteq talk'.lexical \cup talk'.semantic
    BY <1>3, <2>2
  <2>5. FoundInv(talk')
    BY <1>1, <2>2, <2>3 DEF FoundInv
  <2>6. TalkInv(talk')
    BY <1>1, <1>2, <1>3, <2>2, <2>3, <2>4, <2>5, Zenon DEF ToriInv, TalkInv
  <2>7. Leaves(talk)'
    BY <1>2, <2>2, Zenon DEF Leaves
  <2> QED
    BY <2>6, <2>7, Zenon DEF ToriInv
<1>8. CASE inClub /\ still_stands(talk) /\ \E sent :
              /\ sent = NoRecords \/ (sent = kept /\ ~talk.clarification)
              /\ talk' = [talk EXCEPT !.at = "done", !.records = sent]
  <2>1. PICK sent : /\ sent = NoRecords \/ (sent = kept /\ ~talk.clarification)
                    /\ talk' = [talk EXCEPT !.at = "done", !.records = sent]
    BY <1>8
  <2>2. talk' = Put(Put(talk, "at", "done"), "records", sent)
    BY <2>1, Zenon DEF Put
  <2>3. /\ IsRec(talk', TalkFields) /\ talk'.at = "done" /\ talk'.records = sent
        /\ \A j \in TalkFields : j # "at" /\ j # "records" => talk'[j] = talk[j]
    BY <2>2, <1>1, TalkFieldsHave, Put2
  <2>4. /\ talk'.follow_up = talk.follow_up /\ talk'.ambiguous = talk.ambiguous
        /\ talk'.narrowed = talk.narrowed /\ talk'.semantic_status = talk.semantic_status
        /\ talk'.lexical = talk.lexical /\ talk'.semantic = talk.semantic /\ talk'.status = talk.status
        /\ talk'.facts = talk.facts /\ talk'.lost = talk.lost
        /\ talk'.clarification = talk.clarification /\ talk'.shown = talk.shown
        /\ talk'.stored = talk.stored /\ talk'.more = talk.more
    BY <2>3, TalkFieldsHave
  <2>5. sent.answer = {} \/ sent.answer = talk.records.answer
    BY <1>5, <2>1, Zenon
  <2>6. FoundInv(talk')
    BY <1>1, <2>3, <2>4, <2>5 DEF FoundInv
  <2>7. TalkInv(talk')
    BY <1>1, <1>2, <2>3, <2>4, <2>6, Zenon DEF ToriInv, TalkInv
  <2>8. \A d \in talk'.lexical \cup talk'.semantic : Stored(d)'
    BY <1>8, <2>4, Zenon DEF still_stands, Stored
  <2>9. \A d \in talk'.records.items : Stored(d)'
    BY <1>5, <2>1, <2>3, Zenon DEF Stored
  <2>10. talk'.clarification => talk'.records = NoRecords
    BY <2>1, <2>3, <2>4, Zenon
  <2>11. Leaves(talk)'
    BY <1>8, <2>7, <2>8, <2>9, <2>10, Zenon DEF Leaves, TalkInv
  <2> QED
    BY <2>7, <2>11, Zenon DEF ToriInv
<1>9. CASE inClub /\ talk' = [talk EXCEPT !.at = "done", !.status = "failed", !.facts = nothing,
                                         !.clarification = no, !.records = kept]
  <2>1. PICK u : u = [talk EXCEPT !.at = "done", !.status = "failed"]
    OBVIOUS
  <2>2. u = Put(Put(talk, "at", "done"), "status", "failed")
    BY <2>1, Zenon DEF Put
  <2>3. /\ IsRec(u, TalkFields) /\ u.at = "done" /\ u.status = "failed"
        /\ \A j \in TalkFields : j # "at" /\ j # "status" => u[j] = talk[j]
    BY <2>2, <1>1, TalkFieldsHave, Put2
  <2>4. /\ u.follow_up = talk.follow_up /\ u.ambiguous = talk.ambiguous /\ u.narrowed = talk.narrowed
        /\ u.semantic_status = talk.semantic_status /\ u.lexical = talk.lexical
        /\ u.semantic = talk.semantic /\ u.facts = talk.facts /\ u.lost = talk.lost
        /\ u.shown = talk.shown /\ u.stored = talk.stored /\ u.more = talk.more
    BY <2>3, TalkFieldsHave
  <2>5. talk' = [u EXCEPT !.facts = nothing, !.clarification = no, !.records = kept]
    BY <1>9, <2>1, Zenon
  <2>6. talk' = Put(Put(Put(u, "facts", nothing), "clarification", no), "records", kept)
    BY <2>5, Zenon DEF Put
  <2>7. /\ IsRec(talk', TalkFields) /\ talk'.facts = nothing /\ talk'.clarification = no /\ talk'.records = kept
        /\ \A j \in TalkFields : j # "facts" /\ j # "clarification" /\ j # "records" => talk'[j] = u[j]
    BY <2>6, <2>3, TalkFieldsHave, Put3
  <2>8. /\ talk'.at = u.at /\ talk'.follow_up = u.follow_up /\ talk'.ambiguous = u.ambiguous
        /\ talk'.narrowed = u.narrowed /\ talk'.semantic_status = u.semantic_status
        /\ talk'.lexical = u.lexical /\ talk'.semantic = u.semantic /\ talk'.status = u.status
        /\ talk'.lost = u.lost /\ talk'.shown = u.shown /\ talk'.stored = u.stored
        /\ talk'.more = u.more
    BY <2>7, TalkFieldsHave
  <2>9. talk'.facts \subseteq talk'.lexical \cup talk'.semantic
    BY <1>3, <2>7
  <2>10. FoundInv(talk')
    BY <1>1, <1>5, <2>3, <2>4, <2>7, <2>8 DEF FoundInv
  <2>11. TalkInv(talk')
    BY <1>1, <1>2, <1>3, <2>3, <2>4, <2>7, <2>8, <2>9, <2>10, Zenon DEF ToriInv, TalkInv
  <2>12. \A d \in talk'.records.items : Stored(d)'
    BY <1>5, <2>7, Zenon DEF Stored
  <2>13. Leaves(talk)'
    BY <1>3, <1>9, <2>7, <2>12, Zenon DEF Leaves
  <2> QED
    BY <2>11, <2>13, Zenon DEF ToriInv
<1> QED
  BY <1>6, <1>7, <1>8, <1>9

LEMMA ReplyListInv ==
    ASSUME ToriInv, UNCHANGED <<shelf, inClub>>, NEW understood, NEW stored \in Nat, reply_list(understood, stored)
    PROVE  ToriInv'
<1>1. talk.at = "asked" /\ IsRec(talk, TalkFields) /\ FoundInv(talk) /\ talk.status = "none"
  BY Zenon DEF reply_list, ToriInv, TalkInv, Settled
<1>2. talk.at \notin Settled /\ "error" \in Settled /\ "done" \in Settled /\ "error" # "done" /\ "none" # "answered"
  BY <1>1 DEF Settled
<1>3. PICK shown, more : shown = (IF stored < ListLimit THEN stored ELSE ListLimit) /\ more = (stored > ListLimit)
  OBVIOUS
<1>4. \/ talk' = [talk EXCEPT !.at = "error"]
      \/ inClub /\ talk' = [talk EXCEPT !.at = "done", !.intent = "clarify"]
      \/ inClub /\ talk' = [talk EXCEPT !.at = "done", !.stored = stored, !.shown = shown, !.more = more]
  BY <1>3, Zenon DEF reply_list
<1>5. CASE talk' = [talk EXCEPT !.at = "error"]
  <2>1. talk' = Put(talk, "at", "error")
    BY <1>5, Zenon DEF Put
  <2>2. /\ IsRec(talk', TalkFields) /\ talk'.at = "error"
        /\ \A j \in TalkFields : j # "at" => talk'[j] = talk[j]
    BY <2>1, <1>1, TalkFieldsHave, Put1
  <2>3. /\ talk'.follow_up = talk.follow_up /\ talk'.ambiguous = talk.ambiguous
        /\ talk'.narrowed = talk.narrowed /\ talk'.semantic_status = talk.semantic_status
        /\ talk'.lexical = talk.lexical /\ talk'.semantic = talk.semantic /\ talk'.status = talk.status
        /\ talk'.facts = talk.facts /\ talk'.lost = talk.lost
        /\ talk'.clarification = talk.clarification /\ talk'.shown = talk.shown /\ talk'.records = talk.records
        /\ talk'.stored = talk.stored /\ talk'.more = talk.more
    BY <2>2, TalkFieldsHave
  <2>4. FoundInv(talk') /\ (talk'.at = "done" => talk'.records = NoRecords)
    BY <1>1, <1>2, <2>2, <2>3 DEF FoundInv
  <2> QED
    BY <1>1, <1>2, <2>2, <2>3, <2>4, OpenInv, Zenon DEF ToriInv, TalkInv
<1>6. CASE inClub /\ talk' = [talk EXCEPT !.at = "done", !.intent = "clarify"]
  <2>1. talk' = Put(Put(talk, "at", "done"), "intent", "clarify")
    BY <1>6, Zenon DEF Put
  <2>2. /\ IsRec(talk', TalkFields) /\ talk'.at = "done" /\ talk'.intent = "clarify"
        /\ \A j \in TalkFields : j # "at" /\ j # "intent" => talk'[j] = talk[j]
    BY <2>1, <1>1, TalkFieldsHave, Put2
  <2>3. /\ talk'.follow_up = talk.follow_up /\ talk'.ambiguous = talk.ambiguous
        /\ talk'.narrowed = talk.narrowed /\ talk'.semantic_status = talk.semantic_status
        /\ talk'.lexical = talk.lexical /\ talk'.semantic = talk.semantic /\ talk'.status = talk.status
        /\ talk'.facts = talk.facts /\ talk'.lost = talk.lost
        /\ talk'.clarification = talk.clarification /\ talk'.shown = talk.shown /\ talk'.records = talk.records
        /\ talk'.stored = talk.stored /\ talk'.more = talk.more
    BY <2>2, TalkFieldsHave
  <2>4. FoundInv(talk') /\ (talk'.at = "done" => talk'.records = NoRecords)
    BY <1>1, <1>2, <1>6, <2>2, <2>3 DEF FoundInv
  <2> QED
    BY <1>1, <1>2, <1>6, <2>2, <2>3, <2>4, OpenInv, Zenon DEF ToriInv, TalkInv
<1>7. CASE inClub /\ talk' = [talk EXCEPT !.at = "done", !.stored = stored, !.shown = shown, !.more = more]
  <2>1. PICK u : u = [talk EXCEPT !.at = "done", !.stored = stored]
    OBVIOUS
  <2>2. u = Put(Put(talk, "at", "done"), "stored", stored)
    BY <2>1, Zenon DEF Put
  <2>3. /\ IsRec(u, TalkFields) /\ u.at = "done" /\ u.stored = stored
        /\ \A j \in TalkFields : j # "at" /\ j # "stored" => u[j] = talk[j]
    BY <2>2, <1>1, TalkFieldsHave, Put2
  <2>4. /\ u.follow_up = talk.follow_up /\ u.ambiguous = talk.ambiguous /\ u.narrowed = talk.narrowed
        /\ u.semantic_status = talk.semantic_status /\ u.lexical = talk.lexical
        /\ u.semantic = talk.semantic /\ u.status = talk.status /\ u.facts = talk.facts
        /\ u.lost = talk.lost /\ u.clarification = talk.clarification /\ u.shown = talk.shown /\ u.records = talk.records
        /\ u.more = talk.more
    BY <2>3, TalkFieldsHave
  <2>5. talk' = [u EXCEPT !.shown = shown, !.more = more]
    BY <1>7, <2>1, Zenon
  <2>6. talk' = Put(Put(u, "shown", shown), "more", more)
    BY <2>5, Zenon DEF Put
  <2>7. /\ IsRec(talk', TalkFields) /\ talk'.shown = shown /\ talk'.more = more
        /\ \A j \in TalkFields : j # "shown" /\ j # "more" => talk'[j] = u[j]
    BY <2>6, <2>3, TalkFieldsHave, Put2
  <2>8. /\ talk'.at = u.at /\ talk'.follow_up = u.follow_up /\ talk'.ambiguous = u.ambiguous
        /\ talk'.narrowed = u.narrowed /\ talk'.semantic_status = u.semantic_status
        /\ talk'.lexical = u.lexical /\ talk'.semantic = u.semantic /\ talk'.status = u.status
        /\ talk'.facts = u.facts /\ talk'.lost = u.lost /\ talk'.clarification = u.clarification
        /\ talk'.stored = u.stored
    BY <2>7, TalkFieldsHave
  <2>9. shown < stored => more
    <3>1. ListLimit \in Nat
      BY Zenon, ToriAssumption
    <3>2. shown < stored => stored > ListLimit
      BY <1>3, <3>1
    <3> QED
      BY <1>3, <3>2, Zenon
  <2>10. FoundInv(talk') /\ (talk'.at = "done" => talk'.records = NoRecords)
    BY <1>1, <1>2, <1>7, <2>3, <2>4, <2>7, <2>8, <2>9 DEF FoundInv
  <2> QED
    BY <1>1, <1>2, <1>7, <2>3, <2>4, <2>7, <2>8, <2>9, <2>10, OpenInv, Zenon DEF ToriInv, TalkInv
<1> QED
  BY <1>4, <1>5, <1>6, <1>7

LEMMA ReplyOtherInv ==
    ASSUME ToriInv, UNCHANGED <<shelf, inClub>>, reply_other PROVE ToriInv'
<1>1. PICK at : at = IF inClub THEN "done" ELSE "error"
  OBVIOUS
<1>2. talk.at = "asked" /\ IsRec(talk, TalkFields) /\ FoundInv(talk) /\ talk.status = "none" /\ talk' = [talk EXCEPT !.at = at]
  BY <1>1, Zenon DEF reply_other, ToriInv, TalkInv, Settled
<1>3. talk.at \notin Settled /\ at \in Settled /\ (at = "done" => inClub) /\ "none" # "answered"
  BY <1>1, <1>2 DEF Settled
<1>4. talk' = Put(talk, "at", at)
  BY <1>2, Zenon DEF Put
<1>5. /\ IsRec(talk', TalkFields) /\ talk'.at = at
      /\ \A j \in TalkFields : j # "at" => talk'[j] = talk[j]
  BY <1>4, <1>2, TalkFieldsHave, Put1
<1>6. /\ talk'.follow_up = talk.follow_up /\ talk'.ambiguous = talk.ambiguous
      /\ talk'.narrowed = talk.narrowed /\ talk'.semantic_status = talk.semantic_status
      /\ talk'.lexical = talk.lexical /\ talk'.semantic = talk.semantic /\ talk'.status = talk.status
      /\ talk'.facts = talk.facts /\ talk'.lost = talk.lost /\ talk'.clarification = talk.clarification
      /\ talk'.shown = talk.shown /\ talk'.records = talk.records /\ talk'.stored = talk.stored /\ talk'.more = talk.more
  BY <1>5, TalkFieldsHave
<1>7. FoundInv(talk') /\ (talk'.at = "done" => talk'.records = NoRecords)
  BY <1>1, <1>2, <1>3, <1>5, <1>6 DEF FoundInv
<1> QED
  BY <1>2, <1>3, <1>5, <1>6, <1>7, OpenInv, Zenon DEF ToriInv, TalkInv

LEMMA MessageInv == ToriInv /\ MessageNext /\ UNCHANGED <<shelf, inClub>> => ToriInv'
<1> SUFFICES ASSUME ToriInv, MessageNext, UNCHANGED <<shelf, inClub>> PROVE ToriInv'
  OBVIOUS
<1>1. CASE \E context \in BOOLEAN : receive(context)
  BY <1>1, ReceiveInv
<1>2. CASE \E follow_up \in BOOLEAN : resolve(follow_up)
  BY <1>2, ResolveInv
<1>3. CASE \E intent \in Intents : classify_tori_intent(intent)
  BY <1>3, ClassifyIntentInv
<1>4. CASE intent_fails
  BY <1>4, IntentFailsInv
<1>5. CASE talk.at = "asked" /\ \E clear, too_long : \E m \in SUBSET ToriRecords : begin_record_search(clear, too_long, m)
  <2>1. PICK clear, too_long : \E m \in SUBSET ToriRecords : begin_record_search(clear, too_long, m)
    BY <1>5, Zenon
  <2>2. PICK m \in SUBSET ToriRecords : begin_record_search(clear, too_long, m)
    BY <2>1, Zenon
  <2> QED
    BY <2>2, BeginSearchInv
<1>6. CASE \E close, assessed \in SUBSET ToriRecords : search_related_records(close, assessed)
  BY <1>6, SearchRelatedInv
<1>7. CASE search_related_fails
  BY <1>7, SearchRelatedFailsInv
<1>8. CASE keep_current
  BY <1>8, KeepCurrentInv
<1>9. CASE talk.at = "answering" /\ \E a \in ToriAssessment(Len(chunks_of(talk))) : answer_tori_records(a)
  BY <1>9, ToriAssessed, AnswerInv, Zenon
<1>10. CASE answer_fails
  BY <1>10, AnswerFailsInv
<1>11. CASE reply_records
  BY <1>11, ReplyRecordsInv
<1>12. CASE \E understood \in BOOLEAN, stored \in 0..ListLimit + 1 : reply_list(understood, stored)
  <2>1. ListLimit \in Nat
    BY Zenon, ToriAssumption
  <2>2. \A stored \in 0..ListLimit + 1 : stored \in Nat
    BY <2>1
  <2> QED
    BY <1>12, <2>2, ReplyListInv, Zenon
<1>13. CASE reply_other
  BY <1>13, ReplyOtherInv
<1> QED
  BY <1>1, <1>2, <1>3, <1>4, <1>5, <1>6, <1>7, <1>8, <1>9, <1>10, <1>11, <1>12, <1>13 DEF MessageNext

LEMMA ToriInvNext == ToriInv /\ [ToriNext]_toriVars => ToriInv'
<1> SUFFICES ASSUME ToriInv, [ToriNext]_toriVars PROVE ToriInv'
  OBVIOUS
<1>1. CASE MessageNext /\ UNCHANGED <<shelf, inClub>>
  BY <1>1, MessageInv
<1>2. CASE talk.at \notin ended /\ UNCHANGED talk
  <2>1. talk.at # "done"
    BY <1>2 DEF ended
  <2> QED
    BY <1>2, <2>1, Zenon DEF ToriInv, Leaves
<1>3. CASE UNCHANGED toriVars
  <2>1. talk' = talk /\ shelf' = shelf /\ inClub' = inClub
    BY <1>3 DEF toriVars
  <2> QED
    BY <2>1, Zenon DEF ToriInv, Leaves, Stored
<1> QED
  BY <1>1, <1>2, <1>3, Zenon DEF ToriNext

----------------------------------------------------------------------------
(* One call of a model *)

LlmFields ==
    {"at", "via", "blank", "streaming", "asked", "failure", "combined", "told", "reply", "tools", "texts",
     "vectors", "result"}

LEMMA LlmFieldsHave ==
    /\ "at" \in LlmFields /\ "via" \in LlmFields /\ "blank" \in LlmFields /\ "streaming" \in LlmFields
    /\ "asked" \in LlmFields /\ "failure" \in LlmFields /\ "combined" \in LlmFields /\ "told" \in LlmFields
    /\ "reply" \in LlmFields /\ "tools" \in LlmFields /\ "texts" \in LlmFields /\ "vectors" \in LlmFields
    /\ "result" \in LlmFields
BY DEF LlmFields

Pieces == [kind : {"text", "reasoning"}, n : Nat]

\* The text told so far is that of the message collected so far.
Collected(l) ==
    /\ l.combined \in Seq(Pieces) /\ l.told \in Seq(Nat)
    /\ \A x \in ToSet(l.told) : x <= Len(l.combined)
    /\ TellsTheText(l.told, l.combined)

Typed(l) ==
    /\ l.at \in {"idle", "calling", "done"} /\ l.via \in Vias
    /\ l.blank \subseteq AISettings /\ l.asked \in 0..LLM_MAX_RETRIES + 1
    /\ l.reply \in Replies /\ l.tools \in ToolReplies
    /\ l.result \in Results

\* A value that is handed on.
WholeReply(l) ==
    l.result = "value" =>
       CASE l.via = "tools" -> l.tools.readable /\ (l.tools.asks => l.tools.allowed)
         [] l.via = "embed" -> l.vectors = [i \in 1..l.texts |-> EMBEDDING_DIMENSIONS]
         [] OTHER -> /\ l.reply.text = "read"
                     /\ l.reply.status \notin {"max_output_tokens", "incomplete"}
                     /\ l.streaming => l.reply.status = "completed"

\* A failure that is handed on.
ToldTruly(l) ==
    /\ l.result = "AIConfigError" <=> l.asked = 0 \/ l.failure \in {"authentication", "model_not_allowed"}
    /\ _error_code(l.result) = "AI_UNAVAILABLE" =>
         l.failure \in Temporary /\ (l.combined = <<>> => l.asked = LLM_MAX_RETRIES + 1)
    /\ l.via = "structured" /\ l.streaming /\ l.asked > 0 /\ l.failure = "none" =>
         l.result = astream_structured(<<"chunk">>, l.reply)

LlmInv(l) ==
    /\ IsRec(l, LlmFields) /\ Typed(l) /\ Collected(l)
    /\ l.at # "done" => l.result = "none" /\ l.failure = "none"
    /\ l.at = "idle" => l.asked = 0
    /\ l.at = "calling" => l.asked > 0
    /\ l.at = "done" => WholeReply(l) /\ ToldTruly(l)

LEMMA LlmInvWhole == LlmInv(llm) => RepliesAreWhole
<1> SUFFICES ASSUME LlmInv(llm) PROVE RepliesAreWhole
  OBVIOUS
<1>1. LlmTypeOK
  BY Zenon DEF LlmInv, Typed, LlmTypeOK
<1>2. "none" # "value" /\ "none" # "AIConfigError" /\ "none" \notin {"authentication", "model_not_allowed"}
  OBVIOUS
<1>3. CASE llm.at = "done"
  <2>1. WholeReply(llm) /\ ToldTruly(llm) /\ TellsTheText(llm.told, llm.combined)
    BY <1>3, Zenon DEF LlmInv, Collected
  <2>2. llm.result = "value" =>
          CASE llm.via = "tools" -> llm.tools.readable /\ (llm.tools.asks => llm.tools.allowed)
            [] llm.via = "embed" -> llm.vectors = [i \in 1..llm.texts |-> EMBEDDING_DIMENSIONS]
            [] OTHER -> /\ llm.reply.text = "read"
                        /\ llm.reply.status \notin {"max_output_tokens", "incomplete"}
                        /\ llm.streaming => llm.reply.status = "completed"
                        /\ TellsTheText(llm.told, llm.combined)
    <3>1. CASE llm.via = "tools"
      BY <2>1, <3>1 DEF WholeReply
    <3>2. CASE llm.via = "embed"
      BY <2>1, <3>2 DEF WholeReply
    <3>3. CASE llm.via # "tools" /\ llm.via # "embed"
      BY <2>1, <3>3 DEF WholeReply
    <3> QED
      BY <3>1, <3>2, <3>3
  <2> QED
    BY <1>1, <1>3, <2>1, <2>2, Zenon DEF ToldTruly, RepliesAreWhole
<1>4. CASE llm.at # "done"
  <2>1. llm.result = "none" /\ llm.failure = "none"
    BY <1>4, Zenon DEF LlmInv
  <2> QED
    BY <1>1, <1>2, <1>4, <2>1, Zenon DEF RepliesAreWhole
<1> QED
  BY <1>3, <1>4

LEMMA LlmInvInit == LlmInit => LlmInv(llm)
<1> SUFFICES ASSUME LlmInit PROVE LlmInv(llm)
  OBVIOUS
<1>1. llm = IdleCall
  BY Zenon DEF LlmInit
<1>2. /\ llm.at = "idle" /\ llm.via = "structured" /\ llm.blank = {} /\ llm.asked = 0
      /\ llm.reply = NoReply /\ llm.tools = [readable |-> TRUE, asks |-> FALSE, allowed |-> TRUE]
      /\ llm.result = "none" /\ llm.failure = "none" /\ llm.combined = <<>> /\ llm.told = <<>>
  BY <1>1 DEF IdleCall
<1>3. IsRec(llm, LlmFields)
  BY <1>1 DEF IdleCall, IsRec, LlmFields
<1>4. Typed(llm)
  <2>1. LLM_MAX_RETRIES \in Nat
    BY Zenon, LlmAssumption
  <2>2. NoReply \in Replies
    BY DEF NoReply, Replies
  <2>3. llm.tools \in ToolReplies
    BY <1>2 DEF ToolReplies
  <2> QED
    BY <1>2, <2>1, <2>2, <2>3 DEF Typed, Vias, Results
<1>5. Collected(llm)
  BY <1>2 DEF Collected, TellsTheText, ToSet
<1> QED
  BY <1>2, <1>3, <1>4, <1>5 DEF LlmInv

\* One more chunk: what was told stays the text of what was collected.
LEMMA TellsMore ==
    ASSUME NEW combined \in Seq(Pieces), NEW told \in Seq(Nat), TellsTheText(told, combined),
           \A x \in ToSet(told) : x <= Len(combined), NEW piece \in Pieces, piece.n = Len(combined) + 1,
           NEW after, after = IF piece.kind = "text" THEN Append(told, piece.n) ELSE told
    PROVE  /\ Append(combined, piece) \in Seq(Pieces) /\ after \in Seq(Nat)
           /\ TellsTheText(after, Append(combined, piece))
           /\ \A x \in ToSet(after) : x <= Len(Append(combined, piece))
<1>1. PICK n \in Nat : n = Len(combined)
  OBVIOUS
<1>2. piece.n = n + 1
  BY <1>1
<1>3. Append(combined, piece) \in Seq(Pieces) /\ Len(Append(combined, piece)) = n + 1
  BY <1>1, <1>2
<1>4. PICK C, T : C = ToSet(combined) /\ T = ToSet(told)
  OBVIOUS
<1>5. ToSet(Append(combined, piece)) = C \cup {piece}
  BY <1>2, <1>4, SetOfAppend
<1>6. T = {p.n : p \in {q \in C : q.kind = "text"}} /\ (\A i, j \in DOMAIN told : i < j => told[i] < told[j])
      /\ \A x \in T : x <= n
  BY <1>1, <1>4, Zenon DEF TellsTheText
<1>7. T \subseteq Nat
  BY <1>4 DEF ToSet
<1>10. \A x \in T : x <= n /\ x \in Nat
  BY <1>6, <1>7, Zenon
<1>8. CASE piece.kind = "text"
  <2>1. after = Append(told, n + 1) /\ after \in Seq(Nat)
    BY <1>1, <1>2, <1>8
  <2>2. ToSet(after) = T \cup {n + 1}
    <3>1. n + 1 \in Nat
      BY <1>1
    <3> QED
      BY <1>4, <2>1, <3>1, SetOfAppend
  <2>3. {p.n : p \in {q \in C \cup {piece} : q.kind = "text"}} = T \cup {n + 1}
    BY <1>2, <1>6, <1>8
  <2>4. \A x \in ToSet(after) : x <= n + 1
    BY <1>1, <1>10, <2>2
  <2>5. ASSUME NEW i \in DOMAIN after, NEW j \in DOMAIN after, i < j PROVE after[i] < after[j]
    <3>1. PICK m \in Nat : m = Len(told) /\ DOMAIN told = 1..m /\ DOMAIN after = 1..(m + 1)
      BY <2>1
    <3>2. i \in 1..m /\ after[i] = told[i] /\ told[i] \in Nat
      BY <2>1, <2>5, <3>1
    <3>3. CASE j \in 1..m
      <4>1. after[j] = told[j]
        BY <2>1, <3>1, <3>3
      <4> QED
        BY <1>6, <2>5, <3>1, <3>2, <3>3, <4>1
    <3>4. CASE j = m + 1
      <4>1. after[j] = n + 1
        BY <2>1, <3>1, <3>4
      <4>2. told[i] \in T
        BY <1>4, <3>1, <3>2 DEF ToSet
      <4> QED
        BY <1>1, <1>10, <3>2, <4>1, <4>2
    <3> QED
      BY <2>5, <3>1, <3>3, <3>4
  <2>6. TellsTheText(after, Append(combined, piece))
    BY <1>5, <2>2, <2>3, <2>5, Zenon DEF TellsTheText
  <2> QED
    BY <1>3, <2>1, <2>4, <2>6
<1>9. CASE piece.kind # "text"
  <2>1. after = told
    BY <1>9
  <2>2. {p.n : p \in {q \in C \cup {piece} : q.kind = "text"}} = T
    BY <1>2, <1>6, <1>9
  <2>3. TellsTheText(after, Append(combined, piece))
    BY <1>4, <1>5, <1>6, <2>1, <2>2, Zenon DEF TellsTheText
  <2>4. \A x \in T : x <= n + 1
    BY <1>1, <1>10
  <2> QED
    BY <1>3, <1>4, <2>1, <2>3, <2>4
<1> QED
  BY <1>8, <1>9

\* The reply that ends a call, and what it is judged to be.
LEMMA CallEnds ==
    ASSUME LlmInv(llm), llm.at = "calling", IsRec(llm', LlmFields), llm'.at = "done", llm'.via = llm.via,
           llm'.blank = llm.blank, llm'.asked = llm.asked, llm'.combined = llm.combined, llm'.told = llm.told,
           llm'.reply \in Replies, llm'.tools \in ToolReplies, llm'.result \in Results,
           WholeReply(llm'), ToldTruly(llm')
    PROVE  LlmInv(llm')
<1>1. Typed(llm')
  <2>1. llm'.at \in {"idle", "calling", "done"}
    OBVIOUS
  <2> QED
    BY <2>1, Zenon DEF LlmInv, Typed
<1>2. Collected(llm')
  BY Zenon DEF LlmInv, Collected
<1>3. "done" # "calling" /\ "done" # "idle"
  OBVIOUS
<1> QED
  BY <1>1, <1>2, <1>3, Zenon DEF LlmInv

\* What a failure becomes is the truth about it.
LEMMA Converted ==
    ASSUME NEW failure \in Temporary \cup Refusals
    PROVE  LET result == _convert_api_error(failure)
           IN  /\ result \in Results /\ result # "value"
               /\ result = "AIConfigError" <=> failure \in {"authentication", "model_not_allowed"}
               /\ _error_code(result) = "AI_UNAVAILABLE" => failure \in Temporary
BY DEF _convert_api_error, _error_code, Temporary, Refusals, Results, AIErrors, RetryableErrors, InvalidResponses

LEMMA RequestFailsInv == LlmInv(llm) /\ request_fails => LlmInv(llm')
<1> SUFFICES ASSUME LlmInv(llm), request_fails PROVE LlmInv(llm')
  OBVIOUS
<1>1. llm.at = "calling" /\ llm.combined = <<>>
  BY Zenon DEF request_fails
<1>2. PICK failure \in Temporary \cup Refusals :
         /\ failure \in Temporary => llm.asked = LLM_MAX_RETRIES + 1
         /\ llm' = [llm EXCEPT !.at = "done", !.failure = failure, !.result = _convert_api_error(failure)]
  BY Zenon DEF request_fails
<1>3. PICK result : result = _convert_api_error(failure)
  OBVIOUS
<1>4. /\ result \in Results /\ result # "value"
      /\ result = "AIConfigError" <=> failure \in {"authentication", "model_not_allowed"}
      /\ _error_code(result) = "AI_UNAVAILABLE" => failure \in Temporary
  BY <1>3, Converted
<1>5. llm' = [llm EXCEPT !.at = "done", !.failure = failure, !.result = result]
  BY <1>2, <1>3
<1>6. IsRec(llm, LlmFields) /\ llm.asked # 0
  <2>1. llm.asked \in 0..LLM_MAX_RETRIES + 1 /\ llm.asked > 0
    BY <1>1, Zenon DEF LlmInv, Typed
  <2>2. LLM_MAX_RETRIES \in Nat
    BY Zenon, LlmAssumption
  <2>3. llm.asked # 0
    BY <2>1, <2>2
  <2> QED
    BY <2>3, Zenon DEF LlmInv
<1>7. llm' = Put(Put(Put(llm, "at", "done"), "failure", failure), "result", result)
  BY <1>5, Zenon DEF Put
<1>8. /\ IsRec(llm', LlmFields) /\ llm'.at = "done" /\ llm'.failure = failure /\ llm'.result = result
      /\ \A j \in LlmFields : j # "at" /\ j # "failure" /\ j # "result" => llm'[j] = llm[j]
  BY <1>7, <1>6, LlmFieldsHave, Put3
<1>9. /\ llm'.via = llm.via /\ llm'.blank = llm.blank /\ llm'.streaming = llm.streaming
      /\ llm'.asked = llm.asked /\ llm'.combined = llm.combined /\ llm'.told = llm.told
      /\ llm'.reply = llm.reply /\ llm'.tools = llm.tools /\ llm'.texts = llm.texts
      /\ llm'.vectors = llm.vectors
  BY <1>8, LlmFieldsHave
<1>10. WholeReply(llm')
  BY <1>4, <1>8, Zenon DEF WholeReply
<1>11. failure # "none"
  BY <1>2 DEF Temporary, Refusals
<1>12. ToldTruly(llm')
  BY <1>1, <1>2, <1>4, <1>6, <1>8, <1>9, <1>11, Zenon DEF ToldTruly
<1>13. llm'.reply \in Replies /\ llm'.tools \in ToolReplies
  BY <1>9, Zenon DEF LlmInv, Typed
<1> QED
  BY <1>1, <1>4, <1>8, <1>9, <1>10, <1>12, <1>13, CallEnds, Zenon

LEMMA StreamFailsInv == LlmInv(llm) /\ stream_fails => LlmInv(llm')
<1> SUFFICES ASSUME LlmInv(llm), stream_fails PROVE LlmInv(llm')
  OBVIOUS
<1>1. llm.at = "calling" /\ llm.combined # <<>>
  BY Zenon DEF stream_fails
<1>2. PICK failure \in MidStream :
         llm' = [llm EXCEPT !.at = "done", !.failure = failure, !.result = _convert_api_error(failure)]
  BY Zenon DEF stream_fails
<1>3. PICK result : result = _convert_api_error(failure)
  OBVIOUS
<1>4. /\ result \in Results /\ result # "value" /\ result # "AIConfigError"
      /\ failure \notin {"authentication", "model_not_allowed", "none"}
      /\ _error_code(result) = "AI_UNAVAILABLE" => failure \in Temporary
  BY <1>2, <1>3 DEF MidStream, _convert_api_error, _error_code, Temporary, Results, AIErrors, RetryableErrors,
                    InvalidResponses
<1>5. llm' = [llm EXCEPT !.at = "done", !.failure = failure, !.result = result]
  BY <1>2, <1>3
<1>6. IsRec(llm, LlmFields) /\ llm.asked # 0
  <2>1. llm.asked \in 0..LLM_MAX_RETRIES + 1 /\ llm.asked > 0
    BY <1>1, Zenon DEF LlmInv, Typed
  <2>2. LLM_MAX_RETRIES \in Nat
    BY Zenon, LlmAssumption
  <2>3. llm.asked # 0
    BY <2>1, <2>2
  <2> QED
    BY <2>3, Zenon DEF LlmInv
<1>7. llm' = Put(Put(Put(llm, "at", "done"), "failure", failure), "result", result)
  BY <1>5, Zenon DEF Put
<1>8. /\ IsRec(llm', LlmFields) /\ llm'.at = "done" /\ llm'.failure = failure /\ llm'.result = result
      /\ \A j \in LlmFields : j # "at" /\ j # "failure" /\ j # "result" => llm'[j] = llm[j]
  BY <1>7, <1>6, LlmFieldsHave, Put3
<1>9. /\ llm'.via = llm.via /\ llm'.blank = llm.blank /\ llm'.streaming = llm.streaming
      /\ llm'.asked = llm.asked /\ llm'.combined = llm.combined /\ llm'.told = llm.told
      /\ llm'.reply = llm.reply /\ llm'.tools = llm.tools /\ llm'.texts = llm.texts
      /\ llm'.vectors = llm.vectors
  BY <1>8, LlmFieldsHave
<1>10. WholeReply(llm')
  BY <1>4, <1>8, Zenon DEF WholeReply
<1>11. failure # "none" /\ failure # "authentication" /\ failure # "model_not_allowed"
  BY <1>4
<1>12. ToldTruly(llm')
  <2>1. llm'.failure \notin {"authentication", "model_not_allowed"}
    BY <1>8, <1>11
  <2> QED
    BY <1>1, <1>4, <1>6, <1>8, <1>9, <1>11, <2>1, Zenon DEF ToldTruly
<1>13. llm'.reply \in Replies /\ llm'.tools \in ToolReplies
  BY <1>9, Zenon DEF LlmInv, Typed
<1> QED
  BY <1>1, <1>4, <1>8, <1>9, <1>10, <1>12, <1>13, CallEnds, Zenon

LEMMA ReceivePieceInv == LlmInv(llm) /\ receive_piece => LlmInv(llm')
<1> SUFFICES ASSUME LlmInv(llm), receive_piece PROVE LlmInv(llm')
  OBVIOUS
<1>1. llm.at = "calling"
  BY Zenon DEF receive_piece
<1>11. PICK kind \in {"text", "reasoning"} :
         LET piece == [kind |-> kind, n |-> Len(llm.combined) + 1] IN
         llm' = [llm EXCEPT !.combined = Append(@, piece),
                            !.told = IF kind = "text" THEN Append(@, piece.n) ELSE @]
  BY Zenon DEF receive_piece
<1>14. kind \in {"text", "reasoning"}
  BY <1>11
<1>12. PICK piece : piece = [kind |-> kind, n |-> Len(llm.combined) + 1]
  OBVIOUS
<1>13. PICK combined, told : /\ combined = Append(llm.combined, piece)
                            /\ told = IF kind = "text" THEN Append(llm.told, piece.n) ELSE llm.told
  OBVIOUS
<1>2. llm' = [llm EXCEPT !.combined = combined, !.told = told]
  BY <1>11, <1>12, <1>13, Zenon
<1>3. IsRec(llm, LlmFields) /\ Collected(llm)
  BY Zenon DEF LlmInv
<1>4. llm' = Put(Put(llm, "combined", combined), "told", told)
  BY <1>2, Zenon DEF Put
<1>5. /\ IsRec(llm', LlmFields) /\ llm'.combined = combined /\ llm'.told = told
      /\ \A j \in LlmFields : j # "combined" /\ j # "told" => llm'[j] = llm[j]
  BY <1>4, <1>3, LlmFieldsHave, Put2
<1>6. /\ llm'.at = llm.at /\ llm'.via = llm.via /\ llm'.blank = llm.blank
      /\ llm'.streaming = llm.streaming /\ llm'.asked = llm.asked /\ llm'.failure = llm.failure
      /\ llm'.reply = llm.reply /\ llm'.tools = llm.tools /\ llm'.texts = llm.texts
      /\ llm'.vectors = llm.vectors /\ llm'.result = llm.result
  BY <1>5, LlmFieldsHave
<1>7. /\ combined \in Seq(Pieces) /\ told \in Seq(Nat) /\ TellsTheText(told, combined)
      /\ \A x \in ToSet(told) : x <= Len(combined)
  <2>1. /\ llm.combined \in Seq(Pieces) /\ llm.told \in Seq(Nat)
        /\ \A x \in ToSet(llm.told) : x <= Len(llm.combined)
        /\ TellsTheText(llm.told, llm.combined)
    BY <1>3, Zenon DEF Collected
  <2>2. PICK c, s : c = llm.combined /\ s = llm.told
    OBVIOUS
  <2>5. piece \in Pieces /\ piece.n = Len(c) + 1 /\ piece.kind = kind
    <3>1. Len(c) + 1 \in Nat
      BY <2>1, <2>2
    <3> QED
      BY <1>12, <1>14, <2>2, <3>1 DEF Pieces
  <2>3. /\ c \in Seq(Pieces) /\ s \in Seq(Nat) /\ TellsTheText(s, c) /\ \A x \in ToSet(s) : x <= Len(c)
        /\ combined = Append(c, piece)
        /\ told = IF piece.kind = "text" THEN Append(s, piece.n) ELSE s
    BY <1>13, <2>1, <2>2, <2>5, Zenon
  <2>4. /\ Append(c, piece) \in Seq(Pieces) /\ told \in Seq(Nat) /\ TellsTheText(told, Append(c, piece))
        /\ \A x \in ToSet(told) : x <= Len(Append(c, piece))
    BY <2>3, <2>5, TellsMore, Zenon
  <2> QED
    BY <2>3, <2>4, Zenon
<1>8. Collected(llm')
  BY <1>5, <1>7, Zenon DEF Collected
<1>9. Typed(llm')
  BY <1>6, Zenon DEF LlmInv, Typed
<1>10. "calling" # "done" /\ "calling" # "idle"
  OBVIOUS
<1> QED
  BY <1>1, <1>5, <1>6, <1>8, <1>9, <1>10, Zenon DEF LlmInv

LEMMA RetriesInv == LlmInv(llm) /\ sdk_retries => LlmInv(llm')
<1> SUFFICES ASSUME LlmInv(llm), sdk_retries PROVE LlmInv(llm')
  OBVIOUS
<1>1. PICK asked : asked = llm.asked + 1
  OBVIOUS
<1>2. llm.at = "calling" /\ llm.asked <= LLM_MAX_RETRIES /\ llm' = [llm EXCEPT !.asked = asked]
  BY <1>1, Zenon DEF sdk_retries
<1>3. IsRec(llm, LlmFields) /\ llm.asked \in 0..LLM_MAX_RETRIES + 1
  BY Zenon DEF LlmInv, Typed
<1>4. asked \in 0..LLM_MAX_RETRIES + 1 /\ asked > 0
  <2>1. LLM_MAX_RETRIES \in Nat
    BY Zenon, LlmAssumption
  <2> QED
    BY <1>1, <1>2, <1>3, <2>1
<1>5. llm' = Put(llm, "asked", asked)
  BY <1>2, Zenon DEF Put
<1>6. /\ IsRec(llm', LlmFields) /\ llm'.asked = asked
      /\ \A j \in LlmFields : j # "asked" => llm'[j] = llm[j]
  BY <1>5, <1>3, LlmFieldsHave, Put1
<1>7. /\ llm'.at = llm.at /\ llm'.via = llm.via /\ llm'.blank = llm.blank
      /\ llm'.streaming = llm.streaming /\ llm'.failure = llm.failure /\ llm'.combined = llm.combined
      /\ llm'.told = llm.told /\ llm'.reply = llm.reply /\ llm'.tools = llm.tools
      /\ llm'.texts = llm.texts /\ llm'.vectors = llm.vectors /\ llm'.result = llm.result
  BY <1>6, LlmFieldsHave
<1>8. Typed(llm') /\ Collected(llm')
  BY <1>4, <1>6, <1>7, Zenon DEF LlmInv, Typed, Collected
<1>9. "calling" # "done" /\ "calling" # "idle"
  OBVIOUS
<1> QED
  BY <1>2, <1>4, <1>6, <1>7, <1>8, <1>9, Zenon DEF LlmInv

\* The call is answered by what the provider's own status and the parser say.
LEMMA StructuredJudged ==
    ASSUME NEW reply \in Replies, NEW combined, NEW streaming
    PROVE  /\ astream_structured(combined, reply) \in {"value", "AIInvalidResponseError", "AIOutputLimitError"}
           /\ ainvoke_structured(reply, streaming) \in {"value", "AIInvalidResponseError", "AIOutputLimitError"}
           /\ astream_structured(combined, reply) = "value" =>
                reply.text = "read" /\ reply.status = "completed"
           /\ ainvoke_structured(reply, streaming) = "value" =>
                /\ reply.text = "read" /\ reply.status \notin {"max_output_tokens", "incomplete"}
                /\ streaming => reply.status = "completed"
           /\ streaming => ainvoke_structured(reply, streaming) = astream_structured(<<"chunk">>, reply)
<1>1. reply.status \in {"completed", "max_output_tokens", "incomplete", "none"}
      /\ reply.text \in {"read", "refused", "mistyped"}
  BY DEF Replies
<1>2. PICK text, status : text = reply.text /\ status = reply.status
  OBVIOUS
<1>3. PICK error : error = IF status = "max_output_tokens" THEN "AIOutputLimitError"
                             ELSE IF status = "incomplete" THEN "AIInvalidResponseError"
                             ELSE IF status # "completed" THEN "AIInvalidResponseError" ELSE "none"
  OBVIOUS
<1>4. PICK whole : whole = IF status = "max_output_tokens" THEN "AIOutputLimitError"
                           ELSE IF status = "incomplete" THEN "AIInvalidResponseError" ELSE "none"
  OBVIOUS
<1>5. _check_structured_finish(reply, TRUE) = error
      /\ _check_structured_finish(reply, streaming) = IF streaming THEN error ELSE whole
  BY <1>2, <1>3, <1>4, Zenon DEF _check_structured_finish
<1>6. ainvoke_structured(reply, streaming) =
         IF text = "mistyped" THEN "AIInvalidResponseError"
         ELSE IF (IF streaming THEN error ELSE whole) # "none" THEN (IF streaming THEN error ELSE whole)
         ELSE IF text = "read" THEN "value" ELSE "AIInvalidResponseError"
  BY <1>2, <1>5, Zenon DEF ainvoke_structured
<1>7. astream_structured(combined, reply) =
         IF combined = <<>> \/ text = "mistyped" THEN "AIInvalidResponseError"
         ELSE IF error # "none" THEN error
         ELSE IF text = "read" THEN "value" ELSE "AIInvalidResponseError"
  BY <1>2, <1>5, Zenon DEF astream_structured
<1>8. astream_structured(<<"chunk">>, reply) =
         IF text = "mistyped" THEN "AIInvalidResponseError"
         ELSE IF error # "none" THEN error
         ELSE IF text = "read" THEN "value" ELSE "AIInvalidResponseError"
  <2>1. <<"chunk">> # <<>>
    OBVIOUS
  <2> QED
    BY <1>2, <1>5, <2>1, Zenon DEF astream_structured
<1>9. CASE streaming
  BY <1>1, <1>2, <1>3, <1>6, <1>7, <1>8, <1>9
<1>10. CASE ~streaming
  BY <1>1, <1>2, <1>3, <1>4, <1>6, <1>7, <1>8, <1>10
<1> QED
  BY <1>9, <1>10

LEMMA AskedTruly ==
    ASSUME LlmInv(llm), llm.at = "calling"
    PROVE  IsRec(llm, LlmFields) /\ llm.asked # 0 /\ llm.failure = "none" /\ llm.via \in Vias
           /\ llm.reply \in Replies /\ llm.tools \in ToolReplies
<1>1. llm.asked \in 0..LLM_MAX_RETRIES + 1 /\ llm.asked > 0
  BY Zenon DEF LlmInv, Typed
<1>2. LLM_MAX_RETRIES \in Nat
  BY Zenon, LlmAssumption
<1>3. llm.asked # 0
  BY <1>1, <1>2
<1>4. llm.at # "done"
  OBVIOUS
<1> QED
  BY <1>3, <1>4, Zenon DEF LlmInv, Typed

\* A result that is no error of the connection.
LEMMA ResponseIsNoFailure ==
    ASSUME NEW result \in {"value", "AIInvalidResponseError", "AIOutputLimitError"}
    PROVE  result \in Results /\ result # "AIConfigError" /\ _error_code(result) # "AI_UNAVAILABLE"
<1>1. result # "AIConfigError" /\ result \in Results
  BY DEF Results, AIErrors, RetryableErrors, InvalidResponses
<1>2. CASE result = "value"
  BY <1>1, <1>2 DEF AIErrors, RetryableErrors, InvalidResponses, _error_code
<1>3. CASE result \in InvalidResponses
  BY <1>1, <1>3 DEF _error_code
<1> QED
  BY <1>1, <1>2, <1>3 DEF InvalidResponses

LEMMA StructuredReplyInv == LlmInv(llm) /\ structured_reply => LlmInv(llm')
<1> SUFFICES ASSUME LlmInv(llm), structured_reply PROVE LlmInv(llm')
  OBVIOUS
<1>1. llm.at = "calling" /\ llm.via \in {"structured", "streamed"}
  BY Zenon DEF structured_reply
<1>2. PICK reply, result :
         /\ reply \in Replies
         /\ result = IF llm.via = "structured" THEN ainvoke_structured(reply, llm.streaming)
                     ELSE astream_structured(llm.combined, reply)
         /\ llm' = [llm EXCEPT !.at = "done", !.reply = reply, !.result = result]
  <2>1. PICK reply \in Replies :
           llm' = [llm EXCEPT !.at = "done", !.reply = reply,
                     !.result = IF llm.via = "structured" THEN ainvoke_structured(reply, llm.streaming)
                                ELSE astream_structured(llm.combined, reply)]
    BY Zenon DEF structured_reply
  <2>2. PICK result : result = IF llm.via = "structured" THEN ainvoke_structured(reply, llm.streaming)
                               ELSE astream_structured(llm.combined, reply)
    OBVIOUS
  <2> QED
    BY <2>1, <2>2, Zenon
<1>3. IsRec(llm, LlmFields) /\ llm.asked # 0 /\ llm.failure = "none" /\ llm.tools \in ToolReplies
  BY <1>1, AskedTruly
<1>4. llm' = Put(Put(Put(llm, "at", "done"), "reply", reply), "result", result)
  BY <1>2, Zenon DEF Put
<1>5. /\ IsRec(llm', LlmFields) /\ llm'.at = "done" /\ llm'.reply = reply /\ llm'.result = result
      /\ \A j \in LlmFields : j # "at" /\ j # "reply" /\ j # "result" => llm'[j] = llm[j]
  BY <1>4, <1>3, LlmFieldsHave, Put3
<1>6. /\ llm'.via = llm.via /\ llm'.blank = llm.blank /\ llm'.streaming = llm.streaming
      /\ llm'.asked = llm.asked /\ llm'.failure = llm.failure /\ llm'.combined = llm.combined
      /\ llm'.told = llm.told /\ llm'.tools = llm.tools /\ llm'.texts = llm.texts
      /\ llm'.vectors = llm.vectors
  BY <1>5, LlmFieldsHave
<1>7. /\ result \in {"value", "AIInvalidResponseError", "AIOutputLimitError"}
      /\ result = "value" => /\ reply.text = "read" /\ reply.status \notin {"max_output_tokens", "incomplete"}
                             /\ llm.via = "streamed" \/ llm.streaming => reply.status = "completed"
      /\ llm.via = "structured" /\ llm.streaming => result = astream_structured(<<"chunk">>, reply)
  <2>1. "completed" \notin {"max_output_tokens", "incomplete"} /\ "streamed" # "structured"
    OBVIOUS
  <2>2. CASE llm.via = "structured"
    BY <1>2, <2>1, <2>2, StructuredJudged, Zenon
  <2>3. CASE llm.via = "streamed"
    <3>1. result = astream_structured(llm.combined, reply)
      BY <1>2, <2>1, <2>3, Zenon
    <3>2. reply \in Replies
      BY <1>2
    <3>3. /\ result \in {"value", "AIInvalidResponseError", "AIOutputLimitError"}
          /\ result = "value" => reply.text = "read" /\ reply.status = "completed"
      BY <3>1, <3>2, StructuredJudged
    <3> QED
      BY <2>1, <2>3, <3>3, Zenon
  <2> QED
    BY <1>1, <2>2, <2>3
<1>8. result \in Results /\ result # "AIConfigError" /\ _error_code(result) # "AI_UNAVAILABLE"
  BY <1>7, ResponseIsNoFailure
<1>9. WholeReply(llm')
  <2>1. llm'.via = llm.via /\ llm'.streaming = llm.streaming
    BY <1>6
  <2>2. llm.via # "tools" /\ llm.via # "embed"
    BY <1>1
  <2>3. CASE llm.via = "structured" \/ llm.streaming
    BY <1>5, <1>7, <2>1, <2>2, <2>3 DEF WholeReply
  <2>4. CASE llm.via = "streamed"
    BY <1>5, <1>7, <2>1, <2>2, <2>4 DEF WholeReply
  <2> QED
    BY <1>1, <2>3, <2>4
<1>10. ToldTruly(llm')
  <2>1. "none" # "authentication" /\ "none" # "model_not_allowed"
    OBVIOUS
  <2>2. llm'.asked # 0 /\ llm'.failure = "none" /\ llm'.result = result /\ llm'.reply = reply
        /\ llm'.via = llm.via /\ llm'.streaming = llm.streaming
    BY <1>3, <1>5, <1>6, Zenon
  <2>3. llm'.failure \notin {"authentication", "model_not_allowed"}
    BY <2>1, <2>2
  <2> QED
    BY <1>7, <1>8, <2>2, <2>3, Zenon DEF ToldTruly
<1> QED
  BY <1>1, <1>2, <1>3, <1>5, <1>6, <1>8, <1>9, <1>10, CallEnds, Zenon

LEMMA ToolsReplyInv == LlmInv(llm) /\ tools_reply => LlmInv(llm')
<1> SUFFICES ASSUME LlmInv(llm), tools_reply PROVE LlmInv(llm')
  OBVIOUS
<1>1. llm.at = "calling" /\ llm.via = "tools"
  BY Zenon DEF tools_reply
<1>2. PICK r, result : r \in ToolReplies /\ result = ainvoke_with_tools(r)
                                       /\ llm' = [llm EXCEPT !.at = "done", !.tools = r, !.result = result]
  BY Zenon DEF tools_reply
<1>3. IsRec(llm, LlmFields) /\ llm.asked # 0 /\ llm.failure = "none" /\ llm.reply \in Replies
  BY <1>1, AskedTruly
<1>4. llm' = Put(Put(Put(llm, "at", "done"), "tools", r), "result", result)
  BY <1>2, Zenon DEF Put
<1>5. /\ IsRec(llm', LlmFields) /\ llm'.at = "done" /\ llm'.tools = r /\ llm'.result = result
      /\ \A j \in LlmFields : j # "at" /\ j # "tools" /\ j # "result" => llm'[j] = llm[j]
  BY <1>4, <1>3, LlmFieldsHave, Put3
<1>6. /\ llm'.via = llm.via /\ llm'.blank = llm.blank /\ llm'.streaming = llm.streaming
      /\ llm'.asked = llm.asked /\ llm'.failure = llm.failure /\ llm'.combined = llm.combined
      /\ llm'.told = llm.told /\ llm'.reply = llm.reply /\ llm'.texts = llm.texts
      /\ llm'.vectors = llm.vectors
  BY <1>5, LlmFieldsHave
<1>7. /\ result \in {"value", "AIInvalidResponseError", "AIOutputLimitError"}
      /\ result = "value" => r.readable /\ (r.asks => r.allowed)
  BY <1>2 DEF ainvoke_with_tools, ToolReplies
<1>8. result \in Results /\ result # "AIConfigError" /\ _error_code(result) # "AI_UNAVAILABLE"
  BY <1>7, ResponseIsNoFailure
<1>9. WholeReply(llm')
  <2>1. llm'.via = "tools" /\ llm'.tools = r /\ llm'.result = result
    BY <1>1, <1>5, <1>6
  <2> QED
    BY <1>7, <2>1 DEF WholeReply
<1>10. ToldTruly(llm')
  <2>1. "none" # "authentication" /\ "none" # "model_not_allowed" /\ "tools" # "structured"
    OBVIOUS
  <2>2. llm'.asked # 0 /\ llm'.failure = "none" /\ llm'.result = result /\ llm'.via = "tools"
    BY <1>1, <1>3, <1>5, <1>6, Zenon
  <2>3. llm'.failure \notin {"authentication", "model_not_allowed"}
    BY <2>1, <2>2
  <2> QED
    BY <1>8, <2>1, <2>2, <2>3, Zenon DEF ToldTruly
<1> QED
  BY <1>1, <1>2, <1>3, <1>5, <1>6, <1>8, <1>9, <1>10, CallEnds, Zenon

\* One full vector for each text, or no vectors at all.
LEMMA VectorsJudged ==
    ASSUME NEW texts, NEW vectors, NEW n \in Nat, vectors \in [1..n -> Int]
    PROVE  /\ aembed_texts(texts, vectors) \in {"value", "AIInvalidResponseError", "AIOutputLimitError"}
           /\ aembed_texts(texts, vectors) = "value" => vectors = [i \in 1..texts |-> EMBEDDING_DIMENSIONS]
<1>1. Len(vectors) = n /\ DOMAIN vectors = 1..n
  <2>1. vectors \in Seq(Int)
    OBVIOUS
  <2> QED
    BY <2>1
<1> QED
  BY <1>1 DEF aembed_texts

LEMMA EmbeddingReplyInv == LlmInv(llm) /\ embedding_reply => LlmInv(llm')
<1> SUFFICES ASSUME LlmInv(llm), embedding_reply PROVE LlmInv(llm')
  OBVIOUS
<1>1. llm.at = "calling" /\ llm.via = "embed"
  BY Zenon DEF embedding_reply
<1>2. PICK n, vectors, result :
         /\ n \in 0..MaxEmbedTexts + 1
         /\ vectors \in [1..n -> EMBEDDING_DIMENSIONS - 1..EMBEDDING_DIMENSIONS]
         /\ result = aembed_texts(llm.texts, vectors)
         /\ llm' = [llm EXCEPT !.at = "done", !.vectors = vectors, !.result = result]
  <2>1. PICK n \in 0..MaxEmbedTexts + 1 :
           \E vectors \in [1..n -> EMBEDDING_DIMENSIONS - 1..EMBEDDING_DIMENSIONS] :
             llm' = [llm EXCEPT !.at = "done", !.vectors = vectors, !.result = aembed_texts(llm.texts, vectors)]
    BY Zenon DEF embedding_reply
  <2>2. PICK vectors \in [1..n -> EMBEDDING_DIMENSIONS - 1..EMBEDDING_DIMENSIONS] :
           llm' = [llm EXCEPT !.at = "done", !.vectors = vectors, !.result = aembed_texts(llm.texts, vectors)]
    BY <2>1, Zenon
  <2> QED
    BY <2>1, <2>2, Zenon
<1>3. IsRec(llm, LlmFields) /\ llm.asked # 0 /\ llm.failure = "none" /\ llm.reply \in Replies
      /\ llm.tools \in ToolReplies
  BY <1>1, AskedTruly
<1>4. llm' = Put(Put(Put(llm, "at", "done"), "vectors", vectors), "result", result)
  BY <1>2, Zenon DEF Put
<1>5. /\ IsRec(llm', LlmFields) /\ llm'.at = "done" /\ llm'.vectors = vectors /\ llm'.result = result
      /\ \A j \in LlmFields : j # "at" /\ j # "vectors" /\ j # "result" => llm'[j] = llm[j]
  BY <1>4, <1>3, LlmFieldsHave, Put3
<1>6. /\ llm'.via = llm.via /\ llm'.blank = llm.blank /\ llm'.streaming = llm.streaming
      /\ llm'.asked = llm.asked /\ llm'.failure = llm.failure /\ llm'.combined = llm.combined
      /\ llm'.told = llm.told /\ llm'.reply = llm.reply /\ llm'.tools = llm.tools
      /\ llm'.texts = llm.texts
  BY <1>5, LlmFieldsHave
<1>7. /\ result \in {"value", "AIInvalidResponseError", "AIOutputLimitError"}
      /\ result = "value" => vectors = [i \in 1..llm.texts |-> EMBEDDING_DIMENSIONS]
  <2>1. MaxEmbedTexts \in Nat /\ EMBEDDING_DIMENSIONS \in Nat
    BY Zenon, LlmAssumption
  <2>2. n \in Nat /\ vectors \in [1..n -> Int]
    BY <1>2, <2>1
  <2> QED
    BY <1>2, <2>2, VectorsJudged
<1>8. result \in Results /\ result # "AIConfigError" /\ _error_code(result) # "AI_UNAVAILABLE"
  BY <1>7, ResponseIsNoFailure
<1>9. WholeReply(llm')
  <2>1. llm'.via = "embed" /\ llm'.vectors = vectors /\ llm'.result = result /\ llm'.texts = llm.texts
    BY <1>1, <1>5, <1>6
  <2>2. "embed" # "tools"
    OBVIOUS
  <2> QED
    BY <1>7, <2>1, <2>2 DEF WholeReply
<1>10. ToldTruly(llm')
  <2>1. "none" # "authentication" /\ "none" # "model_not_allowed" /\ "embed" # "structured"
    OBVIOUS
  <2>2. llm'.asked # 0 /\ llm'.failure = "none" /\ llm'.result = result /\ llm'.via = "embed"
    BY <1>1, <1>3, <1>5, <1>6, Zenon
  <2>3. llm'.failure \notin {"authentication", "model_not_allowed"}
    BY <2>1, <2>2
  <2> QED
    BY <1>8, <2>1, <2>2, <2>3, Zenon DEF ToldTruly
<1> QED
  BY <1>1, <1>2, <1>3, <1>5, <1>6, <1>8, <1>9, <1>10, CallEnds, Zenon

LEMMA BeginCallInv == LlmInv(llm) /\ begin_call => LlmInv(llm')
<1> SUFFICES ASSUME LlmInv(llm), begin_call PROVE LlmInv(llm')
  OBVIOUS
<1>1. llm.at = "idle" /\ llm.at # "done"
  BY DEF begin_call
<1>2. IsRec(llm, LlmFields) /\ llm.asked = 0 /\ llm.failure = "none" /\ llm.result = "none"
      /\ llm.reply \in Replies /\ llm.tools \in ToolReplies /\ Collected(llm)
  BY <1>1, Zenon DEF LlmInv, Typed
<1>3. PICK via, blank, texts, streaming :
         /\ via \in Vias /\ blank \in SUBSET AISettings
         /\ \/ llm' = [llm EXCEPT !.at = "calling", !.via = via, !.blank = blank,
                                  !.streaming = streaming, !.asked = 1, !.texts = texts]
            \/ llm' = [llm EXCEPT !.at = "done", !.via = via, !.blank = blank, !.result = "AIConfigError"]
  <2>1. PICK via \in Vias, blank \in SUBSET AISettings, texts \in 0..MaxEmbedTexts :
           \E streaming \in IF via = "streamed" THEN {TRUE} ELSE BOOLEAN :
             llm' = IF required(via, blank)
                    THEN [llm EXCEPT !.at = "calling", !.via = via, !.blank = blank,
                                     !.streaming = streaming, !.asked = 1, !.texts = texts]
                    ELSE [llm EXCEPT !.at = "done", !.via = via, !.blank = blank, !.result = "AIConfigError"]
    BY Zenon DEF begin_call
  <2>2. PICK streaming :
           llm' = IF required(via, blank)
                  THEN [llm EXCEPT !.at = "calling", !.via = via, !.blank = blank,
                                   !.streaming = streaming, !.asked = 1, !.texts = texts]
                  ELSE [llm EXCEPT !.at = "done", !.via = via, !.blank = blank, !.result = "AIConfigError"]
    BY <2>1, Zenon
  <2>3. CASE required(via, blank)
    BY <2>2, <2>3, Zenon
  <2>4. CASE ~required(via, blank)
    BY <2>2, <2>4, Zenon
  <2> QED
    BY <2>3, <2>4
<1>4. LLM_MAX_RETRIES \in Nat
  BY Zenon, LlmAssumption
<1>9. CASE llm' = [llm EXCEPT !.at = "calling", !.via = via, !.blank = blank,
                             !.streaming = streaming, !.asked = 1, !.texts = texts]
  <2>1. PICK u, w : u = [llm EXCEPT !.at = "calling", !.via = via]
                    /\ w = [u EXCEPT !.blank = blank, !.streaming = streaming]
    OBVIOUS
  <2>2. u = Put(Put(llm, "at", "calling"), "via", via)
    BY <2>1, Zenon DEF Put
  <2>3. /\ IsRec(u, LlmFields) /\ u.at = "calling" /\ u.via = via
        /\ \A j \in LlmFields : j # "at" /\ j # "via" => u[j] = llm[j]
    BY <2>2, <1>2, LlmFieldsHave, Put2
  <2>4. /\ u.blank = llm.blank /\ u.streaming = llm.streaming /\ u.asked = llm.asked
        /\ u.failure = llm.failure /\ u.combined = llm.combined /\ u.told = llm.told
        /\ u.reply = llm.reply /\ u.tools = llm.tools /\ u.texts = llm.texts /\ u.vectors = llm.vectors
        /\ u.result = llm.result
    BY <2>3, LlmFieldsHave
  <2>5. w = Put(Put(u, "blank", blank), "streaming", streaming)
    BY <2>1, Zenon DEF Put
  <2>6. /\ IsRec(w, LlmFields) /\ w.blank = blank /\ w.streaming = streaming
        /\ \A j \in LlmFields : j # "blank" /\ j # "streaming" => w[j] = u[j]
    BY <2>5, <2>3, LlmFieldsHave, Put2
  <2>7. /\ w.at = u.at /\ w.via = u.via /\ w.asked = u.asked /\ w.failure = u.failure
        /\ w.combined = u.combined /\ w.told = u.told /\ w.reply = u.reply /\ w.tools = u.tools
        /\ w.texts = u.texts /\ w.vectors = u.vectors /\ w.result = u.result
    BY <2>6, LlmFieldsHave
  <2>8. llm' = [w EXCEPT !.asked = 1, !.texts = texts]
    BY <1>9, <2>1, Zenon
  <2>13. llm' = Put(Put(w, "asked", 1), "texts", texts)
    BY <2>8, Zenon DEF Put
  <2>14. /\ IsRec(llm', LlmFields) /\ llm'.asked = 1 /\ llm'.texts = texts
        /\ \A j \in LlmFields : j # "asked" /\ j # "texts" => llm'[j] = w[j]
    BY <2>13, <2>6, LlmFieldsHave, Put2
  <2>15. /\ llm'.at = w.at /\ llm'.via = w.via /\ llm'.blank = w.blank /\ llm'.streaming = w.streaming
        /\ llm'.failure = w.failure /\ llm'.combined = w.combined /\ llm'.told = w.told
        /\ llm'.reply = w.reply /\ llm'.tools = w.tools /\ llm'.vectors = w.vectors
        /\ llm'.result = w.result
    BY <2>14, LlmFieldsHave
  <2>9. /\ llm'.at = "calling" /\ llm'.via = via /\ llm'.blank = blank /\ llm'.asked = 1
        /\ llm'.reply = llm.reply /\ llm'.tools = llm.tools /\ llm'.result = "none" /\ llm'.failure = "none"
        /\ llm'.combined = llm.combined /\ llm'.told = llm.told /\ IsRec(llm', LlmFields)
    BY <1>2, <2>3, <2>4, <2>6, <2>7, <2>14, <2>15, Zenon
  <2>10. 1 \in 0..LLM_MAX_RETRIES + 1 /\ 1 > 0 /\ "none" \in Results /\ "calling" # "done" /\ "calling" # "idle"
    BY <1>4 DEF Results
  <2>11. Typed(llm')
    <3>1. llm'.at \in {"idle", "calling", "done"}
      BY <2>9
    <3>2. llm'.blank \subseteq AISettings
      BY <1>3, <2>9
    <3> QED
      BY <1>2, <1>3, <2>9, <2>10, <3>1, <3>2, Zenon DEF Typed
  <2>12. Collected(llm')
    BY <1>2, <2>9, Zenon DEF Collected
  <2> QED
    BY <2>9, <2>10, <2>11, <2>12, Zenon DEF LlmInv
<1>10. CASE llm' = [llm EXCEPT !.at = "done", !.via = via, !.blank = blank, !.result = "AIConfigError"]
  <2>1. PICK u : u = [llm EXCEPT !.at = "done", !.via = via]
    OBVIOUS
  <2>10. u = Put(Put(llm, "at", "done"), "via", via)
    BY <2>1, Zenon DEF Put
  <2>11. /\ IsRec(u, LlmFields) /\ u.at = "done" /\ u.via = via
        /\ \A j \in LlmFields : j # "at" /\ j # "via" => u[j] = llm[j]
    BY <2>10, <1>2, LlmFieldsHave, Put2
  <2>12. /\ u.blank = llm.blank /\ u.streaming = llm.streaming /\ u.asked = llm.asked
        /\ u.failure = llm.failure /\ u.combined = llm.combined /\ u.told = llm.told
        /\ u.reply = llm.reply /\ u.tools = llm.tools /\ u.texts = llm.texts /\ u.vectors = llm.vectors
        /\ u.result = llm.result
    BY <2>11, LlmFieldsHave
  <2>13. llm' = [u EXCEPT !.blank = blank, !.result = "AIConfigError"]
    BY <1>10, <2>1, Zenon
  <2>2. llm' = Put(Put(u, "blank", blank), "result", "AIConfigError")
    BY <2>13, Zenon DEF Put
  <2>3. /\ IsRec(llm', LlmFields) /\ llm'.blank = blank /\ llm'.result = "AIConfigError"
        /\ \A j \in LlmFields : j # "blank" /\ j # "result" => llm'[j] = u[j]
    BY <2>2, <2>11, LlmFieldsHave, Put2
  <2>4. /\ llm'.at = u.at /\ llm'.via = u.via /\ llm'.streaming = u.streaming /\ llm'.asked = u.asked
        /\ llm'.failure = u.failure /\ llm'.combined = u.combined /\ llm'.told = u.told
        /\ llm'.reply = u.reply /\ llm'.tools = u.tools /\ llm'.texts = u.texts
        /\ llm'.vectors = u.vectors
    BY <2>3, LlmFieldsHave
  <2>5. /\ llm'.at = "done" /\ llm'.via = via /\ llm'.blank = blank /\ llm'.asked = 0
        /\ llm'.reply = llm.reply /\ llm'.tools = llm.tools /\ llm'.result = "AIConfigError" /\ llm'.failure = "none"
        /\ llm'.combined = llm.combined /\ llm'.told = llm.told /\ IsRec(llm', LlmFields)
    BY <1>2, <2>3, <2>4, <2>11, <2>12, Zenon
  <2>6. /\ 0 \in 0..LLM_MAX_RETRIES + 1 /\ "AIConfigError" \in Results /\ "AIConfigError" # "value"
        /\ "done" # "calling" /\ "done" # "idle" /\ _error_code("AIConfigError") # "AI_UNAVAILABLE" /\ ~(0 > 0)
    BY <1>4 DEF Results, AIErrors, RetryableErrors, InvalidResponses, _error_code
  <2>7. Typed(llm')
    <3>1. llm'.at \in {"idle", "calling", "done"}
      BY <2>5
    <3>2. llm'.blank \subseteq AISettings
      BY <1>3, <2>5
    <3> QED
      BY <1>2, <1>3, <2>5, <2>6, <3>1, <3>2, Zenon DEF Typed
  <2>8. Collected(llm')
    BY <1>2, <2>5, Zenon DEF Collected
  <2>9. WholeReply(llm') /\ ToldTruly(llm')
    BY <2>5, <2>6, Zenon DEF WholeReply, ToldTruly
  <2> QED
    BY <2>5, <2>6, <2>7, <2>8, <2>9, Zenon DEF LlmInv
<1> QED
  BY <1>3, <1>9, <1>10

LEMMA LlmInvNext == LlmInv(llm) /\ [LlmNext]_llmVars => LlmInv(llm')
<1>1. UNCHANGED llmVars => llm' = llm
  BY DEF llmVars
<1> QED
  BY <1>1, BeginCallInv, RetriesInv, RequestFailsInv, ReceivePieceInv, StreamFailsInv, StructuredReplyInv,
     ToolsReplyInv, EmbeddingReplyInv, Zenon DEF LlmNext

----------------------------------------------------------------------------
(* What a draft says *)

Scans == [month : 0..99, adjacent : BOOLEAN, wrong : SUBSET {"date", "weekday"}]

\* A mark is one of these.
MarkOf(mark) ==
    \/ mark.kind = "date" /\ mark.month \in 0..99
    \/ mark.kind = "next"
    \/ mark.kind \in {"hole", "korean"}
    \/ mark.kind \in {"amount", "time", "word"}

LEMMA MarksAre == \A mark \in Marks : MarkOf(mark)
<1> SUFFICES ASSUME NEW mark \in Marks PROVE MarkOf(mark)
  OBVIOUS
<1>1. \/ mark \in [kind : {"date"}, month : 0..99, day : 0..99, weekday : STRING]
      \/ mark \in [kind : {"next"}, day : 0..99, weekday : STRING]
      \/ mark \in [kind : {"amount"}, won : Nat]
      \/ mark \in [kind : {"korean", "time", "hole", "word"}]
  BY DEF Marks
<1> QED
  BY <1>1 DEF MarkOf

\* One match, by what the mark is.
LEMMA ScanStep ==
    ASSUME NEW x, NEW mark
    PROVE  /\ mark.kind \in {"hole", "korean"} => _date_violations(x, mark) = x
           /\ mark.kind = "date" =>
                _date_violations(x, mark) = read_date(x, [month |-> mark.month, day |-> mark.day], mark.weekday)
           /\ mark.kind = "next" /\ x.adjacent =>
                _date_violations(x, mark) = read_date(x, [month |-> x.month, day |-> mark.day], mark.weekday)
           /\ mark.kind = "next" /\ ~x.adjacent =>
                _date_violations(x, mark) = [x EXCEPT !.adjacent = FALSE]
           /\ mark.kind \in {"amount", "time", "word"} => _date_violations(x, mark) = [x EXCEPT !.adjacent = FALSE]
BY DEF _date_violations

LEMMA ViolationsOfADate ==
    ASSUME NEW d, NEW written
    PROVE  /\ date_violations(d, written) \in SUBSET {"date", "weekday"}
           /\ date_violations(d, written) = {} <=> d \in AllowedDates /\ written \in {NoWeekday, WeekdayOf(d)}
BY DEF date_violations

LEMMA ScanTyped == \A x \in Scans, mark \in Marks : _date_violations(x, mark) \in Scans
<1> SUFFICES ASSUME NEW x \in Scans, NEW mark \in Marks PROVE _date_violations(x, mark) \in Scans
  OBVIOUS
<1>1. MarkOf(mark)
  BY MarksAre
<1>2. x.month \in 0..99 /\ x.wrong \in SUBSET {"date", "weekday"}
  BY DEF Scans
<1>3. ASSUME NEW d, NEW written, d.month \in 0..99 PROVE read_date(x, d, written) \in Scans
  <2>1. PICK v : v = date_violations(d, written)
    OBVIOUS
  <2>2. v \in SUBSET {"date", "weekday"}
    BY <2>1, ViolationsOfADate
  <2>3. read_date(x, d, written) = [month |-> d.month, adjacent |-> TRUE, wrong |-> x.wrong \cup v]
    BY <2>1, Zenon DEF read_date
  <2>4. PICK w, m, yes : w = x.wrong \cup v /\ m = d.month /\ yes = TRUE
    OBVIOUS
  <2>5. w \in SUBSET {"date", "weekday"} /\ m \in 0..99 /\ yes \in BOOLEAN
    BY <1>2, <1>3, <2>2, <2>4
  <2>6. [month |-> m, adjacent |-> yes, wrong |-> w] \in Scans
    BY <2>5 DEF Scans
  <2> QED
    BY <2>3, <2>4, <2>6
<1>4. [x EXCEPT !.adjacent = FALSE] \in Scans
  BY DEF Scans
<1>5. CASE mark.kind = "date" /\ mark.month \in 0..99
  <2>1. PICK d : d = [month |-> mark.month, day |-> mark.day]
    OBVIOUS
  <2>2. d.month \in 0..99
    BY <1>5, <2>1
  <2>3. _date_violations(x, mark) = read_date(x, d, mark.weekday)
    BY <1>5, <2>1, ScanStep
  <2> QED
    BY <1>3, <2>2, <2>3
<1>6. CASE mark.kind = "next"
  <2>1. PICK d : d = [month |-> x.month, day |-> mark.day]
    OBVIOUS
  <2>2. d.month \in 0..99
    BY <1>2, <2>1
  <2>3. CASE x.adjacent
    <3>1. _date_violations(x, mark) = read_date(x, d, mark.weekday)
      BY <1>6, <2>1, <2>3, ScanStep
    <3> QED
      BY <1>3, <2>2, <3>1
  <2>4. CASE ~x.adjacent
    BY <1>4, <1>6, <2>4, ScanStep
  <2> QED
    BY <2>3, <2>4
<1>7. CASE mark.kind \in {"hole", "korean"}
  BY <1>7, ScanStep
<1>8. CASE mark.kind \in {"amount", "time", "word"}
  BY <1>4, <1>8, ScanStep
<1> QED
  BY <1>1, <1>5, <1>6, <1>7, <1>8 DEF MarkOf

LEMMA ScanReaches ==
    ASSUME NEW text \in Seq(Marks), Scan0 \in Scans,
           NEW I, Scan0 \in I[0],
           \A i \in 0..Len(text) : i < Len(text) =>
               \A x \in I[i] \cap Scans : _date_violations(x, text[i + 1]) \in I[i + 1]
    PROVE  FoldLeft(_date_violations, Scan0, text) \in I[Len(text)] \cap Scans
<1> DEFINE n == Len(text)
           step == [p \in (1..n) \X Scans |-> _date_violations(p[2], text[p[1]])]
           is(it) == it = [s \in SUBSET (DOMAIN text) |->
                        IF s = {} THEN Scan0 ELSE _date_violations(it[s \ {Max(s)}], text[Max(s)])]
           c == CHOOSE it : is(it)
<1>1. n \in Nat /\ DOMAIN text = 1..n
  OBVIOUS
<1>2. FoldLeft(_date_violations, Scan0, text) = c[DOMAIN text]
  BY Zenon DEF FoldLeft, MapThenFoldSet
<1>3. \A i \in 1..n, x \in Scans : _date_violations(x, text[i]) \in Scans
  BY ScanTyped
<1>4. step \in [(1..n) \X Scans -> Scans]
  BY <1>3
<1>5. \A i \in 1..n, x \in Scans : step[i, x] = _date_violations(x, text[i])
  OBVIOUS
<1> HIDE DEF n, step
<1>17. Scan0 \in Scans
  OBVIOUS
<1>6. FoldOn(n, Scans, Scan0, step)
  BY <1>1, <1>4, <1>17, FoldExists
<1>7. PICK it \in [SUBSET (1..n) -> Scans] :
         /\ it[{}] = Scan0
         /\ \A s \in SUBSET (1..n) : s # {} => Max(s) \in s /\ it[s] = step[Max(s), it[s \ {Max(s)}]]
  BY <1>6 DEF FoldOn
<1>8. ASSUME NEW s \in SUBSET (1..n), s # {}
      PROVE  it[s] = _date_violations(it[s \ {Max(s)}], text[Max(s)])
  <2>1. Max(s) \in 1..n /\ it[s \ {Max(s)}] \in Scans
    BY <1>7, <1>8
  <2> QED
    BY <1>5, <1>7, <1>8, <2>1
<1>9. is(it)
  <2>1. it = [s \in SUBSET (1..n) |-> it[s]]
    OBVIOUS
  <2>2. \A s \in SUBSET (1..n) :
           it[s] = IF s = {} THEN Scan0 ELSE _date_violations(it[s \ {Max(s)}], text[Max(s)])
    BY <1>7, <1>8
  <2> QED
    BY <1>1, <2>1, <2>2
<1>10. is(c)
  <2> HIDE DEF is
  <2> QED
    BY <1>9
<1> HIDE DEF c
<1>11. c = [s \in SUBSET (1..n) |->
              IF s = {} THEN Scan0 ELSE _date_violations(c[s \ {Max(s)}], text[Max(s)])]
  BY <1>1, <1>10
<1> HIDE DEF is
<1>12. /\ c[{}] = Scan0
       /\ \A s \in SUBSET (1..n) : s # {} => c[s] = _date_violations(c[s \ {Max(s)}], text[Max(s)])
  BY <1>11
<1>13. Folds(c, n, Scans, Scan0, step)
  <2> SUFFICES ASSUME NEW s \in SUBSET (1..n), s # {}, c[s \ {Max(s)}] \in Scans
               PROVE  c[s] = step[Max(s), c[s \ {Max(s)}]]
    BY <1>12 DEF Folds
  <2>1. Max(s) \in 1..n
    BY <1>7
  <2> QED
    BY <1>5, <1>12, <2>1
<1>14. ASSUME NEW i \in 0..n, i < n, NEW x \in I[i] \cap Scans
       PROVE  step[i + 1, x] \in I[i + 1]
  <2>1. i + 1 \in 1..n
    BY <1>1, <1>14
  <2>2. _date_violations(x, text[i + 1]) \in I[i + 1]
    BY <1>14 DEF n
  <2> QED
    BY <1>5, <1>14, <2>1, <2>2
<1>15. Leads(I, n, Scans, Scan0, step)
  BY <1>14 DEF Leads
<1>16. c[1..n] \in I[n] \cap Scans
  BY <1>1, <1>17, <1>4, <1>13, <1>15, FoldReaches
<1> QED
  BY <1>1, <1>2, <1>16 DEF n

\* The marks before the i-th that a reader sees, those of them with nothing but
\* dates up to the i-th, and the full dates among these.
Seen(text, i) == {k \in 1..(i - 1) : text[k].kind \notin {"hole", "korean"}}
RunBefore(text, i) == {k \in Seen(text, i) : \A j \in Seen(text, i) : j >= k => text[j].kind \in {"date", "next"}}
DateHeads(text, i) == {k \in RunBefore(text, i) : text[k].kind = "date"}

LastHead(text, i) == CHOOSE k \in DateHeads(text, i) : \A j \in DateHeads(text, i) : j <= k

LEMMA DateAtIs ==
    ASSUME NEW text, NEW i
    PROVE  DateAt(text, i) =
             IF text[i].kind = "date" THEN {[month |-> text[i].month, day |-> text[i].day]}
             ELSE IF text[i].kind = "next" /\ DateHeads(text, i) # {}
                  THEN {[month |-> text[LastHead(text, i)].month, day |-> text[i].day]}
                  ELSE {}
BY Zenon DEF DateAt, DateHeads, RunBefore, Seen, LastHead

\* What a reader of the text may not object to at its j-th mark.
Given(text, j) == \A d \in DateAt(text, j) : d \in AllowedDates /\ text[j].weekday \in {NoWeekday, WeekdayOf(d)}

\* A scan that has come to the end of the first i marks.
ScanOf(text, i, x) ==
    /\ x.adjacent <=> DateHeads(text, i + 1) # {}
    /\ DateHeads(text, i + 1) # {} => LastHead(text, i + 1) \in 1..i /\ x.month = text[LastHead(text, i + 1)].month
    /\ x.wrong = {} <=> \A j \in 1..i : Given(text, j)

LEMMA SeenMore ==
    ASSUME NEW text, NEW i \in Nat
    PROVE  /\ text[i + 1].kind \in {"hole", "korean"} => Seen(text, i + 2) = Seen(text, i + 1)
           /\ text[i + 1].kind \notin {"hole", "korean"} => Seen(text, i + 2) = Seen(text, i + 1) \cup {i + 1}
           /\ \A k \in Seen(text, i + 1) : k \in Nat /\ k < i + 1
BY DEF Seen

LEMMA HeadsMore ==
    ASSUME NEW text, NEW i \in Nat
    PROVE  /\ text[i + 1].kind \in {"hole", "korean"} => DateHeads(text, i + 2) = DateHeads(text, i + 1)
           /\ text[i + 1].kind = "next" => DateHeads(text, i + 2) = DateHeads(text, i + 1)
           /\ text[i + 1].kind = "date" => DateHeads(text, i + 2) = DateHeads(text, i + 1) \cup {i + 1}
           /\ text[i + 1].kind \in {"amount", "time", "word"} => DateHeads(text, i + 2) = {}
           /\ DateHeads(text, i + 1) \subseteq 1..i
<1>1. PICK A, B : A = Seen(text, i + 1) /\ B = Seen(text, i + 2)
  OBVIOUS
<1>2. PICK n \in Nat : n = i + 1
  OBVIOUS
<1>3. /\ text[n].kind \in {"hole", "korean"} => B = A
      /\ text[n].kind \notin {"hole", "korean"} => B = A \cup {n}
      /\ \A k \in A : k \in Nat /\ k < n
  BY <1>1, <1>2, SeenMore
<1>4. PICK R, S : R = RunBefore(text, i + 1) /\ S = RunBefore(text, i + 2)
  OBVIOUS
<1>5. /\ R = {k \in A : \A j \in A : j >= k => text[j].kind \in {"date", "next"}}
      /\ S = {k \in B : \A j \in B : j >= k => text[j].kind \in {"date", "next"}}
  BY <1>1, <1>4, Zenon DEF RunBefore
<1>6. /\ DateHeads(text, i + 1) = {k \in R : text[k].kind = "date"}
      /\ DateHeads(text, i + 2) = {k \in S : text[k].kind = "date"}
  BY <1>4, Zenon DEF DateHeads
<1>7. text[n].kind \in {"hole", "korean"} => S = R
  BY <1>3, <1>5, Zenon
<1>8. ASSUME text[n].kind \in {"date", "next"} PROVE S = R \cup {n}
  <2>1. B = A \cup {n}
    BY <1>3, <1>8
  <2>2. ~(\E k \in A : k >= n)
    BY <1>2, <1>3
  <2> QED
    BY <1>2, <1>3, <1>5, <1>8, <2>1
<1>9. ASSUME text[n].kind \in {"amount", "time", "word"} PROVE S = {}
  <2>1. B = A \cup {n} /\ text[n].kind \notin {"date", "next"}
    BY <1>3, <1>9
  <2>2. \A k \in B : n >= k
    BY <1>2, <1>3, <2>1
  <2> QED
    BY <1>5, <2>1, <2>2
<1>10. R \subseteq 1..i
  BY <1>2, <1>3, <1>5, <1>1 DEF Seen
<1> QED
  <2>1. text[n].kind \in {"hole", "korean"} => DateHeads(text, i + 2) = DateHeads(text, i + 1)
    BY <1>6, <1>7
  <2>2. text[n].kind = "next" => DateHeads(text, i + 2) = DateHeads(text, i + 1)
    BY <1>6, <1>8
  <2>3. text[n].kind = "date" => DateHeads(text, i + 2) = DateHeads(text, i + 1) \cup {n}
    BY <1>6, <1>8
  <2>4. text[n].kind \in {"amount", "time", "word"} => DateHeads(text, i + 2) = {}
    BY <1>6, <1>9
  <2>5. DateHeads(text, i + 1) \subseteq 1..i
    BY <1>6, <1>10
  <2> QED
    BY <1>2, <2>1, <2>2, <2>3, <2>4, <2>5

LEMMA ScanGoesOn ==
    ASSUME NEW text, NEW i \in Nat, MarkOf(text[i + 1]), NEW x \in Scans, ScanOf(text, i, x)
    PROVE  ScanOf(text, i + 1, _date_violations(x, text[i + 1]))
<1>1. PICK n, mark : n = i + 1 /\ mark = text[i + 1]
  OBVIOUS
<1>2. n \in Nat /\ n + 1 = i + 2 /\ n = i + 1 /\ mark = text[n] /\ 1..n = 1..i \cup {n}
  BY <1>1
<1>3. PICK y : y = _date_violations(x, mark)
  OBVIOUS
<1>4. PICK H, G : H = DateHeads(text, n) /\ G = DateHeads(text, n + 1)
  OBVIOUS
<1>5. /\ mark.kind \in {"hole", "korean"} => G = H
      /\ mark.kind = "next" => G = H
      /\ mark.kind = "date" => G = H \cup {n}
      /\ mark.kind \in {"amount", "time", "word"} => G = {}
      /\ H \subseteq 1..i
  BY <1>2, <1>4, HeadsMore
<1>6. /\ x.adjacent <=> H # {}
      /\ H # {} => LastHead(text, n) \in 1..i /\ x.month = text[LastHead(text, n)].month
      /\ x.wrong = {} <=> \A j \in 1..i : Given(text, j)
  BY <1>1, <1>4, Zenon DEF ScanOf
<1>7. G = H => LastHead(text, n + 1) = LastHead(text, n)
  BY <1>4, Zenon DEF LastHead
<1>8. (\A j \in 1..n : Given(text, j)) <=> (\A j \in 1..i : Given(text, j)) /\ Given(text, n)
  BY <1>2, Zenon
<1>9. DateAt(text, n) =
         IF mark.kind = "date" THEN {[month |-> mark.month, day |-> mark.day]}
         ELSE IF mark.kind = "next" /\ H # {}
              THEN {[month |-> text[LastHead(text, n)].month, day |-> mark.day]}
              ELSE {}
  BY <1>2, <1>4, DateAtIs
<1>10. ASSUME NEW d, DateAt(text, n) = {d}
       PROVE  Given(text, n) <=> date_violations(d, mark.weekday) = {}
  BY <1>2, <1>10, ViolationsOfADate, Zenon DEF Given
<1>11. ASSUME DateAt(text, n) = {} PROVE Given(text, n)
  BY <1>11 DEF Given
<1>12. ASSUME y.adjacent <=> G # {},
              G # {} => LastHead(text, n + 1) \in 1..n /\ y.month = text[LastHead(text, n + 1)].month,
              y.wrong = {} <=> x.wrong = {} /\ Given(text, n)
       PROVE  ScanOf(text, n, y)
  BY <1>4, <1>6, <1>8, <1>12, Zenon DEF ScanOf
<1>13. CASE mark.kind \in {"hole", "korean"}
  <2>1. y = x /\ G = H
    BY <1>3, <1>5, <1>13, ScanStep
  <2>2. DateAt(text, n) = {}
    BY <1>9, <1>13
  <2>3. LastHead(text, n) \in 1..i => LastHead(text, n) \in 1..n
    BY <1>2
  <2>4. ScanOf(text, n, y)
    BY <1>6, <1>7, <1>11, <1>12, <2>1, <2>2, <2>3, Zenon
  <2> QED
    BY <1>1, <1>3, <2>4
<1>14. CASE mark.kind = "date" /\ mark.month \in 0..99
  <2>1. PICK d : d = [month |-> mark.month, day |-> mark.day]
    OBVIOUS
  <2>2. y = read_date(x, d, mark.weekday) /\ DateAt(text, n) = {d} /\ G = H \cup {n}
    BY <1>3, <1>5, <1>9, <1>14, <2>1, ScanStep
  <2>3. y.month = mark.month /\ y.adjacent = TRUE /\ y.wrong = x.wrong \cup date_violations(d, mark.weekday)
    BY <2>1, <2>2 DEF read_date
  <2>4. LastHead(text, n + 1) = n
    <3>1. n \in G /\ \A j \in G : j \in Nat /\ j <= n
      BY <1>2, <1>5, <2>2
    <3>2. \A k \in G : (\A j \in G : j <= k) => k = n
      BY <1>2, <3>1
    <3> QED
      BY <1>4, <3>1, <3>2 DEF LastHead
  <2>5. n \in 1..n
    BY <1>2
  <2>6. ScanOf(text, n, y)
    BY <1>2, <1>10, <1>12, <1>14, <2>2, <2>3, <2>4, <2>5
  <2> QED
    BY <1>1, <1>3, <2>6
<1>15. CASE mark.kind = "next" /\ H # {}
  <2>1. PICK d : d = [month |-> x.month, day |-> mark.day]
    OBVIOUS
  <2>2. y = read_date(x, d, mark.weekday) /\ DateAt(text, n) = {d} /\ G = H
    BY <1>3, <1>5, <1>6, <1>9, <1>15, <2>1, ScanStep
  <2>3. y.month = x.month /\ y.adjacent = TRUE /\ y.wrong = x.wrong \cup date_violations(d, mark.weekday)
    BY <2>1, <2>2 DEF read_date
  <2>4. LastHead(text, n) \in 1..i => LastHead(text, n) \in 1..n
    BY <1>2
  <2>5. ScanOf(text, n, y)
    BY <1>6, <1>7, <1>10, <1>12, <1>15, <2>2, <2>3, <2>4
  <2> QED
    BY <1>1, <1>3, <2>5
<1>16. CASE mark.kind = "next" /\ H = {}
  <2>1. y = [x EXCEPT !.adjacent = FALSE] /\ DateAt(text, n) = {} /\ G = {}
    BY <1>3, <1>5, <1>6, <1>9, <1>16, ScanStep
  <2>2. y.adjacent = FALSE /\ y.wrong = x.wrong
    BY <2>1 DEF Scans
  <2>3. ScanOf(text, n, y)
    BY <1>11, <1>12, <2>1, <2>2
  <2> QED
    BY <1>1, <1>3, <2>3
<1>17. CASE mark.kind \in {"amount", "time", "word"}
  <2>1. y = [x EXCEPT !.adjacent = FALSE] /\ DateAt(text, n) = {} /\ G = {}
    BY <1>3, <1>5, <1>9, <1>17, ScanStep
  <2>2. y.adjacent = FALSE /\ y.wrong = x.wrong
    BY <2>1 DEF Scans
  <2>3. ScanOf(text, n, y)
    BY <1>11, <1>12, <2>1, <2>2
  <2> QED
    BY <1>1, <1>3, <2>3
<1> QED
  BY <1>1, <1>13, <1>14, <1>15, <1>16, <1>17 DEF MarkOf

\* The scan objects to a text exactly when a reader would.
LEMMA DatesJudged ==
    ASSUME NEW text \in Seq(Marks)
    PROVE  FoldLeft(_date_violations, Scan0, text).wrong = {} <=> \A i \in DOMAIN text : Given(text, i)
<1> DEFINE I == [i \in 0..Len(text) |-> {x \in Scans : ScanOf(text, i, x)}]
<1>1. Len(text) \in Nat /\ DOMAIN text = 1..Len(text) /\ 0 \in 0..Len(text) /\ Len(text) \in 0..Len(text)
  OBVIOUS
<1>2. Scan0 \in Scans /\ ~Scan0.adjacent /\ Scan0.wrong = {}
  BY DEF Scan0, Scans
<1>3. Scan0 \in I[0]
  <2>1. Seen(text, 0 + 1) = {} /\ 1..0 = {}
    BY DEF Seen
  <2>2. DateHeads(text, 0 + 1) = {}
    BY <2>1, Zenon DEF DateHeads, RunBefore
  <2>3. ScanOf(text, 0, Scan0)
    BY <1>2, <2>1, <2>2 DEF ScanOf
  <2> QED
    BY <1>1, <1>2, <2>3
<1>4. ASSUME NEW i \in 0..Len(text), i < Len(text), NEW x \in I[i] \cap Scans
      PROVE  _date_violations(x, text[i + 1]) \in I[i + 1]
  <2>1. i \in Nat /\ i + 1 \in 1..Len(text) /\ i + 1 \in 0..Len(text) /\ x \in Scans /\ ScanOf(text, i, x)
    BY <1>1, <1>4
  <2>2. text[i + 1] \in Marks
    BY <2>1
  <2>3. MarkOf(text[i + 1])
    BY <2>2, MarksAre
  <2>4. _date_violations(x, text[i + 1]) \in Scans /\ ScanOf(text, i + 1, _date_violations(x, text[i + 1]))
    BY <2>1, <2>2, <2>3, ScanTyped, ScanGoesOn
  <2> QED
    BY <2>1, <2>4
<1> HIDE DEF I
<1>5. \A i \in 0..Len(text) : i < Len(text) => \A x \in I[i] \cap Scans : _date_violations(x, text[i + 1]) \in I[i + 1]
  BY <1>4
<1>6. FoldLeft(_date_violations, Scan0, text) \in I[Len(text)]
  BY <1>2, <1>3, <1>5, ScanReaches
<1>7. ScanOf(text, Len(text), FoldLeft(_date_violations, Scan0, text))
  BY <1>1, <1>6 DEF I
<1> QED
  BY <1>1, <1>7, Zenon DEF ScanOf

\* No time of day, and no amount that was not given.
Harmless(m) == m.kind \notin {"korean", "time"} /\ (m.kind = "amount" => m.won \in AllowedAmounts)

\* What the reader of a text holds true of it.
SaysTheGiven(text) ==
    /\ \A i \in DOMAIN text : Given(text, i)
    /\ \A i \in DOMAIN text : Harmless(text[i])

LEMMA ViolationsFound ==
    ASSUME NEW text \in Seq(Marks)
    PROVE  find_draft_violations(text) = {} <=> SaysTheGiven(text)
<1>1. PICK D, A, T : D = FoldLeft(_date_violations, Scan0, text).wrong /\ A = _amount_violations(text)
                     /\ T = _time_violations(text)
  OBVIOUS
<1>2. find_draft_violations(text) = D \cup A \cup T
  BY <1>1, Zenon DEF find_draft_violations
<1>3. D = {} <=> \A i \in DOMAIN text : Given(text, i)
  BY <1>1, DatesJudged
<1>4. ToSet(text) = {text[i] : i \in DOMAIN text}
  BY DEF ToSet
<1>5. A = {} <=> \A m \in ToSet(text) : m.kind # "korean" /\ ~(m.kind = "amount" /\ m.won \notin AllowedAmounts)
  BY <1>1 DEF _amount_violations
<1>6. T = {} <=> \A m \in ToSet(text) : m.kind # "time"
  BY <1>1 DEF _time_violations
<1>7. A = {} /\ T = {} <=> \A m \in ToSet(text) : Harmless(m)
  <2>1. ASSUME A = {}, T = {}, NEW m \in ToSet(text)
        PROVE  Harmless(m)
    <3>1. m.kind # "korean" /\ ~(m.kind = "amount" /\ m.won \notin AllowedAmounts) /\ m.kind # "time"
      BY <1>5, <1>6, <2>1, Zenon
    <3> QED
      BY <3>1 DEF Harmless
  <2>2. ASSUME \A m \in ToSet(text) : Harmless(m)
        PROVE  A = {} /\ T = {}
    <3>1. ASSUME NEW m \in ToSet(text)
          PROVE  m.kind # "korean" /\ ~(m.kind = "amount" /\ m.won \notin AllowedAmounts) /\ m.kind # "time"
      BY <2>2 DEF Harmless
    <3> QED
      BY <1>5, <1>6, <3>1, Zenon
  <2> QED
    BY <2>1, <2>2, Zenon
<1>8. A = {} /\ T = {} <=> \A i \in DOMAIN text : Harmless(text[i])
  BY <1>4, <1>7
<1>9. D \cup A \cup T = {} <=> D = {} /\ A = {} /\ T = {}
  OBVIOUS
<1>10. find_draft_violations(text) = {} <=> D = {} /\ A = {} /\ T = {}
  BY <1>2, <1>9, Zenon
<1>11. CASE D = {} /\ A = {} /\ T = {}
  <2>1. \A i \in DOMAIN text : Given(text, i)
    BY <1>3, <1>11, Zenon
  <2>2. \A i \in DOMAIN text : Harmless(text[i])
    BY <1>8, <1>11, Zenon
  <2> QED
    BY <1>10, <1>11, <2>1, <2>2, Zenon DEF SaysTheGiven
<1>12. CASE D # {}
  BY <1>3, <1>10, <1>12, Zenon DEF SaysTheGiven
<1>13. CASE ~(A = {} /\ T = {})
  BY <1>8, <1>10, <1>13, Zenon DEF SaysTheGiven
<1> QED
  BY <1>11, <1>12, <1>13, Zenon

\* The drafting of one text.
WritingInv(w) ==
    /\ w = [at |-> w.at, attempt |-> w.attempt, content |-> w.content]
    /\ w.attempt \in 1..MAX_ATTEMPTS
    /\ w.at \in {"writing", "written", "sent back", "refused", "failed"}
    /\ w.at = "sent back" => w.attempt < MAX_ATTEMPTS
    /\ w.at = "written" => w.content \in DraftTexts /\ find_draft_violations(w.content) = {}
    /\ w.at \in {"sent back", "refused"} => w.content \in DraftTexts /\ find_draft_violations(w.content) # {}

LEMMA WritingInvSays == WritingInv(writing) => DraftSaysWhatWasGiven
<1> SUFFICES ASSUME WritingInv(writing) PROVE DraftSaysWhatWasGiven
  OBVIOUS
<1>1. PICK text : text = writing.content
  OBVIOUS
<1>2. SaysTheGiven(text) <=>
         /\ \A i \in DOMAIN text : \A d \in DateAt(text, i) :
               d \in AllowedDates /\ text[i].weekday \in {NoWeekday, WeekdayOf(d)}
         /\ \A i \in DOMAIN text : /\ text[i].kind \notin {"korean", "time"}
                                   /\ text[i].kind = "amount" => text[i].won \in AllowedAmounts
  BY Zenon DEF SaysTheGiven, Given, Harmless
<1>3. text \in DraftTexts => text \in Seq(Marks)
  BY Zenon, DraftAssumption
<1>4. writing.at = "written" => SaysTheGiven(text)
  BY <1>1, <1>3, ViolationsFound, Zenon DEF WritingInv
<1>5. writing.at \in {"sent back", "refused"} => ~SaysTheGiven(text)
  BY <1>1, <1>3, ViolationsFound, Zenon DEF WritingInv
<1>6. writing.attempt \in 1..MAX_ATTEMPTS
  BY Zenon DEF WritingInv
<1> QED
  BY <1>1, <1>2, <1>4, <1>5, <1>6, Zenon DEF DraftSaysWhatWasGiven

LEMMA WritingInvInit == DraftInit => WritingInv(writing)
<1> SUFFICES ASSUME DraftInit PROVE WritingInv(writing)
  OBVIOUS
<1>1. writing.at = "writing" /\ writing.attempt = 1
      /\ writing = [at |-> writing.at, attempt |-> writing.attempt, content |-> writing.content]
  BY DEF DraftInit
<1>2. MAX_ATTEMPTS \in Nat \ {0}
  BY Zenon, DraftAssumption
<1>3. 1 \in 1..MAX_ATTEMPTS
  BY <1>2
<1> QED
  BY <1>1, <1>3 DEF WritingInv

LEMMA WritingInvNext == WritingInv(writing) /\ [DraftNext]_draftVars => WritingInv(writing')
<1> SUFFICES ASSUME WritingInv(writing), [DraftNext]_draftVars PROVE WritingInv(writing')
  OBVIOUS
<1>1. PICK was, attempt, content : was = writing.at /\ attempt = writing.attempt /\ content = writing.content
  OBVIOUS
<1>2. writing = [at |-> was, attempt |-> attempt, content |-> content] /\ attempt \in 1..MAX_ATTEMPTS
      /\ (was = "sent back" => attempt < MAX_ATTEMPTS)
  BY <1>1, Zenon DEF WritingInv
<1>3. MAX_ATTEMPTS \in Nat \ {0}
  BY Zenon, DraftAssumption
<1>4. ASSUME NEW text \in DraftTexts, write(text) PROVE WritingInv(writing')
  <2>1. PICK at : at = IF find_draft_violations(text) = {} THEN "written"
                       ELSE IF attempt < MAX_ATTEMPTS THEN "sent back" ELSE "refused"
    OBVIOUS
  <2>2. writing' = [writing EXCEPT !.at = at, !.content = text]
    BY <1>1, <1>4, <2>1, Zenon DEF write
  <2>3. writing' = [at |-> at, attempt |-> attempt, content |-> text]
    BY <1>2, <2>2
  <2>4. writing'.at = at /\ writing'.attempt = attempt /\ writing'.content = text
    BY <2>3
  <2>5. CASE find_draft_violations(text) = {}
    <3>1. at = "written"
      BY <2>1, <2>5
    <3> QED
      BY <1>2, <2>3, <2>4, <2>5, <3>1 DEF WritingInv
  <2>6. CASE find_draft_violations(text) # {} /\ attempt < MAX_ATTEMPTS
    <3>1. at = "sent back"
      BY <2>1, <2>6
    <3> QED
      BY <1>2, <2>3, <2>4, <2>6, <3>1 DEF WritingInv
  <2>7. CASE find_draft_violations(text) # {} /\ ~(attempt < MAX_ATTEMPTS)
    <3>1. at = "refused"
      BY <2>1, <2>7
    <3> QED
      BY <1>2, <2>3, <2>4, <2>7, <3>1 DEF WritingInv
  <2> QED
    BY <2>5, <2>6, <2>7
<1>5. CASE write_again
  <2>1. writing' = [at |-> "writing", attempt |-> attempt + 1, content |-> <<>>] /\ attempt < MAX_ATTEMPTS
    BY <1>1, <1>2, <1>5, Zenon DEF write_again
  <2>2. writing'.at = "writing" /\ writing'.attempt = attempt + 1 /\ writing'.content = <<>>
    BY <2>1
  <2>3. attempt + 1 \in 1..MAX_ATTEMPTS
    <3>1. attempt \in 1..MAX_ATTEMPTS /\ attempt < MAX_ATTEMPTS
      BY <1>2, <2>1, Zenon
    <3> QED
      BY <1>3, <3>1
  <2> QED
    BY <2>1, <2>2, <2>3 DEF WritingInv
<1>6. CASE write_fails
  <2>1. writing' = [writing EXCEPT !.at = "failed", !.content = <<>>]
    BY <1>6, Zenon DEF write_fails
  <2>2. writing' = [at |-> "failed", attempt |-> attempt, content |-> <<>>]
    BY <1>2, <2>1
  <2>3. writing'.at = "failed" /\ writing'.attempt = attempt /\ writing'.content = <<>>
    BY <2>2
  <2> QED
    BY <1>2, <2>2, <2>3 DEF WritingInv
<1>7. CASE UNCHANGED draftVars
  <2>1. writing' = writing
    BY <1>7 DEF draftVars
  <2> QED
    BY <2>1, Zenon
<1> QED
  BY <1>4, <1>5, <1>6, <1>7, Zenon DEF DraftNext

----------------------------------------------------------------------------
(* What holds of every behaviour of each part *)

\* search_records, however the model words its queries and judges the chunks:
\* the result cites what was found, says so when nothing was, and ends within
\* the rounds and the queries it may use.
THEOREM SearchFindsItsEvidence == RetrievalInit /\ [][RetrievalNext]_searchVars => []EvidenceIsFound
<1> DEFINE Inv == SearchInv(search)
<1>1. RetrievalInit => Inv
  BY SearchInvInit
<1>2. Inv /\ [RetrievalNext]_searchVars => Inv'
  BY SearchInvNext
<1>3. Inv => EvidenceIsFound
  BY SearchInvEvidence
<1> QED
  BY <1>1, <1>2, <1>3, PTL

\* judge_utterance and meeting_event_service.answer, for every list of
\* candidates a search may return and every failure of a call: the trace tells
\* the calls, the chunks that are read are the best and hold what is asked
\* for, and an answer about events is not called whole when it is not.
THEOREM JudgementsAreTraced == JudgeInit /\ [][JudgeNext]_judgeVars => [](TraceTellsTheCalls /\ EventAnswerIsHonest)
<1> DEFINE Inv == JudgeInv(judge) /\ EventInv
<1>1. JudgeInit => Inv
  BY JudgeInvInit, EventInvInit
<1>2. Inv /\ [JudgeNext]_judgeVars => Inv'
  BY JudgeInvNext, EventInvNext
<1>3. EventInv => EventAnswerIsHonest
  BY Zenon DEF EventInv
<1>4. Inv => TraceTellsTheCalls /\ EventAnswerIsHonest
  BY <1>3, JudgeInvTrace
<1> QED
  BY <1>1, <1>2, <1>4, PTL

\* tori_service: whichever of the two searches fail or time out, and whatever
\* is deleted while the answer is written, the answer of a reply cites records
\* that are there and that a search found, and its list names no other.  The
\* search's own summary, which is sent beside them unread, is not covered.
THEOREM ToriCitesRecords == ToriInit /\ [][ToriNext]_toriVars => []ToriAnswersFromRecords
<1>1. ToriInv => ToriAnswersFromRecords
  BY ToriInvReply
<1> QED
  BY <1>1, ToriInvInit, ToriInvNext, PTL

\* The model gateway, over every order of pieces, failures and disconnects: a
\* reply that is handed on is the whole of what the provider sent.
THEOREM ModelRepliesAreWhole == LlmInit /\ [][LlmNext]_llmVars => []RepliesAreWhole
<1> DEFINE Inv == LlmInv(llm)
<1>1. LlmInit => Inv
  BY LlmInvInit
<1>2. Inv /\ [LlmNext]_llmVars => Inv'
  BY LlmInvNext
<1>3. Inv => RepliesAreWhole
  BY LlmInvWhole
<1> QED
  BY <1>1, <1>2, <1>3, PTL

\* ai/features/action_draft, for every sequence of texts a model may write: a
\* draft that is kept says no date, amount or time that was not given.
THEOREM DraftsSayTheGiven == DraftInit /\ [][DraftNext]_draftVars => []DraftSaysWhatWasGiven
<1> DEFINE Inv == WritingInv(writing)
<1>1. DraftInit => Inv
  BY WritingInvInit
<1>2. Inv /\ [DraftNext]_draftVars => Inv'
  BY WritingInvNext
<1>3. Inv => DraftSaysWhatWasGiven
  BY WritingInvSays
<1> QED
  BY <1>1, <1>2, <1>3, PTL

----------------------------------------------------------------------------
(* The streamed reply.  What the client has read and what is still queued  *)
(* for it are taken together: Shows(c, q, x) says that c shows x once it   *)
(* has read q.  The invariant says that x is what the display of the call  *)
(* believes it sent, or the answer once there is one, and that the display *)
(* fits the message; each action then only has to be followed from screen  *)
(* to screen.                                                              *)

Texts == Seq(1..MaxChunks)
Pairs == Nat \X ToolIds
Lasts == {"none", "reply_delta", "reply_reset", "progress", "done", "error"}

ReplyNotices ==
    [kind : {"reply_delta", "reply_reset"}, text : Texts] \cup [kind : {"progress"}, text : Seq(Pairs)]
Screens == [at : {"reading", "ended", "gone"}, text : Texts, tools : Seq(Pairs), last : Lasts]

\* `x` is what the client `c` shows when it has read the notices `q`.
Shows(c, q, x) ==
    \E g : /\ g \in [0..Len(q) -> Screens]
           /\ g[0] = c /\ x = g[Len(q)]
           /\ \A i \in 0..Len(q) : i < Len(q) => g[i + 1] = Applied(g[i], q[i + 1])

\* An event that is applied leaves a screen.
LEMMA AppliedTyped == \A c \in Screens, notice \in ReplyNotices : Applied(c, notice) \in Screens
<1> SUFFICES ASSUME NEW c \in Screens, NEW notice \in ReplyNotices PROVE Applied(c, notice) \in Screens
  OBVIOUS
<1>1. CASE notice \in [kind : {"reply_delta"}, text : Texts]
  <2>1. c.text \o notice.text \in Texts
    BY <1>1 DEF Screens, Texts
  <2> QED
    BY <1>1, <2>1 DEF Applied, Screens, Lasts
<1>2. CASE notice \in [kind : {"reply_reset"}, text : Texts]
  <2>1. <<>> \in Texts
    BY DEF Texts
  <2> QED
    BY <1>2, <2>1 DEF Applied, Screens, Lasts
<1>3. CASE notice \in [kind : {"progress"}, text : Seq(Pairs)]
  <2>1. c.tools \o notice.text \in Seq(Pairs)
    BY <1>3 DEF Screens
  <2> QED
    BY <1>3, <2>1 DEF Applied, Screens, Lasts
<1> QED
  BY <1>1, <1>2, <1>3 DEF ReplyNotices

\* What each kind of event does to the text and the tools.
LEMMA AppliedIs ==
    ASSUME NEW c \in Screens, NEW notice \in ReplyNotices
    PROVE  /\ Applied(c, notice).at = c.at
           /\ notice.kind = "reply_delta" =>
                Applied(c, notice).text = c.text \o notice.text /\ Applied(c, notice).tools = c.tools
           /\ notice.kind = "reply_reset" =>
                Applied(c, notice).text = <<>> /\ Applied(c, notice).tools = c.tools
           /\ notice.kind = "progress" =>
                Applied(c, notice).text = c.text /\ Applied(c, notice).tools = c.tools \o notice.text
<1>1. c.at \in {"reading", "ended", "gone"}
  BY DEF Screens
<1>2. CASE notice.kind = "reply_delta"
  BY <1>2 DEF Applied, Screens
<1>3. CASE notice.kind = "reply_reset"
  <2>1. PICK none : none = <<>>
    OBVIOUS
  <2>2. Applied(c, notice) = [c EXCEPT !.text = none, !.last = notice.kind]
    BY <1>3, <2>1 DEF Applied
  <2>3. Applied(c, notice).at = c.at /\ Applied(c, notice).text = none /\ Applied(c, notice).tools = c.tools
    BY <2>2 DEF Screens
  <2> QED
    BY <1>3, <2>1, <2>3
<1>4. CASE notice.kind = "progress"
  BY <1>4 DEF Applied, Screens
<1>5. notice.kind \in {"reply_delta", "reply_reset", "progress"}
  BY DEF ReplyNotices
<1> QED
  BY <1>2, <1>3, <1>4, <1>5

\* With nothing to read a client shows what it showed.
LEMMA ShowsNone ==
    ASSUME NEW c \in Screens
    PROVE  Shows(c, <<>>, c)
<1> DEFINE g == [i \in 0..0 |-> c]
<1>1. Len(<<>>) = 0 /\ g \in [0..0 -> Screens] /\ g[0] = c
  OBVIOUS
<1> HIDE DEF g
<1>2. \A i \in 0..0 : ~(i < 0)
  OBVIOUS
<1> QED
  BY <1>1, <1>2 DEF Shows

LEMMA ShowsOne ==
    ASSUME NEW c \in Screens, NEW notice \in ReplyNotices
    PROVE  Shows(c, <<notice>>, Applied(c, notice))
<1> DEFINE g == [i \in 0..1 |-> IF i = 0 THEN c ELSE Applied(c, notice)]
<1>1. Len(<<notice>>) = 1 /\ <<notice>>[1] = notice
  OBVIOUS
<1>2. g \in [0..1 -> Screens] /\ g[0] = c /\ g[1] = Applied(c, notice)
  BY AppliedTyped
<1> HIDE DEF g
<1>3. ASSUME NEW i \in 0..1, i < 1 PROVE g[i + 1] = Applied(g[i], <<notice>>[i + 1])
  <2>1. i = 0 /\ i + 1 = 1
    BY <1>3
  <2> QED
    BY <1>1, <1>2, <2>1
<1> QED
  BY <1>1, <1>2, <1>3 DEF Shows

\* What is shown is a screen.
LEMMA ShowsTyped == \A c, q, x : q \in Seq(ReplyNotices) /\ Shows(c, q, x) => c \in Screens /\ x \in Screens
<1> SUFFICES ASSUME NEW c, NEW q \in Seq(ReplyNotices), NEW x, Shows(c, q, x) PROVE c \in Screens /\ x \in Screens
  OBVIOUS
<1>1. Len(q) \in 0..Len(q) /\ 0 \in 0..Len(q)
  BY LenProperties
<1> QED
  BY <1>1 DEF Shows

\* Reading one queue after another is reading both.
LEMMA ShowsMore ==
    ASSUME NEW c, NEW q \in Seq(ReplyNotices), NEW x, NEW r \in Seq(ReplyNotices), NEW y,
           Shows(c, q, x), Shows(x, r, y)
    PROVE  q \o r \in Seq(ReplyNotices) /\ Shows(c, q \o r, y)
<1>1. PICK g : /\ g \in [0..Len(q) -> Screens] /\ g[0] = c /\ x = g[Len(q)]
               /\ \A i \in 0..Len(q) : i < Len(q) => g[i + 1] = Applied(g[i], q[i + 1])
  BY DEF Shows
<1>2. PICK h : /\ h \in [0..Len(r) -> Screens] /\ h[0] = x /\ y = h[Len(r)]
               /\ \A i \in 0..Len(r) : i < Len(r) => h[i + 1] = Applied(h[i], r[i + 1])
  BY DEF Shows
<1>3. PICK n \in Nat, m \in Nat : n = Len(q) /\ m = Len(r)
  OBVIOUS
<1>4. PICK all : all = q \o r
  OBVIOUS
<1>5. /\ all \in Seq(ReplyNotices) /\ Len(all) = n + m
      /\ \A i \in 1..n : all[i] = q[i]
      /\ \A i \in 1..m : all[n + i] = r[i]
  BY <1>3, <1>4
<1> DEFINE k == [i \in 0..n + m |-> IF i <= n THEN g[i] ELSE h[i - n]]
<1>6. k \in [0..n + m -> Screens]
  <2> SUFFICES ASSUME NEW i \in 0..n + m PROVE (IF i <= n THEN g[i] ELSE h[i - n]) \in Screens
    OBVIOUS
  <2>1. i <= n => i \in 0..n
    OBVIOUS
  <2>2. ~(i <= n) => i - n \in 0..m
    OBVIOUS
  <2> QED
    BY <1>1, <1>2, <1>3, <2>1, <2>2
<1>7. \A i \in 0..n : k[i] = g[i]
  BY <1>3
<1>8. \A i \in 0..m : k[n + i] = h[i]
  <2> SUFFICES ASSUME NEW i \in 0..m PROVE k[n + i] = h[i]
    OBVIOUS
  <2>1. CASE i = 0
    BY <1>1, <1>2, <1>3, <1>7, <2>1
  <2>2. CASE i # 0
    <3>1. n + i \in 0..n + m /\ ~(n + i <= n) /\ n + i - n = i
      BY <2>2
    <3> QED
      BY <3>1
  <2> QED
    BY <2>1, <2>2
<1> HIDE DEF k
<1>9. ASSUME NEW i \in 0..n + m, i < n + m PROVE k[i + 1] = Applied(k[i], all[i + 1])
  <2>1. CASE i < n
    <3>1. i \in 0..n /\ i + 1 \in 0..n /\ i + 1 \in 1..n
      BY <2>1
    <3> QED
      BY <1>1, <1>3, <1>5, <1>7, <2>1, <3>1
  <2>2. CASE ~(i < n)
    <3>1. PICK j \in 0..m : i = n + j /\ j < m
      <4>1. i - n \in 0..m /\ i = n + (i - n) /\ i - n < m
        BY <1>9, <2>2
      <4> QED
        BY <4>1
    <3>2. j + 1 \in 0..m /\ j + 1 \in 1..m /\ i + 1 = n + (j + 1)
      BY <3>1
    <3> QED
      BY <1>2, <1>3, <1>5, <1>8, <3>1, <3>2
  <2> QED
    BY <2>1, <2>2
<1>10. k[0] = c /\ y = k[n + m] /\ 0 \in 0..n /\ m \in 0..m
  <2>1. 0 \in 0..n /\ m \in 0..m
    OBVIOUS
  <2> QED
    BY <1>1, <1>2, <1>3, <1>7, <1>8, <2>1
<1>11. Shows(c, all, y)
  BY <1>5, <1>6, <1>9, <1>10 DEF Shows
<1> QED
  BY <1>4, <1>5, <1>11

\* The first event is read, then the others.
LEMMA ShowsHead ==
    ASSUME NEW c, NEW q \in Seq(ReplyNotices), q # <<>>, NEW x, Shows(c, q, x)
    PROVE  Tail(q) \in Seq(ReplyNotices) /\ Head(q) \in ReplyNotices /\ Shows(Applied(c, Head(q)), Tail(q), x)
<1>1. PICK g : /\ g \in [0..Len(q) -> Screens] /\ g[0] = c /\ x = g[Len(q)]
               /\ \A i \in 0..Len(q) : i < Len(q) => g[i + 1] = Applied(g[i], q[i + 1])
  BY DEF Shows
<1>2. PICK n \in Nat : Len(q) = n + 1
  <2>1. Len(q) \in Nat /\ Len(q) # 0
    BY EmptySeq
  <2>2. Len(q) - 1 \in Nat /\ Len(q) = (Len(q) - 1) + 1
    BY <2>1
  <2> QED
    BY <2>2
<1>3. PICK rest : rest = Tail(q)
  OBVIOUS
<1>4. rest \in Seq(ReplyNotices) /\ Len(rest) = n /\ \A i \in 1..n : rest[i] = q[i + 1]
  BY <1>2, <1>3, HeadTailProperties
<1>5. Head(q) = q[1] /\ q[1] \in ReplyNotices
  BY <1>2, HeadTailProperties
<1> DEFINE h == [i \in 0..n |-> g[i + 1]]
<1>6. h \in [0..n -> Screens]
  <2>1. \A i \in 0..n : i + 1 \in 0..n + 1
    OBVIOUS
  <2> QED
    BY <1>1, <1>2, <2>1
<1>7. \A i \in 0..n : h[i] = g[i + 1]
  OBVIOUS
<1> HIDE DEF h
<1>8. h[0] = Applied(c, q[1]) /\ x = h[n]
  <2>1. 0 \in 0..n /\ n \in 0..n /\ 0 \in 0..n + 1 /\ 0 < n + 1 /\ 0 + 1 = 1
    OBVIOUS
  <2>2. g[0 + 1] = Applied(g[0], q[0 + 1])
    BY <1>1, <1>2, <2>1
  <2> QED
    BY <1>1, <1>2, <1>7, <2>1, <2>2
<1>9. ASSUME NEW i \in 0..n, i < n PROVE h[i + 1] = Applied(h[i], rest[i + 1])
  <2>1. i + 1 \in 0..n /\ i + 1 \in 1..n /\ i + 1 \in 0..n + 1 /\ i + 1 < n + 1
    BY <1>9
  <2>2. g[(i + 1) + 1] = Applied(g[i + 1], q[(i + 1) + 1])
    BY <1>1, <1>2, <2>1
  <2> QED
    BY <1>4, <1>7, <2>1, <2>2
<1>10. Shows(Applied(c, q[1]), rest, x)
  BY <1>4, <1>6, <1>8, <1>9 DEF Shows
<1> QED
  BY <1>3, <1>4, <1>5, <1>10

\* A queue leads to one screen, by induction on the events read.
LEMMA ShowsUnique ==
    ASSUME NEW c, NEW q \in Seq(ReplyNotices), NEW x, NEW y, Shows(c, q, x), Shows(c, q, y)
    PROVE  x = y
<1>1. PICK g : /\ g \in [0..Len(q) -> Screens] /\ g[0] = c /\ x = g[Len(q)]
               /\ \A i \in 0..Len(q) : i < Len(q) => g[i + 1] = Applied(g[i], q[i + 1])
  BY DEF Shows
<1>2. PICK h : /\ h \in [0..Len(q) -> Screens] /\ h[0] = c /\ y = h[Len(q)]
               /\ \A i \in 0..Len(q) : i < Len(q) => h[i + 1] = Applied(h[i], q[i + 1])
  BY DEF Shows
<1>3. PICK n \in Nat : n = Len(q)
  OBVIOUS
<1> DEFINE T == {i \in 0..n : g[i] = h[i]}
<1>4. 0 \in T
  <2>1. 0 \in 0..n
    OBVIOUS
  <2> QED
    BY <1>1, <1>2, <2>1
<1>5. ASSUME NEW i \in 0..n, i < n, i \in T PROVE i + 1 \in T
  <2>1. i + 1 \in 0..n
    BY <1>5
  <2> QED
    BY <1>1, <1>2, <1>3, <1>5, <2>1
<1> HIDE DEF T
<1>6. \A i \in 0..n : i \in T
  BY <1>4, <1>5, UpTo
<1>7. n \in T
  BY <1>6
<1> QED
  BY <1>1, <1>2, <1>3, <1>7 DEF T

\* The fold of the client's handler.
LEMMA FoldShows ==
    ASSUME NEW c \in Screens, NEW q \in Seq(ReplyNotices)
    PROVE  Shows(c, q, FoldLeft(Applied, c, q))
<1> DEFINE n == Len(q)
           step == [p \in (1..n) \X Screens |-> Applied(p[2], q[p[1]])]
           is(it) == it = [s \in SUBSET (DOMAIN q) |->
                        IF s = {} THEN c ELSE Applied(it[s \ {Max(s)}], q[Max(s)])]
           f == CHOOSE it : is(it)
<1>1. n \in Nat /\ DOMAIN q = 1..n
  OBVIOUS
<1>2. FoldLeft(Applied, c, q) = f[DOMAIN q]
  BY Zenon DEF FoldLeft, MapThenFoldSet
<1>3. \A i \in 1..n, x \in Screens : Applied(x, q[i]) \in Screens
  <2>1. ASSUME NEW i \in 1..n, NEW x \in Screens PROVE Applied(x, q[i]) \in Screens
    <3>1. q[i] \in ReplyNotices
      BY <1>1
    <3> QED
      BY <3>1, AppliedTyped
  <2> QED
    BY <2>1
<1>4. step \in [(1..n) \X Screens -> Screens]
  BY <1>3
<1>5. \A i \in 1..n, x \in Screens : step[i, x] = Applied(x, q[i])
  OBVIOUS
<1> HIDE DEF n, step
<1>6. FoldOn(n, Screens, c, step)
  BY <1>1, <1>4, FoldExists
<1>7. PICK it \in [SUBSET (1..n) -> Screens] :
         /\ it[{}] = c
         /\ \A s \in SUBSET (1..n) : s # {} => Max(s) \in s /\ it[s] = step[Max(s), it[s \ {Max(s)}]]
  BY <1>6 DEF FoldOn
<1>8. ASSUME NEW s \in SUBSET (1..n), s # {}
      PROVE  it[s] = Applied(it[s \ {Max(s)}], q[Max(s)])
  <2>1. Max(s) \in 1..n /\ it[s \ {Max(s)}] \in Screens
    BY <1>7, <1>8
  <2> QED
    BY <1>5, <1>7, <1>8, <2>1
<1>9. is(it)
  <2>1. it = [s \in SUBSET (1..n) |-> it[s]]
    OBVIOUS
  <2>2. \A s \in SUBSET (1..n) :
           it[s] = IF s = {} THEN c ELSE Applied(it[s \ {Max(s)}], q[Max(s)])
    BY <1>7, <1>8
  <2> QED
    BY <1>1, <2>1, <2>2
<1>10. is(f)
  <2> HIDE DEF is
  <2> QED
    BY <1>9
<1> HIDE DEF f
<1>11. f = [s \in SUBSET (1..n) |->
              IF s = {} THEN c ELSE Applied(f[s \ {Max(s)}], q[Max(s)])]
  BY <1>1, <1>10
<1> HIDE DEF is
<1>12. /\ f[{}] = c
       /\ \A s \in SUBSET (1..n) : s # {} => f[s] = Applied(f[s \ {Max(s)}], q[Max(s)])
  BY <1>11
<1>13. Folds(f, n, Screens, c, step)
  <2> SUFFICES ASSUME NEW s \in SUBSET (1..n), s # {}, f[s \ {Max(s)}] \in Screens
               PROVE  f[s] = step[Max(s), f[s \ {Max(s)}]]
    BY <1>12 DEF Folds
  <2>1. Max(s) \in 1..n
    BY <1>7
  <2> QED
    BY <1>5, <1>12, <2>1
<1>14. RunsTo(f, n, Screens, c, step)
  BY <1>1, <1>4, <1>13, FoldRuns
<1>15. PICK g : FoldRun(g, n, Screens, c, step) /\ f[1..n] = g[n]
  BY <1>14 DEF RunsTo
<1>16. g \in [0..n -> Screens] /\ g[0] = c
  BY <1>15 DEF FoldRun
<1>17. ASSUME NEW i \in 0..n, i < n PROVE g[i + 1] = Applied(g[i], q[i + 1])
  <2>1. i + 1 \in 1..n /\ g[i] \in Screens
    BY <1>1, <1>16, <1>17
  <2>2. g[i + 1] = step[i + 1, g[i]]
    BY <1>15, <1>17 DEF FoldRun
  <2> QED
    BY <1>5, <2>1, <2>2
<1>18. FoldLeft(Applied, c, q) = g[n]
  BY <1>1, <1>2, <1>15
<1> QED
  BY <1>16, <1>17, <1>18 DEF Shows, n

\* A piece of the text of a block in one of these phases.
InBlocks(piece, blocks, phases) ==
    \E i \in DOMAIN blocks : blocks[i].phase \in phases /\ Contains(blocks[i].text, piece)

PiecesOf(blocks, phases) == {t \in Texts : \A k \in DOMAIN t : InBlocks(t[k], blocks, phases)}

\* A piece is in a text at one of its places.
LEMMA ContainsIs == \A t \in Texts : \A x : Contains(t, x) <=> \E k \in DOMAIN t : t[k] = x
<1> SUFFICES ASSUME NEW t \in Texts, NEW x PROVE Contains(t, x) <=> \E k \in DOMAIN t : t[k] = x
  OBVIOUS
<1>1. DOMAIN t = 1..Len(t)
  BY DEF Texts
<1> QED
  BY <1>1, Zenon DEF Contains

\* Joining a block of the wanted phases adds only its pieces.
LEMMA JoinedPieces ==
    ASSUME NEW blocks \in Seq(Block), NEW phases, NEW t \in PiecesOf(blocks, phases), NEW i \in DOMAIN blocks
    PROVE  Joined(t, blocks[i], phases) \in PiecesOf(blocks, phases)
<1>1. blocks[i].text \in Texts /\ t \in Texts
  <2>1. blocks[i] \in Block
    OBVIOUS
  <2> QED
    BY <2>1 DEF Block, Texts, PiecesOf
<1>2. CASE blocks[i].phase \in phases
  <2>1. PICK u : u = blocks[i].text
    OBVIOUS
  <2>2. u \in Seq(1..MaxChunks) /\ t \in Seq(1..MaxChunks)
    BY <1>1, <2>1 DEF Texts
  <2>3. PICK a : a = t \o u
    OBVIOUS
  <2>4. /\ a \in Seq(1..MaxChunks) /\ Len(a) = Len(t) + Len(u)
        /\ \A k \in 1..Len(t) : a[k] = t[k]
        /\ \A k \in 1..Len(u) : a[Len(t) + k] = u[k]
    BY <2>2, <2>3
  <2>5. ASSUME NEW k \in DOMAIN a PROVE InBlocks(a[k], blocks, phases)
    <3>1. Len(t) \in Nat /\ Len(u) \in Nat /\ k \in 1..Len(t) + Len(u) /\ DOMAIN t = 1..Len(t) /\ DOMAIN u = 1..Len(u)
      BY <2>2, <2>4, <2>5
    <3>2. CASE k \in 1..Len(t)
      <4>1. a[k] = t[k] /\ InBlocks(t[k], blocks, phases)
        BY <2>4, <3>1, <3>2 DEF PiecesOf
      <4> QED
        BY <4>1
    <3>3. CASE k \notin 1..Len(t)
      <4>1. k - Len(t) \in 1..Len(u) /\ k = Len(t) + (k - Len(t))
        BY <3>1, <3>3
      <4>2. PICK j \in 1..Len(u) : k = Len(t) + j
        BY <4>1
      <4>3. a[k] = u[j] /\ j \in DOMAIN u
        BY <2>4, <3>1, <4>2
      <4>4. Contains(u, a[k])
        BY <2>1, <1>1, <4>3, ContainsIs
      <4> QED
        BY <1>2, <2>1, <4>4 DEF InBlocks
    <3> QED
      BY <3>2, <3>3
  <2>6. a \in PiecesOf(blocks, phases)
    BY <2>4, <2>5 DEF PiecesOf, Texts
  <2>7. Joined(t, blocks[i], phases) = a
    BY <1>2, <2>1, <2>3 DEF Joined
  <2> QED
    BY <2>6, <2>7
<1>3. CASE blocks[i].phase \notin phases
  BY <1>3 DEF Joined
<1> QED
  BY <1>2, <1>3

\* A joined text has only pieces of the blocks it was joined from.
LEMMA TextOfPieces ==
    ASSUME NEW blocks \in Seq(Block), NEW phases
    PROVE  TextOf(blocks, phases) \in PiecesOf(blocks, phases)
<1> DEFINE n == Len(blocks)
           S == PiecesOf(blocks, phases)
           step == [p \in (1..n) \X S |-> Joined(p[2], blocks[p[1]], phases)]
           is(it) == it = [s \in SUBSET (DOMAIN blocks) |->
                        IF s = {} THEN <<>> ELSE Joined(it[s \ {Max(s)}], blocks[Max(s)], phases)]
           f == CHOOSE it : is(it)
<1>1. n \in Nat /\ DOMAIN blocks = 1..n
  OBVIOUS
<1>2. TextOf(blocks, phases) = f[DOMAIN blocks]
  BY Zenon DEF TextOf, FoldLeft, MapThenFoldSet
<1>3. \A i \in 1..n, x \in S : Joined(x, blocks[i], phases) \in S
  BY <1>1, JoinedPieces
<1>4. <<>> \in S
  <2>1. <<>> \in Texts /\ DOMAIN <<>> = {}
    BY DEF Texts
  <2> QED
    BY <2>1 DEF PiecesOf
<1> HIDE DEF S
<1>5. step \in [(1..n) \X S -> S]
  BY <1>3
<1>6. \A i \in 1..n, x \in S : step[i, x] = Joined(x, blocks[i], phases)
  OBVIOUS
<1> HIDE DEF n, step
<1>7. FoldOn(n, S, <<>>, step)
  BY <1>1, <1>4, <1>5, FoldExists
<1>8. PICK it \in [SUBSET (1..n) -> S] :
         /\ it[{}] = <<>>
         /\ \A s \in SUBSET (1..n) : s # {} => Max(s) \in s /\ it[s] = step[Max(s), it[s \ {Max(s)}]]
  BY <1>7 DEF FoldOn
<1>9. ASSUME NEW s \in SUBSET (1..n), s # {}
      PROVE  it[s] = Joined(it[s \ {Max(s)}], blocks[Max(s)], phases)
  <2>1. Max(s) \in 1..n /\ it[s \ {Max(s)}] \in S
    BY <1>8, <1>9
  <2> QED
    BY <1>6, <1>8, <1>9, <2>1
<1>10. is(it)
  <2>1. it = [s \in SUBSET (1..n) |-> it[s]]
    OBVIOUS
  <2>2. \A s \in SUBSET (1..n) :
           it[s] = IF s = {} THEN <<>> ELSE Joined(it[s \ {Max(s)}], blocks[Max(s)], phases)
    BY <1>8, <1>9
  <2> QED
    BY <1>1, <2>1, <2>2
<1>11. is(f)
  <2> HIDE DEF is
  <2> QED
    BY <1>10
<1> HIDE DEF f
<1>12. f = [s \in SUBSET (1..n) |->
              IF s = {} THEN <<>> ELSE Joined(f[s \ {Max(s)}], blocks[Max(s)], phases)]
  BY <1>1, <1>11
<1> HIDE DEF is
<1>13. /\ f[{}] = <<>>
       /\ \A s \in SUBSET (1..n) : s # {} => f[s] = Joined(f[s \ {Max(s)}], blocks[Max(s)], phases)
  BY <1>12
<1>14. Folds(f, n, S, <<>>, step)
  <2> SUFFICES ASSUME NEW s \in SUBSET (1..n), s # {}, f[s \ {Max(s)}] \in S
               PROVE  f[s] = step[Max(s), f[s \ {Max(s)}]]
    BY <1>13 DEF Folds
  <2>1. Max(s) \in 1..n
    BY <1>8
  <2> QED
    BY <1>6, <1>13, <2>1
<1>15. PICK g : FoldRun(g, n, S, <<>>, step) /\ f[1..n] = g[n]
  <2>1. RunsTo(f, n, S, <<>>, step)
    BY <1>1, <1>4, <1>5, <1>14, FoldRuns
  <2> QED
    BY <2>1 DEF RunsTo
<1>16. g[n] \in S
  <2>1. n \in 0..n
    BY <1>1
  <2> QED
    BY <1>15, <2>1, Zenon DEF FoldRun
<1> QED
  BY <1>1, <1>2, <1>15, <1>16 DEF S

\* What a model may still do to a message keeps the pieces of the answer.
Grows(m, n) ==
    /\ DOMAIN m.blocks \subseteq DOMAIN n.blocks
    /\ \A i \in DOMAIN m.blocks :
          /\ m.blocks[i].phase = "final_answer" => n.blocks[i].phase = "final_answer"
          /\ \A x : Contains(m.blocks[i].text, x) => Contains(n.blocks[i].text, x)

\* Pieces of the answer are still that after more of the message.
LEMMA GrowsKeeps ==
    ASSUME NEW m, NEW n, Grows(m, n), NEW t \in PiecesOf(m.blocks, {"final_answer"})
    PROVE  t \in PiecesOf(n.blocks, {"final_answer"})
<1>1. ASSUME NEW x, InBlocks(x, m.blocks, {"final_answer"}) PROVE InBlocks(x, n.blocks, {"final_answer"})
  <2>1. PICK i \in DOMAIN m.blocks : m.blocks[i].phase \in {"final_answer"} /\ Contains(m.blocks[i].text, x)
    BY <1>1, Zenon DEF InBlocks
  <2>2. i \in DOMAIN n.blocks /\ n.blocks[i].phase \in {"final_answer"} /\ Contains(n.blocks[i].text, x)
    BY <2>1, Zenon DEF Grows
  <2> QED
    BY <2>2, Zenon DEF InBlocks
<1> QED
  BY <1>1, Zenon DEF PiecesOf

MessageOf(m) ==
    /\ m = [call |-> m.call, blocks |-> m.blocks, tools |-> m.tools, chunks |-> m.chunks]
    /\ m.call \in 1..MaxModelCalls /\ m.blocks \in Seq(Block)
    /\ m.tools \in SUBSET ToolIds /\ m.chunks \in 0..MaxChunks

\* One more chunk of the model.
LEMMA GrownIs ==
    ASSUME NEW m, MessageOf(m), m.chunks < MaxChunks, NEW new \in Grown(m)
    PROVE  /\ MessageOf(new) /\ new.call = m.call /\ Grows(m, new)
           /\ new.tools = m.tools \/ \E id \in ToolIds \ m.tools : new.tools = m.tools \cup {id}
<1> DEFINE n == m.chunks + 1
           next == [m EXCEPT !.chunks = n]
<1>2. n \in 1..MaxChunks /\ n \in 0..MaxChunks
  BY ReplyAssumption DEF MessageOf
<1>3. PICK call, blocks, tools : call = m.call /\ blocks = m.blocks /\ tools = m.tools
  OBVIOUS
<1>4. /\ call \in 1..MaxModelCalls /\ blocks \in Seq(Block) /\ tools \in SUBSET ToolIds
      /\ m = [call |-> call, blocks |-> blocks, tools |-> tools, chunks |-> m.chunks]
  BY <1>3 DEF MessageOf
<1>6. next = [call |-> call, blocks |-> blocks, tools |-> tools, chunks |-> n]
  BY <1>4
<1>7. \/ \E b \in [phase : Phase, text : {<<>>, <<n>>}] : new = [next EXCEPT !.blocks = Append(@, b)]
      \/ \E i \in DOMAIN blocks : new = [next EXCEPT !.blocks[i].text = Append(@, n)]
      \/ \E i \in DOMAIN blocks, p \in Phase \ {"none"} :
            blocks[i].phase = "none" /\ new = [next EXCEPT !.blocks[i].phase = p]
      \/ \E id \in ToolIds \ tools : new = [next EXCEPT !.tools = @ \cup {id}]
  <2>1. \/ \E b \in [phase : Phase, text : IF Len(m.blocks) < MaxBlocks THEN {<<>>, <<n>>} ELSE {}] :
               new = [next EXCEPT !.blocks = Append(@, b)]
        \/ \E i \in DOMAIN m.blocks : new = [next EXCEPT !.blocks[i].text = Append(@, n)]
        \/ \E i \in {j \in DOMAIN m.blocks : m.blocks[j].phase = "none"} : \E p \in Phase \ {"none"} :
               new = [next EXCEPT !.blocks[i].phase = p]
        \/ \E id \in ToolIds \ m.tools : new = [next EXCEPT !.tools = @ \cup {id}]
    BY Zenon DEF Grown
  <2> HIDE DEF n, next
  <2>2. \A b : b \in [phase : Phase, text : IF Len(m.blocks) < MaxBlocks THEN {<<>>, <<n>>} ELSE {}]
                 => b \in [phase : Phase, text : {<<>>, <<n>>}]
    OBVIOUS
  <2>3. CASE \E b \in [phase : Phase, text : IF Len(m.blocks) < MaxBlocks THEN {<<>>, <<n>>} ELSE {}] :
               new = [next EXCEPT !.blocks = Append(@, b)]
    BY <2>2, <2>3, Zenon
  <2>4. CASE \E i \in DOMAIN m.blocks : new = [next EXCEPT !.blocks[i].text = Append(@, n)]
    BY <1>3, <2>4, Zenon
  <2>5. CASE \E i \in {j \in DOMAIN m.blocks : m.blocks[j].phase = "none"} : \E p \in Phase \ {"none"} :
               new = [next EXCEPT !.blocks[i].phase = p]
    BY <1>3, <2>5, Zenon
  <2>6. CASE \E id \in ToolIds \ m.tools : new = [next EXCEPT !.tools = @ \cup {id}]
    BY <1>3, <2>6, Zenon
  <2> QED
    BY <2>1, <2>3, <2>4, <2>5, <2>6, Zenon
<1> HIDE DEF n, next
<1>8. ASSUME NEW b, b \in Seq(Block), DOMAIN blocks \subseteq DOMAIN b,
             new = [call |-> call, blocks |-> b, tools |-> tools, chunks |-> n],
             \A i \in DOMAIN blocks :
                /\ blocks[i].phase = "final_answer" => b[i].phase = "final_answer"
                /\ \A x : Contains(blocks[i].text, x) => Contains(b[i].text, x)
      PROVE  MessageOf(new) /\ new.call = m.call /\ Grows(m, new) /\ new.tools = m.tools
  <2>1. new.call = call /\ new.blocks = b /\ new.tools = tools /\ new.chunks = n
    BY <1>8
  <2>2. MessageOf(new)
    BY <1>2, <1>4, <1>8, <2>1 DEF MessageOf
  <2>3. Grows(m, new)
    BY <1>3, <1>8, <2>1, Zenon DEF Grows
  <2> QED
    BY <1>3, <2>1, <2>2, <2>3
<1>9. CASE \E b \in [phase : Phase, text : {<<>>, <<n>>}] : new = [next EXCEPT !.blocks = Append(@, b)]
  <2>1. PICK block \in [phase : Phase, text : {<<>>, <<n>>}] : new = [next EXCEPT !.blocks = Append(@, block)]
    BY <1>9
  <2>2. <<n>> \in Seq(1..MaxChunks) /\ <<>> \in Seq(1..MaxChunks)
    BY <1>2
  <2>4. block \in Block
    BY <2>2 DEF Block
  <2>5. PICK b : b = Append(blocks, block)
    OBVIOUS
  <2>6. b \in Seq(Block) /\ DOMAIN blocks \subseteq DOMAIN b /\ \A i \in DOMAIN blocks : b[i] = blocks[i]
    BY <1>4, <2>4, <2>5
  <2>7. new = [call |-> call, blocks |-> b, tools |-> tools, chunks |-> n]
    BY <1>6, <2>1, <2>5
  <2> QED
    BY <1>8, <2>6, <2>7
<1>10. CASE \E i \in DOMAIN blocks : new = [next EXCEPT !.blocks[i].text = Append(@, n)]
  <2>1. PICK i \in DOMAIN blocks : new = [next EXCEPT !.blocks[i].text = Append(@, n)]
    BY <1>10
  <2>2. PICK phase, text : phase = blocks[i].phase /\ text = blocks[i].text
    OBVIOUS
  <2>3. blocks[i] = [phase |-> phase, text |-> text] /\ phase \in Phase /\ text \in Seq(1..MaxChunks)
    <3>1. blocks[i] \in Block
      BY <1>4
    <3> QED
      BY <2>2, <3>1 DEF Block
  <2>4. PICK longer : longer = Append(text, n)
    OBVIOUS
  <2>5. /\ longer \in Seq(1..MaxChunks) /\ DOMAIN text \subseteq DOMAIN longer
        /\ \A k \in DOMAIN text : longer[k] = text[k]
    BY <1>2, <2>3, <2>4
  <2>6. PICK block : block = [phase |-> phase, text |-> longer]
    OBVIOUS
  <2>7. block \in Block /\ block.phase = phase /\ block.text = longer
    BY <2>3, <2>5, <2>6 DEF Block
  <2>8. PICK b : b = [blocks EXCEPT ![i] = block]
    OBVIOUS
  <2>9. /\ b \in Seq(Block) /\ DOMAIN b = DOMAIN blocks /\ b[i] = block
        /\ \A j \in DOMAIN blocks : j # i => b[j] = blocks[j]
    BY <1>4, <2>7, <2>8, ExceptSeq
  <2>10. [blocks[i] EXCEPT !.text = Append(@, n)] = block
    <3>1. [[phase |-> phase, text |-> text] EXCEPT !.text = longer] = block
      BY <2>6
    <3>2. [blocks[i] EXCEPT !.text = Append(@, n)] = [blocks[i] EXCEPT !.text = longer]
      BY <2>2, <2>4, Zenon
    <3> QED
      BY <2>3, <3>1, <3>2, Zenon
  <2>11. new = [call |-> call, blocks |-> b, tools |-> tools, chunks |-> n]
    BY <1>6, <2>1, <2>8, <2>10
  <2>12. \A x : Contains(text, x) => Contains(longer, x)
    BY <2>3, <2>5, ContainsIs DEF Texts
  <2> QED
    BY <1>8, <2>2, <2>7, <2>9, <2>11, <2>12
<1>11. CASE \E i \in DOMAIN blocks, p \in Phase \ {"none"} :
               blocks[i].phase = "none" /\ new = [next EXCEPT !.blocks[i].phase = p]
  <2>1. PICK i \in DOMAIN blocks, p \in Phase \ {"none"} :
            blocks[i].phase = "none" /\ new = [next EXCEPT !.blocks[i].phase = p]
    BY <1>11
  <2>2. PICK text : text = blocks[i].text
    OBVIOUS
  <2>3. blocks[i] = [phase |-> "none", text |-> text] /\ text \in Seq(1..MaxChunks)
    <3>1. blocks[i] \in Block
      BY <1>4
    <3> QED
      BY <2>1, <2>2, <3>1 DEF Block
  <2>6. PICK block : block = [phase |-> p, text |-> text]
    OBVIOUS
  <2>7. block \in Block /\ block.phase = p /\ block.text = text
    BY <2>3, <2>6 DEF Block
  <2>8. PICK b : b = [blocks EXCEPT ![i] = block]
    OBVIOUS
  <2>9. /\ b \in Seq(Block) /\ DOMAIN b = DOMAIN blocks /\ b[i] = block
        /\ \A j \in DOMAIN blocks : j # i => b[j] = blocks[j]
    BY <1>4, <2>7, <2>8, ExceptSeq
  <2>10. [blocks[i] EXCEPT !.phase = p] = block
    BY <2>3, <2>6
  <2>11. new = [call |-> call, blocks |-> b, tools |-> tools, chunks |-> n]
    BY <1>6, <2>1, <2>8, <2>10
  <2>12. blocks[i].phase # "final_answer"
    BY <2>1
  <2> QED
    BY <1>8, <2>2, <2>7, <2>9, <2>11, <2>12
<1>12. CASE \E id \in ToolIds \ tools : new = [next EXCEPT !.tools = @ \cup {id}]
  <2>1. PICK id \in ToolIds \ tools : new = [next EXCEPT !.tools = @ \cup {id}]
    BY <1>12
  <2>2. PICK more : more = tools \cup {id}
    OBVIOUS
  <2>3. new = [call |-> call, blocks |-> blocks, tools |-> more, chunks |-> n]
    BY <1>6, <2>1, <2>2
  <2>4. new.call = call /\ new.blocks = blocks /\ new.tools = more /\ new.chunks = n /\ more \in SUBSET ToolIds
    BY <1>4, <2>2, <2>3
  <2>5. MessageOf(new)
    BY <1>2, <1>4, <2>3, <2>4 DEF MessageOf
  <2>6. Grows(m, new)
    BY <1>3, <2>4, Zenon DEF Grows
  <2> QED
    BY <1>3, <2>1, <2>2, <2>4, <2>5, <2>6
<1> QED
  BY <1>7, <1>9, <1>10, <1>11, <1>12

DisplayOf(d) ==
    /\ d = [sent |-> d.sent, has_tools |-> d.has_tools, buffered |-> d.buffered, started |-> d.started]
    /\ d.sent \in Texts /\ d.has_tools \in BOOLEAN /\ d.buffered \in BOOLEAN
    /\ d.started \in SUBSET ToolIds

\* What the display remembers of the message it shows.
DisplayFits(d, m) ==
    /\ d.started = m.tools /\ d.has_tools = (m.tools # {})
    /\ m.tools # {} => d.sent = <<>>
    /\ d.sent \in PiecesOf(m.blocks, {"final_answer"})

\* The tool starts on a screen: each once, none of a later call, and all that
\* the current call asks for.
ToolsFit(pairs, call, tools) ==
    /\ IsInjective(pairs)
    /\ \A k \in DOMAIN pairs : pairs[k][1] <= call /\ (pairs[k][1] = call => pairs[k][2] \in tools)
    /\ \A id \in tools : \E k \in DOMAIN pairs : pairs[k] = <<call, id>>

\* What was sent and what is left to send are the answer.
LEMMA PrefixGoesOn ==
    ASSUME NEW d, d.sent \in Texts, NEW answer \in Texts, IsPrefix(d.sent, answer)
    PROVE  From(answer, d) \in Texts /\ d.sent \o From(answer, d) = answer
<1>1. PICK sent : sent = d.sent
  OBVIOUS
<1>2. PICK n \in Nat : n = Len(sent)
  BY <1>1 DEF Texts
<1>3. PICK m \in Nat : m = Len(answer)
  BY DEF Texts
<1>4. sent \in Seq(1..MaxChunks) /\ answer \in Seq(1..MaxChunks)
  BY <1>1 DEF Texts
<1>5. n <= m /\ SubSeq(sent, 1, n) = SubSeq(answer, 1, n)
  BY <1>1, <1>2, <1>3 DEF IsPrefix
<1>6. SubSeq(sent, 1, n) = sent
  BY <1>2, <1>4, SubSeqFull
<1>7. SubSeq(answer, 1, m) = answer
  BY <1>3, <1>4, SubSeqFull
<1>8. SubSeq(answer, 1, n) \o SubSeq(answer, n + 1, m) = SubSeq(answer, 1, m)
  <2>1. 1 \in 1..m + 1 /\ n \in 1 - 1..m /\ m \in n..Len(answer)
    BY <1>3, <1>5
  <2> QED
    BY <1>3, <1>4, <1>5, <2>1, ConcatAdjacentSubSeq
<1>9. SubSeq(answer, n + 1, m) \in Seq(1..MaxChunks)
  <2>1. n + 1 \in 1..m + 1 /\ \A i \in n + 1..m : i \in 1..Len(answer)
    BY <1>3, <1>5
  <2>2. \A i \in n + 1..m : answer[i] \in 1..MaxChunks
    BY <1>4, <2>1, ElementOfSeq
  <2>3. n + 1 \in Int /\ m \in Int
    OBVIOUS
  <2> QED
    BY <2>2, <2>3, SubSeqProperties
<1>10. From(answer, d) = SubSeq(answer, n + 1, m)
  BY <1>1, <1>2, <1>3 DEF From
<1> QED
  BY <1>1, <1>5, <1>6, <1>7, <1>8, <1>9, <1>10 DEF Texts

\* What a display has sent leads a client from what it showed to the answer.
LEMMA SendShows ==
    ASSUME NEW d, d.sent \in Texts, NEW answer \in Texts, IsPrefix(d.sent, answer),
           NEW x \in Screens, x.text = d.sent
    PROVE  /\ send(answer, d) \in Seq(ReplyNotices)
           /\ \E y \in Screens : Shows(x, send(answer, d), y) /\ y.text = answer /\ y.tools = x.tools
<1>1. PICK rest : rest = From(answer, d)
  OBVIOUS
<1>2. rest \in Texts /\ d.sent \o rest = answer
  BY <1>1, PrefixGoesOn
<1>3. CASE rest = <<>>
  <2>1. send(answer, d) = <<>>
    BY <1>1, <1>3 DEF send
  <2>2. x.text = answer
    <3>1. x.text \o <<>> = x.text
      BY ConcatEmptySeq DEF Texts
    <3> QED
      BY <1>2, <1>3, <3>1
  <2>3. <<>> \in Seq(ReplyNotices)
    OBVIOUS
  <2> QED
    BY <2>1, <2>2, <2>3, ShowsNone
<1>4. CASE rest # <<>>
  <2>1. PICK notice : notice = Delta(rest)
    OBVIOUS
  <2>2. send(answer, d) = <<notice>>
    BY <1>1, <1>4, <2>1 DEF send
  <2>3. notice \in ReplyNotices /\ notice.kind = "reply_delta" /\ notice.text = rest
    BY <1>2, <2>1 DEF Delta, ReplyNotices
  <2>4. Applied(x, notice) \in Screens /\ Shows(x, <<notice>>, Applied(x, notice))
    BY <2>3, AppliedTyped, ShowsOne
  <2>5. Applied(x, notice).text = answer /\ Applied(x, notice).tools = x.tools
    BY <1>2, <2>3, AppliedIs
  <2>6. <<notice>> \in Seq(ReplyNotices)
    BY <2>3
  <2> QED
    BY <2>2, <2>4, <2>5, <2>6
<1> QED
  BY <1>3, <1>4

\* Taking back what was sent leaves an empty text.
LEMMA ResetShows ==
    ASSUME NEW d, NEW x \in Screens, x.text = d.sent
    PROVE  /\ reset(d) \in Seq(ReplyNotices)
           /\ \E y \in Screens : Shows(x, reset(d), y) /\ y.text = <<>> /\ y.tools = x.tools
<1>1. CASE d.sent = <<>>
  <2>1. reset(d) = <<>>
    BY <1>1 DEF reset
  <2>2. <<>> \in Seq(ReplyNotices)
    OBVIOUS
  <2> QED
    BY <1>1, <2>1, <2>2, ShowsNone
<1>2. CASE d.sent # <<>>
  <2>1. PICK notice : notice = ResetNotice
    OBVIOUS
  <2>2. reset(d) = <<notice>>
    BY <1>2, <2>1 DEF reset
  <2>3. notice \in ReplyNotices /\ notice.kind = "reply_reset"
    <3>1. <<>> \in Texts
      BY DEF Texts
    <3> QED
      BY <2>1, <3>1 DEF ResetNotice, ReplyNotices
  <2>4. Applied(x, notice) \in Screens /\ Shows(x, <<notice>>, Applied(x, notice))
    BY <2>3, AppliedTyped, ShowsOne
  <2>5. Applied(x, notice).text = <<>> /\ Applied(x, notice).tools = x.tools
    BY <2>3, AppliedIs
  <2>6. <<notice>> \in Seq(ReplyNotices)
    BY <2>3
  <2> QED
    BY <2>2, <2>4, <2>5, <2>6
<1> QED
  BY <1>1, <1>2

\* The tool starts are a set that is put in some order; here it has one
\* element or none.
LEMMA SeqOfNone == SetToSeq({}) = <<>>
<1>1. IsFiniteSet({}) /\ Cardinality({}) = 0
  BY FS_EmptySet
<1>2. SetToSeq({}) \in [1..0 -> {}]
  BY <1>1, SetToSeqOf
<1>3. PICK s : s = SetToSeq({})
  OBVIOUS
<1>4. s \in [1..0 -> {}] /\ 1..0 = {}
  BY <1>2, <1>3
<1>5. s = <<>>
  BY <1>4
<1> QED
  BY <1>3, <1>5

LEMMA SeqOfOne == ASSUME NEW e PROVE SetToSeq({e}) = <<e>>
<1>1. IsFiniteSet({e}) /\ Cardinality({e}) = 1
  BY FS_Singleton
<1>2. PICK s : s = SetToSeq({e})
  OBVIOUS
<1>3. s \in [1..1 -> {e}]
  BY <1>1, <1>2, SetToSeqOf
<1>4. s = <<e>>
  <2>1. s[1] = e /\ s = [i \in 1..1 |-> s[i]]
    BY <1>3
  <2>2. \A i \in 1..1 : s[i] = e
    BY <2>1
  <2>3. s = [i \in 1..1 |-> e]
    BY <2>1, <2>2
  <2>4. <<e>> = [i \in 1..1 |-> e]
    OBVIOUS
  <2> QED
    BY <2>3, <2>4
<1> QED
  BY <1>2, <1>4

\* A tool start is announced when its call is first seen.
LEMMA AnnounceShows ==
    ASSUME NEW d, NEW m, MessageOf(m), NEW x \in Screens, ToolsFit(x.tools, m.call, d.started),
           m.tools = d.started \/ \E id \in ToolIds \ d.started : m.tools = d.started \cup {id}
    PROVE  /\ announce(d, m) \in Seq(ReplyNotices)
           /\ \E y \in Screens : /\ Shows(x, announce(d, m), y) /\ y.text = x.text
                                 /\ ToolsFit(y.tools, m.call, m.tools)
<1>1. CASE m.tools = d.started
  <2>1. {ToolNotice(m, id) : id \in m.tools \ d.started} = {}
    BY <1>1
  <2>2. announce(d, m) = <<>>
    BY <2>1, SeqOfNone DEF announce
  <2>3. <<>> \in Seq(ReplyNotices)
    OBVIOUS
  <2> QED
    BY <1>1, <2>2, <2>3, ShowsNone
<1>2. CASE \E id \in ToolIds \ d.started : m.tools = d.started \cup {id}
  <2>1. PICK id \in ToolIds \ d.started : m.tools = d.started \cup {id}
    BY <1>2
  <2>2. PICK notice : notice = ToolNotice(m, id)
    OBVIOUS
  <2>3. {ToolNotice(m, i) : i \in m.tools \ d.started} = {notice}
    <3>1. m.tools \ d.started = {id}
      BY <2>1
    <3> QED
      BY <2>2, <3>1, Zenon
  <2>4. announce(d, m) = <<notice>>
    BY <2>3, SeqOfOne DEF announce
  <2>5. PICK pair : pair = <<m.call, id>>
    OBVIOUS
  <2>6. pair \in Pairs /\ pair[1] = m.call /\ pair[2] = id
    BY <2>1, <2>5 DEF Pairs, MessageOf
  <2>7. notice \in ReplyNotices /\ notice.kind = "progress" /\ notice.text = <<pair>>
    <3>1. <<pair>> \in Seq(Pairs)
      BY <2>6
    <3>2. notice = [kind |-> "progress", text |-> <<pair>>]
      BY <2>2, <2>5 DEF ToolNotice
    <3> QED
      BY <3>1, <3>2 DEF ReplyNotices
  <2>8. PICK y : y = Applied(x, notice)
    OBVIOUS
  <2>9. y \in Screens /\ Shows(x, <<notice>>, y) /\ y.text = x.text /\ y.tools = x.tools \o <<pair>>
    BY <2>7, <2>8, AppliedTyped, AppliedIs, ShowsOne
  <2>10. PICK old, new : old = x.tools /\ new = y.tools
    OBVIOUS
  <2>11. old \in Seq(Pairs) /\ new = old \o <<pair>>
    BY <2>9, <2>10 DEF Screens
  <2>12. /\ DOMAIN old = 1..Len(old) /\ DOMAIN new = 1..Len(old) + 1 /\ Len(old) \in Nat
         /\ \A k \in 1..Len(old) : new[k] = old[k]
         /\ new[Len(old) + 1] = pair
    BY <2>6, <2>11
  <2>13. \A k \in DOMAIN old : old[k] # pair
    BY <2>1, <2>6, <2>10 DEF ToolsFit
  <2>14. IsInjective(old) /\ \A k \in DOMAIN old : old[k][1] <= m.call /\ (old[k][1] = m.call => old[k][2] \in d.started)
    BY <2>10 DEF ToolsFit
  <2>15. IsInjective(new)
    <3> SUFFICES ASSUME NEW a \in DOMAIN new, NEW b \in DOMAIN new, new[a] = new[b] PROVE a = b
      BY DEF IsInjective
    <3>1. \A k \in DOMAIN new : k \in DOMAIN old \/ k = Len(old) + 1
      BY <2>12
    <3>2. CASE a \in DOMAIN old /\ b \in DOMAIN old
      <4>1. old[a] = old[b]
        BY <2>12, <3>2
      <4> QED
        BY <2>14, <3>2, <4>1 DEF IsInjective
    <3>3. CASE a \in DOMAIN old /\ b = Len(old) + 1
      BY <2>12, <2>13, <3>3
    <3>4. CASE a = Len(old) + 1 /\ b \in DOMAIN old
      BY <2>12, <2>13, <3>4
    <3> QED
      BY <3>1, <3>2, <3>3, <3>4
  <2>16. \A k \in DOMAIN new : new[k][1] <= m.call /\ (new[k][1] = m.call => new[k][2] \in m.tools)
    <3> SUFFICES ASSUME NEW k \in DOMAIN new
                 PROVE  new[k][1] <= m.call /\ (new[k][1] = m.call => new[k][2] \in m.tools)
      OBVIOUS
    <3>1. CASE k \in DOMAIN old
      <4>1. new[k] = old[k]
        BY <2>12, <3>1
      <4> QED
        BY <2>1, <2>14, <3>1, <4>1
    <3>2. CASE k = Len(old) + 1
      <4>1. new[k] = pair /\ m.call <= m.call
        BY <2>12, <3>2 DEF MessageOf
      <4> QED
        BY <2>1, <2>6, <4>1
    <3> QED
      BY <2>12, <3>1, <3>2
  <2>17. \A i \in m.tools : \E k \in DOMAIN new : new[k] = <<m.call, i>>
    <3> SUFFICES ASSUME NEW i \in m.tools PROVE \E k \in DOMAIN new : new[k] = <<m.call, i>>
      OBVIOUS
    <3>1. CASE i = id
      BY <2>5, <2>12, <3>1
    <3>2. CASE i \in d.started
      <4>1. PICK k \in DOMAIN old : old[k] = <<m.call, i>>
        BY <2>10, <3>2 DEF ToolsFit
      <4> QED
        BY <2>12, <4>1
    <3> QED
      BY <2>1, <3>1, <3>2
  <2>18. ToolsFit(y.tools, m.call, m.tools)
    BY <2>10, <2>15, <2>16, <2>17, Zenon DEF ToolsFit
  <2>19. <<notice>> \in Seq(ReplyNotices)
    BY <2>7
  <2> QED
    BY <2>4, <2>9, <2>18, <2>19
<1> QED
  BY <1>1, <1>2

\* The empty text.
LEMMA NothingIsPieces == \A blocks, phases : <<>> \in Texts /\ <<>> \in PiecesOf(blocks, phases)
<1>1. <<>> \in Texts /\ DOMAIN <<>> = {}
  BY DEF Texts
<1> QED
  BY <1>1 DEF PiecesOf

LEMMA NothingIsPrefix == ASSUME NEW d, d.sent = <<>>, NEW t \in Texts PROVE IsPrefix(d.sent, t)
<1>1. SubSeq(t, 1, 0) = <<>>
  BY SubSeqEmpty
<1>2. PICK none : none = <<>>
  OBVIOUS
<1>3. Len(none) = 0 /\ 0 <= Len(t)
  BY <1>2 DEF Texts
<1>4. SubSeq(none, 1, 0) = <<>>
  BY SubSeqEmpty
<1> QED
  BY <1>1, <1>2, <1>3, <1>4 DEF IsPrefix

LEMMA TextIsText == \A blocks \in Seq(Block) : \A phases : TextOf(blocks, phases) \in Texts
<1> SUFFICES ASSUME NEW blocks \in Seq(Block), NEW phases PROVE TextOf(blocks, phases) \in Texts
  OBVIOUS
<1>1. TextOf(blocks, phases) \in PiecesOf(blocks, phases)
  BY TextOfPieces
<1> QED
  BY <1>1 DEF PiecesOf

LEMMA Outcome == \A a, b : [display |-> a, notices |-> b].display = a /\ [display |-> a, notices |-> b].notices = b
OBVIOUS

\* The reply with no tool: held back, or the answer so far.
LEMMA ShowIs ==
    ASSUME NEW d, NEW m, MessageOf(m), DisplayOf(d)
    PROVE  \/ show(d, m).notices = <<>> /\ show(d, m).display = [d EXCEPT !.buffered = TRUE]
           \/ \E answer \in PiecesOf(m.blocks, {"final_answer"}) :
                /\ answer \in Texts /\ IsPrefix(d.sent, answer)
                /\ show(d, m).notices = send(answer, d) /\ show(d, m).display = [d EXCEPT !.sent = answer]
<1>1. PICK answer : answer = TextOf(m.blocks, {"final_answer"})
  OBVIOUS
<1>2. answer \in PiecesOf(m.blocks, {"final_answer"}) /\ answer \in Texts
  BY <1>1, TextOfPieces, TextIsText DEF MessageOf
<1> DEFINE held == d.buffered \/ (\E i \in DOMAIN m.blocks : m.blocks[i].text # <<>> /\ m.blocks[i].phase = "none")
                     \/ ~IsPrefix(d.sent, answer)
<1>3. show(d, m) = IF held THEN [display |-> [d EXCEPT !.buffered = TRUE], notices |-> <<>>]
                           ELSE [display |-> [d EXCEPT !.sent = answer], notices |-> send(answer, d)]
  BY <1>1, Zenon DEF show
<1>4. CASE held
  <2>1. show(d, m) = [display |-> [d EXCEPT !.buffered = TRUE], notices |-> <<>>]
    BY <1>3, <1>4, Zenon
  <2>2. PICK e, none : e = [d EXCEPT !.buffered = TRUE] /\ none = <<>>
    OBVIOUS
  <2>3. show(d, m) = [display |-> e, notices |-> none]
    BY <2>1, <2>2, Zenon
  <2>4. show(d, m).display = e /\ show(d, m).notices = none
    BY <2>3
  <2> QED
    BY <2>2, <2>4, Zenon
<1>5. CASE ~held
  <2>1. show(d, m) = [display |-> [d EXCEPT !.sent = answer], notices |-> send(answer, d)]
    BY <1>3, <1>5, Zenon
  <2>2. PICK e, sends : e = [d EXCEPT !.sent = answer] /\ sends = send(answer, d)
    OBVIOUS
  <2>3. show(d, m) = [display |-> e, notices |-> sends]
    BY <2>1, <2>2, Zenon
  <2>4. show(d, m).display = e /\ show(d, m).notices = sends
    BY <2>3
  <2>5. IsPrefix(d.sent, answer)
    BY <1>5, Zenon
  <2> QED
    BY <1>2, <2>2, <2>4, <2>5, Zenon
<1> QED
  BY <1>4, <1>5, Zenon

\* A chunk leaves a display that fits the message with it.
LEMMA ReplyAcceptKeeps ==
    ASSUME NEW d, NEW m, MessageOf(m), m.chunks < MaxChunks, DisplayOf(d), DisplayFits(d, m), NEW new \in Grown(m)
    PROVE  DisplayOf(accept(d, new).display) /\ DisplayFits(accept(d, new).display, new)
<1>1. /\ MessageOf(new) /\ Grows(m, new)
      /\ new.tools = m.tools \/ \E id \in ToolIds \ m.tools : new.tools = m.tools \cup {id}
  BY GrownIs
<1>2. PICK sent, has, buffered, started : d = [sent |-> sent, has_tools |-> has, buffered |-> buffered, started |-> started]
  BY DEF DisplayOf
<1>3. /\ d.sent = sent /\ d.has_tools = has /\ d.buffered = buffered /\ d.started = started
      /\ sent \in Texts /\ has \in BOOLEAN /\ buffered \in BOOLEAN /\ started \in SUBSET ToolIds
  BY <1>2 DEF DisplayOf
<1>4. started = m.tools /\ m.tools \subseteq new.tools /\ sent \in PiecesOf(m.blocks, {"final_answer"})
  BY <1>1, <1>3 DEF DisplayFits
<1>5. CASE d.has_tools \/ new.tools # {}
  <2>1. new.tools # {}
    BY <1>4, <1>5 DEF DisplayFits
  <2>2. PICK none, yes : none = <<>> /\ yes = TRUE
    OBVIOUS
  <2>3. accept(d, new).display = [d EXCEPT !.has_tools = TRUE, !.sent = <<>>, !.started = @ \cup new.tools]
    BY <1>5, Zenon DEF accept
  <2>4. accept(d, new).display = [sent |-> none, has_tools |-> yes, buffered |-> buffered, started |-> started \cup new.tools]
    BY <1>2, <2>2, <2>3
  <2>5. started \cup new.tools = new.tools
    BY <1>4
  <2>6. PICK e : e = accept(d, new).display
    OBVIOUS
  <2>7. e = [sent |-> none, has_tools |-> yes, buffered |-> buffered, started |-> new.tools]
    BY <2>4, <2>5, <2>6
  <2>8. e.sent = none /\ e.has_tools = yes /\ e.buffered = buffered /\ e.started = new.tools
    BY <2>7
  <2>9. none \in Texts /\ none \in PiecesOf(new.blocks, {"final_answer"})
    BY <2>2, NothingIsPieces
  <2>10. new.tools \in SUBSET ToolIds
    BY <1>1 DEF MessageOf
  <2>11. DisplayOf(e)
    BY <1>3, <2>2, <2>7, <2>8, <2>9, <2>10 DEF DisplayOf
  <2>12. DisplayFits(e, new)
    BY <2>1, <2>2, <2>8, <2>9 DEF DisplayFits
  <2> QED
    BY <2>6, <2>11, <2>12
<1>6. CASE ~(d.has_tools \/ new.tools # {})
  <2>1. accept(d, new) = show(d, new)
    BY <1>6, Zenon DEF accept
  <2>2. new.tools = {} /\ started = {} /\ has = FALSE
    BY <1>3, <1>4, <1>6
  <2>3. PICK e : e = accept(d, new).display
    OBVIOUS
  <2>4. ASSUME NEW s \in PiecesOf(new.blocks, {"final_answer"}), NEW b \in BOOLEAN,
               e = [sent |-> s, has_tools |-> has, buffered |-> b, started |-> started]
        PROVE  DisplayOf(e) /\ DisplayFits(e, new)
    <3>1. e.sent = s /\ e.has_tools = has /\ e.buffered = b /\ e.started = started /\ s \in Texts
      BY <2>4 DEF PiecesOf
    <3> QED
      BY <1>3, <2>2, <2>4, <3>1 DEF DisplayOf, DisplayFits
  <2>5. CASE e = [d EXCEPT !.buffered = TRUE]
    <3>1. PICK yes \in BOOLEAN : yes = TRUE
      OBVIOUS
    <3>2. e = [sent |-> sent, has_tools |-> has, buffered |-> yes, started |-> started]
      BY <1>2, <2>5, <3>1
    <3>3. sent \in PiecesOf(new.blocks, {"final_answer"})
      BY <1>1, <1>4, GrowsKeeps
    <3> QED
      BY <2>3, <2>4, <3>2, <3>3
  <2>6. CASE \E answer \in PiecesOf(new.blocks, {"final_answer"}) : e = [d EXCEPT !.sent = answer]
    <3>1. PICK answer \in PiecesOf(new.blocks, {"final_answer"}) : e = [d EXCEPT !.sent = answer]
      BY <2>6
    <3>2. e = [sent |-> answer, has_tools |-> has, buffered |-> buffered, started |-> started]
      BY <1>2, <3>1
    <3> QED
      BY <1>3, <2>3, <2>4, <3>2
  <2> QED
    BY <1>1, <2>1, <2>3, <2>5, <2>6, ShowIs
<1> QED
  BY <1>5, <1>6

\* The notices of a chunk bring a screen that showed the display to one that
\* shows the display after it.
LEMMA AcceptShows ==
    ASSUME NEW d, NEW m, MessageOf(m), m.chunks < MaxChunks, DisplayOf(d), DisplayFits(d, m), NEW new \in Grown(m),
           NEW x \in Screens, x.text = d.sent, ToolsFit(x.tools, m.call, m.tools)
    PROVE  /\ accept(d, new).notices \in Seq(ReplyNotices)
           /\ \E y \in Screens : /\ Shows(x, accept(d, new).notices, y) /\ y.text = accept(d, new).display.sent
                                 /\ ToolsFit(y.tools, new.call, new.tools)
<1>1. /\ MessageOf(new) /\ new.call = m.call
      /\ new.tools = m.tools \/ \E id \in ToolIds \ m.tools : new.tools = m.tools \cup {id}
  BY GrownIs
<1>2. d.started = m.tools /\ d.has_tools = (m.tools # {}) /\ d.sent \in Texts
  BY DEF DisplayFits, DisplayOf
<1>3. PICK shown : shown = accept(d, new).display
  OBVIOUS
<1>4. PICK notices : notices = accept(d, new).notices
  OBVIOUS
<1>5. CASE d.has_tools \/ new.tools # {}
  <2>1. accept(d, new) = [display |-> [d EXCEPT !.has_tools = TRUE, !.sent = <<>>, !.started = @ \cup new.tools],
                          notices |-> announce(d, new) \o reset(d)]
    BY <1>5, Zenon DEF accept
  <2>2. PICK none : none = <<>>
    OBVIOUS
  <2>3. shown.sent = none
    <3>1. shown = [d EXCEPT !.has_tools = TRUE, !.sent = none, !.started = @ \cup new.tools]
      BY <1>3, <2>1, <2>2, Outcome, Zenon
    <3> QED
      BY <3>1 DEF DisplayOf
  <2>4. notices = announce(d, new) \o reset(d)
    <3>1. PICK e, all : /\ all = announce(d, new) \o reset(d)
                        /\ e = [d EXCEPT !.has_tools = TRUE, !.sent = <<>>, !.started = @ \cup new.tools]
      OBVIOUS
    <3>2. accept(d, new) = [display |-> e, notices |-> all]
      BY <2>1, <3>1, Zenon
    <3>3. accept(d, new).notices = all
      BY <3>2
    <3> QED
      BY <1>4, <3>1, <3>3
  <2>5. announce(d, new) \in Seq(ReplyNotices)
    BY <1>1, <1>2, AnnounceShows
  <2>6. PICK y1 \in Screens : /\ Shows(x, announce(d, new), y1) /\ y1.text = x.text
                              /\ ToolsFit(y1.tools, new.call, new.tools)
    BY <1>1, <1>2, AnnounceShows
  <2>7. /\ reset(d) \in Seq(ReplyNotices)
        /\ \E y \in Screens : Shows(y1, reset(d), y) /\ y.text = <<>> /\ y.tools = y1.tools
    BY <2>6, ResetShows
  <2>8. PICK y \in Screens : Shows(y1, reset(d), y) /\ y.text = <<>> /\ y.tools = y1.tools
    BY <2>7
  <2>9. announce(d, new) \o reset(d) \in Seq(ReplyNotices) /\ Shows(x, announce(d, new) \o reset(d), y)
    BY <2>5, <2>6, <2>7, <2>8, ShowsMore
  <2> QED
    BY <1>3, <1>4, <2>2, <2>3, <2>4, <2>6, <2>8, <2>9
<1>6. CASE ~(d.has_tools \/ new.tools # {})
  <2>1. accept(d, new) = show(d, new)
    BY <1>6, Zenon DEF accept
  <2>2. ToolsFit(x.tools, new.call, new.tools)
    <3>1. new.tools = m.tools
      BY <1>1, <1>6
    <3> QED
      BY <1>1, <3>1
  <2>3. CASE notices = <<>> /\ shown = [d EXCEPT !.buffered = TRUE]
    <3>1. shown.sent = x.text
      BY <2>3 DEF DisplayOf
    <3>2. <<>> \in Seq(ReplyNotices) /\ Shows(x, <<>>, x)
      BY ShowsNone
    <3> QED
      BY <1>3, <1>4, <2>2, <2>3, <3>1, <3>2
  <2>4. CASE \E answer \in Texts : /\ IsPrefix(d.sent, answer)
                                   /\ notices = send(answer, d) /\ shown = [d EXCEPT !.sent = answer]
    <3>1. PICK answer \in Texts : /\ IsPrefix(d.sent, answer)
                                  /\ notices = send(answer, d) /\ shown = [d EXCEPT !.sent = answer]
      BY <2>4
    <3>2. shown.sent = answer
      BY <3>1 DEF DisplayOf
    <3>3. /\ send(answer, d) \in Seq(ReplyNotices)
          /\ \E y \in Screens : Shows(x, send(answer, d), y) /\ y.text = answer /\ y.tools = x.tools
      BY <1>2, <3>1, SendShows
    <3> QED
      BY <1>3, <1>4, <2>2, <3>1, <3>2, <3>3
  <2>5. \/ notices = <<>> /\ shown = [d EXCEPT !.buffered = TRUE]
        \/ \E answer \in Texts : /\ IsPrefix(d.sent, answer)
                                 /\ notices = send(answer, d) /\ shown = [d EXCEPT !.sent = answer]
    <3>1. notices = show(d, new).notices /\ shown = show(d, new).display
      BY <1>3, <1>4, <2>1, Zenon
    <3>2. \/ show(d, new).notices = <<>> /\ show(d, new).display = [d EXCEPT !.buffered = TRUE]
          \/ \E answer \in PiecesOf(new.blocks, {"final_answer"}) :
                /\ answer \in Texts /\ IsPrefix(d.sent, answer)
                /\ show(d, new).notices = send(answer, d) /\ show(d, new).display = [d EXCEPT !.sent = answer]
      BY <1>1, ShowIs
    <3> QED
      BY <3>1, <3>2, Zenon
  <2> QED
    BY <1>1, <1>3, <1>4, <2>1, <2>3, <2>4, <2>5, Zenon
<1> QED
  BY <1>5, <1>6

\* When the model asked for a tool nothing is left to take back.
LEMMA FinishWithTools ==
    ASSUME NEW d, NEW m, DisplayFits(d, m), m.tools # {}
    PROVE  finish(d, m) = <<>> /\ d.sent = <<>>
<1>1. d.sent = <<>>
  BY DEF DisplayFits
<1>2. finish(d, m) = reset(d)
  BY Zenon DEF finish
<1> QED
  BY <1>1, <1>2, Zenon DEF reset

\* The last notices of a call bring the screen to the final answer.
LEMMA FinishShows ==
    ASSUME NEW d, NEW m, MessageOf(m), DisplayOf(d), DisplayFits(d, m), m.tools = {}, NEW x \in Screens, x.text = d.sent
    PROVE  /\ finish(d, m) \in Seq(ReplyNotices)
           /\ \E y \in Screens : Shows(x, finish(d, m), y) /\ y.text = final_answer_text(m) /\ y.tools = x.tools
<1>1. PICK answer : answer = final_answer_text(m)
  OBVIOUS
<1>2. answer \in Texts
  BY <1>1, TextIsText, Zenon DEF MessageOf, final_answer_text
<1>3. ~(d.has_tools \/ m.tools # {}) /\ d.sent \in Texts
  BY DEF DisplayFits, DisplayOf
<1> DEFINE kept == IF IsPrefix(d.sent, answer) THEN d ELSE [d EXCEPT !.sent = <<>>]
<1>4. finish(d, m) = (IF kept.sent = d.sent THEN <<>> ELSE reset(d)) \o send(answer, kept)
  BY <1>1, <1>3, Zenon DEF finish
<1>5. CASE IsPrefix(d.sent, answer)
  <2>1. kept = d
    BY <1>5
  <2>2. finish(d, m) = <<>> \o send(answer, d)
    BY <1>4, <2>1, Zenon
  <2>3. /\ send(answer, d) \in Seq(ReplyNotices)
        /\ \E y \in Screens : Shows(x, send(answer, d), y) /\ y.text = answer /\ y.tools = x.tools
    BY <1>2, <1>3, <1>5, SendShows
  <2>4. <<>> \o send(answer, d) = send(answer, d)
    BY <2>3, ConcatEmptySeq
  <2> QED
    BY <1>1, <2>2, <2>3, <2>4
<1>6. CASE ~IsPrefix(d.sent, answer)
  <2>1. d.sent # <<>>
    BY <1>2, <1>6, NothingIsPrefix
  <2>2. PICK none : none = <<>>
    OBVIOUS
  <2>3. PICK k : k = [d EXCEPT !.sent = none]
    OBVIOUS
  <2>4. kept = k
    BY <1>6, <2>2, <2>3, Zenon
  <2>5. k.sent = none
    BY <2>3 DEF DisplayOf
  <2>6. finish(d, m) = reset(d) \o send(answer, k)
    BY <1>4, <2>1, <2>2, <2>4, <2>5, Zenon
  <2>7. /\ reset(d) \in Seq(ReplyNotices)
        /\ \E y \in Screens : Shows(x, reset(d), y) /\ y.text = <<>> /\ y.tools = x.tools
    BY ResetShows
  <2>8. PICK y1 \in Screens : Shows(x, reset(d), y1) /\ y1.text = <<>> /\ y1.tools = x.tools
    BY <2>7
  <2>9. k.sent \in Texts /\ IsPrefix(k.sent, answer) /\ y1.text = k.sent
    BY <1>2, <2>2, <2>5, <2>8, NothingIsPieces, NothingIsPrefix
  <2>10. /\ send(answer, k) \in Seq(ReplyNotices)
         /\ \E y \in Screens : Shows(y1, send(answer, k), y) /\ y.text = answer /\ y.tools = y1.tools
    BY <1>2, <2>9, SendShows
  <2>11. PICK y \in Screens : Shows(y1, send(answer, k), y) /\ y.text = answer /\ y.tools = y1.tools
    BY <2>10
  <2>12. reset(d) \o send(answer, k) \in Seq(ReplyNotices) /\ Shows(x, reset(d) \o send(answer, k), y)
    BY <2>7, <2>8, <2>10, <2>11, ShowsMore
  <2> QED
    BY <1>1, <2>6, <2>8, <2>11, <2>12
<1> QED
  BY <1>5, <1>6

\* What a client will show once it has read the queue.
Arrives(c, queue, marked, text, call, tools) ==
    \E q \in Seq(ReplyNotices), x \in Screens :
        /\ queue = (IF marked THEN Append(q, EndMark) ELSE q)
        /\ Shows(c, q, x) /\ x.text = text /\ ToolsFit(x.tools, call, tools)

TaskOf == [at : {"model", "saving", "ended"}, answer : Texts, result : {"none", "done", "error"}]
PortOf(p) == p = [queue |-> p.queue, closed |-> p.closed] /\ p.closed \in BOOLEAN

\* The message, the display, the task, the port and the client fit together.
ReplyFits(m, d, t, p, c) ==
    /\ MessageOf(m) /\ DisplayOf(d) /\ t \in TaskOf /\ PortOf(p) /\ c \in Screens
    /\ t.at = "model" => DisplayFits(d, m) /\ t.answer = <<>>
    /\ c.at = "reading" <=> ~p.closed
    /\ c.at = "ended" => p.queue = <<>> /\ t.at = "ended" /\ c.last = t.result
    /\ c.at # "gone" =>
         Arrives(c, p.queue, t.at = "ended" /\ c.at = "reading", IF t.at = "model" THEN d.sent ELSE t.answer, m.call, m.tools)

ReplyInv == ReplyFits(message, display, task, port, client)

\* A call starts with an empty message and an empty display.
LEMMA NewMessageOf == \A n \in 1..MaxModelCalls : MessageOf(NewMessage(n)) /\ NewMessage(n).call = n /\ NewMessage(n).tools = {}
<1> SUFFICES ASSUME NEW n \in 1..MaxModelCalls
             PROVE  MessageOf(NewMessage(n)) /\ NewMessage(n).call = n /\ NewMessage(n).tools = {}
  OBVIOUS
<1>1. PICK none, empty : none = <<>> /\ empty = {}
  OBVIOUS
<1>2. PICK m : m = NewMessage(n)
  OBVIOUS
<1>3. m = [call |-> n, blocks |-> none, tools |-> empty, chunks |-> 0]
  BY <1>1, <1>2, Zenon DEF NewMessage
<1>4. m.call = n /\ m.blocks = none /\ m.tools = empty /\ m.chunks = 0
  BY <1>3
<1>5. none \in Seq(Block)
  BY <1>1
<1>6. empty \in SUBSET ToolIds /\ 0 \in 0..MaxChunks
  BY <1>1, ReplyAssumption
<1>7. MessageOf(m)
  BY <1>3, <1>4, <1>5, <1>6 DEF MessageOf
<1> QED
  BY <1>1, <1>2, <1>4, <1>7

LEMMA NewDisplayFits ==
    /\ DisplayOf(NewDisplay) /\ NewDisplay.sent = <<>>
    /\ \A n \in 1..MaxModelCalls : DisplayFits(NewDisplay, NewMessage(n))
<1>1. PICK none, empty, no : none = <<>> /\ empty = {} /\ no = FALSE
  OBVIOUS
<1>2. PICK d : d = NewDisplay
  OBVIOUS
<1>3. d = [sent |-> none, has_tools |-> no, buffered |-> no, started |-> empty]
  BY <1>1, <1>2, Zenon DEF NewDisplay
<1>4. d.sent = none /\ d.has_tools = no /\ d.buffered = no /\ d.started = empty
  BY <1>3
<1>5. none \in Texts
  BY <1>1, NothingIsPieces
<1>6. no \in BOOLEAN /\ empty \in SUBSET ToolIds
  BY <1>1
<1>7. DisplayOf(d)
  BY <1>3, <1>4, <1>5, <1>6 DEF DisplayOf
<1>8. ASSUME NEW n \in 1..MaxModelCalls PROVE DisplayFits(d, NewMessage(n))
  <2>1. NewMessage(n).tools = {}
    BY NewMessageOf
  <2>2. d.sent \in PiecesOf(NewMessage(n).blocks, {"final_answer"})
    BY <1>1, <1>4, NothingIsPieces
  <2> QED
    BY <1>1, <1>4, <2>1, <2>2 DEF DisplayFits
<1> QED
  BY <1>1, <1>2, <1>4, <1>7, <1>8

\* A queue and its end mark.
LEMMA EndMarkLast ==
    ASSUME NEW S, NEW q \in Seq(S), NEW e
    PROVE  /\ Append(q, e) # <<>> /\ Last(Append(q, e)) = e /\ Front(Append(q, e)) = q
           /\ q # <<>> => Head(Append(q, e)) = Head(q) /\ Tail(Append(q, e)) = Append(Tail(q), e)
           /\ q = <<>> => Head(Append(q, e)) = e /\ Tail(Append(q, e)) = <<>>
<1>1. PICK n \in Nat : Len(q) = n
  OBVIOUS
<1>2. PICK r : r = Append(q, e)
  OBVIOUS
<1>3. r \in Seq(S \cup {e}) /\ q \in Seq(S \cup {e}) /\ Len(r) = n + 1 /\ r[n + 1] = e /\ \A i \in 1..n : r[i] = q[i]
  <2>1. q \in Seq(S \cup {e})
    OBVIOUS
  <2> QED
    BY <1>1, <1>2, <2>1
<1>4. r # <<>>
  BY <1>3
<1>5. Last(r) = e
  BY <1>3 DEF Last
<1>6. Front(r) = q
  <2>1. Front(r) = SubSeq(r, 1, n)
    <3>1. Len(r) - 1 = n
      BY <1>3
    <3> QED
      BY <3>1 DEF Front
  <2>2. \A i \in 1..n : i \in 1..n + 1
    OBVIOUS
  <2>3. \A i \in 1..n : r[i] \in S \cup {e}
    BY <1>3, <2>2
  <2>4. PICK f : f = SubSeq(r, 1, n)
    OBVIOUS
  <2>5. f \in Seq(S \cup {e}) /\ Len(f) = n /\ \A i \in 1..n : f[i] = r[i]
    <3>1. 1 \in Int /\ n \in Int /\ n - 1 + 1 = n /\ (n < 1 => n = 0)
      OBVIOUS
    <3>2. /\ f \in Seq(S \cup {e}) /\ Len(f) = (IF 1 <= n THEN n - 1 + 1 ELSE 0)
          /\ \A i \in 1..n - 1 + 1 : f[i] = r[1 + i - 1]
      BY <2>3, <2>4, <3>1, SubSeqProperties
    <3>3. \A i \in 1..n : 1 + i - 1 = i
      OBVIOUS
    <3> QED
      BY <3>1, <3>2, <3>3
  <2>6. f = q
    BY <1>1, <1>3, <2>5, SeqEqual
  <2> QED
    BY <2>1, <2>4, <2>6
<1>7. ASSUME q # <<>> PROVE Head(r) = Head(q) /\ Tail(r) = Append(Tail(q), e)
  <2>1. n # 0
    BY <1>1, <1>7
  <2>2. Head(r) = Head(q)
    BY <1>1, <1>3, <2>1
  <2>3. PICK t, u : t = Tail(r) /\ u = Tail(q)
    OBVIOUS
  <2>4. t \in Seq(S \cup {e}) /\ Len(t) = n /\ \A i \in 1..n : t[i] = r[i + 1]
    BY <1>3, <1>4, <2>3, HeadTailProperties
  <2>5. PICK k \in Nat : n = k + 1
    <3>1. n - 1 \in Nat /\ n = (n - 1) + 1
      BY <2>1
    <3> QED
      BY <3>1
  <2>6. u \in Seq(S \cup {e}) /\ Len(u) = k /\ \A i \in 1..k : u[i] = q[i + 1]
    BY <1>1, <1>3, <1>7, <2>3, <2>5, HeadTailProperties
  <2>7. PICK v : v = Append(u, e)
    OBVIOUS
  <2>8. v \in Seq(S \cup {e}) /\ Len(v) = k + 1 /\ v[k + 1] = e /\ \A i \in 1..k : v[i] = u[i]
    BY <2>6, <2>7
  <2>9. ASSUME NEW i \in 1..n PROVE t[i] = v[i]
    <3>1. CASE i = n
      BY <1>3, <2>4, <2>5, <2>8, <3>1
    <3>2. CASE i # n
      <4>1. i \in 1..k /\ i + 1 \in 1..n
        BY <2>5, <3>2
      <4> QED
        BY <1>3, <2>4, <2>6, <2>8, <4>1
    <3> QED
      BY <3>1, <3>2
  <2>10. t = v
    BY <2>4, <2>5, <2>8, <2>9, SeqEqual
  <2> QED
    BY <2>2, <2>3, <2>7, <2>10
<1>8. ASSUME q = <<>> PROVE Head(r) = e /\ Tail(r) = <<>>
  <2>1. n = 0 /\ Len(r) = 1 /\ r[1] = e
    BY <1>1, <1>3, <1>8
  <2>2. Head(r) = e
    BY <1>3, <2>1
  <2>3. Tail(r) \in Seq(S \cup {e}) /\ Len(Tail(r)) = 0
    BY <1>3, <1>4, <2>1, HeadTailProperties
  <2> QED
    BY <2>2, <2>3, EmptySeq
<1> QED
  BY <1>2, <1>4, <1>5, <1>6, <1>7, <1>8

\* The end mark is no event of a reply.
LEMMA MarkIsNoNotice == EndMark \notin ReplyNotices
<1>1. EndMark.kind = "end"
  <2>1. PICK none : none = <<>>
    OBVIOUS
  <2>2. EndMark = [kind |-> "end", text |-> none]
    BY <2>1, Zenon DEF EndMark
  <2> QED
    BY <2>2
<1> QED
  BY <1>1 DEF ReplyNotices

\* These notices bring every screen of the first kind to one of the second.
Brings(notices, text, call, tools, text2, call2, tools2) ==
    /\ notices \in Seq(ReplyNotices)
    /\ \A x \in Screens : x.text = text /\ ToolsFit(x.tools, call, tools) =>
          \E y \in Screens : Shows(x, notices, y) /\ y.text = text2 /\ ToolsFit(y.tools, call2, tools2)

\* What is put on an open port arrives after what was there.
LEMMA PutArrives ==
    ASSUME NEW c, NEW p, PortOf(p), ~p.closed, NEW text, NEW call, NEW tools, NEW text2, NEW call2, NEW tools2,
           Arrives(c, p.queue, FALSE, text, call, tools), NEW notices,
           Brings(notices, text, call, tools, text2, call2, tools2)
    PROVE  /\ put(p, notices).closed = p.closed /\ PortOf(put(p, notices))
           /\ Arrives(c, put(p, notices).queue, FALSE, text2, call2, tools2)
<1>1. PICK q \in Seq(ReplyNotices), x \in Screens :
         p.queue = q /\ Shows(c, q, x) /\ x.text = text /\ ToolsFit(x.tools, call, tools)
  BY Zenon DEF Arrives
<1>2. /\ notices \in Seq(ReplyNotices)
      /\ \E y \in Screens : Shows(x, notices, y) /\ y.text = text2 /\ ToolsFit(y.tools, call2, tools2)
  BY <1>1, Zenon DEF Brings
<1>7. PICK y \in Screens : Shows(x, notices, y) /\ y.text = text2 /\ ToolsFit(y.tools, call2, tools2)
  BY <1>2
<1>3. q \o notices \in Seq(ReplyNotices) /\ Shows(c, q \o notices, y)
  BY <1>1, <1>2, <1>7, ShowsMore
<1>4. put(p, notices) = [p EXCEPT !.queue = @ \o notices]
  BY DEF put
<1>5. put(p, notices).queue = q \o notices /\ put(p, notices).closed = p.closed /\ PortOf(put(p, notices))
  BY <1>1, <1>4 DEF PortOf
<1>6. Arrives(c, q \o notices, FALSE, text2, call2, tools2)
  BY <1>3, <1>7, Zenon DEF Arrives
<1> QED
  BY <1>5, <1>6, Zenon

\* A closed port takes nothing.
LEMMA PutClosed == \A p, notices : p.closed => put(p, notices) = p
BY DEF put

\* With the end mark in the queue, and without.
LEMMA ArrivesWhen ==
    ASSUME NEW c, NEW queue, NEW marked \in BOOLEAN, NEW text, NEW call, NEW tools
    PROVE  /\ ~marked => (Arrives(c, queue, marked, text, call, tools) <=> Arrives(c, queue, FALSE, text, call, tools))
           /\ marked => (Arrives(c, queue, marked, text, call, tools) <=> Arrives(c, queue, TRUE, text, call, tools))
BY Zenon DEF Arrives

LEMMA MarkArrives ==
    ASSUME NEW c, NEW queue, NEW text, NEW call, NEW tools, Arrives(c, queue, FALSE, text, call, tools)
    PROVE  Arrives(c, Append(queue, EndMark), TRUE, text, call, tools)
<1>1. PICK q \in Seq(ReplyNotices), x \in Screens :
         queue = q /\ Shows(c, q, x) /\ x.text = text /\ ToolsFit(x.tools, call, tools)
  BY Zenon DEF Arrives
<1> QED
  BY <1>1, Zenon DEF Arrives

\* While the model is called.
LEMMA FitsRunning ==
    ASSUME NEW m, NEW d, NEW t, NEW p, NEW c, t.at = "model", c.at # "ended"
    PROVE  ReplyFits(m, d, t, p, c) <=>
             /\ MessageOf(m) /\ DisplayOf(d) /\ t \in TaskOf /\ PortOf(p) /\ c \in Screens
             /\ DisplayFits(d, m) /\ t.answer = <<>>
             /\ c.at = "reading" <=> ~p.closed
             /\ c.at # "gone" => Arrives(c, p.queue, FALSE, d.sent, m.call, m.tools)
<1> DEFINE marked == t.at = "ended" /\ c.at = "reading"
           text == IF t.at = "model" THEN d.sent ELSE t.answer
<1>1. marked \in BOOLEAN /\ ~marked
  OBVIOUS
<1>2. text = d.sent
  OBVIOUS
<1>3. ReplyFits(m, d, t, p, c) <=>
        /\ MessageOf(m) /\ DisplayOf(d) /\ t \in TaskOf /\ PortOf(p) /\ c \in Screens
        /\ DisplayFits(d, m) /\ t.answer = <<>>
        /\ c.at = "reading" <=> ~p.closed
        /\ c.at # "gone" => Arrives(c, p.queue, marked, text, m.call, m.tools)
  BY Zenon DEF ReplyFits
<1> HIDE DEF marked, text
<1>4. Arrives(c, p.queue, marked, text, m.call, m.tools) <=> Arrives(c, p.queue, FALSE, d.sent, m.call, m.tools)
  BY <1>1, <1>2, ArrivesWhen
<1> QED
  BY <1>3, <1>4, Zenon

\* While the answer is saved.
LEMMA FitsSaving ==
    ASSUME NEW m, NEW d, NEW t, NEW p, NEW c, t.at = "saving", c.at # "ended"
    PROVE  ReplyFits(m, d, t, p, c) <=>
             /\ MessageOf(m) /\ DisplayOf(d) /\ t \in TaskOf /\ PortOf(p) /\ c \in Screens
             /\ c.at = "reading" <=> ~p.closed
             /\ c.at # "gone" => Arrives(c, p.queue, FALSE, t.answer, m.call, m.tools)
<1> DEFINE marked == t.at = "ended" /\ c.at = "reading"
           text == IF t.at = "model" THEN d.sent ELSE t.answer
<1>1. marked \in BOOLEAN /\ ~marked /\ t.at # "model"
  OBVIOUS
<1>2. text = t.answer
  OBVIOUS
<1>3. ReplyFits(m, d, t, p, c) <=>
        /\ MessageOf(m) /\ DisplayOf(d) /\ t \in TaskOf /\ PortOf(p) /\ c \in Screens
        /\ c.at = "reading" <=> ~p.closed
        /\ c.at # "gone" => Arrives(c, p.queue, marked, text, m.call, m.tools)
  BY <1>1, Zenon DEF ReplyFits
<1> HIDE DEF marked, text
<1>4. Arrives(c, p.queue, marked, text, m.call, m.tools) <=> Arrives(c, p.queue, FALSE, t.answer, m.call, m.tools)
  BY <1>1, <1>2, ArrivesWhen
<1> QED
  BY <1>3, <1>4, Zenon

\* When the turn has ended and its end mark is queued.
LEMMA FitsEnded ==
    ASSUME NEW m, NEW d, NEW t, NEW p, NEW c, t.at = "ended", c.at # "ended"
    PROVE  ReplyFits(m, d, t, p, c) <=>
             /\ MessageOf(m) /\ DisplayOf(d) /\ t \in TaskOf /\ PortOf(p) /\ c \in Screens
             /\ c.at = "reading" <=> ~p.closed
             /\ c.at # "gone" => Arrives(c, p.queue, TRUE, t.answer, m.call, m.tools)
<1> DEFINE marked == t.at = "ended" /\ c.at = "reading"
           text == IF t.at = "model" THEN d.sent ELSE t.answer
<1>1. t.at # "model"
  OBVIOUS
<1>2. text = t.answer
  OBVIOUS
<1>3. ReplyFits(m, d, t, p, c) <=>
        /\ MessageOf(m) /\ DisplayOf(d) /\ t \in TaskOf /\ PortOf(p) /\ c \in Screens
        /\ c.at = "reading" <=> ~p.closed
        /\ c.at # "gone" => Arrives(c, p.queue, marked, text, m.call, m.tools)
  BY <1>1, Zenon DEF ReplyFits
<1>4. c \in Screens /\ c.at # "gone" => marked \in BOOLEAN /\ marked
  BY DEF Screens
<1> HIDE DEF marked, text
<1>5. c \in Screens /\ c.at # "gone" =>
        (Arrives(c, p.queue, marked, text, m.call, m.tools) <=> Arrives(c, p.queue, TRUE, t.answer, m.call, m.tools))
  BY <1>2, <1>4, ArrivesWhen
<1> QED
  BY <1>3, <1>5, Zenon

\* The invariant of the stream, action by action.
LEMMA ReplyInvHolds == ReplyInit => ReplyInv
<1> SUFFICES ASSUME ReplyInit PROVE ReplyInv
  OBVIOUS
<1>1. 1 \in 1..MaxModelCalls
  BY ReplyAssumption
<1>2. MessageOf(message) /\ DisplayOf(display) /\ DisplayFits(display, message) /\ display.sent = <<>>
  BY <1>1, NewMessageOf, NewDisplayFits, Zenon DEF ReplyInit
<1>3. PICK none : none = <<>>
  OBVIOUS
<1>4. none \in Texts /\ none \in Seq(Pairs) /\ none \in Seq(ReplyNotices)
  BY <1>3, NothingIsPieces
<1>5. task = [at |-> "model", answer |-> none, result |-> "none"]
  BY <1>3, Zenon DEF ReplyInit
<1>6. task \in TaskOf /\ task.at = "model" /\ task.answer = none
  BY <1>4, <1>5 DEF TaskOf
<1>7. PICK no \in BOOLEAN : no = FALSE
  OBVIOUS
<1>8. port = [queue |-> none, closed |-> no]
  BY <1>3, <1>7, Zenon DEF ReplyInit
<1>9. PortOf(port) /\ port.queue = none /\ ~port.closed
  BY <1>7, <1>8 DEF PortOf
<1>10. client = [at |-> "reading", text |-> none, tools |-> none, last |-> "none"]
  BY <1>3, Zenon DEF ReplyInit
<1>11. client \in Screens /\ client.at = "reading" /\ client.text = none /\ client.tools = none
  BY <1>4, <1>10 DEF Screens, Lasts
<1>12. message.tools = {}
  BY <1>1, NewMessageOf, Zenon DEF ReplyInit
<1>13. ToolsFit(client.tools, message.call, message.tools)
  <2>1. DOMAIN none = {}
    BY <1>3
  <2> QED
    BY <1>11, <1>12, <2>1 DEF ToolsFit, IsInjective
<1>14. Shows(client, none, client)
  BY <1>3, <1>11, ShowsNone
<1>15. Arrives(client, port.queue, FALSE, display.sent, message.call, message.tools)
  BY <1>2, <1>3, <1>4, <1>9, <1>11, <1>13, <1>14, Zenon DEF Arrives
<1> QED
  BY <1>2, <1>3, <1>6, <1>9, <1>11, <1>15, FitsRunning DEF ReplyInv

LEMMA ReplyReceiveKeeps == ReplyInv /\ receive_chunk => ReplyInv'
<1> SUFFICES ASSUME ReplyInv, receive_chunk PROVE ReplyInv'
  OBVIOUS
<1>1. task.at = "model" /\ message.chunks < MaxChunks /\ task' = task /\ client' = client
  BY Zenon DEF receive_chunk
<1>2. client.at # "ended"
  BY <1>1, Zenon DEF ReplyInv, ReplyFits
<1>3. /\ MessageOf(message) /\ DisplayOf(display) /\ task \in TaskOf /\ PortOf(port) /\ client \in Screens
      /\ DisplayFits(display, message) /\ task.answer = <<>>
      /\ client.at = "reading" <=> ~port.closed
      /\ client.at # "gone" => Arrives(client, port.queue, FALSE, display.sent, message.call, message.tools)
  BY <1>1, <1>2, FitsRunning DEF ReplyInv
<1>4. PICK m \in Grown(message) :
         /\ message' = m /\ display' = accept(display, m).display
         /\ port' = put(port, accept(display, m).notices)
  BY Zenon DEF receive_chunk
<1>5. MessageOf(m) /\ DisplayOf(display') /\ DisplayFits(display', m)
  BY <1>1, <1>3, <1>4, GrownIs, ReplyAcceptKeeps
<1>6. CASE client.at = "gone"
  <2>1. port.closed
    BY <1>3, <1>6
  <2>2. port' = port
    BY <1>4, <2>1, PutClosed
  <2> QED
    BY <1>1, <1>2, <1>3, <1>4, <1>5, <1>6, <2>2, FitsRunning DEF ReplyInv
<1>7. CASE client.at # "gone"
  <2>1. client.at = "reading" /\ ~port.closed
    BY <1>2, <1>3, <1>7 DEF Screens
  <2>2. PICK sent : sent = display.sent
    OBVIOUS
  <2>3. PICK notices : notices = accept(display, m).notices
    OBVIOUS
  <2>4. \E x \in Screens : x.text = sent /\ ToolsFit(x.tools, message.call, message.tools)
    BY <1>3, <1>7, <2>2, Zenon DEF Arrives
  <2>5. notices \in Seq(ReplyNotices)
    BY <1>1, <1>3, <2>2, <2>3, <2>4, AcceptShows
  <2>6. \A x \in Screens : x.text = sent /\ ToolsFit(x.tools, message.call, message.tools) =>
          \E y \in Screens : Shows(x, notices, y) /\ y.text = display'.sent /\ ToolsFit(y.tools, m.call, m.tools)
    BY <1>1, <1>3, <1>4, <2>2, <2>3, AcceptShows
  <2>7. Arrives(client, port.queue, FALSE, sent, message.call, message.tools)
    BY <1>3, <1>7, <2>2
  <2>8. Brings(notices, sent, message.call, message.tools, display'.sent, m.call, m.tools)
    BY <2>5, <2>6, Zenon DEF Brings
  <2>10. /\ put(port, notices).closed = port.closed /\ PortOf(put(port, notices))
         /\ Arrives(client, put(port, notices).queue, FALSE, display'.sent, m.call, m.tools)
    BY <1>3, <2>1, <2>7, <2>8, PutArrives
  <2>9. port' = put(port, notices)
    BY <1>4, <2>3
  <2> QED
    BY <1>1, <1>2, <1>3, <1>4, <1>5, <2>9, <2>10, FitsRunning DEF ReplyInv
<1> QED
  BY <1>6, <1>7

LEMMA ReplyAnswersKeeps == ReplyInv /\ model_answers => ReplyInv'
<1> SUFFICES ASSUME ReplyInv, model_answers PROVE ReplyInv'
  OBVIOUS
<1>1. task.at = "model" /\ ~invalid_response /\ port' = put(port, finish(display, message)) /\ client' = client
  BY Zenon DEF model_answers
<1>2. client.at # "ended"
  BY <1>1, Zenon DEF ReplyInv, ReplyFits
<1>3. /\ MessageOf(message) /\ DisplayOf(display) /\ task \in TaskOf /\ PortOf(port) /\ client \in Screens
      /\ DisplayFits(display, message) /\ task.answer = <<>>
      /\ client.at = "reading" <=> ~port.closed
      /\ client.at # "gone" => Arrives(client, port.queue, FALSE, display.sent, message.call, message.tools)
  BY <1>1, <1>2, FitsRunning DEF ReplyInv
<1>4. client.at # "gone" => client.at = "reading" /\ ~port.closed
  BY <1>2, <1>3 DEF Screens
<1>5. client.at = "gone" => port' = port
  BY <1>1, <1>3, PutClosed
<1>6. PICK notices : notices = finish(display, message)
  OBVIOUS
<1>7. CASE message.tools = {}
  <2>1. PICK answer : answer = final_answer_text(message)
    OBVIOUS
  <2>2. task' = [task EXCEPT !.at = "saving", !.answer = answer] /\ message' = message /\ display' = display
    BY <1>7, <2>1, Zenon DEF model_answers
  <2>3. answer \in Texts
    BY <1>3, <2>1, TextIsText, Zenon DEF MessageOf, final_answer_text
  <2>4. task' \in TaskOf /\ task'.at = "saving" /\ task'.answer = answer
    BY <1>3, <2>2, <2>3 DEF TaskOf
  <2>5. CASE client.at = "gone"
    BY <1>1, <1>2, <1>3, <1>5, <2>2, <2>4, <2>5, FitsSaving DEF ReplyInv
  <2>6. CASE client.at # "gone"
    <3>1. PICK sent : sent = display.sent
      OBVIOUS
    <3>2. Arrives(client, port.queue, FALSE, sent, message.call, message.tools)
      BY <1>3, <2>6, <3>1
    <3>3. notices \in Seq(ReplyNotices)
      <4>1. PICK x \in Screens : x.text = sent
        BY <3>2, Zenon DEF Arrives
      <4> QED
        BY <1>3, <1>6, <1>7, <3>1, <4>1, FinishShows
    <3>4. ASSUME NEW x \in Screens, x.text = sent, ToolsFit(x.tools, message.call, message.tools)
          PROVE  \E y \in Screens : Shows(x, notices, y) /\ y.text = answer /\ ToolsFit(y.tools, message.call, message.tools)
      <4>1. PICK y \in Screens : Shows(x, notices, y) /\ y.text = answer /\ y.tools = x.tools
        BY <1>3, <1>6, <1>7, <2>1, <3>1, <3>4, FinishShows
      <4> QED
        BY <3>4, <4>1
    <3>5. Brings(notices, sent, message.call, message.tools, answer, message.call, message.tools)
      BY <3>3, <3>4, Zenon DEF Brings
    <3>6. /\ put(port, notices).closed = port.closed /\ PortOf(put(port, notices))
          /\ Arrives(client, put(port, notices).queue, FALSE, answer, message.call, message.tools)
      BY <1>3, <1>4, <2>6, <3>2, <3>5, PutArrives
    <3> QED
      BY <1>1, <1>2, <1>3, <1>6, <2>2, <2>4, <3>6, FitsSaving DEF ReplyInv
  <2> QED
    BY <2>5, <2>6
<1>8. CASE message.tools # {}
  <2>1. message' = NewMessage(message.call + 1) /\ display' = NewDisplay /\ task' = task
    BY <1>8, Zenon DEF model_answers
  <2>2. message.call \in 1..MaxModelCalls /\ message.call < MaxModelCalls
    BY <1>1, <1>3, <1>8 DEF invalid_response, tools_allowed, MessageOf
  <2>3. message.call + 1 \in 1..MaxModelCalls
    BY <2>2, ReplyAssumption
  <2>4. /\ MessageOf(message') /\ DisplayOf(display') /\ DisplayFits(display', message')
        /\ message'.call = message.call + 1 /\ message'.tools = {} /\ display'.sent = <<>>
    BY <2>1, <2>3, NewMessageOf, NewDisplayFits
  <2>5. notices = <<>> /\ display.sent = <<>>
    BY <1>3, <1>6, <1>8, FinishWithTools
  <2>6. CASE client.at = "gone"
    BY <1>1, <1>2, <1>3, <1>5, <2>1, <2>4, <2>6, FitsRunning DEF ReplyInv
  <2>7. CASE client.at # "gone"
    <3>1. Arrives(client, port.queue, FALSE, <<>>, message.call, message.tools)
      BY <1>3, <2>5, <2>7
    <3>2. PICK old : old = message.tools
      OBVIOUS
    <3>3. PICK next : next = message.call + 1
      OBVIOUS
    <3>4. ASSUME NEW x \in Screens, x.text = <<>>, ToolsFit(x.tools, message.call, old)
          PROVE  Shows(x, notices, x) /\ ToolsFit(x.tools, next, {})
      <4>1. Shows(x, notices, x)
        BY <2>5, ShowsNone
      <4>2. PICK pairs : pairs = x.tools
        OBVIOUS
      <4>3. IsInjective(pairs) /\ \A k \in DOMAIN pairs : pairs[k][1] <= message.call
        BY <3>4, <4>2 DEF ToolsFit
      <4>4. \A k \in DOMAIN pairs : pairs[k][1] \in Nat
        <5>1. pairs \in Seq(Pairs)
          BY <4>2 DEF Screens
        <5>2. \A k \in DOMAIN pairs : pairs[k] \in Pairs
          BY <5>1
        <5> QED
          BY <5>2 DEF Pairs
      <4>5. \A k \in DOMAIN pairs : pairs[k][1] <= next /\ pairs[k][1] # next
        BY <2>2, <3>3, <4>3, <4>4
      <4>6. ToolsFit(pairs, next, {})
        BY <4>3, <4>5 DEF ToolsFit
      <4> QED
        BY <4>1, <4>2, <4>6
    <3>5. notices \in Seq(ReplyNotices)
      BY <2>5
    <3>6. Brings(notices, <<>>, message.call, old, <<>>, next, {})
      BY <3>4, <3>5, Zenon DEF Brings
    <3>7. /\ put(port, notices).closed = port.closed /\ PortOf(put(port, notices))
          /\ Arrives(client, put(port, notices).queue, FALSE, <<>>, next, {})
      BY <1>3, <1>4, <2>7, <3>1, <3>2, <3>6, PutArrives
    <3>8. Arrives(client, port'.queue, FALSE, display'.sent, message'.call, message'.tools)
      BY <1>1, <1>6, <2>4, <3>3, <3>7
    <3> QED
      BY <1>1, <1>2, <1>3, <1>6, <2>1, <2>4, <3>7, <3>8, FitsRunning DEF ReplyInv
  <2> QED
    BY <2>6, <2>7
<1> QED
  BY <1>7, <1>8

LEMMA ReplyFailsKeeps == ReplyInv /\ model_fails => ReplyInv'
<1> SUFFICES ASSUME ReplyInv, model_fails PROVE ReplyInv'
  OBVIOUS
<1>1. task.at = "model" /\ message' = message /\ client' = client
  BY Zenon DEF model_fails
<1>2. client.at # "ended"
  BY <1>1, Zenon DEF ReplyInv, ReplyFits
<1>3. /\ MessageOf(message) /\ DisplayOf(display) /\ task \in TaskOf /\ PortOf(port) /\ client \in Screens
      /\ DisplayFits(display, message) /\ task.answer = <<>>
      /\ client.at = "reading" <=> ~port.closed
      /\ client.at # "gone" => Arrives(client, port.queue, FALSE, display.sent, message.call, message.tools)
  BY <1>1, <1>2, FitsRunning DEF ReplyInv
<1>4. client.at # "gone" => client.at = "reading" /\ ~port.closed
  BY <1>2, <1>3 DEF Screens
<1>5. DisplayOf(display')
  <2>1. PICK none : none = <<>>
    OBVIOUS
  <2>2. display' = [display EXCEPT !.sent = none]
    BY <2>1, Zenon DEF model_fails
  <2>3. none \in Texts
    BY <2>1, NothingIsPieces
  <2> QED
    BY <1>3, <2>2, <2>3 DEF DisplayOf
<1>6. task' \in TaskOf /\ task'.at = "ended" /\ task'.answer = <<>>
  <2>1. task' = [task EXCEPT !.at = "ended", !.result = "error"]
    BY Zenon DEF model_fails
  <2>2. task'.answer = task.answer
    BY <1>3, <2>1 DEF TaskOf
  <2> QED
    BY <1>3, <2>1, <2>2 DEF TaskOf
<1>7. PICK p : p = put(port, reset(display))
  OBVIOUS
<1>8. port' = [p EXCEPT !.queue = Append(@, EndMark)]
  BY <1>7, Zenon DEF model_fails
<1>9. PortOf(p) => PortOf(port') /\ port'.queue = Append(p.queue, EndMark) /\ port'.closed = p.closed
  BY <1>8 DEF PortOf
<1>10. CASE client.at = "gone"
  <2>1. p = port
    BY <1>3, <1>7, <1>10, PutClosed
  <2>2. PortOf(port') /\ port'.closed = port.closed
    BY <1>3, <1>9, <2>1
  <2> QED
    BY <1>1, <1>2, <1>3, <1>5, <1>6, <1>10, <2>2, FitsEnded DEF ReplyInv
<1>11. CASE client.at # "gone"
  <2>1. PICK sent, notices : sent = display.sent /\ notices = reset(display)
    OBVIOUS
  <2>2. Arrives(client, port.queue, FALSE, sent, message.call, message.tools)
    BY <1>3, <1>11, <2>1
  <2>3. notices \in Seq(ReplyNotices)
    <3>1. PICK x \in Screens : x.text = sent
      BY <2>2, Zenon DEF Arrives
    <3> QED
      BY <2>1, <3>1, ResetShows
  <2>4. ASSUME NEW x \in Screens, x.text = sent, ToolsFit(x.tools, message.call, message.tools)
        PROVE  \E y \in Screens : Shows(x, notices, y) /\ y.text = <<>> /\ ToolsFit(y.tools, message.call, message.tools)
    <3>1. PICK y \in Screens : Shows(x, notices, y) /\ y.text = <<>> /\ y.tools = x.tools
      BY <2>1, <2>4, ResetShows
    <3> QED
      BY <2>4, <3>1
  <2>5. Brings(notices, sent, message.call, message.tools, <<>>, message.call, message.tools)
    BY <2>3, <2>4, Zenon DEF Brings
  <2>6. p.closed = port.closed /\ PortOf(p) /\ Arrives(client, p.queue, FALSE, <<>>, message.call, message.tools)
    <3>1. PortOf(port) /\ ~port.closed
      BY <1>3, <1>4, <1>11
    <3>2. p = put(port, notices)
      BY <1>7, <2>1
    <3>3. /\ put(port, notices).closed = port.closed /\ PortOf(put(port, notices))
          /\ Arrives(client, put(port, notices).queue, FALSE, <<>>, message.call, message.tools)
      BY <2>2, <2>5, <3>1, PutArrives
    <3> QED
      BY <3>2, <3>3
  <2>7. Arrives(client, Append(p.queue, EndMark), TRUE, <<>>, message.call, message.tools)
    BY <2>6, MarkArrives
  <2>8. /\ PortOf(port') /\ port'.closed = port.closed
        /\ Arrives(client, port'.queue, TRUE, <<>>, message.call, message.tools)
    BY <1>9, <2>6, <2>7
  <2> QED
    BY <1>1, <1>2, <1>3, <1>5, <1>6, <2>8, FitsEnded DEF ReplyInv
<1> QED
  BY <1>10, <1>11

LEMMA ReplyTurnEndsKeeps == ReplyInv /\ turn_ends => ReplyInv'
<1> SUFFICES ASSUME ReplyInv, turn_ends PROVE ReplyInv'
  OBVIOUS
<1>1. task.at = "saving" /\ message' = message /\ display' = display /\ client' = client
  BY Zenon DEF turn_ends
<1>2. client.at # "ended"
  BY <1>1, Zenon DEF ReplyInv, ReplyFits
<1>3. /\ MessageOf(message) /\ DisplayOf(display) /\ task \in TaskOf /\ PortOf(port) /\ client \in Screens
      /\ client.at = "reading" <=> ~port.closed
      /\ client.at # "gone" => Arrives(client, port.queue, FALSE, task.answer, message.call, message.tools)
  BY <1>1, <1>2, FitsSaving DEF ReplyInv
<1>4. task' \in TaskOf /\ task'.at = "ended" /\ task'.answer = task.answer
  <2>1. PICK result \in {"done", "error"} : task' = [task EXCEPT !.at = "ended", !.result = result]
    BY Zenon DEF turn_ends
  <2> QED
    BY <1>3, <2>1 DEF TaskOf
<1>5. PortOf(port') /\ port'.queue = Append(port.queue, EndMark) /\ port'.closed = port.closed
  <2>1. port' = [port EXCEPT !.queue = Append(@, EndMark)]
    BY Zenon DEF turn_ends
  <2> QED
    BY <1>3, <2>1 DEF PortOf
<1>6. client.at # "gone" => Arrives(client, port'.queue, TRUE, task.answer, message.call, message.tools)
  BY <1>3, <1>5, MarkArrives
<1> QED
  BY <1>1, <1>2, <1>3, <1>4, <1>5, <1>6, FitsEnded DEF ReplyInv

LEMMA ReplyDisconnectKeeps == ReplyInv /\ disconnect => ReplyInv'
<1> SUFFICES ASSUME ReplyInv, disconnect PROVE ReplyInv'
  OBVIOUS
<1>1. /\ MessageOf(message) /\ DisplayOf(display) /\ task \in TaskOf /\ PortOf(port) /\ client \in Screens
      /\ task.at = "model" => DisplayFits(display, message) /\ task.answer = <<>>
  BY Zenon DEF ReplyInv, ReplyFits
<1>2. message' = message /\ display' = display /\ task' = task /\ client' = [client EXCEPT !.at = "gone"]
  BY Zenon DEF disconnect
<1>3. client' \in Screens /\ client'.at = "gone"
  BY <1>1, <1>2 DEF Screens
<1>4. PortOf(port') /\ port'.closed
  <2>1. PICK none, yes : none = <<>> /\ yes = TRUE
    OBVIOUS
  <2>2. port' = [port EXCEPT !.closed = yes, !.queue = none]
    BY <2>1, Zenon DEF disconnect
  <2> QED
    BY <1>1, <2>1, <2>2 DEF PortOf
<1>5. client'.at # "reading" /\ client'.at # "ended"
  BY <1>3
<1> QED
  BY <1>1, <1>2, <1>3, <1>4, <1>5, Zenon DEF ReplyInv, ReplyFits

LEMMA ReplySendsKeeps == ReplyInv /\ stream_sends => ReplyInv'
<1> SUFFICES ASSUME ReplyInv, stream_sends PROVE ReplyInv'
  OBVIOUS
<1>1. /\ client.at = "reading" /\ port.queue # <<>> /\ Head(port.queue) # EndMark
      /\ client' = Applied(client, Head(port.queue)) /\ port' = [port EXCEPT !.queue = Tail(@)]
      /\ message' = message /\ display' = display /\ task' = task
  BY Zenon DEF stream_sends
<1> DEFINE marked == task.at = "ended" /\ client.at = "reading"
           text == IF task.at = "model" THEN display.sent ELSE task.answer
<1>2. /\ MessageOf(message) /\ DisplayOf(display) /\ task \in TaskOf /\ PortOf(port) /\ client \in Screens
      /\ task.at = "model" => DisplayFits(display, message) /\ task.answer = <<>>
      /\ client.at = "reading" <=> ~port.closed
      /\ client.at # "gone" => Arrives(client, port.queue, marked, text, message.call, message.tools)
  BY Zenon DEF ReplyInv, ReplyFits
<1>3. marked' <=> task.at = "ended" /\ client'.at = "reading"
  BY <1>1
<1>4. text' = text
  BY <1>1
<1> HIDE DEF marked, text
<1>5. Arrives(client, port.queue, marked, text, message.call, message.tools)
  BY <1>1, <1>2
<1>6. PICK q \in Seq(ReplyNotices), x \in Screens :
         /\ port.queue = (IF marked THEN Append(q, EndMark) ELSE q)
         /\ Shows(client, q, x) /\ x.text = text /\ ToolsFit(x.tools, message.call, message.tools)
  BY <1>5, Zenon DEF Arrives
<1>7. q # <<>>
  BY <1>1, <1>6, EndMarkLast
<1>8. Head(port.queue) = Head(q)
  BY <1>6, <1>7, EndMarkLast
<1>9. Tail(port.queue) = IF marked THEN Append(Tail(q), EndMark) ELSE Tail(q)
  <2>1. Tail(Append(q, EndMark)) = Append(Tail(q), EndMark)
    BY <1>7, EndMarkLast
  <2> QED
    BY <1>6, <2>1, Zenon
<1>10. Tail(q) \in Seq(ReplyNotices) /\ Head(q) \in ReplyNotices /\ Shows(client', Tail(q), x)
  <2>1. client' = Applied(client, Head(q))
    BY <1>1, <1>8
  <2> QED
    BY <1>6, <1>7, <2>1, ShowsHead
<1>11. client' \in Screens /\ client'.at = client.at
  BY <1>1, <1>2, <1>8, <1>10, AppliedTyped, AppliedIs
<1>12. PortOf(port') /\ port'.queue = Tail(port.queue) /\ port'.closed = port.closed
  BY <1>1, <1>2 DEF PortOf
<1>13. Arrives(client', port'.queue, marked, text, message.call, message.tools)
  BY <1>6, <1>9, <1>10, <1>12, Zenon DEF Arrives
<1>14. client'.at = "reading" /\ client'.at # "ended"
  BY <1>1, <1>11
<1>15. ASSUME NEW marked2, marked2 = marked, NEW text2, text2 = text
       PROVE  Arrives(client', port'.queue, marked2, text2, message'.call, message'.tools)
  BY <1>1, <1>13, <1>15
<1>16. Arrives(client', port'.queue, task'.at = "ended" /\ client'.at = "reading",
                IF task'.at = "model" THEN display'.sent ELSE task'.answer, message'.call, message'.tools)
  <2>1. (task'.at = "ended" /\ client'.at = "reading") = marked
    BY <1>1, <1>14 DEF marked
  <2>2. (IF task'.at = "model" THEN display'.sent ELSE task'.answer) = text
    BY <1>1 DEF text
  <2> HIDE DEF marked, text
  <2> QED
    BY <1>15, <2>1, <2>2, Zenon
<1> QED
  BY <1>1, <1>2, <1>11, <1>12, <1>14, <1>16, Zenon DEF ReplyInv, ReplyFits

LEMMA ReplyFinalKeeps == ReplyInv /\ stream_final => ReplyInv'
<1> SUFFICES ASSUME ReplyInv, stream_final PROVE ReplyInv'
  OBVIOUS
<1>1. /\ client.at = "reading" /\ port.queue # <<>> /\ Head(port.queue) = EndMark
      /\ client' = [client EXCEPT !.at = "ended", !.last = task.result]
      /\ message' = message /\ display' = display /\ task' = task
  BY Zenon DEF stream_final
<1> DEFINE marked == task.at = "ended" /\ client.at = "reading"
           text == IF task.at = "model" THEN display.sent ELSE task.answer
<1>2. /\ MessageOf(message) /\ DisplayOf(display) /\ task \in TaskOf /\ PortOf(port) /\ client \in Screens
      /\ task.at = "model" => DisplayFits(display, message) /\ task.answer = <<>>
      /\ client.at # "gone" => Arrives(client, port.queue, marked, text, message.call, message.tools)
  BY Zenon DEF ReplyInv, ReplyFits
<1>3. PICK q \in Seq(ReplyNotices), x \in Screens :
         /\ port.queue = (IF marked THEN Append(q, EndMark) ELSE q)
         /\ Shows(client, q, x) /\ x.text = text /\ ToolsFit(x.tools, message.call, message.tools)
  <2>1. Arrives(client, port.queue, marked, text, message.call, message.tools)
    BY <1>1, <1>2
  <2> HIDE DEF marked, text
  <2> QED
    BY <2>1, Zenon DEF Arrives
<1>4. q # <<>> => Head(port.queue) = Head(q) /\ Head(q) \in ReplyNotices
  <2> HIDE DEF marked, text
  <2> QED
    BY <1>3, EndMarkLast, HeadTailProperties
<1>5. q = <<>>
  BY <1>1, <1>4, MarkIsNoNotice
<1>6. marked
  <2> HIDE DEF marked, text
  <2> QED
    BY <1>1, <1>3, <1>5
<1>7. task.at = "ended" /\ text = task.answer
  BY <1>6
<1>8. Tail(port.queue) = <<>>
  <2> HIDE DEF marked, text
  <2> QED
    BY <1>3, <1>5, <1>6, EndMarkLast
<1>9. x = client
  BY <1>2, <1>3, <1>5, ShowsNone, ShowsUnique
<1>10. /\ client' \in Screens /\ client'.at = "ended" /\ client'.last = task.result
       /\ client'.text = client.text /\ client'.tools = client.tools
  BY <1>1, <1>2 DEF Screens, Lasts, TaskOf
<1>11. PortOf(port') /\ port'.queue = <<>> /\ port'.closed
  <2>1. PICK none, yes : none = Tail(port.queue) /\ yes = TRUE
    OBVIOUS
  <2>2. port' = [queue |-> none, closed |-> yes]
    BY <2>1, Zenon DEF stream_final
  <2> QED
    BY <1>8, <2>1, <2>2 DEF PortOf
<1>12. Arrives(client', port'.queue, FALSE, task.answer, message.call, message.tools)
  <2>1. Shows(client', <<>>, client') /\ <<>> \in Seq(ReplyNotices)
    BY <1>10, ShowsNone
  <2>2. client'.text = task.answer /\ ToolsFit(client'.tools, message.call, message.tools)
    BY <1>3, <1>7, <1>9, <1>10
  <2> QED
    BY <1>10, <1>11, <2>1, <2>2, Zenon DEF Arrives
<1>13. client'.at # "reading" /\ client'.at # "gone" /\ task'.at # "model" /\ task'.at = "ended"
  BY <1>1, <1>7, <1>10
<1>14. Arrives(client', port'.queue, task'.at = "ended" /\ client'.at = "reading",
                IF task'.at = "model" THEN display'.sent ELSE task'.answer, message'.call, message'.tools)
  <2>1. (task'.at = "ended" /\ client'.at = "reading") = FALSE
    BY <1>13
  <2>2. (IF task'.at = "model" THEN display'.sent ELSE task'.answer) = task.answer
    BY <1>1, <1>13
  <2> QED
    BY <1>1, <1>12, <2>1, <2>2, Zenon
<1> QED
  BY <1>1, <1>2, <1>10, <1>11, <1>13, <1>14, Zenon DEF ReplyInv, ReplyFits

LEMMA ReplyInvKept == ReplyInv /\ [ReplyNext]_replyVars => ReplyInv'
<1> SUFFICES ASSUME ReplyInv, [ReplyNext]_replyVars PROVE ReplyInv'
  OBVIOUS
<1>1. CASE UNCHANGED replyVars
  BY <1>1, Zenon DEF replyVars, ReplyInv, ReplyFits
<1>2. CASE ReplyNext
  BY <1>2, ReplyReceiveKeeps, ReplyAnswersKeeps, ReplyFailsKeeps, ReplyTurnEndsKeeps, ReplySendsKeeps, ReplyFinalKeeps, ReplyDisconnectKeeps, Zenon
     DEF ReplyNext
<1> QED
  BY <1>1, <1>2

\* What is queued but not its end mark.
LEMMA PendingIs ==
    ASSUME ReplyInv, client.at # "gone"
    PROVE  \E q \in Seq(ReplyNotices), x \in Screens :
              /\ Pending = q /\ Shows(client, q, x)
              /\ x.text = (IF task.at = "model" THEN display.sent ELSE task.answer)
              /\ ToolsFit(x.tools, message.call, message.tools)
<1> DEFINE marked == task.at = "ended" /\ client.at = "reading"
           text == IF task.at = "model" THEN display.sent ELSE task.answer
<1>1. PICK q \in Seq(ReplyNotices), x \in Screens :
         /\ port.queue = (IF marked THEN Append(q, EndMark) ELSE q)
         /\ Shows(client, q, x) /\ x.text = text /\ ToolsFit(x.tools, message.call, message.tools)
  <2>1. Arrives(client, port.queue, marked, text, message.call, message.tools)
    BY Zenon DEF ReplyInv, ReplyFits
  <2> HIDE DEF marked, text
  <2> QED
    BY <2>1, Zenon DEF Arrives
<1> HIDE DEF marked
<1>2. CASE marked
  <2>1. port.queue = Append(q, EndMark)
    BY <1>1, <1>2
  <2>2. Pending = Front(Append(q, EndMark))
    <3>1. Append(q, EndMark) # <<>> /\ Last(Append(q, EndMark)) = EndMark
      BY EndMarkLast
    <3> QED
      BY <2>1, <3>1, Zenon DEF Pending
  <2>3. Pending = q
    BY <2>2, EndMarkLast
  <2> QED
    BY <1>1, <2>3
<1>3. CASE ~marked
  <2>1. port.queue = q
    BY <1>1, <1>3
  <2>2. q # <<>> => Last(q) # EndMark
    <3> SUFFICES ASSUME q # <<>> PROVE Last(q) # EndMark
      OBVIOUS
    <3>1. Len(q) \in 1..Len(q)
      BY EmptySeq
    <3>2. q[Len(q)] \in ReplyNotices
      BY <3>1, ElementOfSeq
    <3> QED
      BY <3>2, MarkIsNoNotice DEF Last
  <2>3. Pending = q
    BY <2>1, <2>2, Zenon DEF Pending
  <2> QED
    BY <1>1, <2>3
<1> QED
  BY <1>2, <1>3

LEMMA ReplyInvShows == ReplyInv => ScreenShowsTheAnswer
<1> SUFFICES ASSUME ReplyInv PROVE ScreenShowsTheAnswer
  OBVIOUS
<1>1. /\ MessageOf(message) /\ DisplayOf(display) /\ task \in TaskOf /\ PortOf(port) /\ client \in Screens
      /\ task.at = "model" => DisplayFits(display, message) /\ task.answer = <<>>
      /\ client.at = "ended" => port.queue = <<>> /\ task.at = "ended" /\ client.last = task.result
  BY Zenon DEF ReplyInv, ReplyFits
<1>2. ReplyTypeOK
  BY <1>1 DEF MessageOf, DisplayOf, TaskOf, PortOf, Screens, ReplyTypeOK
<1>3. CASE client.at # "gone"
  <2>1. PICK q \in Seq(ReplyNotices), x \in Screens :
              /\ Pending = q /\ Shows(client, q, x)
              /\ x.text = (IF task.at = "model" THEN display.sent ELSE task.answer)
              /\ ToolsFit(x.tools, message.call, message.tools)
    BY <1>3, PendingIs
  <2>2. Screen = x
    <3>1. Screen = FoldLeft(Applied, client, q)
      BY <2>1, Zenon DEF Screen
    <3>2. Shows(client, q, Screen)
      BY <1>1, <3>1, FoldShows
    <3> QED
      BY <2>1, <3>2, ShowsUnique
  <2>3. ASSUME task.at = "model"
        PROVE  /\ Screen.text # <<>> => message.tools = {}
               /\ \A k \in DOMAIN Screen.text : \E i \in DOMAIN message.blocks :
                    message.blocks[i].phase = "final_answer" /\ Contains(message.blocks[i].text, Screen.text[k])
    <3>1. DisplayFits(display, message) /\ Screen.text = display.sent
      BY <1>1, <2>1, <2>2, <2>3
    <3>2. display.sent \in PiecesOf(message.blocks, {"final_answer"})
      BY <3>1 DEF DisplayFits
    <3>3. \A k \in DOMAIN display.sent : InBlocks(display.sent[k], message.blocks, {"final_answer"})
      BY <3>2, Zenon DEF PiecesOf
    <3>4. \A k \in DOMAIN display.sent : \E i \in DOMAIN message.blocks :
             message.blocks[i].phase = "final_answer" /\ Contains(message.blocks[i].text, display.sent[k])
      BY <3>3, Zenon DEF InBlocks
    <3>5. display.sent # <<>> => message.tools = {}
      BY <3>1 DEF DisplayFits
    <3> QED
      BY <3>1, <3>4, <3>5
  <2>4. task.at # "model" => Screen.text = task.answer
    BY <2>1, <2>2
  <2>5. IsInjective(Screen.tools)
    BY <2>1, <2>2 DEF ToolsFit
  <2>6. \A id \in message.tools : Contains(Screen.tools, <<message.call, id>>)
    <3> SUFFICES ASSUME NEW id \in message.tools PROVE Contains(Screen.tools, <<message.call, id>>)
      OBVIOUS
    <3>1. PICK pairs : pairs = Screen.tools
      OBVIOUS
    <3>2. pairs \in Seq(Pairs) /\ \E k \in DOMAIN pairs : pairs[k] = <<message.call, id>>
      BY <2>1, <2>2, <3>1 DEF Screens, ToolsFit
    <3>3. PICK k \in 1..Len(pairs) : pairs[k] = <<message.call, id>>
      BY <3>2
    <3> QED
      BY <3>1, <3>3, Zenon DEF Contains
  <2> QED
    BY <1>1, <1>2, <2>3, <2>4, <2>5, <2>6, Zenon DEF ScreenShowsTheAnswer
<1> QED
  BY <1>2, <1>3, Zenon DEF ScreenShowsTheAnswer

\* ai/llm_stream.ReplyStream and planning_stream.stream, over every order of
\* chunks, phases, tool calls, failures, reads and disconnects: once everything
\* queued is read the screen shows the answer of the model, each tool start once.
THEOREM StreamShowsTheAnswer == ReplyInit /\ [][ReplyNext]_replyVars => []ScreenShowsTheAnswer
BY ReplyInvHolds, ReplyInvKept, ReplyInvShows, PTL

=============================================================================
