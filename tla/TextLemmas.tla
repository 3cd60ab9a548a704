----------------------------- MODULE TextLemmas -----------------------------
(***************************************************************************)
(* What ScriptText and StatementSplitter compute, for every text: the lines *)
(* a checksum is made of, the directive, the text with its placeholders    *)
(* replaced, its statements.  A property of every text is proved as one of *)
(* the set of texts that have it: the empty one is there, and with each    *)
(* text the ones a lexeme longer.                                          *)
(***************************************************************************)
EXTENDS TextShapes, StatementSplitter, FiniteSetTheorems, WellFoundedInduction,
        SequenceTheorems, TLAPS

-----------------------------------------------------------------------------
(* Least and greatest numbers.                                             *)

\* A set of naturals has a least element, which is the one the loop of Compare
\* (version.go) stops at: the community module's Min chooses it.
LEMMA MinOf ==
  ASSUME NEW S \in SUBSET Nat, S # {}
  PROVE  Min(S) \in S /\ \A x \in S : Min(S) <= x
<1> DEFINE T == {0..x : x \in S}
<1>1. T \subseteq FiniteSubsetsOf(Nat) /\ T # {}
  <2>1. \A x \in S : IsFiniteSet(0..x) /\ 0..x \in SUBSET Nat
    BY FS_Interval
  <2>2. \A t \in T : IsFiniteSet(t) /\ t \in SUBSET Nat
    BY <2>1, Zenon
  <2>3. T # {}
    OBVIOUS
  <2> QED BY <2>2, <2>3, Zenon DEF FiniteSubsetsOf
<1>2. PICK t \in T : \A u \in T : ~(<<u, t>> \in StrictSubsetOrdering(Nat))
  <2> HIDE DEF T
  <2> QED BY <1>1, WFMin, FS_StrictSubsetOrderingWellFounded
<1>3. PICK m \in S : t = 0..m
  BY <1>2
<1>4. \A x \in S : ~(x < m)
  <2> SUFFICES ASSUME NEW x \in S, x < m PROVE FALSE
    OBVIOUS
  <2>1. 0..x \subseteq 0..m /\ 0..x # 0..m
    <3>1. m \in 0..m /\ m \notin 0..x
      OBVIOUS
    <3>2. 0..x \subseteq 0..m
      OBVIOUS
    <3> QED BY <3>1, <3>2
  <2>2. 0..x \in T /\ ~(<<0..x, 0..m>> \in StrictSubsetOrdering(Nat))
    BY <1>2, <1>3, Zenon
  <2>3. 0..x \in SUBSET Nat /\ 0..m \in SUBSET Nat
    OBVIOUS
  <2>4. <<0..x, 0..m>> \in StrictSubsetOrdering(Nat)
    <3> DEFINE a == 0..x
               b == 0..m
    <3>1. a \in SUBSET Nat /\ b \in SUBSET Nat /\ a \subseteq b /\ a # b
      BY <2>1, <2>3
    <3> HIDE DEF a, b
    <3>2. <<a, b>> \in StrictSubsetOrdering(Nat)
      BY <3>1 DEF StrictSubsetOrdering
    <3> QED BY <3>2 DEF a, b
  <2> QED BY <2>2, <2>4
<1>5. \A x \in S : m <= x
  BY <1>4
<1> QED BY <1>5 DEF Min

\* A bounded set of naturals has a greatest element, as the longer of two versions
\* in Compare, or the last component that is not zero (version.go).
LEMMA MaxOf ==
  ASSUME NEW S \in SUBSET Nat, S # {}, NEW n \in Nat, \A x \in S : x <= n
  PROVE  Max(S) \in S /\ \A x \in S : Max(S) >= x
<1> DEFINE T == {n - x : x \in S}
<1>1. T \in SUBSET Nat /\ T # {}
  <2>1. \A x \in S : n - x \in Nat
    OBVIOUS
  <2>2. T \subseteq Nat
    BY <2>1
  <2>3. T # {}
    BY Zenon
  <2> QED BY <2>2, <2>3
<1>2. Min(T) \in T /\ \A y \in T : Min(T) <= y
  BY <1>1, MinOf
<1>3. PICK m \in S : Min(T) = n - m
  BY <1>2
<1>4. \A x \in S : m >= x
  <2> TAKE x \in S
  <2>1. n - m <= n - x
    BY <1>2, <1>3
  <2>2. x \in Nat /\ m \in Nat
    OBVIOUS
  <2> QED BY <2>1, <2>2
<1> QED BY <1>4 DEF Max

-----------------------------------------------------------------------------
(* Induction over numbers and over texts, as facts about sets of them.     *)

\* What holds for zero, and for the number after each for which it holds, holds
\* for every number: a text has a length, however long.
LEMMA NumbersUpwards ==
  ASSUME NEW H, 0 \in H, \A n \in Nat : n \in H => n + 1 \in H
  PROVE  \A n \in Nat : n \in H
<1> SUFFICES ASSUME Nat \ H # {} PROVE FALSE
  OBVIOUS
<1> DEFINE m == Min(Nat \ H)
<1>1. m \in Nat \ H /\ \A x \in Nat \ H : m <= x
  <2>1. Nat \ H \in SUBSET Nat
    OBVIOUS
  <2> QED BY <2>1, MinOf
<1> HIDE DEF m
<1>2. m # 0 /\ m - 1 \in Nat
  BY <1>1
<1>3. m - 1 \in H
  BY <1>1, <1>2
<1> QED BY <1>1, <1>2, <1>3

\* What holds for the empty sequence, and for each by one element longer, holds for
\* every sequence.
LEMMA SequencesUpwards ==
  ASSUME NEW E, NEW H, <<>> \in H,
         \A s \in Seq(E) : s \in H => \A e \in E : Append(s, e) \in H
  PROVE  \A s \in Seq(E) : s \in H
<1> DEFINE N == {n \in Nat : \A s \in Seq(E) : Len(s) = n => s \in H}
<1>1. 0 \in N
  OBVIOUS
<1>2. ASSUME NEW n \in Nat, n \in N PROVE n + 1 \in N
  <2> SUFFICES ASSUME NEW s \in Seq(E), Len(s) = n + 1 PROVE s \in H
    OBVIOUS
  <2> DEFINE t == SubSeq(s, 1, n)
  <2>1. t \in Seq(E) /\ Len(t) = n /\ s[n + 1] \in E /\ s = Append(t, s[n + 1])
    OBVIOUS
  <2> HIDE DEF t
  <2>2. t \in H
    BY <1>2, <2>1
  <2> QED BY <2>1, <2>2
<1>3. \A n \in Nat : n \in N
  <2> HIDE DEF N
  <2> QED BY <1>1, <1>2, NumbersUpwards
<1> QED BY <1>3

-----------------------------------------------------------------------------
(* Joining texts.                                                          *)

\* What FlattenSeq joins, up to each place.
Joined(seqs, f, n) == f = [i \in 1..n |-> IF i = 1 THEN seqs[i] ELSE f[i - 1] \o seqs[i]]

\* The community module's FlattenSeq, which stands for the Go code's string builders
\* that are written to in a loop, is the last of the texts joined so far.
LEMMA FlattenIs ==
  ASSUME NEW seqs, Len(seqs) # 0
  PROVE  FlattenSeq(seqs) = (CHOOSE f : Joined(seqs, f, Len(seqs)))[Len(seqs)]
BY DEF FlattenSeq, Joined

\* Each place adds its text to those before it.
LEMMA JoinedAt ==
  ASSUME NEW seqs, NEW f, NEW n, Joined(seqs, f, n), NEW i \in 1..n
  PROVE  f[i] = IF i = 1 THEN seqs[i] ELSE f[i - 1] \o seqs[i]
<1> DEFINE body(j) == IF j = 1 THEN seqs[j] ELSE f[j - 1] \o seqs[j]
<1>1. f = [j \in 1..n |-> body(j)]
  BY Zenon DEF Joined
<1> HIDE DEF body
<1>2. f[i] = body(i)
  BY <1>1, Zenon
<1> QED BY <1>2 DEF body

\* The texts of files are joined from pieces: there is such a function.
LEMMA JoinedExists ==
  ASSUME NEW seqs
  PROVE  \A n \in Nat : \E f : Joined(seqs, f, n)
<1> DEFINE N == {n \in Nat : \E f : Joined(seqs, f, n)}
<1>1. 0 \in N
  <2>1. Joined(seqs, [i \in 1..0 |-> <<>>], 0)
    BY DEF Joined
  <2> QED BY <2>1
<1>2. ASSUME NEW n \in Nat, n \in N PROVE n + 1 \in N
  <2>1. PICK f : Joined(seqs, f, n)
    BY <1>2
  <2> DEFINE g == [i \in 1..(n + 1) |->
                     IF i <= n THEN f[i] ELSE IF i = 1 THEN seqs[i] ELSE f[i - 1] \o seqs[i]]
  <2>2. \A i \in 1..(n + 1) : g[i] = IF i = 1 THEN seqs[i] ELSE g[i - 1] \o seqs[i]
    <3> TAKE i \in 1..(n + 1)
    <3>1. CASE i <= n
      <4>1. f[i] = IF i = 1 THEN seqs[i] ELSE f[i - 1] \o seqs[i]
        <5>1. i \in 1..n
          BY <3>1
        <5> QED BY <2>1, <5>1, JoinedAt
      <4>2. g[i] = f[i] /\ (i # 1 => g[i - 1] = f[i - 1])
        BY <3>1
      <4> HIDE DEF g
      <4> QED BY <4>1, <4>2
    <3>2. CASE i = n + 1
      <4>1. g[i] = (IF i = 1 THEN seqs[i] ELSE f[i - 1] \o seqs[i]) /\ (i # 1 => g[i - 1] = f[i - 1])
        BY <3>2
      <4> HIDE DEF g
      <4> QED BY <4>1
    <3> QED BY <3>1, <3>2
  <2>3. Joined(seqs, g, n + 1)
    BY <2>2 DEF Joined
  <2> QED BY <2>3
<1>3. \A n \in Nat : n \in N
  <2> HIDE DEF N
  <2> QED BY <1>1, <1>2, NumbersUpwards
<1> QED BY <1>3

\* And it is the same up to where the pieces are.
LEMMA JoinedAgree ==
  ASSUME NEW x, NEW y, NEW f, NEW g, NEW m \in Nat, NEW n \in Nat, m <= n,
         Joined(x, f, m), Joined(y, g, n), \A i \in 1..m : x[i] = y[i]
  PROVE  \A i \in 1..m : f[i] = g[i]
<1> DEFINE N == {k \in Nat : k \in 1..m => f[k] = g[k]}
<1>1. 0 \in N
  OBVIOUS
<1>2. ASSUME NEW k \in Nat, k \in N PROVE k + 1 \in N
  <2> SUFFICES ASSUME k + 1 \in 1..m PROVE f[k + 1] = g[k + 1]
    OBVIOUS
  <2>1. f[k + 1] = IF k + 1 = 1 THEN x[k + 1] ELSE f[k] \o x[k + 1]
    <3>1. k + 1 \in 1..m /\ (k + 1) - 1 = k
      OBVIOUS
    <3>2. f[k + 1] = IF k + 1 = 1 THEN x[k + 1] ELSE f[(k + 1) - 1] \o x[k + 1]
      BY <3>1, JoinedAt
    <3> QED BY <3>1, <3>2
  <2>2. g[k + 1] = IF k + 1 = 1 THEN y[k + 1] ELSE g[k] \o y[k + 1]
    <3>1. k + 1 \in 1..n /\ (k + 1) - 1 = k
      OBVIOUS
    <3>2. g[k + 1] = IF k + 1 = 1 THEN y[k + 1] ELSE g[(k + 1) - 1] \o y[k + 1]
      BY <3>1, JoinedAt
    <3> QED BY <3>1, <3>2
  <2>3. k + 1 # 1 => f[k] = g[k]
    BY <1>2
  <2>4. x[k + 1] = y[k + 1]
    OBVIOUS
  <2> QED BY <2>1, <2>2, <2>3, <2>4
<1>3. \A k \in Nat : k \in N
  <2> HIDE DEF N
  <2> QED BY <1>1, <1>2, NumbersUpwards
<1> QED BY <1>3

\* Nothing joined is nothing.
LEMMA FlattenNothing == FlattenSeq(<<>>) = <<>>
BY DEF FlattenSeq

\* One text joined is itself, and one more text comes behind those joined before:
\* the two ways in which the model and the properties build texts.
LEMMA FlattenAppend ==
  ASSUME NEW E, NEW x \in Seq(Seq(E)), NEW e \in Seq(E)
  PROVE  FlattenSeq(Append(x, e)) = IF x = <<>> THEN e ELSE FlattenSeq(x) \o e
<1> DEFINE y == Append(x, e)
           n == Len(x)
           f == CHOOSE h : Joined(x, h, Len(x))
           g == CHOOSE h : Joined(y, h, Len(y))
<1>1. n \in Nat /\ Len(y) = n + 1 /\ y[n + 1] = e /\ \A i \in 1..n : x[i] = y[i]
  OBVIOUS
<1>2. Joined(x, f, n)
  BY <1>1, JoinedExists
<1>3. Joined(y, g, n + 1)
  <2>1. n + 1 \in Nat /\ Len(y) = n + 1
    BY <1>1
  <2> HIDE DEF y, n
  <2>2. \E h : Joined(y, h, Len(y))
    BY <2>1, JoinedExists
  <2>3. Joined(y, g, Len(y))
    BY <2>2, Zenon
  <2> QED BY <2>1, <2>3
<1>4. FlattenSeq(y) = g[n + 1]
  <2>1. Len(y) # 0
    BY <1>1
  <2> QED BY <1>1, <2>1, FlattenIs
<1>5. x # <<>> => n # 0 /\ FlattenSeq(x) = f[n]
  <2>1. x # <<>> => Len(x) # 0
    OBVIOUS
  <2> QED BY <2>1, FlattenIs
<1>6. \A i \in 1..n : f[i] = g[i]
  <2> HIDE DEF f, g, y, n
  <2> QED BY <1>1, <1>2, <1>3, JoinedAgree
<1>7. g[n + 1] = IF n + 1 = 1 THEN y[n + 1] ELSE g[n] \o y[n + 1]
  <2>1. n + 1 \in 1..(n + 1) /\ (n + 1) - 1 = n
    BY <1>1
  <2> HIDE DEF f, g, y, n
  <2> QED BY <1>3, <2>1 DEF Joined
<1>8. x = <<>> <=> n = 0
  OBVIOUS
<1> HIDE DEF f, g, y, n
<1>9. n # 0 => n \in 1..n
  BY <1>1
<1> QED BY <1>1, <1>4, <1>5, <1>6, <1>7, <1>8, <1>9 DEF y

\* Joined texts are a text.
LEMMA FlattenType ==
  ASSUME NEW E
  PROVE  \A x \in Seq(Seq(E)) : FlattenSeq(x) \in Seq(E)
<1> DEFINE H == {x \in Seq(Seq(E)) : FlattenSeq(x) \in Seq(E)}
<1>1. <<>> \in H
  <2>1. <<>> \in Seq(Seq(E)) /\ <<>> \in Seq(E)
    OBVIOUS
  <2>2. FlattenSeq(<<>>) \in Seq(E)
    BY <2>1, FlattenNothing, Zenon
  <2> QED BY <2>1, <2>2
<1>2. ASSUME NEW x \in Seq(Seq(E)), x \in H, NEW e \in Seq(E) PROVE Append(x, e) \in H
  <2>1. FlattenSeq(x) \in Seq(E)
    BY <1>2
  <2>2. Append(x, e) \in Seq(Seq(E))
    OBVIOUS
  <2>3. FlattenSeq(Append(x, e)) = IF x = <<>> THEN e ELSE FlattenSeq(x) \o e
    BY FlattenAppend
  <2>4. FlattenSeq(x) \o e \in Seq(E)
    BY <2>1
  <2> QED BY <2>2, <2>3, <2>4
<1>3. \A x \in Seq(Seq(E)) : x \in H
  <2> HIDE DEF H
  <2> QED BY <1>1, <1>2, SequencesUpwards
<1> QED BY <1>3

\* One more text.
LEMMA FlattenMore ==
  ASSUME NEW E, NEW x \in Seq(Seq(E)), NEW e \in Seq(E)
  PROVE  FlattenSeq(Append(x, e)) = FlattenSeq(x) \o e
<1>1. x = <<>> => FlattenSeq(x) \o e = e
  BY FlattenNothing
<1> QED BY <1>1, FlattenAppend

\* Texts joined in two parts are those of the first, then those of the second.
LEMMA FlattenParts ==
  ASSUME NEW E, NEW x \in Seq(Seq(E))
  PROVE  \A y \in Seq(Seq(E)) : FlattenSeq(x \o y) = FlattenSeq(x) \o FlattenSeq(y)
<1> DEFINE H == {y \in Seq(Seq(E)) : FlattenSeq(x \o y) = FlattenSeq(x) \o FlattenSeq(y)}
<1>1. <<>> \in H
  <2>1. x \o <<>> = x /\ FlattenSeq(x) \in Seq(E)
    BY FlattenType
  <2>2. FlattenSeq(x) \o <<>> = FlattenSeq(x)
    BY <2>1
  <2> QED BY <2>1, <2>2, FlattenNothing
<1>2. ASSUME NEW y \in Seq(Seq(E)), y \in H, NEW e \in Seq(E) PROVE Append(y, e) \in H
  <2>1. x \o Append(y, e) = Append(x \o y, e) /\ x \o y \in Seq(Seq(E))
        /\ Append(y, e) \in Seq(Seq(E))
    OBVIOUS
  <2>2. FlattenSeq(Append(x \o y, e)) = FlattenSeq(x \o y) \o e
    BY <2>1, FlattenMore
  <2>3. FlattenSeq(Append(y, e)) = FlattenSeq(y) \o e
    BY FlattenMore
  <2>4. FlattenSeq(x) \in Seq(E) /\ FlattenSeq(y) \in Seq(E)
    BY FlattenType
  <2>5. (FlattenSeq(x) \o FlattenSeq(y)) \o e = FlattenSeq(x) \o (FlattenSeq(y) \o e)
    BY <2>4
  <2>6. FlattenSeq(x \o y) = FlattenSeq(x) \o FlattenSeq(y)
    BY <1>2
  <2> QED BY <2>1, <2>2, <2>3, <2>5, <2>6
<1>3. \A y \in Seq(Seq(E)) : y \in H
  <2> HIDE DEF H
  <2> QED BY <1>1, <1>2, SequencesUpwards
<1> QED BY <1>3

-----------------------------------------------------------------------------
(* Directives.                                                             *)

\* What a text and another one behind it have at each place.
LEMMA PlacesOf ==
  ASSUME NEW E, NEW s \in Seq(E), NEW t \in Seq(E)
  PROVE  /\ s \o t \in Seq(E)
         /\ Len(s) \in Nat /\ Len(t) \in Nat /\ Len(s \o t) = Len(s) + Len(t)
         /\ \A i \in 1..Len(s) : (s \o t)[i] = s[i]
         /\ \A i \in 1..Len(t) : (s \o t)[Len(s) + i] = t[i]
OBVIOUS

\* Texts with the same lexemes at the same places are one.
LEMMA SameText ==
  ASSUME NEW E, NEW s \in Seq(E), NEW t \in Seq(E), Len(s) = Len(t),
         \A i \in 1..Len(s) : s[i] = t[i]
  PROVE  s = t
OBVIOUS

\* A lexeme behind a text is a text behind it, and texts are joined in any order.
LEMMA AppendIs ==
  ASSUME NEW E, NEW s \in Seq(E), NEW c \in E
  PROVE  Append(s, c) = s \o <<c>> /\ <<c>> \in Seq(E) /\ Append(s, c) \in Seq(E)
OBVIOUS

\* A text with a lexeme more, behind another one, makes both with a lexeme more.
AppendsBehind(s, t, c) == Append(s \o t, c) = s \o Append(t, c)

\* It does so in every script (the string builders of parser.go and checksum.go).
LEMMA AppendBehind ==
  ASSUME NEW E, NEW s \in Seq(E), NEW t \in Seq(E), NEW c \in E
  PROVE  AppendsBehind(s, t, c)
BY DEF AppendsBehind

\* One text behind another has a directive where the first has one, where a later line
\* of the second is one, and where its first line is one and comes behind blanks
\* only: unless the first ends in a comment that goes on, and the second has a marker.
LEMMA DirectiveBehind ==
  ASSUME NEW E, NEW s \in Seq(E), NEW t \in Seq(E), Mentions(t) => ~EndsInComment(s)
  PROVE  RequestsNoTransaction(s \o t) <=>
           RequestsNoTransaction(s) \/ Hides(t) \/ (EndsBlank(s) /\ Opens(t))
<1> DEFINE u == s \o t
           n == Len(s)
           m == Len(t)
<1>1. /\ n \in Nat /\ m \in Nat /\ Len(u) = n + m
      /\ \A i \in 1..n : u[i] = s[i]
      /\ \A i \in 1..m : u[n + i] = t[i]
  BY PlacesOf
<1> HIDE DEF u, n, m
<1>0. n \in Nat /\ m \in Nat /\ Len(u) = n + m
  BY <1>1
<1>2. ASSUME RequestsNoTransaction(u)
      PROVE  RequestsNoTransaction(s) \/ Hides(t) \/ (EndsBlank(s) /\ Opens(t))
  <2>1. PICK i \in 1..Len(u) :
          /\ u[i] = "--"
          /\ \E b \in 0..(i - 1) : LineBehind(u, b, i)
          /\ \E j \in i..Len(u) : u[j] \in Directives /\ \A k \in i..j : u[k] # "nl"
    BY <1>2 DEF RequestsNoTransaction, LineBehind
  <2>2. PICK b \in 0..(i - 1) : LineBehind(u, b, i)
    BY <2>1
  <2>3. PICK j \in i..Len(u) : u[j] \in Directives /\ \A k \in i..j : u[k] # "nl"
    BY <2>1
  <2>4. CASE j <= n
    <3>1. \A k \in 1..j : u[k] = s[k]
      BY <1>1, <2>4
    <3>2. (b # 0 => b \in 1..j) /\ i \in 1..j /\ \A l \in (b + 1)..(i - 1) : l \in 1..j
      BY <2>3
    <3>3. /\ b = 0 \/ s[b] = "nl"
          /\ \A l \in (b + 1)..(i - 1) : s[l] \in Blank \ {"nl"}
      BY <2>2, <3>1, <3>2 DEF LineBehind
    <3>4. i \in 1..n /\ s[i] = "--" /\ j \in i..n /\ s[j] \in Directives /\ \A k \in i..j : s[k] # "nl"
      BY <1>1, <2>1, <2>3, <2>4, <3>1, <3>2
    <3> QED BY <3>3, <3>4 DEF RequestsNoTransaction, n
  <2>5. CASE j > n /\ i <= n
    <3>1. \A k \in 1..i : u[k] = s[k]
      BY <1>1, <2>5
    <3>2. (b # 0 => b \in 1..i) /\ i \in 1..i /\ \A l \in (b + 1)..(i - 1) : l \in 1..i
      BY <1>1, <2>1, <2>5
    <3>3. LineBehind(s, b, i)
      BY <2>2, <3>1, <3>2 DEF LineBehind
    <3>4. \A k \in i..n : s[k] # "nl"
      BY <1>1, <2>3, <2>5
    <3>5. i \in 1..n /\ s[i] = "--"
      BY <1>1, <2>1, <2>5
    <3>6. EndsInComment(s)
      BY <3>3, <3>4, <3>5 DEF EndsInComment, n
    <3>7. Mentions(t)
      <4>1. j - n \in 1..m /\ n + (j - n) = j
        BY <1>1, <2>5
      <4>2. t[j - n] \in Directives
        BY <1>1, <2>3, <4>1
      <4> QED BY <4>1, <4>2 DEF Mentions, m
    <3> QED BY <3>6, <3>7
  <2>6. CASE i > n
    <3>1. PICK c \in 1..m : i = n + c
      <4>1. i - n \in 1..m /\ i = n + (i - n)
        BY <1>0, <2>6
      <4> QED BY <4>1
    <3>2. MarkedAt(t, c)
      <4>1. j - n \in c..m /\ n + (j - n) = j
        BY <1>1, <2>3, <3>1
      <4>2. t[c] = "--"
        BY <1>1, <2>1, <3>1
      <4>3. j - n \in 1..m
        BY <3>1, <4>1
      <4>4. t[j - n] \in Directives
        BY <1>1, <2>3, <4>1, <4>3
      <4>5. ASSUME NEW k \in c..(j - n) PROVE t[k] # "nl"
        <5>1. k \in 1..m /\ n + k \in i..j
          BY <1>1, <3>1, <4>1
        <5>2. u[n + k] # "nl"
          BY <2>3, <5>1
        <5> QED BY <1>1, <5>1, <5>2
      <4> QED BY <4>1, <4>2, <4>4, <4>5 DEF MarkedAt, m
    <3>3. CASE b <= n
      <4>1. EndsBlank(s)
        <5>1. LineBehind(s, b, n + 1)
          <6>1. b # 0 => b \in 1..n
            BY <1>1, <3>3
          <6>2. \A l \in (b + 1)..((n + 1) - 1) : l \in (b + 1)..(i - 1) /\ l \in 1..n
            BY <1>1, <2>6, <3>3
          <6> QED BY <1>1, <2>2, <6>1, <6>2 DEF LineBehind
        <5>2. b \in 0..n
          BY <1>1, <3>3
        <5> QED BY <5>1, <5>2 DEF EndsBlank, n
      <4>2. LineBehind(t, 0, c)
        <5> SUFFICES ASSUME NEW l \in 1..(c - 1) PROVE t[l] \in Blank \ {"nl"}
          BY DEF LineBehind
        <5>1. n + l \in (b + 1)..(i - 1) /\ l \in 1..m
          BY <1>1, <3>1, <3>3
        <5>2. u[n + l] \in Blank \ {"nl"}
          BY <2>2, <5>1 DEF LineBehind
        <5> QED BY <1>1, <5>1, <5>2
      <4> QED BY <3>1, <3>2, <4>1, <4>2 DEF Opens, m
    <3>4. CASE b > n
      <4>1. PICK a \in 1..(c - 1) : b = n + a
        <5>1. b - n \in 1..(c - 1) /\ b = n + (b - n)
          BY <1>1, <3>1, <3>4
        <5> QED BY <5>1
      <4>2. LineBehind(t, a, c)
        <5>1. t[a] = "nl"
          <6>1. u[b] = "nl" /\ a \in 1..m
            BY <1>1, <2>2, <3>1, <3>4, <4>1 DEF LineBehind
          <6> QED BY <1>1, <4>1, <6>1
        <5>2. ASSUME NEW l \in (a + 1)..(c - 1) PROVE t[l] \in Blank \ {"nl"}
          <6>1. n + l \in (b + 1)..(i - 1) /\ l \in 1..m
            BY <1>1, <3>1, <4>1
          <6>2. u[n + l] \in Blank \ {"nl"}
            BY <2>2, <6>1 DEF LineBehind
          <6> QED BY <1>1, <6>1, <6>2
        <5> QED BY <5>1, <5>2 DEF LineBehind
      <4> QED BY <3>1, <3>2, <4>1, <4>2 DEF Hides, m
    <3> QED BY <1>1, <3>3, <3>4
  <2> QED BY <1>1, <2>4, <2>5, <2>6
<1>3. ASSUME RequestsNoTransaction(s) PROVE RequestsNoTransaction(u)
  <2>1. PICK i \in 1..n :
          /\ s[i] = "--"
          /\ \E b \in 0..(i - 1) : LineBehind(s, b, i)
          /\ \E j \in i..n : s[j] \in Directives /\ \A k \in i..j : s[k] # "nl"
    BY <1>3 DEF RequestsNoTransaction, n, LineBehind
  <2>2. PICK b \in 0..(i - 1) : LineBehind(s, b, i)
    BY <2>1
  <2>3. PICK j \in i..n : s[j] \in Directives /\ \A k \in i..j : s[k] # "nl"
    BY <2>1
  <2>4. i \in 1..Len(u) /\ j \in i..Len(u) /\ \A k \in 1..j : u[k] = s[k]
    BY <1>1
  <2>5. u[i] = "--"
    BY <2>1, <2>4
  <2>6. /\ b = 0 \/ u[b] = "nl"
        /\ \A l \in (b + 1)..(i - 1) : u[l] \in Blank \ {"nl"}
    <3>1. b # 0 => b \in 1..j
      BY <2>4
    <3>2. \A l \in (b + 1)..(i - 1) : l \in 1..j
      BY <2>4
    <3> QED BY <2>2, <2>4, <3>1, <3>2 DEF LineBehind
  <2>7. u[j] \in Directives /\ \A k \in i..j : u[k] # "nl"
    <3>1. j \in 1..j /\ \A k \in i..j : k \in 1..j
      BY <1>1
    <3> QED BY <2>3, <2>4, <3>1
  <2> QED BY <2>4, <2>5, <2>6, <2>7 DEF RequestsNoTransaction
<1>4. ASSUME NEW c \in 1..m, MarkedAt(t, c)
      PROVE  /\ n + c \in 1..Len(u) /\ u[n + c] = "--"
             /\ \E j \in (n + c)..Len(u) : u[j] \in Directives /\ \A k \in (n + c)..j : u[k] # "nl"
  <2>1. PICK d \in c..m : t[d] \in Directives /\ \A k \in c..d : t[k] # "nl"
    BY <1>4 DEF MarkedAt, m
  <2>2. n + d \in (n + c)..Len(u) /\ d \in 1..m /\ n + c \in 1..Len(u)
    BY <1>0
  <2>3. u[n + d] \in Directives /\ u[n + c] = "--"
    BY <1>1, <1>4, <2>1, <2>2 DEF MarkedAt
  <2>4. ASSUME NEW k \in (n + c)..(n + d) PROVE u[k] # "nl"
    <3>1. k - n \in c..d /\ k - n \in 1..m /\ k = n + (k - n)
      BY <1>1, <2>2
    <3>2. t[k - n] # "nl"
      BY <2>1, <3>1
    <3> QED BY <1>1, <3>1, <3>2
  <2> QED BY <2>2, <2>3, <2>4
<1>5. ASSUME EndsBlank(s), Opens(t) PROVE RequestsNoTransaction(u)
  <2>1. PICK b \in 0..n : LineBehind(s, b, n + 1)
    BY <1>5 DEF EndsBlank, n
  <2>2. PICK c \in 1..m : MarkedAt(t, c) /\ LineBehind(t, 0, c)
    BY <1>5 DEF Opens, m
  <2>3. b \in 0..((n + c) - 1)
    BY <1>1
  <2>4. /\ b = 0 \/ u[b] = "nl"
        /\ \A l \in (b + 1)..((n + c) - 1) : u[l] \in Blank \ {"nl"}
    <3>1. b # 0 => b \in 1..n
      BY <1>1
    <3>2. b = 0 \/ u[b] = "nl"
      BY <1>1, <2>1, <3>1 DEF LineBehind
    <3>3. ASSUME NEW l \in (b + 1)..((n + c) - 1), l <= n PROVE u[l] \in Blank \ {"nl"}
      <4>1. l \in (b + 1)..((n + 1) - 1) /\ l \in 1..n
        BY <1>1, <3>3
      <4> QED BY <1>1, <2>1, <4>1 DEF LineBehind
    <3>4. ASSUME NEW l \in (b + 1)..((n + c) - 1), l > n PROVE u[l] \in Blank \ {"nl"}
      <4>1. l - n \in (0 + 1)..(c - 1) /\ l - n \in 1..m /\ l = n + (l - n)
        BY <1>1, <3>4
      <4>2. t[l - n] \in Blank \ {"nl"}
        BY <2>2, <4>1 DEF LineBehind
      <4> QED BY <1>1, <4>1, <4>2
    <3> QED BY <1>1, <3>2, <3>3, <3>4
  <2> QED BY <1>4, <2>2, <2>3, <2>4 DEF RequestsNoTransaction
<1>6. ASSUME Hides(t) PROVE RequestsNoTransaction(u)
  <2>1. PICK c \in 1..m : MarkedAt(t, c) /\ \E a \in 1..(c - 1) : LineBehind(t, a, c)
    BY <1>6 DEF Hides, m
  <2>2. PICK a \in 1..(c - 1) : LineBehind(t, a, c)
    BY <2>1
  <2>3. a \in 1..m /\ a # 0 /\ n + a \in 0..((n + c) - 1)
    BY <1>0
  <2>4. /\ u[n + a] = "nl"
        /\ \A l \in ((n + a) + 1)..((n + c) - 1) : u[l] \in Blank \ {"nl"}
    <3>1. t[a] = "nl"
      BY <2>2, <2>3 DEF LineBehind
    <3>2. ASSUME NEW l \in ((n + a) + 1)..((n + c) - 1) PROVE u[l] \in Blank \ {"nl"}
      <4>1. l - n \in (a + 1)..(c - 1) /\ l - n \in 1..m /\ l = n + (l - n)
        BY <1>1, <2>3
      <4>2. t[l - n] \in Blank \ {"nl"}
        BY <2>2, <4>1 DEF LineBehind
      <4> QED BY <1>1, <4>1, <4>2
    <3> QED BY <1>1, <2>3, <3>1, <3>2
  <2> QED BY <1>4, <2>1, <2>3, <2>4 DEF RequestsNoTransaction
<1> QED BY <1>2, <1>3, <1>5, <1>6 DEF u

-----------------------------------------------------------------------------
(* Places in order.                                                        *)

\* How many places of a set come before i.
Rank(A, i) == Cardinality({j \in A : j < i})

\* A part of a finite set that lacks an element is smaller.
LEMMA Smaller ==
  ASSUME NEW S, IsFiniteSet(S), NEW T \in SUBSET S, NEW x \in S, x \notin T
  PROVE  Cardinality(T) \in Nat /\ Cardinality(S) \in Nat /\ Cardinality(T) < Cardinality(S)
<1>1. IsFiniteSet(T) /\ Cardinality(T) <= Cardinality(S) /\ (Cardinality(S) = Cardinality(T) => S = T)
  BY FS_Subset
<1>2. Cardinality(T) \in Nat /\ Cardinality(S) \in Nat
  BY <1>1, FS_CardinalityType
<1>3. S # T
  OBVIOUS
<1> QED BY <1>1, <1>2, <1>3

\* There are finitely many of them.
LEMMA RankType ==
  ASSUME NEW n \in Nat, NEW A \in SUBSET (1..n)
  PROVE  /\ IsFiniteSet(A) /\ Cardinality(A) \in Nat
         /\ \A i \in Nat : Rank(A, i) \in Nat
         /\ \A i \in A : Rank(A, i) + 1 \in 1..Cardinality(A)
<1>1. IsFiniteSet(A) /\ Cardinality(A) \in Nat
  <2>1. IsFiniteSet(1..n)
    BY FS_Interval
  <2> QED BY <2>1, FS_Subset, FS_CardinalityType
<1>2. ASSUME NEW i \in Nat PROVE Rank(A, i) \in Nat
  <2>1. {j \in A : j < i} \subseteq A
    OBVIOUS
  <2> QED BY <1>1, <2>1, FS_Subset, FS_CardinalityType DEF Rank
<1>3. ASSUME NEW i \in A PROVE Rank(A, i) + 1 \in 1..Cardinality(A)
  <2> DEFINE below == {j \in A : j < i}
  <2>1. below \subseteq A /\ i \in A /\ i \notin below /\ i \in Nat
    OBVIOUS
  <2>2. Cardinality(below) = Rank(A, i)
    BY DEF Rank
  <2> HIDE DEF below
  <2>3. Cardinality(below) \in Nat /\ Cardinality(below) < Cardinality(A)
    BY <1>1, <2>1, Smaller
  <2> QED BY <1>1, <2>2, <2>3
<1> QED BY <1>1, <1>2, <1>3

\* A later place has a higher rank.
LEMMA RankRises ==
  ASSUME NEW n \in Nat, NEW A \in SUBSET (1..n), NEW i \in A, NEW k \in A, i < k
  PROVE  Rank(A, i) < Rank(A, k)
<1> DEFINE low  == {j \in A : j < i}
           high == {j \in A : j < k}
<1>1. low \subseteq high /\ i \in high /\ i \notin low /\ high \subseteq A
  <2>1. \A j \in A : j \in Int
    OBVIOUS
  <2>2. \A j \in A : j < i => j < k
    BY <2>1
  <2>3. ~(i < i)
    BY <2>1
  <2> QED BY <2>2, <2>3, Zenon
<1>2. IsFiniteSet(A)
  BY RankType
<1>3. Rank(A, i) = Cardinality(low) /\ Rank(A, k) = Cardinality(high)
  BY DEF Rank
<1> HIDE DEF low, high
<1>4. IsFiniteSet(high)
  BY <1>1, <1>2, FS_Subset
<1>5. Cardinality(low) < Cardinality(high)
  BY <1>1, <1>4, Smaller
<1> QED BY <1>3, <1>5

\* Each rank is that of a place.
LEMMA RankExists ==
  \A n \in Nat : \A A \in SUBSET (1..n) : \A k \in 1..Cardinality(A) :
    \E i \in A : Rank(A, i) + 1 = k
<1> DEFINE N == {n \in Nat : \A A \in SUBSET (1..n) : \A k \in 1..Cardinality(A) :
                    \E i \in A : Rank(A, i) + 1 = k}
<1>1. 0 \in N
  <2>1. \A A \in SUBSET (1..0) : A = {}
    OBVIOUS
  <2> QED BY <2>1, FS_EmptySet
<1>2. ASSUME NEW n \in Nat, n \in N PROVE n + 1 \in N
  <2> SUFFICES ASSUME NEW A \in SUBSET (1..(n + 1)), NEW k \in 1..Cardinality(A)
               PROVE  \E i \in A : Rank(A, i) + 1 = k
    OBVIOUS
  <2> DEFINE B == A \ {n + 1}
  <2>1. B \in SUBSET (1..n) /\ \A i \in B : i \in A /\ {j \in A : j < i} = {j \in B : j < i}
    OBVIOUS
  <2>2. \A i \in B : Rank(A, i) = Rank(B, i)
    BY <2>1 DEF Rank
  <2>3. CASE n + 1 \notin A
    <3>1. B = A
      BY <2>3
    <3> HIDE DEF B
    <3> QED BY <1>2, <2>1, <3>1
  <2>4. CASE n + 1 \in A
    <3>1. {j \in A : j < n + 1} = B /\ A = B \cup {n + 1} /\ n + 1 \notin B
      <4>1. \A j \in A : j < n + 1 <=> j # n + 1
        OBVIOUS
      <4>2. A = B \cup {n + 1} /\ n + 1 \notin B
        BY <2>4
      <4>3. {j \in A : j < n + 1} = B
        BY <4>1, Zenon
      <4> QED BY <4>2, <4>3
    <3> HIDE DEF B
    <3>2. IsFiniteSet(B) /\ Cardinality(B) \in Nat
      BY <2>1, RankType
    <3>3. Cardinality(A) = Cardinality(B) + 1 /\ Rank(A, n + 1) = Cardinality(B)
      BY <3>1, <3>2, FS_AddElement DEF Rank
    <3>4. CASE k = Cardinality(A)
      BY <2>4, <3>2, <3>3, <3>4
    <3>5. CASE k # Cardinality(A)
      <4>1. k \in 1..Cardinality(B)
        BY <3>2, <3>3, <3>5
      <4>2. PICK i \in B : Rank(B, i) + 1 = k
        BY <1>2, <2>1, <4>1
      <4> QED BY <2>1, <2>2, <4>2
    <3> QED BY <3>4, <3>5
  <2> QED BY <2>3, <2>4
<1>3. \A n \in Nat : n \in N
  <2> HIDE DEF N
  <2> QED BY <1>1, <1>2, NumbersUpwards
<1> QED BY <1>3

\* InOrder has each place where its rank says: what the loops over the ends of
\* lines (splitChecksumLines) and over places (replacePlaceholders) come to.
LEMMA InOrderIs ==
  ASSUME NEW n \in Nat, NEW A \in SUBSET (1..n)
  PROVE  /\ InOrder(A) \in Seq(A) /\ Len(InOrder(A)) = Cardinality(A)
         /\ \A i \in A : InOrder(A)[Rank(A, i) + 1] = i
<1> DEFINE at(k) == CHOOSE i \in A : Cardinality({j \in A : j < i}) = k - 1
<1>1. Cardinality(A) \in Nat /\ \A i \in A : i \in Nat /\ Rank(A, i) \in Nat
                             /\ Rank(A, i) + 1 \in 1..Cardinality(A)
  <2>1. \A i \in A : i \in Nat
    OBVIOUS
  <2> QED BY <2>1, RankType
<1>2. ASSUME NEW k \in 1..Cardinality(A) PROVE at(k) \in A /\ Rank(A, at(k)) = k - 1
  <2>1. PICK i \in A : Rank(A, i) + 1 = k
    BY RankExists
  <2>2. Cardinality({j \in A : j < i}) = k - 1
    BY <1>1, <2>1 DEF Rank
  <2> QED BY <2>2 DEF Rank
<1>3. InOrder(A) = [k \in 1..Cardinality(A) |-> at(k)]
  BY DEF InOrder
<1> HIDE DEF at
<1>4. InOrder(A) \in Seq(A) /\ Len(InOrder(A)) = Cardinality(A)
  BY <1>1, <1>2, <1>3
<1>5. ASSUME NEW i \in A PROVE at(Rank(A, i) + 1) = i
  <2> DEFINE k == at(Rank(A, i) + 1)
  <2>1. k \in A /\ Rank(A, k) = Rank(A, i)
    BY <1>1, <1>2
  <2> HIDE DEF k
  <2>2. k \in Nat /\ i \in Nat /\ Rank(A, i) \in Nat
    BY <1>1, <2>1
  <2>3. k < i => Rank(A, k) < Rank(A, i)
    BY <2>1, RankRises
  <2>4. i < k => Rank(A, i) < Rank(A, k)
    BY <2>1, RankRises
  <2>5. k = i
    BY <2>1, <2>2, <2>3, <2>4
  <2> QED BY <2>5 DEF k
<1> QED BY <1>1, <1>3, <1>4, <1>5

\* And no other sequence does.
LEMMA InOrderOnly ==
  ASSUME NEW n \in Nat, NEW A \in SUBSET (1..n), NEW E, NEW s \in Seq(E),
         Len(s) = Cardinality(A), \A i \in A : s[Rank(A, i) + 1] = i
  PROVE  s = InOrder(A)
<1>1. InOrder(A) \in Seq(A) /\ Len(InOrder(A)) = Cardinality(A)
      /\ \A i \in A : InOrder(A)[Rank(A, i) + 1] = i
  BY InOrderIs
<1>2. \A k \in 1..Cardinality(A) : s[k] = InOrder(A)[k]
  <2> TAKE k \in 1..Cardinality(A)
  <2>1. PICK i \in A : Rank(A, i) + 1 = k
    BY RankExists
  <2> QED BY <1>1, <2>1
<1> QED BY <1>1, <1>2

\* Places in a text, as places behind another one.
Shifted(n, s) == [k \in 1..Len(s) |-> n + s[k]]

\* Places in a text and places in one behind it, in order, are those of the first
\* and then those of the second: the order in which checksum.go and placeholder.go
\* come to them.
LEMMA InOrderParts ==
  ASSUME NEW n \in Nat, NEW A \in SUBSET (1..n), NEW m \in Nat, NEW B \in SUBSET (1..m)
  PROVE  InOrder(A \cup {n + j : j \in B}) = InOrder(A) \o Shifted(n, InOrder(B))
<1> DEFINE D == {n + j : j \in B}
           C == A \cup D
           s == InOrder(A) \o Shifted(n, InOrder(B))
<1>1. /\ D \in SUBSET (1..(n + m)) /\ C \in SUBSET (1..(n + m)) /\ A \cap D = {}
      /\ \A d \in D : d > n
  <2>1. \A j \in B : n + j \in 1..(n + m) /\ n + j > n
    OBVIOUS
  <2>2. \A i \in A : i \in 1..(n + m) /\ ~(i > n)
    OBVIOUS
  <2>3. \A d \in D : d \in 1..(n + m) /\ d > n
    BY <2>1
  <2> HIDE DEF D
  <2> QED BY <2>2, <2>3
<1>2. /\ IsFiniteSet(A) /\ IsFiniteSet(B) /\ Cardinality(A) \in Nat /\ Cardinality(B) \in Nat
      /\ \A i \in A : i \in 1..n /\ Rank(A, i) \in Nat /\ Rank(A, i) + 1 \in 1..Cardinality(A)
      /\ \A i \in B : i \in 1..m /\ Rank(B, i) \in Nat /\ Rank(B, i) + 1 \in 1..Cardinality(B)
  <2>1. /\ IsFiniteSet(A) /\ Cardinality(A) \in Nat /\ \A i \in Nat : Rank(A, i) \in Nat
        /\ \A i \in A : Rank(A, i) + 1 \in 1..Cardinality(A)
    BY RankType
  <2>2. /\ IsFiniteSet(B) /\ Cardinality(B) \in Nat /\ \A i \in Nat : Rank(B, i) \in Nat
        /\ \A i \in B : Rank(B, i) + 1 \in 1..Cardinality(B)
    BY RankType
  <2>3. (\A i \in A : i \in 1..n /\ i \in Nat) /\ (\A i \in B : i \in 1..m /\ i \in Nat)
    OBVIOUS
  <2> QED BY <2>1, <2>2, <2>3
<1>3. ASSUME NEW T \in SUBSET B
      PROVE  IsFiniteSet({n + j : j \in T}) /\ Cardinality({n + j : j \in T}) = Cardinality(T)
  <2> DEFINE f == [j \in T |-> n + j]
             U == {n + j : j \in T}
  <2>1. f \in Bijection(T, U)
    <3>1. f \in [T -> U] /\ \A i, j \in T : f[i] = f[j] => i = j
      OBVIOUS
    <3>2. \A u \in U : \E j \in T : f[j] = u
      OBVIOUS
    <3> HIDE DEF f, U
    <3>3. f \in Injection(T, U)
      BY <3>1 DEF Injection, IsInjective
    <3>4. f \in Surjection(T, U)
      BY <3>1, <3>2 DEF Surjection
    <3> QED BY <3>3, <3>4 DEF Bijection
  <2>2. IsFiniteSet(T)
    BY <1>2, FS_Subset
  <2> HIDE DEF f, U
  <2> QED BY <2>1, <2>2, FS_Bijection DEF U, ExistsBijection
<1>4. Cardinality(C) = Cardinality(A) + Cardinality(B)
  <2>1. IsFiniteSet(D) /\ Cardinality(D) = Cardinality(B)
    BY <1>3
  <2>2. Cardinality(A \cup D) = Cardinality(A) + Cardinality(D) - Cardinality(A \cap D)
    BY <1>2, <2>1, FS_Union
  <2>3. Cardinality(A \cap D) = 0
    BY <1>1, FS_EmptySet
  <2> QED BY <1>2, <2>1, <2>2, <2>3
<1>5. ASSUME NEW i \in A PROVE Rank(C, i) = Rank(A, i)
  <2>1. {j \in C : j < i} = {j \in A : j < i}
    BY <1>1
  <2> QED BY <2>1 DEF Rank
<1>6. ASSUME NEW i \in B PROVE Rank(C, n + i) = Cardinality(A) + Rank(B, i)
  <2> DEFINE T == {j \in B : j < i}
             U == {n + j : j \in T}
  <2>1. {j \in C : j < n + i} = A \cup U /\ A \cap U = {} /\ T \in SUBSET B
    <3>1. \A j \in B : n + j < n + i <=> j < i
      OBVIOUS
    <3>2. \A j \in A : j < n + i
      OBVIOUS
    <3>3. {j \in D : j < n + i} = U
      BY <3>1
    <3>4. U \subseteq D
      OBVIOUS
    <3> HIDE DEF D, U
    <3> QED BY <1>1, <3>2, <3>3, <3>4
  <2>2. IsFiniteSet(U) /\ Cardinality(U) = Cardinality(T)
    BY <1>3, <2>1
  <2> HIDE DEF U
  <2>3. Cardinality(A \cup U) = Cardinality(A) + Cardinality(U) - Cardinality(A \cap U)
    BY <1>2, <2>2, FS_Union
  <2>4. Cardinality(A \cap U) = 0
    BY <2>1, FS_EmptySet
  <2>5. Rank(B, i) = Cardinality(T) /\ Rank(B, i) \in Nat
    BY <1>2 DEF Rank
  <2>6. Rank(C, n + i) = Cardinality(A \cup U)
    BY <2>1 DEF Rank
  <2> QED BY <1>2, <2>2, <2>3, <2>4, <2>5, <2>6
<1>7. /\ InOrder(A) \in Seq(Nat) /\ Len(InOrder(A)) = Cardinality(A)
      /\ InOrder(B) \in Seq(Nat) /\ Len(InOrder(B)) = Cardinality(B)
      /\ \A i \in A : InOrder(A)[Rank(A, i) + 1] = i
      /\ \A i \in B : InOrder(B)[Rank(B, i) + 1] = i
  <2>1. A \subseteq Nat /\ B \subseteq Nat
    OBVIOUS
  <2>2. /\ InOrder(A) \in Seq(A) /\ Len(InOrder(A)) = Cardinality(A)
        /\ \A i \in A : InOrder(A)[Rank(A, i) + 1] = i
    BY InOrderIs
  <2>3. /\ InOrder(B) \in Seq(B) /\ Len(InOrder(B)) = Cardinality(B)
        /\ \A i \in B : InOrder(B)[Rank(B, i) + 1] = i
    BY InOrderIs
  <2>4. InOrder(A) \in Seq(Nat) /\ InOrder(B) \in Seq(Nat)
    <3>1. Seq(A) \subseteq Seq(Nat) /\ Seq(B) \subseteq Seq(Nat)
      BY <2>1, SeqMonotonic
    <3> QED BY <2>2, <2>3, <3>1
  <2> QED BY <2>2, <2>3, <2>4
<1>8. Shifted(n, InOrder(B)) \in Seq(Nat) /\ Len(Shifted(n, InOrder(B))) = Cardinality(B)
      /\ \A k \in 1..Cardinality(B) : Shifted(n, InOrder(B))[k] = n + InOrder(B)[k]
  BY <1>7 DEF Shifted
<1>9. /\ s \in Seq(Nat) /\ Len(s) = Cardinality(C)
      /\ \A k \in 1..Cardinality(A) : s[k] = InOrder(A)[k]
      /\ \A k \in 1..Cardinality(B) : s[Cardinality(A) + k] = Shifted(n, InOrder(B))[k]
  <2>1. /\ s \in Seq(Nat) /\ Len(s) = Len(InOrder(A)) + Len(Shifted(n, InOrder(B)))
        /\ \A k \in 1..Len(InOrder(A)) : s[k] = InOrder(A)[k]
        /\ \A k \in 1..Len(Shifted(n, InOrder(B))) :
             s[Len(InOrder(A)) + k] = Shifted(n, InOrder(B))[k]
    <3> DEFINE p == InOrder(A)
               q == Shifted(n, InOrder(B))
    <3>1. p \in Seq(Nat) /\ q \in Seq(Nat)
      BY <1>7, <1>8
    <3> HIDE DEF p, q
    <3>2. /\ p \o q \in Seq(Nat) /\ Len(p \o q) = Len(p) + Len(q)
          /\ \A k \in 1..Len(p) : (p \o q)[k] = p[k]
          /\ \A k \in 1..Len(q) : (p \o q)[Len(p) + k] = q[k]
      BY <3>1, PlacesOf
    <3> QED BY <3>2 DEF p, q
  <2> HIDE DEF s, C
  <2> QED BY <1>4, <1>7, <1>8, <2>1
<1> HIDE DEF s
<1>10. ASSUME NEW i \in A PROVE s[Rank(C, i) + 1] = i
  <2>1. Rank(A, i) + 1 \in 1..Cardinality(A) /\ InOrder(A)[Rank(A, i) + 1] = i
    BY <1>2, <1>7
  <2> HIDE DEF C
  <2> QED BY <1>5, <1>9, <2>1
<1>11. ASSUME NEW i \in B PROVE s[Rank(C, n + i) + 1] = n + i
  <2>1. Rank(B, i) + 1 \in 1..Cardinality(B) /\ Rank(B, i) \in Nat /\ Cardinality(A) \in Nat
        /\ InOrder(B)[Rank(B, i) + 1] = i
    BY <1>2, <1>7
  <2> HIDE DEF C
  <2>2. Rank(C, n + i) + 1 = Cardinality(A) + (Rank(B, i) + 1)
    BY <1>6, <2>1
  <2>3. s[Cardinality(A) + (Rank(B, i) + 1)] = Shifted(n, InOrder(B))[Rank(B, i) + 1]
    BY <1>9, <2>1
  <2>4. Shifted(n, InOrder(B))[Rank(B, i) + 1] = n + i
    BY <1>8, <2>1
  <2> QED BY <2>2, <2>3, <2>4
<1>12. \A i \in C : s[Rank(C, i) + 1] = i
  <2> TAKE i \in C
  <2>1. CASE i \in A
    BY <1>10, <2>1
  <2>2. CASE i \in D
    <3>1. PICK j \in B : i = n + j
      BY <2>2
    <3> QED BY <1>11, <3>1
  <2> QED BY <2>1, <2>2
<1> HIDE DEF C
<1>13. n + m \in Nat
  OBVIOUS
<1>14. s = InOrder(C)
  BY <1>1, <1>9, <1>12, <1>13, InOrderOnly
<1> QED BY <1>14 DEF s, C
-----------------------------------------------------------------------------
(* Lines.                                                                  *)

Terminators == {"nl", "cr"}

\* ChecksumLines, taken apart.
Ends(s) == InOrder(LineEnds(s))
StartOf(s, k) == IF k = 1 THEN 1 ELSE Ends(s)[k - 1] + TerminatorLength(s, Ends(s)[k - 1])
LineOf(s, k) == SubSeq(s, StartOf(s, k), IF k <= Len(Ends(s)) THEN Ends(s)[k] - 1 ELSE Len(s))
LinesOf(s) == [k \in 1..(Len(Ends(s)) + 1) |-> LineOf(s, k)]

\* splitChecksumLines (checksum.go) yields the lines told apart here.
LEMMA LinesAre ==
  ASSUME NEW s
  PROVE  ChecksumLines(s) = LinesOf(s)
BY DEF ChecksumLines, LinesOf, LineOf, StartOf, Ends

\* Lines end at places of the text, from the first to the last.
LEMMA EndsAre ==
  ASSUME NEW E, NEW s \in Seq(E)
  PROVE  /\ Len(s) \in Nat /\ LineEnds(s) \in SUBSET (1..Len(s))
         /\ Len(Ends(s)) \in Nat
         /\ \A k \in 1..Len(Ends(s)) : Ends(s)[k] \in LineEnds(s)
         /\ \A k \in 1..Len(Ends(s)) : StartOf(s, k + 1) \in 1..(Len(s) + 1)
         /\ StartOf(s, 1) = 1
         /\ \A k \in 1..(Len(Ends(s)) + 1) : LineOf(s, k) \in Seq(E)
         /\ LinesOf(s) \in Seq(Seq(E)) /\ Len(LinesOf(s)) = Len(Ends(s)) + 1
<1> DEFINE n == Len(s)
           e == Ends(s)
<1>1. n \in Nat /\ LineEnds(s) \in SUBSET (1..n)
  BY DEF LineEnds
<1>2. e \in Seq(LineEnds(s))
  BY <1>1, InOrderIs DEF Ends
<1> HIDE DEF e
<1>3. Len(e) \in Nat /\ \A k \in 1..Len(e) : e[k] \in LineEnds(s) /\ e[k] \in 1..n
  BY <1>1, <1>2
<1>4. \A i \in 1..n : i + TerminatorLength(s, i) \in 1..(n + 1)
  BY <1>1 DEF TerminatorLength
<1>5. \A k \in 1..Len(e) : StartOf(s, k + 1) \in 1..(n + 1)
  <2> TAKE k \in 1..Len(e)
  <2>1. StartOf(s, k + 1) = e[k] + TerminatorLength(s, e[k])
    BY <1>3 DEF StartOf, e
  <2> QED BY <1>3, <1>4, <2>1
<1>6. StartOf(s, 1) = 1
  BY DEF StartOf
<1>7. \A k \in 1..(Len(e) + 1) : StartOf(s, k) \in 1..(n + 1)
  <2> TAKE k \in 1..(Len(e) + 1)
  <2>1. k = 1 \/ (k - 1 \in 1..Len(e) /\ (k - 1) + 1 = k)
    BY <1>3
  <2>2. CASE k = 1
    BY <1>1, <1>6, <2>2
  <2>3. CASE k - 1 \in 1..Len(e) /\ (k - 1) + 1 = k
    <3>1. StartOf(s, (k - 1) + 1) \in 1..(n + 1)
      BY <1>5, <2>3
    <3> QED BY <2>3, <3>1
  <2> QED BY <2>1, <2>2, <2>3
<1>8. ASSUME NEW k \in 1..(Len(e) + 1) PROVE LineOf(s, k) \in Seq(E)
  <2> DEFINE b == IF k <= Len(e) THEN e[k] - 1 ELSE n
  <2>1. b \in 0..n
    BY <1>1, <1>3
  <2>2. StartOf(s, k) \in 1..(n + 1)
    BY <1>7
  <2>3. LineOf(s, k) = SubSeq(s, StartOf(s, k), b)
    BY DEF LineOf, e
  <2> HIDE DEF b
  <2>4. \A a \in 1..(n + 1) : SubSeq(s, a, b) \in Seq(E)
    BY <2>1
  <2> QED BY <2>2, <2>3, <2>4
<1>9. LinesOf(s) \in Seq(Seq(E)) /\ Len(LinesOf(s)) = Len(e) + 1
  BY <1>3, <1>8 DEF LinesOf, e
<1> QED BY <1>1, <1>3, <1>5, <1>6, <1>8, <1>9 DEF e

\* The ends of lines in a text that is one lexeme longer.
LEMMA EndsNext ==
  ASSUME NEW E, NEW t \in Seq(E), NEW c \in E
  PROVE  /\ c \notin Terminators => LineEnds(Append(t, c)) = LineEnds(t)
         /\ c = "nl" /\ Len(t) # 0 /\ t[Len(t)] = "cr" => LineEnds(Append(t, c)) = LineEnds(t)
         /\ (c = "cr" \/ (c = "nl" /\ (Len(t) = 0 \/ t[Len(t)] # "cr"))) =>
              LineEnds(Append(t, c)) = LineEnds(t) \cup {Len(t) + 1}
<1> DEFINE u == Append(t, c)
           n == Len(t)
<1>1. n \in Nat /\ Len(u) = n + 1 /\ u[n + 1] = c /\ \A i \in 1..n : u[i] = t[i]
  OBVIOUS
<1> HIDE DEF u
<1>2. \A i \in 1..n : i \in LineEnds(u) <=> i \in LineEnds(t)
  <2> TAKE i \in 1..n
  <2>1. i > 1 => u[i - 1] = t[i - 1]
    BY <1>1
  <2>2. i \in 1..Len(u) /\ u[i] = t[i]
    BY <1>1
  <2> QED BY <2>1, <2>2 DEF LineEnds
<1>3. n + 1 \in LineEnds(u) <=> c = "cr" \/ (c = "nl" /\ (n = 0 \/ t[n] # "cr"))
  <2>1. n + 1 \in 1..Len(u) /\ (n + 1 > 1 <=> n # 0) /\ (n + 1) - 1 = n
    BY <1>1
  <2>2. n # 0 => u[n] = t[n]
    BY <1>1
  <2> QED BY <1>1, <2>1, <2>2 DEF LineEnds
<1>4. LineEnds(u) \subseteq 1..(n + 1) /\ LineEnds(t) \subseteq 1..n
  BY <1>1 DEF LineEnds
<1>5. \A i \in 1..(n + 1) : i \in 1..n \/ i = n + 1
  BY <1>1
<1>6. n + 1 \notin 1..n /\ 1..n \subseteq 1..(n + 1)
  BY <1>1
<1>7. n + 1 \notin LineEnds(u) => LineEnds(u) = LineEnds(t)
  BY <1>2, <1>4, <1>5, <1>6
<1>8. n + 1 \in LineEnds(u) => LineEnds(u) = LineEnds(t) \cup {n + 1}
  BY <1>2, <1>4, <1>5, <1>6
<1>9. c \notin Terminators => n + 1 \notin LineEnds(u)
  BY <1>3 DEF Terminators
<1>10. c = "nl" /\ n # 0 /\ t[n] = "cr" => n + 1 \notin LineEnds(u)
  BY <1>3
<1> QED BY <1>3, <1>7, <1>8, <1>9, <1>10 DEF u

\* One more end, behind the others.
LEMMA InOrderNext ==
  ASSUME NEW n \in Nat, NEW A \in SUBSET (1..n)
  PROVE  InOrder(A \cup {n + 1}) = Append(InOrder(A), n + 1)
<1>1. {1} \in SUBSET (1..1) /\ {n + j : j \in {1}} = {n + 1} /\ 1 \in Nat
  OBVIOUS
<1>2. InOrder(A \cup {n + j : j \in {1}}) = InOrder(A) \o Shifted(n, InOrder({1}))
  <2> DEFINE B == {1}
  <2>1. B \in SUBSET (1..1) /\ 1 \in Nat
    OBVIOUS
  <2> HIDE DEF B
  <2>2. InOrder(A \cup {n + j : j \in B}) = InOrder(A) \o Shifted(n, InOrder(B))
    BY <2>1, InOrderParts
  <2> QED BY <2>2 DEF B
<1>3. Cardinality({1}) = 1
  BY FS_Singleton
<1>4. InOrder({1}) \in Seq({1}) /\ Len(InOrder({1})) = 1
  BY <1>1, <1>3, InOrderIs
<1>5. InOrder({1}) = <<1>>
  BY <1>4
<1>6. Shifted(n, InOrder({1})) = <<n + 1>>
  <2>1. Shifted(n, <<1>>) = <<n + 1>>
    BY DEF Shifted
  <2> QED BY <1>5, <2>1
<1>7. InOrder(A) \in Seq(A)
  BY InOrderIs
<1>8. InOrder(A) \o <<n + 1>> = Append(InOrder(A), n + 1)
  BY <1>7
<1> QED BY <1>1, <1>2, <1>6, <1>8

\* Ends that another one follows are not the end of the text.
LEMMA EndsRise ==
  ASSUME NEW E, NEW s \in Seq(E), NEW k \in 1..Len(Ends(s)), k < Len(Ends(s))
  PROVE  Ends(s)[k] < Len(s)
<1> DEFINE A == LineEnds(s)
           n == Len(s)
           e == Ends(s)
<1>1. /\ n \in Nat /\ A \in SUBSET (1..n) /\ Len(e) \in Nat
      /\ \A j \in 1..Len(e) : e[j] \in A
  BY EndsAre
<1>2. Len(e) = Cardinality(A) /\ \A i \in A : e[Rank(A, i) + 1] = i
  BY <1>1, InOrderIs DEF Ends
<1> HIDE DEF e, A
<1>3. PICK i \in A : Rank(A, i) + 1 = k
  <2>1. k \in 1..Cardinality(A)
    BY <1>2 DEF e
  <2> QED BY <1>1, <2>1, RankExists
<1>4. k + 1 \in 1..Len(e)
  BY <1>1 DEF e
<1>5. PICK j \in A : Rank(A, j) + 1 = k + 1
  BY <1>1, <1>2, <1>4, RankExists
<1>6. i \in 1..n /\ j \in 1..n /\ Rank(A, i) \in Nat /\ Rank(A, j) \in Nat
  <2>1. i \in 1..n /\ j \in 1..n
    BY <1>1
  <2>2. i \in Nat /\ j \in Nat
    BY <2>1
  <2>3. \A x \in Nat : Rank(A, x) \in Nat
    BY <1>1, RankType
  <2> QED BY <2>1, <2>2, <2>3
<1>7. j < i => Rank(A, j) < Rank(A, i)
  BY <1>1, RankRises
<1>8. i # j
  BY <1>3, <1>5, <1>6
<1>9. i < j
  BY <1>3, <1>5, <1>6, <1>7, <1>8
<1>10. e[k] = i
  BY <1>2, <1>3
<1> QED BY <1>6, <1>9, <1>10 DEF e

\* A part of a text that is one lexeme longer.
LEMMA SubSeqNext ==
  ASSUME NEW E, NEW s \in Seq(E), NEW b \in Nat, b + 1 <= Len(s), NEW a \in 1..(b + 1)
  PROVE  SubSeq(s, a, b + 1) = Append(SubSeq(s, a, b), s[b + 1])
<1>1. \A i \in a..b : i \in 1..Len(s)
  OBVIOUS
<1>2. SubSeq(s, a, b) \in Seq(E) /\ Len(SubSeq(s, a, b)) = (b + 1) - a
      /\ \A i \in 1..((b + 1) - a) : SubSeq(s, a, b)[i] = s[(a + i) - 1]
  OBVIOUS
<1>3. SubSeq(s, a, b + 1) \in Seq(E) /\ Len(SubSeq(s, a, b + 1)) = (b + 2) - a
      /\ \A i \in 1..((b + 2) - a) : SubSeq(s, a, b + 1)[i] = s[(a + i) - 1]
  OBVIOUS
<1> DEFINE p == SubSeq(s, a, b)
           q == SubSeq(s, a, b + 1)
<1>4. s[b + 1] \in E
  OBVIOUS
<1> HIDE DEF p, q
<1>5. Append(p, s[b + 1]) \in Seq(E) /\ Len(Append(p, s[b + 1])) = (b + 2) - a
      /\ (\A i \in 1..((b + 1) - a) : Append(p, s[b + 1])[i] = p[i])
      /\ Append(p, s[b + 1])[(b + 2) - a] = s[b + 1]
  BY <1>2, <1>4 DEF p
<1>6. \A i \in 1..((b + 2) - a) : i \in 1..((b + 1) - a) \/ i = (b + 2) - a
  OBVIOUS
<1>7. (a + ((b + 2) - a)) - 1 = b + 1
  OBVIOUS
<1>8. \A i \in 1..((b + 2) - a) : q[i] = Append(p, s[b + 1])[i]
  BY <1>2, <1>3, <1>5, <1>6, <1>7 DEF p, q
<1>9. q = Append(p, s[b + 1])
  <2> DEFINE r == Append(p, s[b + 1])
             m == (b + 2) - a
  <2>1. q \in Seq(E) /\ r \in Seq(E) /\ Len(q) = m /\ Len(r) = m /\ \A i \in 1..m : q[i] = r[i]
    BY <1>3, <1>5, <1>8 DEF q
  <2> HIDE DEF r, m
  <2>2. q = r
    BY <2>1
  <2> QED BY <2>2 DEF r
<1> QED BY <1>9 DEF p, q

\* What a line is, from the text up to its end.
LEMMA SameLines ==
  ASSUME NEW E, NEW t \in Seq(E), NEW c \in E,
         LineEnds(Append(t, c)) \in {LineEnds(t), LineEnds(t) \cup {Len(t) + 1}}
  PROVE  \A k \in 1..Len(Ends(t)) : LineOf(Append(t, c), k) = LineOf(t, k)
<1> DEFINE u == Append(t, c)
           n == Len(t)
           e == Ends(t)
           h == Ends(u)
<1>1. /\ n \in Nat /\ LineEnds(t) \in SUBSET (1..n) /\ Len(e) \in Nat
      /\ \A k \in 1..Len(e) : e[k] \in 1..n
      /\ StartOf(t, 1) = 1
      /\ \A k \in 1..Len(e) : StartOf(t, k + 1) \in 1..(n + 1)
  <2>1. /\ n \in Nat /\ LineEnds(t) \in SUBSET (1..n) /\ Len(e) \in Nat
        /\ \A k \in 1..Len(e) : e[k] \in LineEnds(t)
    BY EndsAre
  <2> QED BY <2>1, EndsAre
<1>2. Len(h) >= Len(e) /\ Len(h) \in Nat /\ \A k \in 1..Len(e) : h[k] = e[k]
  <2>1. CASE LineEnds(u) = LineEnds(t)
    <3>1. h = e
      BY <2>1, Zenon DEF Ends
    <3> QED BY <1>1, <3>1
  <2>2. CASE LineEnds(u) = LineEnds(t) \cup {n + 1}
    <3>1. h = Append(e, n + 1)
      <4> HIDE DEF u
      <4> QED BY <1>1, <2>2, InOrderNext DEF Ends
    <3>2. e \in Seq(Nat)
      <4>1. e \in Seq(LineEnds(t))
        BY <1>1, InOrderIs DEF Ends
      <4> HIDE DEF e
      <4> QED BY <1>1, <4>1
    <3> HIDE DEF e, h
    <3> QED BY <3>1, <3>2
  <2> QED BY <2>1, <2>2
<1>3. Len(u) = n + 1 /\ \A i \in 1..n : u[i] = t[i]
  BY <1>1
<1>4. \A k \in 1..Len(e) : k < Len(e) => e[k] < n
  BY EndsRise
<1>5. \A i \in 1..n : i < n => TerminatorLength(u, i) = TerminatorLength(t, i)
  <2> HIDE DEF u
  <2> SUFFICES ASSUME NEW i \in 1..n, i < n
               PROVE  TerminatorLength(u, i) = TerminatorLength(t, i)
    OBVIOUS
  <2>1. i + 1 \in 1..n /\ i < Len(u)
    BY <1>1, <1>3
  <2> QED BY <1>3, <2>1 DEF TerminatorLength
<1> HIDE DEF u, e, h
<1>6. \A k \in 1..Len(e) : StartOf(u, k) = StartOf(t, k) /\ StartOf(t, k) \in 1..(n + 1)
  <2> TAKE k \in 1..Len(e)
  <2>1. CASE k = 1
    BY <1>1, <2>1 DEF StartOf
  <2>2. CASE k # 1
    <3>1. k - 1 \in 1..Len(e) /\ k - 1 < Len(e) /\ (k - 1) + 1 = k
      BY <1>1, <2>2
    <3>2. h[k - 1] = e[k - 1] /\ e[k - 1] \in 1..n /\ e[k - 1] < n
      BY <1>1, <1>2, <1>4, <3>1
    <3>3. TerminatorLength(u, e[k - 1]) = TerminatorLength(t, e[k - 1])
      BY <1>5, <3>2
    <3>4. StartOf(u, k) = StartOf(t, k)
      BY <2>2, <3>2, <3>3 DEF StartOf, e, h
    <3>5. StartOf(t, (k - 1) + 1) \in 1..(n + 1)
      BY <1>1, <3>1
    <3> QED BY <3>1, <3>4, <3>5
  <2> QED BY <2>1, <2>2
<1>7. \A a \in 1..(n + 1) : \A b \in 1..n : SubSeq(u, a, b - 1) = SubSeq(t, a, b - 1)
  BY DEF u
<1>8. \A k \in 1..Len(e) : LineOf(u, k) = LineOf(t, k)
  <2> TAKE k \in 1..Len(e)
  <2>1. k <= Len(e) /\ k <= Len(h) /\ h[k] = e[k] /\ e[k] \in 1..n
    BY <1>1, <1>2
  <2>2. LineOf(u, k) = SubSeq(u, StartOf(u, k), h[k] - 1)
    BY <2>1 DEF LineOf, h
  <2>3. LineOf(t, k) = SubSeq(t, StartOf(t, k), e[k] - 1)
    BY <2>1 DEF LineOf, e
  <2> QED BY <1>6, <1>7, <2>1, <2>2, <2>3
<1> QED BY <1>8 DEF u, e

\* The lines, joined.
Unbroken(s) == FlattenSeq(ChecksumLines(s))

\* Joined lines gain what the text gains, but for the ends of lines.
LEMMA UnbrokenNext ==
  ASSUME NEW E, NEW t \in Seq(E), NEW c \in E
  PROVE  Unbroken(Append(t, c)) = IF c \in Terminators THEN Unbroken(t) ELSE Append(Unbroken(t), c)
<1> DEFINE u == Append(t, c)
           n == Len(t)
           e == Ends(t)
           h == Ends(u)
           k == Len(e)
           P == SubSeq(LinesOf(t), 1, k)
           last == LineOf(t, k + 1)
<1>1. /\ n \in Nat /\ LineEnds(t) \in SUBSET (1..n) /\ k \in Nat
      /\ \A j \in 1..k : e[j] \in LineEnds(t) /\ LineOf(t, j) \in Seq(E)
      /\ StartOf(t, 1) = 1
      /\ \A j \in 1..k : StartOf(t, j + 1) \in 1..(n + 1)
      /\ last \in Seq(E)
      /\ LinesOf(t) \in Seq(Seq(E)) /\ Len(LinesOf(t)) = k + 1
  <2>1. /\ n \in Nat /\ LineEnds(t) \in SUBSET (1..n) /\ k \in Nat
        /\ \A j \in 1..k : e[j] \in LineEnds(t)
        /\ StartOf(t, 1) = 1
        /\ \A j \in 1..k : StartOf(t, j + 1) \in 1..(n + 1)
        /\ \A j \in 1..(k + 1) : LineOf(t, j) \in Seq(E)
        /\ LinesOf(t) \in Seq(Seq(E)) /\ Len(LinesOf(t)) = k + 1
    BY EndsAre
  <2> QED BY <2>1
<1>2. u \in Seq(E) /\ Len(u) = n + 1 /\ u[n + 1] = c /\ \A i \in 1..n : u[i] = t[i]
  OBVIOUS
<1>3. LinesOf(u) \in Seq(Seq(E)) /\ Len(LinesOf(u)) = Len(h) + 1 /\ Len(h) \in Nat
  BY <1>2, EndsAre
<1>4. P \in Seq(Seq(E)) /\ Len(P) = k /\ \A j \in 1..k : P[j] = LineOf(t, j)
  <2>1. \A j \in 1..(k + 1) : LinesOf(t)[j] = LineOf(t, j)
    BY DEF LinesOf
  <2> HIDE DEF k
  <2> QED BY <1>1, <2>1
<1>5. LinesOf(t) = Append(P, last)
  <2>1. \A j \in 1..(k + 1) : LinesOf(t)[j] = LineOf(t, j)
    BY DEF LinesOf
  <2>5. k + 1 \in 1..(k + 1) /\ LinesOf(t)[k + 1] = last
    BY <1>1, <2>1
  <2> HIDE DEF P, k, last
  <2>2. Append(P, last) \in Seq(Seq(E)) /\ Len(Append(P, last)) = k + 1
        /\ \A j \in 1..k : Append(P, last)[j] = P[j]
        /\ Append(P, last)[k + 1] = last
    BY <1>1, <1>4
  <2>3. \A j \in 1..(k + 1) : j \in 1..k \/ j = k + 1
    BY <1>1
  <2>4. \A j \in 1..(k + 1) : LinesOf(t)[j] = Append(P, last)[j]
    BY <1>4, <2>1, <2>2, <2>3, <2>5
  <2> QED BY <1>1, <2>2, <2>4
<1>6. StartOf(t, k + 1) \in 1..(n + 1) /\ last = SubSeq(t, StartOf(t, k + 1), n)
  <2>1. k = 0 \/ k \in 1..k
    BY <1>1
  <2>2. ~(k + 1 <= k)
    BY <1>1
  <2>3. k = 0 => StartOf(t, k + 1) = 1
    BY <1>1
  <2>4. LineOf(t, k + 1) = SubSeq(t, StartOf(t, k + 1), n)
    BY <2>2 DEF LineOf
  <2>5. k \in 1..k => StartOf(t, k + 1) \in 1..(n + 1)
    BY <1>1
  <2>6. 1 \in 1..(n + 1)
    BY <1>1
  <2> HIDE DEF k
  <2> QED BY <2>1, <2>3, <2>4, <2>5, <2>6
<1>7. Unbroken(t) = FlattenSeq(P) \o last /\ FlattenSeq(P) \in Seq(E)
  <2> HIDE DEF P, last
  <2>1. FlattenSeq(Append(P, last)) = FlattenSeq(P) \o last
    BY <1>1, <1>4, FlattenMore
  <2> QED BY <1>4, <1>5, <2>1, LinesAre, FlattenType DEF Unbroken
<1>8. Unbroken(u) = FlattenSeq(LinesOf(u))
  BY LinesAre DEF Unbroken
<1>9. /\ \A j \in 1..Len(h) : LinesOf(u)[j] = LineOf(u, j)
      /\ LinesOf(u)[Len(h) + 1] = LineOf(u, Len(h) + 1)
  <2> HIDE DEF h
  <2>1. Len(h) + 1 \in 1..(Len(h) + 1) /\ \A j \in 1..Len(h) : j \in 1..(Len(h) + 1)
    BY <1>3
  <2> QED BY <2>1 DEF LinesOf, h
<1>10. CASE LineEnds(u) = LineEnds(t)
  <2>1. h = e
    BY <1>10, Zenon DEF Ends
  <2>2. \A j \in 1..k : LineOf(u, j) = LineOf(t, j)
    BY <1>10, SameLines
  <2>3. LineOf(u, k + 1) \in Seq(E)
    <3>1. \A j \in 1..(Len(h) + 1) : LineOf(u, j) \in Seq(E)
      BY <1>2, EndsAre
    <3> QED BY <1>1, <2>1, <3>1
  <2>4. LinesOf(u) = Append(P, LineOf(u, k + 1))
    <3> DEFINE l == LineOf(u, k + 1)
    <3>1. Len(LinesOf(u)) = k + 1 /\ (\A j \in 1..k : LinesOf(u)[j] = P[j]) /\ LinesOf(u)[k + 1] = l
      BY <1>3, <1>4, <1>9, <2>1, <2>2
    <3> HIDE DEF P, k, l, h, e
    <3>2. Append(P, l) \in Seq(Seq(E)) /\ Len(Append(P, l)) = k + 1
          /\ \A j \in 1..k : Append(P, l)[j] = P[j]
          /\ Append(P, l)[k + 1] = l
      BY <1>1, <1>4, <2>3 DEF l
    <3>3. \A j \in 1..(k + 1) : j \in 1..k \/ j = k + 1
      BY <1>1
    <3>4. \A j \in 1..(k + 1) : LinesOf(u)[j] = Append(P, l)[j]
      BY <3>1, <3>2, <3>3
    <3>5. LinesOf(u) = Append(P, l)
      BY <1>3, <3>1, <3>2, <3>4
    <3> QED BY <3>5 DEF l
  <2>5. Unbroken(u) = FlattenSeq(P) \o LineOf(u, k + 1)
    <3> HIDE DEF P, k
    <3> QED BY <1>4, <1>8, <2>3, <2>4, FlattenMore
  <2>6. LineOf(u, k + 1) = SubSeq(u, StartOf(u, k + 1), n + 1)
    <3>1. ~(k + 1 <= k)
      BY <1>1
    <3>2. ~(k + 1 <= Len(Ends(u)))
      BY <2>1, <3>1
    <3> QED BY <1>2, <3>2 DEF LineOf
  <2>7. CASE c \notin Terminators
    <3>1. StartOf(u, k + 1) = StartOf(t, k + 1)
      <4>1. CASE k = 0
        BY <4>1 DEF StartOf
      <4>2. CASE k # 0
        <5>1. k + 1 # 1 /\ (k + 1) - 1 = k /\ e[k] \in 1..n
          BY <1>1, <4>2
        <5>2. TerminatorLength(u, e[k]) = TerminatorLength(t, e[k])
          <6>1. e[k] < n => e[k] + 1 \in 1..n
            BY <5>1
          <6>2. e[k] = n => e[k] + 1 = n + 1
            BY <5>1
          <6>3. c # "nl"
            BY <2>7 DEF Terminators
          <6>4. e[k] < n + 1 /\ (e[k] < n \/ e[k] = n) /\ ~(n < n)
            BY <1>1, <5>1
          <6> DEFINE i == e[k]
          <6> HIDE DEF u, e, k, i
          <6> QED BY <1>1, <1>2, <5>1, <6>1, <6>2, <6>3, <6>4 DEF TerminatorLength
        <5>3. Ends(u)[k] = e[k]
          BY <2>1
        <5> HIDE DEF k, u
        <5> QED BY <5>1, <5>2, <5>3 DEF StartOf
      <4> QED BY <4>1, <4>2
    <3>2. \A a \in 1..(n + 1) : SubSeq(u, a, n + 1) = Append(SubSeq(t, a, n), c)
      <4> TAKE a \in 1..(n + 1)
      <4>1. SubSeq(u, a, n + 1) = Append(SubSeq(u, a, n), u[n + 1])
        <5> HIDE DEF u
        <5>1. n + 1 <= Len(u) /\ n \in Nat /\ u \in Seq(E)
          BY <1>1, <1>2
        <5> QED BY <5>1, SubSeqNext
      <4>2. SubSeq(u, a, n) = SubSeq(t, a, n)
        BY <1>1
      <4> QED BY <1>2, <4>1, <4>2
    <3>3. LineOf(u, k + 1) = Append(last, c)
      BY <1>6, <2>6, <3>1, <3>2
    <3> HIDE DEF P, last, k
    <3>4. FlattenSeq(P) \o Append(last, c) = Append(FlattenSeq(P) \o last, c)
      BY <1>1, <1>7
    <3> QED BY <1>7, <2>5, <2>7, <3>3, <3>4
  <2>8. CASE c = "nl" /\ n # 0 /\ t[n] = "cr"
    <3>1. LineOf(u, k + 1) = <<>> /\ last = <<>>
      <4>1. n \in LineEnds(t)
        BY <1>1, <2>8 DEF LineEnds
      <4>2. k # 0 /\ e[k] = n
        <5>1. Len(e) = Cardinality(LineEnds(t)) /\ e[Rank(LineEnds(t), n) + 1] = n
          BY <1>1, <4>1, InOrderIs DEF Ends
        <5>2. Rank(LineEnds(t), n) + 1 \in 1..k
          BY <1>1, <4>1, <5>1, RankType
        <5>3. Rank(LineEnds(t), n) + 1 < k => e[Rank(LineEnds(t), n) + 1] < n
          BY <5>2, EndsRise
        <5> DEFINE r == Rank(LineEnds(t), n) + 1
        <5>4. r \in 1..k /\ e[r] = n /\ ~(r < k)
          BY <1>1, <5>1, <5>2, <5>3
        <5> HIDE DEF r, k, e
        <5>5. r = k /\ k # 0
          BY <1>1, <5>4
        <5> QED BY <5>4, <5>5
      <4>3. k + 1 # 1 /\ (k + 1) - 1 = k /\ Ends(u)[k] = n
        BY <1>1, <2>1, <4>2
      <4>4. TerminatorLength(u, n) = 2 /\ TerminatorLength(t, n) = 1
        BY <1>1, <1>2, <2>8 DEF TerminatorLength
      <4>5. StartOf(u, k + 1) = n + 2 /\ StartOf(t, k + 1) = n + 1
        BY <1>1, <4>2, <4>3, <4>4 DEF StartOf
      <4>6. SubSeq(u, n + 2, n + 1) = <<>> /\ SubSeq(t, n + 1, n) = <<>>
        BY <1>1
      <4> QED BY <1>6, <2>6, <4>5, <4>6
    <3>2. c \in Terminators
      BY <2>8 DEF Terminators
    <3> QED BY <1>7, <2>5, <3>1, <3>2
  <2>9. CASE (c = "cr" \/ (c = "nl" /\ (n = 0 \/ t[n] # "cr")))
    <3>1. n + 1 \in LineEnds(t)
      BY <1>10, <2>9, EndsNext
    <3> QED BY <1>1, <3>1
  <2> QED BY <2>7, <2>8, <2>9 DEF Terminators
<1>11. CASE LineEnds(u) = LineEnds(t) \cup {n + 1}
  <2>1. h = Append(e, n + 1) /\ e \in Seq(Nat)
    <3>1. h = Append(e, n + 1)
      <4> HIDE DEF u
      <4> QED BY <1>1, <1>11, InOrderNext DEF Ends
    <3>2. e \in Seq(LineEnds(t))
      BY <1>1, InOrderIs DEF Ends
    <3> HIDE DEF e, h
    <3>3. e \in Seq(Nat)
      BY <1>1, <3>2
    <3> QED BY <3>1, <3>3
  <2>2. Len(h) = k + 1 /\ h[k + 1] = n + 1 /\ \A j \in 1..k : h[j] = e[j]
    <3> HIDE DEF e, h
    <3> QED BY <2>1
  <2>3. \A j \in 1..k : LineOf(u, j) = LineOf(t, j)
    BY <1>11, SameLines
  <2>4. LineOf(u, k + 1) = last
    <3>1. StartOf(u, k + 1) = StartOf(t, k + 1)
      <4>1. CASE k = 0
        BY <4>1 DEF StartOf
      <4>2. CASE k # 0
        <5>1. k + 1 # 1 /\ (k + 1) - 1 = k /\ k \in 1..k /\ e[k] \in 1..n
          BY <1>1, <4>2
        <5>2. TerminatorLength(u, e[k]) = TerminatorLength(t, e[k])
          <6>1. e[k] < n => e[k] + 1 \in 1..n
            BY <5>1
          <6>2. e[k] = n => e[k] + 1 = n + 1
            BY <5>1
          <6>3. ~(c = "nl" /\ e[k] = n /\ t[n] = "cr")
            <7>1. CASE c = "nl" /\ n # 0 /\ t[n] = "cr"
              <8>1. LineEnds(u) = LineEnds(t)
                BY <7>1, EndsNext
              <8>2. n + 1 \notin LineEnds(t)
                BY <1>1
              <8>3. n + 1 \in LineEnds(t) \cup {n + 1}
                OBVIOUS
              <8> HIDE DEF u, n, e, k
              <8> QED BY <1>11, <8>1, <8>2, <8>3
            <7> QED BY <5>1, <7>1
          <6>4. e[k] < n + 1 /\ (e[k] < n \/ e[k] = n) /\ ~(n < n)
            BY <1>1, <5>1
          <6> DEFINE i == e[k]
          <6> HIDE DEF u, e, k, i
          <6> QED BY <1>1, <1>2, <5>1, <6>1, <6>2, <6>3, <6>4 DEF TerminatorLength
        <5>3. Ends(u)[k] = e[k]
          BY <2>2, <5>1
        <5> HIDE DEF k, u
        <5> QED BY <5>1, <5>2, <5>3 DEF StartOf
      <4> QED BY <4>1, <4>2
    <3>2. k + 1 <= Len(Ends(u)) /\ Ends(u)[k + 1] - 1 = n
      BY <1>1, <2>2
    <3>3. LineOf(u, k + 1) = SubSeq(u, StartOf(u, k + 1), n)
      BY <3>2 DEF LineOf
    <3>4. \A a \in 1..(n + 1) : SubSeq(u, a, n) = SubSeq(t, a, n)
      BY <1>1
    <3> QED BY <1>6, <3>1, <3>3, <3>4
  <2>5. LineOf(u, k + 2) = <<>>
    <3>1. k + 2 # 1 /\ (k + 2) - 1 = k + 1 /\ ~(k + 2 <= Len(Ends(u)))
      BY <1>1, <2>2
    <3>2. TerminatorLength(u, n + 1) = 1
      BY <1>1, <1>2 DEF TerminatorLength
    <3>3. StartOf(u, k + 2) = n + 2
      BY <1>1, <2>2, <3>1, <3>2 DEF StartOf
    <3>4. LineOf(u, k + 2) = SubSeq(u, n + 2, n + 1)
      BY <1>2, <3>1, <3>3 DEF LineOf
    <3> QED BY <1>1, <3>4
  <2>6. LinesOf(u) = Append(LinesOf(t), <<>>)
    <3>1. /\ Len(LinesOf(u)) = k + 2 /\ LinesOf(u)[k + 1] = last /\ LinesOf(u)[k + 2] = <<>>
          /\ \A j \in 1..k : LinesOf(u)[j] = LineOf(t, j)
      <4> HIDE DEF u, h, last
      <4>1. k + 1 \in 1..Len(h) /\ Len(h) + 1 = k + 2 /\ \A j \in 1..k : j \in 1..Len(h)
        BY <1>1, <2>2
      <4> QED BY <1>3, <1>9, <2>2, <2>3, <2>4, <2>5, <4>1
    <3>2. LinesOf(t)[k + 1] = last /\ \A j \in 1..k : LinesOf(t)[j] = LineOf(t, j)
      <4>1. k + 1 \in 1..(k + 1) /\ \A j \in 1..k : j \in 1..(k + 1)
        BY <1>1
      <4> QED BY <4>1 DEF LinesOf
    <3> DEFINE a == LinesOf(t)
               b == LinesOf(u)
    <3>3. <<>> \in Seq(E)
      OBVIOUS
    <3> HIDE DEF a, b, k, u, last
    <3>4. Append(a, <<>>) \in Seq(Seq(E)) /\ Len(Append(a, <<>>)) = k + 2
          /\ (\A j \in 1..(k + 1) : Append(a, <<>>)[j] = a[j])
          /\ Append(a, <<>>)[k + 2] = <<>>
      BY <1>1, <3>3 DEF a
    <3>5. \A j \in 1..(k + 2) : j \in 1..k \/ j = k + 1 \/ j = k + 2
      BY <1>1
    <3>6. \A j \in 1..(k + 2) : b[j] = Append(a, <<>>)[j]
      <4>1. k + 1 \in 1..(k + 1) /\ \A j \in 1..k : j \in 1..(k + 1)
        BY <1>1
      <4> QED BY <3>1, <3>2, <3>4, <3>5, <4>1 DEF a, b
    <3>7. b = Append(a, <<>>)
      BY <1>3, <3>1, <3>4, <3>6 DEF b
    <3> QED BY <3>7 DEF a, b
  <2>7. Unbroken(u) = Unbroken(t)
    <3>1. FlattenSeq(Append(LinesOf(t), <<>>)) = FlattenSeq(LinesOf(t)) \o <<>>
      <4>1. <<>> \in Seq(E)
        OBVIOUS
      <4> QED BY <1>1, <4>1, FlattenMore
    <3>2. FlattenSeq(LinesOf(t)) \in Seq(E)
      BY <1>1, FlattenType
    <3>3. FlattenSeq(LinesOf(t)) \o <<>> = FlattenSeq(LinesOf(t))
      BY <3>2
    <3> QED BY <1>8, <2>6, <3>1, <3>3, LinesAre DEF Unbroken
  <2>8. c \in Terminators
    <3>1. c \notin Terminators => LineEnds(u) = LineEnds(t)
      BY EndsNext
    <3>2. n + 1 \notin LineEnds(t)
      BY <1>1
    <3> QED BY <1>11, <3>1, <3>2
  <2> QED BY <2>7, <2>8
<1>12. LineEnds(u) = LineEnds(t) \/ LineEnds(u) = LineEnds(t) \cup {n + 1}
  BY EndsNext DEF Terminators
<1> QED BY <1>10, <1>11, <1>12

\* What is left of a text of one more lexeme without some of them (the line ends that
\* checksum.go drops, the blanks that parser.go trims).
LEMMA WithoutNext ==
  ASSUME NEW E, NEW t \in Seq(E), NEW c \in E, NEW L
  PROVE  Without(Append(t, c), L) = IF c \in L THEN Without(t, L) ELSE Append(Without(t, L), c)
<1> DEFINE u == Append(t, c)
           part(l) == IF l \in L THEN <<>> ELSE <<l>>
           p == [i \in 1..Len(t) |-> part(t[i])]
           q == [i \in 1..Len(u) |-> part(u[i])]
<1>1. Len(t) \in Nat /\ Len(u) = Len(t) + 1 /\ u[Len(t) + 1] = c /\ \A i \in 1..Len(t) : u[i] = t[i]
  OBVIOUS
<1>2. \A l \in E : part(l) \in Seq(E)
  OBVIOUS
<1>3. Without(t, L) = FlattenSeq(p) /\ Without(u, L) = FlattenSeq(q)
  BY DEF Without
<1> HIDE DEF part
<1>4. p \in Seq(Seq(E)) /\ Len(p) = Len(t)
  BY <1>1, <1>2
<1>5. q = Append(p, part(c))
  <2>1. q \in Seq(Seq(E)) /\ Len(q) = Len(t) + 1
    BY <1>1, <1>2
  <2>2. /\ Append(p, part(c)) \in Seq(Seq(E)) /\ Len(Append(p, part(c))) = Len(t) + 1
        /\ \A i \in 1..Len(t) : Append(p, part(c))[i] = p[i]
        /\ Append(p, part(c))[Len(t) + 1] = part(c)
    <3> HIDE DEF p
    <3> QED BY <1>1, <1>2, <1>4
  <2>3. \A i \in 1..(Len(t) + 1) : i \in 1..Len(t) \/ i = Len(t) + 1
    OBVIOUS
  <2>4. (\A i \in 1..Len(t) : q[i] = p[i]) /\ q[Len(t) + 1] = part(c)
    <3> HIDE DEF u
    <3> QED BY <1>1
  <2> DEFINE r == Append(p, part(c))
  <2>5. q \in Seq(Seq(E)) /\ r \in Seq(Seq(E)) /\ Len(q) = Len(r)
        /\ \A i \in 1..Len(q) : q[i] = r[i]
    BY <2>1, <2>2, <2>3, <2>4
  <2> HIDE DEF q, r
  <2>6. q = r
    BY <2>5, SameText
  <2> QED BY <2>6 DEF r
<1> HIDE DEF p, q, u
<1>6. FlattenSeq(q) = FlattenSeq(p) \o part(c) /\ FlattenSeq(p) \in Seq(E)
  BY <1>2, <1>4, <1>5, FlattenMore, FlattenType
<1>7. \A x \in Seq(E) : x \o <<>> = x /\ x \o <<c>> = Append(x, c)
  OBVIOUS
<1> QED BY <1>3, <1>6, <1>7 DEF part, u

\* An empty script (checksum.go, parser.go) has nothing else.
LEMMA WithoutNothing == ASSUME NEW L PROVE Without(<<>>, L) = <<>>
<1>1. Len(<<>>) = 0
  OBVIOUS
<1>2. [i \in 1..0 |-> IF <<>>[i] \in L THEN <<>> ELSE <<<<>>[i]>>] = <<>>
  OBVIOUS
<1> QED BY <1>1, <1>2, FlattenNothing DEF Without

\* What is left of two texts in a row is what is left of each.
LeftOfEach(s, t, L) == Without(s \o t, L) = Without(s, L) \o Without(t, L)

\* It is so for all texts (checksum.go, parser.go), and what is left is of the same
\* lexemes.
LEMMA WithoutParts ==
  ASSUME NEW E, NEW L, NEW s \in Seq(E), NEW u \in Seq(E)
  PROVE  Without(s, L) \in Seq(E) /\ LeftOfEach(s, u, L)
<1> DEFINE G == {t \in Seq(E) : Without(t, L) \in Seq(E)}
<1>1. <<>> \in G
  <2>1. <<>> \in Seq(E)
    OBVIOUS
  <2> QED BY <2>1, WithoutNothing
<1>2. ASSUME NEW t \in Seq(E), t \in G, NEW c \in E PROVE Append(t, c) \in G
  <2>1. Without(t, L) \in Seq(E) /\ Append(t, c) \in Seq(E)
    BY <1>2
  <2>2. Append(Without(t, L), c) \in Seq(E)
    BY <2>1
  <2>3. Without(Append(t, c), L) = IF c \in L THEN Without(t, L) ELSE Append(Without(t, L), c)
    BY WithoutNext
  <2>4. Without(Append(t, c), L) \in Seq(E)
    BY <2>1, <2>2, <2>3
  <2> QED BY <2>1, <2>4
<1>3. \A t \in Seq(E) : Without(t, L) \in Seq(E)
  <2>1. \A t \in Seq(E) : t \in G
    <3> HIDE DEF G
    <3> QED BY <1>1, <1>2, SequencesUpwards
  <2> QED BY <2>1
<1> DEFINE H == {t \in Seq(E) : Without(s \o t, L) = Without(s, L) \o Without(t, L)}
<1>4. <<>> \in H
  <2>1. <<>> \in Seq(E) /\ s \o <<>> = s
    OBVIOUS
  <2>2. Without(s, L) \o <<>> = Without(s, L)
    BY <1>3
  <2> QED BY <2>1, <2>2, WithoutNothing
<1>5. ASSUME NEW t \in Seq(E), t \in H, NEW c \in E PROVE Append(t, c) \in H
  <2>1. Append(t, c) \in Seq(E) /\ s \o t \in Seq(E) /\ s \o Append(t, c) = Append(s \o t, c)
    OBVIOUS
  <2>2. Without(s \o t, L) = Without(s, L) \o Without(t, L)
    BY <1>5
  <2>3. Without(s, L) \in Seq(E) /\ Without(t, L) \in Seq(E)
    BY <1>3
  <2>4. Append(Without(s, L) \o Without(t, L), c) = Without(s, L) \o Append(Without(t, L), c)
    <3>1. PICK x, y \in Seq(E) : x = Without(s, L) /\ y = Without(t, L)
      BY <2>3
    <3>2. AppendsBehind(x, y, c)
      BY AppendBehind, Zenon
    <3> QED BY <3>1, <3>2 DEF AppendsBehind
  <2>5. Without(Append(s \o t, c), L) = IF c \in L THEN Without(s \o t, L) ELSE Append(Without(s \o t, L), c)
    <3>1. PICK v \in Seq(E) : v = s \o t
      BY <2>1
    <3>2. Without(Append(v, c), L) = IF c \in L THEN Without(v, L) ELSE Append(Without(v, L), c)
      BY WithoutNext
    <3> QED BY <3>1, <3>2
  <2>6. Without(Append(t, c), L) = IF c \in L THEN Without(t, L) ELSE Append(Without(t, L), c)
    BY WithoutNext
  <2> HIDE DEF H
  <2>7. Without(s \o Append(t, c), L) = Without(s, L) \o Without(Append(t, c), L)
    BY <2>1, <2>2, <2>4, <2>5, <2>6
  <2> QED BY <2>1, <2>7 DEF H
<1>6. \A t \in Seq(E) : t \in H
  <2> HIDE DEF H
  <2> QED BY <1>4, <1>5, SequencesUpwards
<1> QED BY <1>3, <1>6 DEF LeftOfEach

\* The same of line ends.
LEMMA KeptNext ==
  ASSUME NEW E, NEW t \in Seq(E), NEW c \in E
  PROVE  Kept(Append(t, c)) = IF c \in Terminators THEN Kept(t) ELSE Append(Kept(t), c)
BY WithoutNext DEF Kept, Terminators

\* Nothing is kept of an empty script (checksum.go).
LEMMA KeptNothing == Kept(<<>>) = <<>>
BY WithoutNothing DEF Kept

\* What is kept is of the same lexemes, and of two texts in a row it is what is kept
\* of each.
LEMMA KeptParts ==
  ASSUME NEW E, NEW s \in Seq(E)
  PROVE  Kept(s) \in Seq(E) /\ \A t \in Seq(E) : Kept(s \o t) = Kept(s) \o Kept(t)
<1>0. PICK L : L = {"nl", "cr"}
  OBVIOUS
<1>1. \A t : Kept(t) = Without(t, L)
  BY <1>0 DEF Kept
<1>2. Without(s, L) \in Seq(E)
  BY WithoutParts
<1>3. ASSUME NEW t \in Seq(E) PROVE Without(s \o t, L) = Without(s, L) \o Without(t, L)
  <2>1. LeftOfEach(s, t, L)
    BY WithoutParts, Zenon
  <2> QED BY <2>1 DEF LeftOfEach
<1> QED BY <1>1, <1>2, <1>3

\* The lines of no text are one that is empty.
LEMMA UnbrokenNothing == Unbroken(<<>>) = <<>>
<1>1. LineEnds(<<>>) = {} /\ Len(<<>>) = 0
  BY DEF LineEnds
<1>2. Ends(<<>>) = <<>>
  <2>1. Cardinality({}) = 0
    BY FS_EmptySet
  <2>2. Len(InOrder({})) = 0 /\ InOrder({}) \in Seq({})
    <3>1. {} \in SUBSET (1..0) /\ 0 \in Nat
      OBVIOUS
    <3>2. Len(InOrder({})) = Cardinality({}) /\ InOrder({}) \in Seq({})
      BY <3>1, InOrderIs
    <3> QED BY <2>1, <3>2
  <2>3. InOrder({}) = <<>>
    BY <2>2
  <2> QED BY <1>1, <2>3 DEF Ends
<1>3. LineOf(<<>>, 1) = <<>>
  <2>1. ~(1 <= Len(Ends(<<>>))) /\ StartOf(<<>>, 1) = 1
    BY <1>2 DEF StartOf
  <2>2. LineOf(<<>>, 1) = SubSeq(<<>>, 1, 0)
    BY <1>1, <2>1 DEF LineOf
  <2> QED BY <2>2
<1>4. LinesOf(<<>>) = <<<<>>>>
  <2>1. Len(Ends(<<>>)) + 1 = 1
    BY <1>2
  <2>2. LinesOf(<<>>) = [k \in 1..1 |-> LineOf(<<>>, k)]
    BY <2>1 DEF LinesOf
  <2>3. LinesOf(<<>>) = [k \in 1..1 |-> <<>>]
    BY <1>3, <2>2
  <2> QED BY <2>3
<1>5. FlattenSeq(Append(<<>>, <<>>)) = FlattenSeq(<<>>) \o <<>>
  <2>1. <<>> \in Seq(Seq(STRING)) /\ <<>> \in Seq(STRING)
    OBVIOUS
  <2> QED BY <2>1, FlattenMore
<1>6. Append(<<>>, <<>>) = <<<<>>>> /\ <<>> \o <<>> = <<>>
  OBVIOUS
<1> QED BY <1>4, <1>5, <1>6, FlattenNothing, LinesAre DEF Unbroken

\* What calculateChecksum feeds to the digest but for the mark is the text without
\* what ends its lines, whichever way they end.
LEMMA UnbrokenIsKept ==
  ASSUME NEW E
  PROVE  \A s \in Seq(E) : Unbroken(s) = Kept(s)
<1> DEFINE H == {s \in Seq(E) : Unbroken(s) = Kept(s)}
<1>1. <<>> \in H
  <2>1. <<>> \in Seq(E)
    OBVIOUS
  <2> QED BY <2>1, UnbrokenNothing, KeptNothing
<1>2. ASSUME NEW t \in Seq(E), t \in H, NEW c \in E PROVE Append(t, c) \in H
  <2>1. Unbroken(t) = Kept(t) /\ Append(t, c) \in Seq(E)
    BY <1>2
  <2> QED BY <2>1, UnbrokenNext, KeptNext
<1>3. \A s \in Seq(E) : s \in H
  <2> HIDE DEF H
  <2> QED BY <1>1, <1>2, SequencesUpwards
<1> QED BY <1>3

\* A line has the mark of the byte order when the text begins with it.
LEMMA FirstLine ==
  ASSUME NEW E, NEW s \in Seq(E)
  PROVE  /\ LinesOf(s) # <<>> /\ LinesOf(s)[1] \in Seq(E)
         /\ LinesOf(s)[1] # <<>> => s # <<>> /\ Head(LinesOf(s)[1]) = s[1]
         /\ s # <<>> /\ s[1] \notin Terminators => LinesOf(s)[1] # <<>>
<1> DEFINE n == Len(s)
           b == IF 1 <= Len(Ends(s)) THEN Ends(s)[1] - 1 ELSE n
<1>1. /\ n \in Nat /\ Len(Ends(s)) \in Nat
      /\ \A k \in 1..Len(Ends(s)) : Ends(s)[k] \in LineEnds(s)
      /\ LineEnds(s) \in SUBSET (1..n) /\ StartOf(s, 1) = 1
      /\ LinesOf(s) \in Seq(Seq(E)) /\ Len(LinesOf(s)) = Len(Ends(s)) + 1
  BY EndsAre
<1>2. LinesOf(s)[1] = SubSeq(s, 1, b)
  <2>1. 1 \in 1..(Len(Ends(s)) + 1)
    BY <1>1
  <2>2. LinesOf(s)[1] = LineOf(s, 1)
    BY <2>1 DEF LinesOf
  <2>3. LineOf(s, 1) = SubSeq(s, 1, b)
    BY <1>1 DEF LineOf
  <2> QED BY <2>2, <2>3
<1>3. b \in 0..n /\ (b = 0 => n = 0 \/ s[1] \in Terminators)
  <2>1. CASE 1 <= Len(Ends(s))
    <3>1. Ends(s)[1] \in LineEnds(s)
      BY <1>1, <2>1
    <3>2. Ends(s)[1] \in 1..n /\ s[Ends(s)[1]] \in Terminators
      BY <1>1, <3>1 DEF LineEnds, Terminators
    <3> QED BY <2>1, <3>2
  <2>2. CASE ~(1 <= Len(Ends(s)))
    BY <1>1, <2>2
  <2> QED BY <2>1, <2>2
<1>4. \A a \in 0..n : /\ SubSeq(s, 1, a) \in Seq(E) /\ Len(SubSeq(s, 1, a)) = a
                      /\ SubSeq(s, 1, a) = <<>> <=> a = 0
                      /\ a # 0 => Head(SubSeq(s, 1, a)) = s[1] /\ s # <<>>
  <2> TAKE a \in 0..n
  <2>1. /\ SubSeq(s, 1, a) \in Seq(E) /\ Len(SubSeq(s, 1, a)) = a
        /\ \A i \in 1..a : SubSeq(s, 1, a)[i] = s[i]
    OBVIOUS
  <2> DEFINE x == SubSeq(s, 1, a)
  <2> HIDE DEF x
  <2>2. x = <<>> <=> a = 0
    BY <2>1 DEF x
  <2>3. a # 0 => Head(x) = x[1] /\ x[1] = s[1] /\ s # <<>>
    BY <2>1 DEF x
  <2> QED BY <2>1, <2>2, <2>3 DEF x
<1>5. LinesOf(s) # <<>>
  BY <1>1
<1>6. s # <<>> => n # 0
  OBVIOUS
<1> HIDE DEF b, n
<1> QED BY <1>2, <1>3, <1>4, <1>5, <1>6

\* A text without the mark.
LEMMA DigestedUnmarked ==
  ASSUME NEW E, NEW s \in Seq(E), s = <<>> \/ s[1] # "bom"
  PROVE  Digested(s) = Kept(s)
<1> DEFINE lines == ChecksumLines(s)
<1>1. /\ lines = LinesOf(s) /\ lines \in Seq(Seq(E)) /\ lines # <<>>
      /\ lines[1] # <<>> => s # <<>> /\ Head(lines[1]) = s[1]
  BY LinesAre, EndsAre, FirstLine
<1>2. WithoutMark(lines[1]) = lines[1]
  BY <1>1 DEF WithoutMark
<1>3. [k \in 1..Len(lines) |-> IF k = 1 THEN WithoutMark(lines[k]) ELSE lines[k]] = lines
  <2> HIDE DEF lines
  <2>1. \A k \in 1..Len(lines) : (IF k = 1 THEN WithoutMark(lines[k]) ELSE lines[k]) = lines[k]
    BY <1>2
  <2>2. lines = [k \in 1..Len(lines) |-> lines[k]]
    BY <1>1
  <2> QED BY <2>1, <2>2
<1>4. Digested(s) = FlattenSeq(lines)
  BY <1>3 DEF Digested
<1> QED BY <1>4, UnbrokenIsKept DEF Unbroken

\* The rest of two texts in a row.
LEMMA TailOfTwo ==
  ASSUME NEW E, NEW s \in Seq(E), NEW t \in Seq(E), s # <<>>
  PROVE  Tail(s) \o t = Tail(s \o t)
OBVIOUS

\* A text with the mark.
LEMMA DigestedMarked ==
  ASSUME NEW E, NEW t \in Seq(E), "bom" \in E
  PROVE  Digested(<<"bom">> \o t) = Kept(t)
<1> DEFINE s == <<"bom">> \o t
           lines == ChecksumLines(s)
           rest == Tail(lines)
           bare == [k \in 1..Len(lines) |-> IF k = 1 THEN WithoutMark(lines[k]) ELSE lines[k]]
<1>1. s \in Seq(E) /\ s # <<>> /\ s[1] = "bom" /\ <<"bom">> \in Seq(E)
  OBVIOUS
<1> HIDE DEF s
<1>2. /\ lines = LinesOf(s) /\ lines \in Seq(Seq(E)) /\ lines # <<>> /\ lines[1] \in Seq(E)
      /\ lines[1] # <<>> /\ Head(lines[1]) = "bom"
  <2>1. lines = LinesOf(s)
    BY LinesAre
  <2>2. lines \in Seq(Seq(E))
    BY <1>1, <2>1, EndsAre
  <2>3. /\ LinesOf(s) # <<>> /\ LinesOf(s)[1] \in Seq(E)
        /\ LinesOf(s)[1] # <<>> => s # <<>> /\ Head(LinesOf(s)[1]) = s[1]
        /\ s # <<>> /\ s[1] \notin Terminators => LinesOf(s)[1] # <<>>
    BY <1>1, FirstLine
  <2>4. s[1] \notin Terminators
    BY <1>1 DEF Terminators
  <2> QED BY <1>1, <2>1, <2>2, <2>3, <2>4
<1> HIDE DEF lines
<1>3. WithoutMark(lines[1]) = Tail(lines[1]) /\ Tail(lines[1]) \in Seq(E)
  BY <1>2 DEF WithoutMark
<1>4. rest \in Seq(Seq(E)) /\ Len(rest) = Len(lines) - 1 /\ \A k \in 1..Len(rest) : rest[k] = lines[k + 1]
  BY <1>2
<1>5. Len(lines) \in Nat \ {0}
  BY <1>2
<1> HIDE DEF rest
<1>6. ASSUME NEW x \in Seq(E)
      PROVE  /\ <<x>> \o rest \in Seq(Seq(E)) /\ Len(<<x>> \o rest) = Len(lines)
             /\ (<<x>> \o rest)[1] = x /\ \A k \in 2..Len(lines) : (<<x>> \o rest)[k] = lines[k]
             /\ FlattenSeq(<<x>> \o rest) = x \o FlattenSeq(rest)
  <2>1. <<x>> \in Seq(Seq(E)) /\ Len(<<x>>) = 1 /\ <<x>>[1] = x
    OBVIOUS
  <2>2. /\ <<x>> \o rest \in Seq(Seq(E)) /\ Len(<<x>> \o rest) = 1 + Len(rest)
        /\ (\A i \in 1..1 : (<<x>> \o rest)[i] = <<x>>[i])
        /\ \A i \in 1..Len(rest) : (<<x>> \o rest)[1 + i] = rest[i]
    BY <1>4, <2>1, PlacesOf
  <2>3. \A k \in 2..Len(lines) : k - 1 \in 1..Len(rest) /\ 1 + (k - 1) = k /\ (k - 1) + 1 = k
    BY <1>4, <1>5
  <2>4. \A k \in 2..Len(lines) : (<<x>> \o rest)[k] = lines[k]
    BY <1>4, <2>2, <2>3
  <2>5. FlattenSeq(<<x>> \o rest) = FlattenSeq(<<x>>) \o FlattenSeq(rest)
    BY <1>4, <2>1, FlattenParts
  <2>6. FlattenSeq(<<x>>) = x
    <3>1. <<>> \in Seq(Seq(E)) /\ Append(<<>>, x) = <<x>>
      OBVIOUS
    <3>2. FlattenSeq(Append(<<>>, x)) = x
      BY <3>1, FlattenAppend
    <3> QED BY <3>1, <3>2
  <2>7. Len(<<x>> \o rest) = Len(lines)
    BY <1>4, <1>5, <2>2
  <2>8. (<<x>> \o rest)[1] = x
    <3>1. 1 \in 1..1
      OBVIOUS
    <3> QED BY <2>1, <2>2, <3>1
  <2> DEFINE y == <<x>> \o rest
  <2> HIDE DEF y, bare
  <2> QED BY <2>2, <2>4, <2>5, <2>6, <2>7, <2>8 DEF y
<1>7. \A k \in 1..Len(lines) : k = 1 \/ k \in 2..Len(lines)
  BY <1>5
<1>8. lines = <<lines[1]>> \o rest
  <2> DEFINE x == lines[1]
             y == <<x>> \o rest
  <2>1. y \in Seq(Seq(E)) /\ Len(y) = Len(lines) /\ y[1] = lines[1]
        /\ \A k \in 2..Len(lines) : y[k] = lines[k]
    BY <1>2, <1>6
  <2> HIDE DEF x, y
  <2>2. \A k \in 1..Len(y) : y[k] = lines[k]
    BY <1>7, <2>1
  <2>3. y = lines
    BY <1>2, <2>1, <2>2, SameText
  <2> QED BY <2>3 DEF x, y
<1>9. bare = <<Tail(lines[1])>> \o rest
  <2> DEFINE x == Tail(lines[1])
             y == <<x>> \o rest
  <2>1. y \in Seq(Seq(E)) /\ Len(y) = Len(lines) /\ y[1] = x
        /\ \A k \in 2..Len(lines) : y[k] = lines[k]
    BY <1>3, <1>6
  <2>2. bare[1] = x /\ (\A k \in 2..Len(lines) : bare[k] = lines[k])
    <3>1. 1 \in 1..Len(lines) /\ \A k \in 2..Len(lines) : k \in 1..Len(lines) /\ k # 1
      BY <1>5
    <3> QED BY <1>3, <3>1
  <2>3. bare \in Seq(Seq(E)) /\ Len(bare) = Len(lines)
    <3>1. \A k \in 1..Len(lines) : (IF k = 1 THEN WithoutMark(lines[k]) ELSE lines[k]) \in Seq(E)
      <4>1. \A k \in 1..Len(lines) : lines[k] \in Seq(E)
        BY <1>2
      <4>2. WithoutMark(lines[1]) \in Seq(E)
        BY <1>3
      <4> QED BY <4>1, <4>2
    <3> QED BY <1>5, <3>1
  <2> HIDE DEF x, y, bare
  <2>4. \A k \in 1..Len(bare) : bare[k] = y[k]
    BY <1>7, <2>1, <2>2, <2>3
  <2>5. bare = y
    BY <2>1, <2>3, <2>4, SameText
  <2> QED BY <2>5 DEF x, y
<1>10. Digested(s) = FlattenSeq(bare)
  BY DEF Digested, lines
<1>11. Digested(s) = Tail(lines[1]) \o FlattenSeq(rest)
  BY <1>3, <1>6, <1>9, <1>10
<1>12. Unbroken(s) = lines[1] \o FlattenSeq(rest)
  <2>1. Unbroken(s) = FlattenSeq(lines)
    BY DEF Unbroken, lines
  <2> QED BY <1>2, <1>6, <1>8, <2>1
<1>13. Kept(s) = <<"bom">> \o Kept(t)
  <2>1. Kept(s) = Kept(<<"bom">>) \o Kept(t)
    BY <1>1, KeptParts DEF s
  <2>2. Kept(<<"bom">>) = <<"bom">>
    <3>1. <<>> \in Seq(E) /\ Append(<<>>, "bom") = <<"bom">> /\ "bom" \notin Terminators
      BY DEF Terminators
    <3>2. Kept(Append(<<>>, "bom")) = Append(Kept(<<>>), "bom")
      BY <3>1, KeptNext
    <3> QED BY <3>1, <3>2, KeptNothing
  <2> QED BY <2>1, <2>2
<1>14. Unbroken(s) = <<"bom">> \o Kept(t)
  BY <1>1, <1>13, UnbrokenIsKept
<1>15. FlattenSeq(rest) \in Seq(E) /\ Kept(t) \in Seq(E)
  BY <1>4, FlattenType, KeptParts
<1>16. Tail(lines[1]) \o FlattenSeq(rest) = Tail(lines[1] \o FlattenSeq(rest))
  <2>1. lines[1] \in Seq(E) /\ lines[1] # <<>>
    BY <1>2
  <2> HIDE DEF lines, rest
  <2> QED BY <1>15, <2>1, TailOfTwo
<1>17. Tail(<<"bom">> \o Kept(t)) = Kept(t)
  BY <1>15
<1> QED BY <1>11, <1>12, <1>14, <1>16, <1>17 DEF s
-----------------------------------------------------------------------------
(* Placeholders.                                                           *)

\* Where the loop of replacePlaceholders looks after i.
NextLook(s, i) == IF IsPlaceholder(s, i) THEN SuffixOf(s, i) + 1 ELSE i + 1

\* The first suffix behind a prefix, and the place behind it.
LEMMA SuffixIs ==
  ASSUME NEW E, NEW s \in Seq(E), NEW i \in Nat, IsPlaceholder(s, i)
  PROVE  /\ SuffixOf(s, i) \in (i + 1)..Len(s) /\ s[SuffixOf(s, i)] = "}"
         /\ \A k \in (i + 1)..(SuffixOf(s, i) - 1) : s[k] # "}"
<1> DEFINE P == PlacesFrom(s, i + 1, "}")
<1>1. Len(s) \in Nat
  OBVIOUS
<1>2. P \subseteq (i + 1)..Len(s) /\ P # {}
  BY DEF PlacesFrom, IsPlaceholder
<1>3. \A k \in (i + 1)..Len(s) : k \in Nat /\ (s[k] = "}" <=> k \in P)
  <2>1. \A k \in (i + 1)..Len(s) : k \in Nat
    BY <1>1
  <2> QED BY <2>1 DEF PlacesFrom
<1> HIDE DEF P
<1>4. P \in SUBSET Nat
  BY <1>2, <1>3
<1>5. Min(P) \in P /\ \A x \in P : Min(P) <= x
  BY <1>2, <1>4, MinOf
<1>6. PICK m \in (i + 1)..Len(s) : m = SuffixOf(s, i) /\ m \in P /\ \A x \in P : m <= x
  BY <1>2, <1>5 DEF SuffixOf, P
<1>7. s[m] = "}"
  BY <1>3, <1>6
<1>8. ASSUME NEW k \in (i + 1)..(m - 1) PROVE s[k] # "}"
  <2>1. k \in (i + 1)..Len(s) /\ ~(m <= k)
    BY <1>1
  <2> QED BY <1>3, <1>6, <2>1
<1> QED BY <1>6, <1>7, <1>8

\* The loop of replacePlaceholders (placeholder.go) goes forward, and at most just
\* behind the text.
LEMMA NextLookIs ==
  ASSUME NEW E, NEW s \in Seq(E), NEW i \in Nat
  PROVE  /\ NextLook(s, i) \in Nat /\ NextLook(s, i) > i /\ NextLook(s, i) # 0
         /\ i <= Len(s) => NextLook(s, i) <= Len(s) + 1
<1>1. Len(s) \in Nat
  OBVIOUS
<1>2. CASE IsPlaceholder(s, i)
  <2>1. SuffixOf(s, i) \in (i + 1)..Len(s)
    BY <1>2, SuffixIs
  <2>2. NextLook(s, i) = SuffixOf(s, i) + 1
    BY <1>2 DEF NextLook
  <2> QED BY <1>1, <2>1, <2>2
<1>3. CASE ~IsPlaceholder(s, i)
  <2>1. NextLook(s, i) = i + 1
    BY <1>3 DEF NextLook
  <2> QED BY <1>1, <2>1
<1> QED BY <1>2, <1>3

\* The loop, taken apart.
Loop(s, f) == f = [i \in Nat |-> IF i > Len(s) THEN {} ELSE {i} \cup f[NextLook(s, i)]]

\* The places replacePlaceholders looks at are what its loop collects from the first
\* place on.
LEMMA LooksAre ==
  ASSUME NEW s
  PROVE  Looks(s) = (CHOOSE f : Loop(s, f))[1]
BY DEF Looks, Loop, NextLook

\* The loop comes to the places that are in each set which has the place behind
\* each of its places.
Follows(s, C) == \A m \in C : m <= Len(s) => NextLook(s, m) \in C
Reached(s, i) == {j \in 0..Len(s) : \A C \in SUBSET Nat : i \in C /\ Follows(s, C) => j \in C}

\* The loop of replacePlaceholders collects something from each place of a text, as
\* it ends: the recursive function in Looks exists.
LEMMA LoopExists ==
  ASSUME NEW E, NEW s \in Seq(E)
  PROVE  \E f : Loop(s, f)
<1> DEFINE f == [i \in Nat |-> Reached(s, i)]
<1>1. Len(s) \in Nat /\ \A i \in Nat : NextLook(s, i) \in Nat
  <2>1. Len(s) \in Nat
    OBVIOUS
  <2> HIDE DEF f
  <2> QED BY <2>1, NextLookIs
<1>2. ASSUME NEW i \in Nat, i > Len(s) PROVE Reached(s, i) = {}
  <2> SUFFICES ASSUME NEW j \in Reached(s, i) PROVE FALSE
    OBVIOUS
  <2>1. {i} \in SUBSET Nat /\ Follows(s, {i})
    BY <1>1, <1>2 DEF Follows
  <2>2. j \in 0..Len(s) /\ j \in {i}
    BY <2>1 DEF Reached
  <2> QED BY <1>1, <1>2, <2>2
<1>3. ASSUME NEW i \in Nat, ~(i > Len(s)) PROVE Reached(s, i) = {i} \cup Reached(s, NextLook(s, i))
  <2> DEFINE a == NextLook(s, i)
  <2>1. a \in Nat /\ i \in 0..Len(s) /\ i <= Len(s)
    BY <1>1, <1>3
  <2>2. i \in Reached(s, i)
    BY <2>1 DEF Reached
  <2>3. ASSUME NEW j \in Reached(s, a) PROVE j \in Reached(s, i)
    <3>1. \A C \in SUBSET Nat : i \in C /\ Follows(s, C) => j \in C
      <4> TAKE C \in SUBSET Nat
      <4> HAVE i \in C /\ Follows(s, C)
      <4>1. a \in C
        BY <2>1 DEF Follows
      <4> QED BY <2>3, <4>1 DEF Reached
    <3> QED BY <2>3, <3>1 DEF Reached
  <2>4. ASSUME NEW j \in Reached(s, i), j # i PROVE j \in Reached(s, a)
    <3>1. \A C \in SUBSET Nat : a \in C /\ Follows(s, C) => j \in C
      <4> TAKE C \in SUBSET Nat
      <4> HAVE a \in C /\ Follows(s, C)
      <4>1. C \cup {i} \in SUBSET Nat /\ i \in C \cup {i}
        OBVIOUS
      <4>2. Follows(s, C \cup {i})
        BY DEF Follows
      <4>3. j \in C \cup {i}
        BY <4>1, <4>2 DEF Reached
      <4> QED BY <2>4, <4>3
    <3> QED BY <3>1 DEF Reached
  <2> QED BY <2>2, <2>3, <2>4
<1>4. \A i \in Nat : f[i] = IF i > Len(s) THEN {} ELSE {i} \cup f[NextLook(s, i)]
  BY <1>1, <1>2, <1>3
<1>5. f = [i \in Nat |-> IF i > Len(s) THEN {} ELSE {i} \cup f[NextLook(s, i)]]
  <2>1. f = [i \in Nat |-> f[i]]
    OBVIOUS
  <2> HIDE DEF f
  <2> QED BY <1>4, <2>1
<1> HIDE DEF f
<1> QED BY <1>5 DEF Loop

\* Each place it looks at has the place behind it.
LEMMA LoopAt ==
  ASSUME NEW s, NEW f, Loop(s, f), NEW i \in Nat
  PROVE  f[i] = IF i > Len(s) THEN {} ELSE {i} \cup f[NextLook(s, i)]
<1> DEFINE body(j) == IF j > Len(s) THEN {} ELSE {j} \cup f[NextLook(s, j)]
<1>1. f = [j \in Nat |-> body(j)]
  BY Zenon DEF Loop
<1> HIDE DEF body
<1>2. f[i] = body(i)
  BY <1>1, Zenon
<1> QED BY <1>2 DEF body

\* What holds behind the end of a text and, when it holds behind a place, at it,
\* holds everywhere.
LEMMA PlacesDownwards ==
  ASSUME NEW n \in Nat, NEW H, \A i \in Nat : i > n => i \in H,
         \A i \in Nat : i <= n /\ (\A j \in Nat : j > i => j \in H) => i \in H
  PROVE  \A i \in Nat : i \in H
<1> DEFINE N == {d \in Nat : \A i \in Nat : i + d > n => i \in H}
<1>1. 0 \in N
  OBVIOUS
<1>2. ASSUME NEW d \in Nat, d \in N PROVE d + 1 \in N
  <2> SUFFICES ASSUME NEW i \in Nat, i + (d + 1) > n PROVE i \in H
    OBVIOUS
  <2>1. \A j \in Nat : j > i => j + d > n
    OBVIOUS
  <2>2. \A j \in Nat : j + d > n => j \in H
    BY <1>2
  <2>3. \A j \in Nat : j > i => j \in H
    BY <2>1, <2>2
  <2>4. i > n \/ i <= n
    OBVIOUS
  <2> HIDE DEF N
  <2> QED BY <2>3, <2>4
<1>3. \A d \in Nat : d \in N
  <2> HIDE DEF N
  <2> QED BY <1>1, <1>2, NumbersUpwards
<1>4. ASSUME NEW i \in Nat PROVE i \in H
  <2>1. n + 1 \in N
    BY <1>3
  <2>2. i + (n + 1) > n
    OBVIOUS
  <2> QED BY <2>1, <2>2
<1> QED BY <1>4

\* It looks at places of the text.
LEMMA LooksInText ==
  ASSUME NEW E, NEW s \in Seq(E), NEW f, Loop(s, f)
  PROVE  \A i \in Nat : f[i] \subseteq i..Len(s)
<1> DEFINE H == {i \in Nat : f[i] \subseteq i..Len(s)}
<1>1. Len(s) \in Nat
  OBVIOUS
<1>2. \A i \in Nat : i > Len(s) => i \in H
  BY LoopAt
<1>3. ASSUME NEW i \in Nat, i <= Len(s), \A j \in Nat : j > i => j \in H PROVE i \in H
  <2>1. f[i] = {i} \cup f[NextLook(s, i)]
    <3>1. ~(i > Len(s))
      BY <1>1, <1>3
    <3> HIDE DEF H
    <3> QED BY <3>1, LoopAt
  <2>2. NextLook(s, i) \in Nat /\ NextLook(s, i) > i
    <3> HIDE DEF H
    <3> QED BY NextLookIs
  <2>3. f[NextLook(s, i)] \subseteq NextLook(s, i)..Len(s)
    BY <1>3, <2>2
  <2>4. \A k \in NextLook(s, i)..Len(s) : k \in i..Len(s)
    BY <1>1, <2>2
  <2>5. i \in i..Len(s)
    BY <1>1, <1>3
  <2> QED BY <2>1, <2>3, <2>4, <2>5
<1>4. \A i \in Nat : i \in H
  <2> HIDE DEF H
  <2> QED BY <1>1, <1>2, <1>3, PlacesDownwards
<1> QED BY <1>4

\* replacePlaceholders looks at places of the text and at no others.
LEMMA LooksType ==
  ASSUME NEW E, NEW s \in Seq(E)
  PROVE  Looks(s) \in SUBSET (1..Len(s))
<1>1. PICK f : f = CHOOSE g : Loop(s, g)
  OBVIOUS
<1>2. Loop(s, f)
  BY <1>1, LoopExists
<1>3. f[1] \subseteq 1..Len(s)
  BY <1>2, LooksInText
<1> QED BY <1>1, <1>3, LooksAre

\* A prefix without a suffix finds none in the text behind it.
Apart(s, t) == ~(Unclosed(s) /\ Closes(t))

\* Then every place is what it is in its own text.
LEMMA FirstText ==
  ASSUME NEW E, NEW s \in Seq(E), NEW t \in Seq(E), Apart(s, t), NEW i \in 1..Len(s)
  PROVE  /\ IsPlaceholder(s \o t, i) <=> IsPlaceholder(s, i)
         /\ IsPlaceholder(s, i) => /\ SuffixOf(s \o t, i) = SuffixOf(s, i)
                                   /\ KeyOf(s \o t, i) = KeyOf(s, i)
         /\ NextLook(s \o t, i) = NextLook(s, i)
<1> DEFINE u == s \o t
           n == Len(s)
           m == Len(t)
<1>1. u \in Seq(E) /\ n \in Nat /\ m \in Nat /\ Len(u) = n + m /\ i \in Nat
  BY PlacesOf
<1>0. (\A k \in 1..n : u[k] = s[k]) /\ \A k \in 1..m : u[n + k] = t[k]
  BY PlacesOf
<1> HIDE DEF u, n, m
<1>2. i \in 1..n /\ s \in Seq(E) /\ u[i] = s[i]
  BY <1>0 DEF n
<1>3. ASSUME IsPlaceholder(u, i) PROVE IsPlaceholder(s, i)
  <2>1. PICK k \in (i + 1)..Len(u) : u[k] = "}"
    BY <1>3 DEF IsPlaceholder, PlacesFrom
  <2>2. s[i] = "${"
    BY <1>2, <1>3 DEF IsPlaceholder
  <2>3. CASE k <= n
    <3>1. k \in (i + 1)..n /\ k \in 1..n
      BY <1>1, <1>2, <2>3
    <3>2. s[k] = "}"
      BY <1>0, <2>1, <3>1
    <3> QED BY <2>2, <3>1, <3>2 DEF IsPlaceholder, PlacesFrom, n
  <2>4. CASE k > n
    <3>1. k - n \in 1..m /\ n + (k - n) = k
      BY <1>1, <2>4
    <3>2. t[k - n] = "}"
      BY <1>0, <2>1, <3>1
    <3>3. Closes(t)
      BY <3>1, <3>2 DEF Closes, m
    <3>4. ~Unclosed(s)
      BY <3>3 DEF Apart
    <3>5. \E l \in (i + 1)..n : s[l] = "}"
      BY <1>2, <2>2, <3>4 DEF Unclosed, n
    <3> QED BY <2>2, <3>5 DEF IsPlaceholder, PlacesFrom, n
  <2> QED BY <1>1, <2>3, <2>4
<1>4. ASSUME IsPlaceholder(s, i)
      PROVE  IsPlaceholder(u, i) /\ SuffixOf(u, i) = SuffixOf(s, i) /\ KeyOf(u, i) = KeyOf(s, i)
  <2>1. PICK e \in (i + 1)..n :
          e = SuffixOf(s, i) /\ s[e] = "}" /\ \A k \in (i + 1)..(e - 1) : s[k] # "}"
    BY <1>1, <1>4, SuffixIs DEF n
  <2>2. e \in 1..n /\ e \in (i + 1)..Len(u)
    BY <1>1
  <2>3. u[i] = "${" /\ u[e] = "}"
    BY <1>0, <1>2, <1>4, <2>1, <2>2 DEF IsPlaceholder
  <2>4. IsPlaceholder(u, i)
    BY <2>2, <2>3 DEF IsPlaceholder, PlacesFrom
  <2>5. PICK d \in (i + 1)..Len(u) :
          d = SuffixOf(u, i) /\ u[d] = "}" /\ \A k \in (i + 1)..(d - 1) : u[k] # "}"
    BY <1>1, <2>4, SuffixIs
  <2>6. ASSUME d < e PROVE FALSE
    <3>1. d \in (i + 1)..(e - 1) /\ d \in 1..n
      BY <1>1, <2>6
    <3> QED BY <1>0, <2>1, <2>5, <3>1
  <2>7. ASSUME e < d PROVE FALSE
    <3>1. e \in (i + 1)..(d - 1)
      BY <1>1, <2>7
    <3> QED BY <2>3, <2>5, <3>1
  <2>8. e \in Int /\ d \in Int
    BY <1>1
  <2>9. d = e
    BY <2>6, <2>7, <2>8
  <2>10. /\ KeyOf(u, i) = LowerCase(SubSeq(u, i + 1, d - 1))
         /\ KeyOf(s, i) = LowerCase(SubSeq(s, i + 1, e - 1))
    BY <2>1, <2>5 DEF KeyOf
  <2>11. SubSeq(u, i + 1, e - 1) = SubSeq(s, i + 1, e - 1)
    <3>1. \A a \in 1..Len(s), b \in 1..Len(s) : SubSeq(s \o t, a + 1, b - 1) = SubSeq(s, a + 1, b - 1)
      OBVIOUS
    <3> QED BY <2>2, <3>1 DEF u, n
  <2> QED BY <2>1, <2>4, <2>5, <2>9, <2>10, <2>11
<1>5. NextLook(u, i) = NextLook(s, i)
  BY <1>3, <1>4 DEF NextLook
<1> QED BY <1>3, <1>4, <1>5 DEF u

\* A part of the second of two texts.
LEMMA SubSeqOfSecond ==
  ASSUME NEW E, NEW s \in Seq(E), NEW t \in Seq(E), NEW a \in Nat, a # 0, NEW b \in 0..Len(t)
  PROVE  SubSeq(s \o t, Len(s) + a, Len(s) + b) = SubSeq(t, a, b)
<1> DEFINE u == s \o t
           n == Len(s)
           p == SubSeq(u, n + a, n + b)
           q == SubSeq(t, a, b)
<1>1. /\ u \in Seq(E) /\ n \in Nat /\ Len(u) = n + Len(t) /\ Len(t) \in Nat
      /\ \A k \in 1..Len(t) : u[n + k] = t[k]
  BY PlacesOf
<1> HIDE DEF u, n
<1>2. \A k \in 1..((b + 1) - a) : (a + k) - 1 \in 1..Len(t) /\ n + ((a + k) - 1) = ((n + a) + k) - 1
  BY <1>1
<1>3. p = [k \in 1..((b + 1) - a) |-> u[((n + a) + k) - 1]]
  <2>1. ((n + b) + 1) - (n + a) = (b + 1) - a
    BY <1>1
  <2> QED BY <1>1, <2>1
<1>4. q = [k \in 1..((b + 1) - a) |-> t[(a + k) - 1]]
  OBVIOUS
<1>5. \A k \in 1..((b + 1) - a) : u[((n + a) + k) - 1] = t[(a + k) - 1]
  BY <1>1, <1>2
<1> HIDE DEF p, q
<1>6. p = q
  BY <1>3, <1>4, <1>5
<1> QED BY <1>6 DEF p, q, u, n

\* A text behind another one has its placeholders, their suffixes and keys, and the
\* places the loop of replacePlaceholders goes on at, where it has them by itself.
LEMMA SecondText ==
  ASSUME NEW E, NEW s \in Seq(E), NEW t \in Seq(E), NEW i \in 1..Len(t)
  PROVE  /\ IsPlaceholder(s \o t, Len(s) + i) <=> IsPlaceholder(t, i)
         /\ IsPlaceholder(t, i) => /\ SuffixOf(s \o t, Len(s) + i) = Len(s) + SuffixOf(t, i)
                                   /\ KeyOf(s \o t, Len(s) + i) = KeyOf(t, i)
         /\ NextLook(s \o t, Len(s) + i) = Len(s) + NextLook(t, i)
<1> DEFINE u == s \o t
           n == Len(s)
           m == Len(t)
<1>1. u \in Seq(E) /\ n \in Nat /\ m \in Nat /\ Len(u) = n + m /\ i \in Nat
  BY PlacesOf
<1>2. \A k \in 1..m : u[n + k] = t[k]
  BY PlacesOf
<1> HIDE DEF u, n, m
<1>3. i \in 1..m /\ n + i \in Nat /\ u[n + i] = t[i]
  BY <1>1, <1>2 DEF m
<1>4. ASSUME IsPlaceholder(u, n + i) PROVE IsPlaceholder(t, i)
  <2>1. PICK k \in ((n + i) + 1)..Len(u) : u[k] = "}"
    BY <1>4 DEF IsPlaceholder, PlacesFrom
  <2>2. t[i] = "${"
    BY <1>3, <1>4 DEF IsPlaceholder
  <2>3. k - n \in (i + 1)..m /\ n + (k - n) = k /\ k - n \in 1..m
    BY <1>1, <1>3
  <2>4. t[k - n] = "}"
    BY <1>2, <2>1, <2>3
  <2> QED BY <2>2, <2>3, <2>4 DEF IsPlaceholder, PlacesFrom, m
<1>5. ASSUME IsPlaceholder(t, i)
      PROVE  /\ IsPlaceholder(u, n + i) /\ SuffixOf(u, n + i) = n + SuffixOf(t, i)
             /\ KeyOf(u, n + i) = KeyOf(t, i)
  <2>1. PICK e \in (i + 1)..m :
          e = SuffixOf(t, i) /\ t[e] = "}" /\ \A k \in (i + 1)..(e - 1) : t[k] # "}"
    BY <1>1, <1>5, SuffixIs DEF m
  <2>2. e \in 1..m /\ n + e \in ((n + i) + 1)..Len(u)
    BY <1>1
  <2>3. u[n + i] = "${" /\ u[n + e] = "}"
    BY <1>2, <1>3, <1>5, <2>1, <2>2 DEF IsPlaceholder
  <2>4. IsPlaceholder(u, n + i)
    BY <2>2, <2>3 DEF IsPlaceholder, PlacesFrom
  <2>5. PICK d \in ((n + i) + 1)..Len(u) :
          d = SuffixOf(u, n + i) /\ u[d] = "}" /\ \A k \in ((n + i) + 1)..(d - 1) : u[k] # "}"
    BY <1>1, <1>3, <2>4, SuffixIs
  <2>6. ASSUME d < n + e PROVE FALSE
    <3>1. d - n \in (i + 1)..(e - 1) /\ d - n \in 1..m /\ n + (d - n) = d
      BY <1>1, <2>6
    <3>2. t[d - n] = "}"
      BY <1>2, <2>5, <3>1
    <3> QED BY <2>1, <3>1, <3>2
  <2>7. ASSUME n + e < d PROVE FALSE
    <3>1. n + e \in ((n + i) + 1)..(d - 1)
      BY <1>1, <2>7
    <3> QED BY <2>3, <2>5, <3>1
  <2>8. e \in Int /\ d \in Int /\ n \in Int
    BY <1>1
  <2>9. d = n + e
    BY <2>6, <2>7, <2>8
  <2>10. /\ KeyOf(u, n + i) = LowerCase(SubSeq(u, (n + i) + 1, d - 1))
         /\ KeyOf(t, i) = LowerCase(SubSeq(t, i + 1, e - 1))
    BY <2>1, <2>5 DEF KeyOf
  <2>11. SubSeq(u, (n + i) + 1, (n + e) - 1) = SubSeq(t, i + 1, e - 1)
    <3>1. i + 1 \in Nat /\ i + 1 # 0 /\ e - 1 \in 0..m
      BY <1>1
    <3>2. SubSeq(s \o t, Len(s) + (i + 1), Len(s) + (e - 1)) = SubSeq(t, i + 1, e - 1)
      BY <3>1, SubSeqOfSecond DEF m
    <3>3. n + (i + 1) = (n + i) + 1 /\ n + (e - 1) = (n + e) - 1
      BY <1>1, <2>8
    <3> QED BY <3>2, <3>3 DEF u, n
  <2> QED BY <2>1, <2>4, <2>5, <2>9, <2>10, <2>11
<1>6. IsPlaceholder(t, i) => SuffixOf(t, i) \in Nat
  <2>1. IsPlaceholder(t, i) => SuffixOf(t, i) \in (i + 1)..Len(t)
    BY <1>1, SuffixIs
  <2> QED BY <1>1, <2>1
<1>7. NextLook(u, n + i) = n + NextLook(t, i)
  BY <1>1, <1>4, <1>5, <1>6 DEF NextLook
<1> QED BY <1>4, <1>5, <1>7 DEF u, n

\* The places the loop looks at in two texts in a row are those of each.
LEMMA LooksParts ==
  ASSUME NEW E, NEW s \in Seq(E), NEW t \in Seq(E), Apart(s, t)
  PROVE  Looks(s \o t) = Looks(s) \cup {Len(s) + j : j \in Looks(t)}
<1> DEFINE u == s \o t
           n == Len(s)
           m == Len(t)
<1>1. u \in Seq(E) /\ n \in Nat /\ m \in Nat /\ Len(u) = n + m
  BY PlacesOf
<1>2. PICK f : f = CHOOSE g : Loop(u, g)
  OBVIOUS
<1>3. PICK g : g = CHOOSE h : Loop(s, h)
  OBVIOUS
<1>4. PICK h : h = CHOOSE k : Loop(t, k)
  OBVIOUS
<1>5. Loop(u, f) /\ Loop(s, g) /\ Loop(t, h)
  <2>1. (\E k : Loop(u, k)) /\ (\E k : Loop(s, k)) /\ \E k : Loop(t, k)
    BY <1>1, LoopExists
  <2> HIDE DEF u
  <2> QED BY <1>2, <1>3, <1>4, <2>1
<1> DEFINE shift(S) == {n + j : j \in S}
           A == {i \in Nat : i # 0 => f[n + i] = shift(h[i])}
<1>6. \A i \in Nat : i \in A
  <2>1. \A i \in Nat : i > m => i \in A
    <3> SUFFICES ASSUME NEW i \in Nat, i > m, i # 0 PROVE f[n + i] = shift(h[i])
      OBVIOUS
    <3>1. n + i \in Nat /\ n + i > Len(u)
      BY <1>1
    <3> HIDE DEF u
    <3>2. f[n + i] = {} /\ h[i] = {}
      BY <1>5, <3>1, LoopAt
    <3> QED BY <3>2
  <2>2. ASSUME NEW i \in Nat, i <= m, \A j \in Nat : j > i => j \in A PROVE i \in A
    <3> SUFFICES ASSUME i # 0 PROVE f[n + i] = shift(h[i])
      OBVIOUS
    <3>1. n + i \in Nat /\ ~(n + i > Len(u)) /\ ~(i > m)
      BY <1>1, <2>2
    <3>2. f[n + i] = {n + i} \cup f[NextLook(u, n + i)]
      <4> HIDE DEF u, n
      <4> QED BY <1>5, <3>1, LoopAt
    <3>3. h[i] = {i} \cup h[NextLook(t, i)]
      BY <1>5, <3>1, LoopAt
    <3>4. NextLook(u, n + i) = n + NextLook(t, i)
      <4>1. i \in 1..Len(t)
        BY <1>1, <2>2
      <4> QED BY <4>1, SecondText
    <3>5. NextLook(t, i) \in Nat /\ NextLook(t, i) > i /\ NextLook(t, i) # 0
      <4> HIDE DEF A, u, n, m
      <4> QED BY NextLookIs
    <3>6. f[n + NextLook(t, i)] = shift(h[NextLook(t, i)])
      BY <2>2, <3>5
    <3> HIDE DEF u, n
    <3>7. shift({i} \cup h[NextLook(t, i)]) = {n + i} \cup shift(h[NextLook(t, i)])
      OBVIOUS
    <3> QED BY <3>2, <3>3, <3>4, <3>6, <3>7
  <2> HIDE DEF A, m
  <2> QED BY <1>1, <2>1, <2>2, PlacesDownwards
<1> DEFINE B == {i \in Nat : i # 0 /\ i <= n + 1 => f[i] = g[i] \cup f[n + 1]}
<1>7. \A i \in Nat : i \in B
  <2>1. \A i \in Nat : i > n => i \in B
    <3> SUFFICES ASSUME NEW i \in Nat, i > n, i # 0 /\ i <= n + 1 PROVE f[i] = g[i] \cup f[n + 1]
      OBVIOUS
    <3>1. i = n + 1
      BY <1>1
    <3>2. g[i] = {}
      BY <1>5, LoopAt
    <3> QED BY <3>1, <3>2
  <2>2. ASSUME NEW i \in Nat, i <= n, \A j \in Nat : j > i => j \in B PROVE i \in B
    <3> SUFFICES ASSUME i # 0 PROVE f[i] = g[i] \cup f[n + 1]
      OBVIOUS
    <3>1. ~(i > Len(u)) /\ ~(i > n) /\ i \in 1..n
      BY <1>1, <2>2
    <3>2. f[i] = {i} \cup f[NextLook(u, i)]
      <4> HIDE DEF u, n
      <4> QED BY <1>5, <3>1, LoopAt
    <3>3. g[i] = {i} \cup g[NextLook(s, i)]
      BY <1>5, <3>1, LoopAt
    <3>4. NextLook(u, i) = NextLook(s, i)
      BY <3>1, FirstText
    <3>5. NextLook(s, i) \in Nat /\ NextLook(s, i) > i /\ NextLook(s, i) # 0 /\ NextLook(s, i) <= n + 1
      <4>1. i <= Len(s)
        BY <2>2
      <4> HIDE DEF A, B, u, m
      <4> QED BY <4>1, NextLookIs
    <3>6. f[NextLook(s, i)] = g[NextLook(s, i)] \cup f[n + 1]
      BY <2>2, <3>5
    <3> HIDE DEF u, n
    <3> QED BY <3>2, <3>3, <3>4, <3>6
  <2> HIDE DEF B, n
  <2> QED BY <1>1, <2>1, <2>2, PlacesDownwards
<1>8. f[1] = g[1] \cup f[n + 1]
  <2>1. 1 \in B /\ 1 <= n + 1
    BY <1>1, <1>7
  <2> HIDE DEF n, u
  <2> QED BY <2>1
<1>9. f[n + 1] = shift(h[1])
  <2>1. 1 \in A
    BY <1>6
  <2> HIDE DEF n, u
  <2> QED BY <2>1
<1>10. Looks(u) = f[1] /\ Looks(s) = g[1] /\ Looks(t) = h[1]
  <2> HIDE DEF u
  <2> QED BY <1>2, <1>3, <1>4, LooksAre
<1> QED BY <1>8, <1>9, <1>10

\* replacePlaceholders, taken apart.
ValueAt(s, values, i) == IF IsPlaceholder(s, i) THEN values[KeyOf(s, i)] ELSE <<s[i]>>
Chunks(s, values) ==
  [k \in 1..Len(InOrder(Looks(s))) |-> ValueAt(s, values, InOrder(Looks(s))[k])]
AreTexts(values, E) == \A key \in DOMAIN values : values[key] \in Seq(E)

\* What replacePlaceholders writes is the value of each place it looks at.
LEMMA ReplacedIs ==
  ASSUME NEW s, NEW values
  PROVE  Replaced(s, values) = FlattenSeq(Chunks(s, values))
BY DEF Replaced, Chunks, ValueAt

\* Each place is replaced by a text.
LEMMA ChunksType ==
  ASSUME NEW E, NEW s \in Seq(E), NEW values, AreTexts(values, E), ~HasUnknown(s, values)
  PROVE  /\ InOrder(Looks(s)) \in Seq(1..Len(s))
         /\ Len(Chunks(s, values)) = Len(InOrder(Looks(s)))
         /\ Chunks(s, values) \in Seq(Seq(E))
         /\ Replaced(s, values) \in Seq(E)
<1> DEFINE A == Looks(s)
           at == InOrder(A)
<1>1. A \in SUBSET (1..Len(s)) /\ Len(s) \in Nat
  BY LooksType
<1>2. at \in Seq(A)
  BY <1>1, InOrderIs
<1> HIDE DEF at
<1>3. \A k \in 1..Len(at) : at[k] \in A /\ at[k] \in 1..Len(s)
  BY <1>1, <1>2
<1>4. at \in Seq(1..Len(s)) /\ Len(at) \in Nat
  BY <1>2, <1>3
<1>5. ASSUME NEW i \in A PROVE ValueAt(s, values, i) \in Seq(E)
  <2>1. CASE IsPlaceholder(s, i)
    <3>1. KeyOf(s, i) \in DOMAIN values
      BY <2>1 DEF HasUnknown
    <3> QED BY <2>1, <3>1 DEF ValueAt, AreTexts
  <2>2. CASE ~IsPlaceholder(s, i)
    <3>1. i \in 1..Len(s)
      BY <1>1
    <3>2. s[i] \in E
      BY <3>1
    <3>3. <<s[i]>> \in Seq(E)
      BY <3>2
    <3> QED BY <2>2, <3>3 DEF ValueAt
  <2> QED BY <2>1, <2>2
<1>6. Chunks(s, values) = [k \in 1..Len(at) |-> ValueAt(s, values, at[k])]
  BY DEF Chunks, at
<1>7. Chunks(s, values) \in Seq(Seq(E)) /\ Len(Chunks(s, values)) = Len(at)
  <2>1. \A k \in 1..Len(at) : ValueAt(s, values, at[k]) \in Seq(E)
    BY <1>3, <1>5
  <2> QED BY <1>4, <1>6, <2>1
<1>8. Replaced(s, values) \in Seq(E)
  BY <1>7, ReplacedIs, FlattenType
<1> QED BY <1>4, <1>7, <1>8 DEF at

\* What is unknown in two texts in a row.
LEMMA UnknownParts ==
  ASSUME NEW E, NEW s \in Seq(E), NEW t \in Seq(E), NEW values, Apart(s, t)
  PROVE  HasUnknown(s \o t, values) <=> HasUnknown(s, values) \/ HasUnknown(t, values)
<1> DEFINE u == s \o t
           n == Len(s)
           D == {n + j : j \in Looks(t)}
<1>1. Looks(u) = Looks(s) \cup D
  BY LooksParts
<1>2. Looks(s) \subseteq 1..n /\ Looks(t) \subseteq 1..Len(t)
  BY LooksType
<1>3. \A i \in Looks(s) : IsPlaceholder(u, i) /\ KeyOf(u, i) \notin DOMAIN values
                          <=> IsPlaceholder(s, i) /\ KeyOf(s, i) \notin DOMAIN values
  <2> TAKE i \in Looks(s)
  <2>1. i \in 1..n
    BY <1>2
  <2>2. /\ IsPlaceholder(u, i) <=> IsPlaceholder(s, i)
        /\ IsPlaceholder(s, i) => KeyOf(u, i) = KeyOf(s, i)
    BY <2>1, FirstText
  <2> QED BY <2>2
<1>4. \A i \in Looks(t) : IsPlaceholder(u, n + i) /\ KeyOf(u, n + i) \notin DOMAIN values
                          <=> IsPlaceholder(t, i) /\ KeyOf(t, i) \notin DOMAIN values
  <2> TAKE i \in Looks(t)
  <2>1. i \in 1..Len(t)
    BY <1>2
  <2>2. /\ IsPlaceholder(u, n + i) <=> IsPlaceholder(t, i)
        /\ IsPlaceholder(t, i) => KeyOf(u, n + i) = KeyOf(t, i)
    BY <2>1, SecondText
  <2> QED BY <2>2
<1>5. HasUnknown(u, values) <=>
        \E i \in Looks(s) \cup D : IsPlaceholder(u, i) /\ KeyOf(u, i) \notin DOMAIN values
  BY <1>1 DEF HasUnknown
<1> HIDE DEF u, n
<1> QED BY <1>3, <1>4, <1>5 DEF HasUnknown, u

\* What two texts in a row become is what each becomes.
LEMMA ReplacedParts ==
  ASSUME NEW E, NEW s \in Seq(E), NEW t \in Seq(E), NEW values, AreTexts(values, E), Apart(s, t),
         ~HasUnknown(s, values), ~HasUnknown(t, values)
  PROVE  Replaced(s \o t, values) = Replaced(s, values) \o Replaced(t, values)
<1> DEFINE u == s \o t
           n == Len(s)
           p == InOrder(Looks(s))
           q == InOrder(Looks(t))
           r == InOrder(Looks(u))
           x == Chunks(s, values)
           y == Chunks(t, values)
           z == Chunks(u, values)
<1>1. u \in Seq(E) /\ n \in Nat /\ Len(t) \in Nat /\ Len(u) = n + Len(t)
  BY PlacesOf
<1>2. ~HasUnknown(u, values)
  BY UnknownParts
<1>3. /\ p \in Seq(1..n) /\ Len(x) = Len(p) /\ x \in Seq(Seq(E))
      /\ q \in Seq(1..Len(t)) /\ Len(y) = Len(q) /\ y \in Seq(Seq(E))
  BY ChunksType
<1>4. r \in Seq(1..Len(u)) /\ Len(z) = Len(r) /\ z \in Seq(Seq(E))
  <2> HIDE DEF u
  <2> QED BY <1>1, <1>2, ChunksType
<1>5. r = p \o Shifted(n, q)
  <2>1. Looks(u) = Looks(s) \cup {n + j : j \in Looks(t)}
    BY LooksParts
  <2>2. Looks(s) \in SUBSET (1..n) /\ Looks(t) \in SUBSET (1..Len(t))
    BY LooksType
  <2>3. InOrder(Looks(s) \cup {n + j : j \in Looks(t)}) = InOrder(Looks(s)) \o Shifted(n, InOrder(Looks(t)))
    BY <1>1, <2>2, InOrderParts
  <2> QED BY <2>1, <2>3
<1>6. /\ Len(p) \in Nat /\ Len(q) \in Nat /\ Len(r) = Len(p) + Len(q)
      /\ \A k \in 1..Len(p) : r[k] = p[k] /\ p[k] \in 1..n
      /\ \A k \in 1..Len(q) : r[Len(p) + k] = n + q[k] /\ q[k] \in 1..Len(t)
  <2> HIDE DEF p, q, r, n
  <2>1. /\ p \in Seq(Nat) /\ \A k \in 1..Len(p) : p[k] \in 1..n
        /\ q \in Seq(Nat) /\ \A k \in 1..Len(q) : q[k] \in 1..Len(t)
    <3>1. 1..n \subseteq Nat /\ 1..Len(t) \subseteq Nat
      BY <1>1
    <3>2. \A k \in 1..Len(p) : p[k] \in 1..n
      <4>1. p \in Seq(1..n)
        BY <1>3
      <4> HIDE DEF x, y, z
      <4> QED BY <4>1, ElementOfSeq
    <3>3. \A k \in 1..Len(q) : q[k] \in 1..Len(t)
      <4>1. q \in Seq(1..Len(t))
        BY <1>3
      <4> HIDE DEF x, y, z
      <4> QED BY <4>1, ElementOfSeq
    <3>4. p \in Seq(Nat)
      BY <1>3, <3>1, SeqMonotonic
    <3>5. q \in Seq(Nat)
      BY <1>3, <3>1, SeqMonotonic
    <3> QED BY <3>2, <3>3, <3>4, <3>5
  <2>2. Shifted(n, q) \in Seq(Nat) /\ Len(Shifted(n, q)) = Len(q)
        /\ \A k \in 1..Len(q) : Shifted(n, q)[k] = n + q[k]
    BY <1>1, <2>1 DEF Shifted
  <2> DEFINE w == Shifted(n, q)
  <2> HIDE DEF w
  <2>3. /\ Len(p) \in Nat /\ Len(w) \in Nat /\ Len(p \o w) = Len(p) + Len(w)
        /\ \A k \in 1..Len(p) : (p \o w)[k] = p[k]
        /\ \A k \in 1..Len(w) : (p \o w)[Len(p) + k] = w[k]
    <3>1. p \in Seq(Nat) /\ w \in Seq(Nat)
      BY <2>1, <2>2 DEF w
    <3> QED BY <3>1, PlacesOf
  <2>4. r = p \o w
    BY <1>5 DEF w
  <2> QED BY <2>1, <2>2, <2>3, <2>4 DEF w
<1>7. \A k \in 1..Len(p) : z[k] = x[k]
  <2> TAKE k \in 1..Len(p)
  <2>1. k \in 1..Len(r) /\ r[k] = p[k] /\ p[k] \in 1..n
    BY <1>6
  <2>2. z[k] = ValueAt(u, values, r[k]) /\ x[k] = ValueAt(s, values, p[k])
    BY <2>1 DEF Chunks
  <2>3. ValueAt(u, values, p[k]) = ValueAt(s, values, p[k])
    <3> DEFINE i == p[k]
    <3>1. i \in 1..n
      BY <2>1
    <3> HIDE DEF i
    <3>2. /\ IsPlaceholder(u, i) <=> IsPlaceholder(s, i)
          /\ IsPlaceholder(s, i) => KeyOf(u, i) = KeyOf(s, i)
      BY <3>1, FirstText
    <3>3. u[i] = s[i]
      BY <3>1, PlacesOf
    <3>4. ValueAt(u, values, i) = ValueAt(s, values, i)
      <4> HIDE DEF u
      <4> QED BY <3>2, <3>3 DEF ValueAt
    <3> QED BY <3>4 DEF i
  <2> QED BY <2>1, <2>2, <2>3
<1>8. \A k \in 1..Len(q) : z[Len(p) + k] = y[k]
  <2> TAKE k \in 1..Len(q)
  <2>1. Len(p) + k \in 1..Len(r) /\ r[Len(p) + k] = n + q[k] /\ q[k] \in 1..Len(t)
    <3> HIDE DEF p, q, r, n
    <3> QED BY <1>6
  <2>2. z[Len(p) + k] = ValueAt(u, values, r[Len(p) + k]) /\ y[k] = ValueAt(t, values, q[k])
    BY <2>1 DEF Chunks
  <2>3. ValueAt(u, values, n + q[k]) = ValueAt(t, values, q[k])
    <3> DEFINE i == q[k]
    <3>1. i \in 1..Len(t)
      BY <2>1
    <3> HIDE DEF i
    <3>2. /\ IsPlaceholder(u, n + i) <=> IsPlaceholder(t, i)
          /\ IsPlaceholder(t, i) => KeyOf(u, n + i) = KeyOf(t, i)
      BY <3>1, SecondText
    <3>3. u[n + i] = t[i]
      BY <3>1, PlacesOf
    <3>4. ValueAt(u, values, n + i) = ValueAt(t, values, i)
      <4> HIDE DEF u, n
      <4> QED BY <3>2, <3>3 DEF ValueAt
    <3> QED BY <3>4 DEF i
  <2> QED BY <2>1, <2>2, <2>3
<1>9. z = x \o y
  <2> DEFINE w == x \o y
  <2> HIDE DEF x, y, z, p, q, r
  <2>1. /\ w \in Seq(Seq(E)) /\ Len(w) = Len(x) + Len(y)
        /\ \A k \in 1..Len(x) : w[k] = x[k]
        /\ \A k \in 1..Len(y) : w[Len(x) + k] = y[k]
    <3>1. x \in Seq(Seq(E)) /\ y \in Seq(Seq(E))
      BY <1>3
    <3> DEFINE F == Seq(E)
    <3> HIDE DEF F
    <3>2. x \in Seq(F) /\ y \in Seq(F)
      BY <3>1 DEF F
    <3>3. /\ x \o y \in Seq(F) /\ Len(x \o y) = Len(x) + Len(y)
          /\ \A k \in 1..Len(x) : (x \o y)[k] = x[k]
          /\ \A k \in 1..Len(y) : (x \o y)[Len(x) + k] = y[k]
      BY <3>2, PlacesOf
    <3> QED BY <3>3 DEF F
  <2> HIDE DEF w
  <2>2. Len(z) = Len(w)
    BY <1>3, <1>4, <1>6, <2>1
  <2>3. ASSUME NEW k \in 1..Len(z) PROVE z[k] = w[k]
    <3>1. k \in 1..Len(p) \/ (k - Len(p) \in 1..Len(q) /\ Len(p) + (k - Len(p)) = k)
      BY <1>4, <1>6
    <3>2. CASE k \in 1..Len(p)
      BY <1>3, <1>7, <2>1, <3>2
    <3>3. CASE k - Len(p) \in 1..Len(q) /\ Len(p) + (k - Len(p)) = k
      <4>1. z[Len(p) + (k - Len(p))] = y[k - Len(p)]
        BY <1>8, <3>3
      <4>2. w[Len(x) + (k - Len(p))] = y[k - Len(p)]
        BY <1>3, <2>1, <3>3
      <4> QED BY <1>3, <3>3, <4>1, <4>2
    <3> QED BY <3>1, <3>2, <3>3
  <2>4. z = w
    BY <1>4, <2>1, <2>2, <2>3, SameText
  <2> QED BY <2>4 DEF w
<1> HIDE DEF x, y, z
<1>10. FlattenSeq(z) = FlattenSeq(x) \o FlattenSeq(y)
  BY <1>3, <1>9, FlattenParts
<1> QED BY <1>10, ReplacedIs DEF x, y, z

-----------------------------------------------------------------------------
(* Texts without a placeholder and with one.                               *)

\* A text of one lexeme stays as it is, whatever the lexeme, and so does nothing.
LEMMA LexemeStays ==
  ASSUME NEW E, NEW c \in E, NEW values, AreTexts(values, E)
  PROVE  ~HasUnknown(<<c>>, values) /\ Replaced(<<c>>, values) = <<c>>
<1> DEFINE s == <<c>>
<1>1. s \in Seq(E) /\ Len(s) = 1 /\ s[1] = c
  OBVIOUS
<1>2. PICK f : f = CHOOSE g : Loop(s, g)
  OBVIOUS
<1>3. \A i \in 1..1 : ~IsPlaceholder(s, i)
  <2>1. \A i \in 1..1 : i = 1 /\ i + 1 = 2
    OBVIOUS
  <2>2. PlacesFrom(s, 1 + 1, "}") = {}
    BY <1>1 DEF PlacesFrom
  <2> HIDE DEF s
  <2>3. ~IsPlaceholder(s, 1)
    BY <2>2, Zenon DEF IsPlaceholder
  <2> QED BY <2>1, <2>3
<1> HIDE DEF s
<1>4. Loop(s, f)
  BY <1>1, <1>2, LoopExists
<1>5. f[1] = {1} \cup f[2] /\ f[2] = {}
  <2>1. NextLook(s, 1) = 2
    BY <1>3 DEF NextLook
  <2>2. ~(1 > Len(s)) /\ 2 > Len(s)
    BY <1>1
  <2>0. \A i \in Nat : ~(i > Len(s)) => f[i] = {i} \cup f[NextLook(s, i)]
    BY <1>4, LoopAt
  <2>3. f[1] = {1} \cup f[NextLook(s, 1)]
    <3>1. 1 \in Nat
      OBVIOUS
    <3> QED BY <2>0, <2>2, <3>1, Zenon
  <2>4. f[2] = {}
    BY <1>4, <2>2, LoopAt
  <2> QED BY <2>1, <2>3, <2>4
<1>6. Looks(s) = {1}
  BY <1>2, <1>5, LooksAre
<1>7. ~HasUnknown(s, values)
  BY <1>3, <1>6 DEF HasUnknown
<1>8. InOrder({1}) \in Seq({1}) /\ Len(InOrder({1})) = 1
  <2>1. Cardinality({1}) = 1
    BY FS_Singleton
  <2>2. {1} \in SUBSET (1..1)
    OBVIOUS
  <2> QED BY <2>1, <2>2, InOrderIs
<1>9. Chunks(s, values) = Append(<<>>, <<c>>)
  <2>1. InOrder({1})[1] = 1
    BY <1>8
  <2>2. ValueAt(s, values, 1) = <<c>>
    BY <1>1, <1>3 DEF ValueAt
  <2>3. Chunks(s, values) = [k \in 1..1 |-> ValueAt(s, values, InOrder({1})[k])]
    BY <1>6, <1>8 DEF Chunks
  <2>4. \A k \in 1..1 : ValueAt(s, values, InOrder({1})[k]) = <<c>>
    BY <2>1, <2>2
  <2>5. Chunks(s, values) = [k \in 1..1 |-> <<c>>]
    BY <2>3, <2>4
  <2> QED BY <2>5
<1>10. FlattenSeq(Append(<<>>, <<c>>)) = <<c>>
  <2>1. <<>> \in Seq(Seq(E)) /\ <<c>> \in Seq(E)
    OBVIOUS
  <2> QED BY <2>1, FlattenAppend
<1>11. Replaced(s, values) = <<c>>
  BY <1>9, <1>10, ReplacedIs
<1> QED BY <1>7, <1>11 DEF s

\* Nothing is replaced in nothing.
LEMMA NothingStays ==
  ASSUME NEW values
  PROVE  ~HasUnknown(<<>>, values) /\ Replaced(<<>>, values) = <<>>
<1>1. <<>> \in Seq({}) /\ Len(<<>>) = 0
  OBVIOUS
<1>2. Looks(<<>>) = {}
  <2>1. Looks(<<>>) \in SUBSET (1..Len(<<>>))
    BY <1>1, LooksType
  <2> QED BY <1>1, <2>1
<1>3. InOrder({}) \in Seq({}) /\ Len(InOrder({})) = 0
  <2>1. Cardinality({}) = 0
    BY FS_EmptySet
  <2>2. {} \in SUBSET (1..0)
    OBVIOUS
  <2> QED BY <2>1, <2>2, InOrderIs
<1>4. Chunks(<<>>, values) = [k \in 1..0 |-> ValueAt(<<>>, values, InOrder({})[k])]
  BY <1>2, <1>3 DEF Chunks
<1>5. [k \in 1..0 |-> ValueAt(<<>>, values, InOrder({})[k])] = <<>>
  OBVIOUS
<1>6. Replaced(<<>>, values) = <<>>
  BY <1>4, <1>5, ReplacedIs, FlattenNothing
<1> QED BY <1>2, <1>6 DEF HasUnknown

\* A text stays as it is when it has no prefix or no suffix.
LEMMA PlainStays ==
  ASSUME NEW E, NEW values, AreTexts(values, E)
  PROVE  \A s \in Seq(E) : IsPlain(s) => ~HasUnknown(s, values) /\ Replaced(s, values) = s
<1> DEFINE H == {s \in Seq(E) : IsPlain(s) => ~HasUnknown(s, values) /\ Replaced(s, values) = s}
<1>1. <<>> \in H
  <2>1. <<>> \in Seq(E)
    OBVIOUS
  <2> QED BY <2>1, NothingStays
<1>2. ASSUME NEW s \in Seq(E), s \in H, NEW c \in E PROVE Append(s, c) \in H
  <2> DEFINE u == Append(s, c)
  <2>1. u = s \o <<c>> /\ <<c>> \in Seq(E) /\ u \in Seq(E)
    BY AppendIs
  <2>2. /\ Len(s) \in Nat /\ Len(u) = Len(s) + 1 /\ u[Len(s) + 1] = c
        /\ \A k \in 1..Len(s) : u[k] = s[k]
    OBVIOUS
  <2> HIDE DEF u
  <2> SUFFICES ASSUME IsPlain(u) PROVE ~HasUnknown(u, values) /\ Replaced(u, values) = u
    BY <2>1 DEF u
  <2>3. \A k \in 1..Len(s) : k \in 1..Len(u)
    BY <2>2
  <2>4. Len(s) + 1 \in 1..Len(u)
    BY <2>2
  <2>5. IsPlain(s) /\ Apart(s, <<c>>)
    <3>1. CASE \A k \in 1..Len(u) : u[k] # "${"
      <4>1. \A k \in 1..Len(s) : s[k] # "${"
        BY <2>2, <2>3, <3>1
      <4> QED BY <4>1 DEF IsPlain, Apart, Unclosed
    <3>2. CASE ~Closes(u)
      <4>1. ~Closes(s)
        BY <2>2, <2>3, <3>2 DEF Closes
      <4>2. ~Closes(<<c>>)
        <5>1. c # "}"
          BY <2>2, <2>4, <3>2 DEF Closes
        <5>2. Len(<<c>>) = 1 /\ \A k \in 1..1 : <<c>>[k] = c
          OBVIOUS
        <5> QED BY <5>1, <5>2 DEF Closes
      <4> QED BY <4>1, <4>2 DEF IsPlain, Apart
    <3> QED BY <3>1, <3>2 DEF IsPlain
  <2>6. ~HasUnknown(s, values) /\ Replaced(s, values) = s
    BY <1>2, <2>5
  <2>7. ~HasUnknown(<<c>>, values) /\ Replaced(<<c>>, values) = <<c>>
    BY LexemeStays
  <2>8. ~HasUnknown(s \o <<c>>, values)
    BY <2>1, <2>5, <2>6, <2>7, UnknownParts
  <2>9. Replaced(s \o <<c>>, values) = s \o <<c>>
    <3> DEFINE d == <<c>>
    <3>0. d \in Seq(E) /\ Apart(s, d) /\ ~HasUnknown(s, values) /\ ~HasUnknown(d, values)
      BY <2>1, <2>5, <2>6, <2>7
    <3> HIDE DEF d, H
    <3>1. Replaced(s \o d, values) = Replaced(s, values) \o Replaced(d, values)
      BY <3>0, ReplacedParts
    <3> USE DEF d
    <3> QED BY <2>6, <2>7, <3>1
  <2> QED BY <2>1, <2>8, <2>9
<1> HIDE DEF H
<1>3. \A s \in Seq(E) : s \in H
  BY <1>1, <1>2, SequencesUpwards
<1> QED BY <1>3 DEF H

\* A placeholder and nothing else becomes the value of its key.
LEMMA PlaceholderAlone ==
  ASSUME NEW E, NEW values, AreTexts(values, E), NEW s \in Seq(E), HasOne(s, 1, Len(s)),
         NEW key, key = LowerCase(SubSeq(s, 2, Len(s) - 1))
  PROVE  /\ HasUnknown(s, values) <=> key \notin DOMAIN values
         /\ key \in DOMAIN values => Replaced(s, values) = values[key]
<1>0. PICK n \in Nat : n = Len(s)
  OBVIOUS
<1>a. n > 1
  BY <1>0 DEF HasOne
<1>1. s[1] = "${" /\ s[n] = "}" /\ \A k \in 2..(n - 1) : s[k] # "}"
  <2>1. 1 < n /\ s[1] = "${" /\ s[n] = "}"
    BY <1>0 DEF HasOne
  <2>2. ASSUME NEW k \in 2..(n - 1) PROVE s[k] # "}"
    <3>1. k \in 1..n /\ 1 < k /\ k < n
      OBVIOUS
    <3> QED BY <1>0, <3>1 DEF HasOne
  <2> QED BY <2>1, <2>2
<1>2. IsPlaceholder(s, 1)
  <2>1. n \in (1 + 1)..n
    BY <1>a
  <2> QED BY <1>0, <1>1, <2>1 DEF IsPlaceholder, PlacesFrom
<1>3. SuffixOf(s, 1) = n
  <2>1. PICK e \in (1 + 1)..n :
          e = SuffixOf(s, 1) /\ s[e] = "}" /\ \A k \in (1 + 1)..(e - 1) : s[k] # "}"
    BY <1>0, <1>2, SuffixIs
  <2>2. e \in 2..(n - 1) \/ e = n
    BY <1>a
  <2> QED BY <1>1, <2>1, <2>2
<1>4. KeyOf(s, 1) = key
  <2>1. KeyOf(s, 1) = LowerCase(SubSeq(s, 1 + 1, n - 1)) /\ 1 + 1 = 2
    BY <1>3 DEF KeyOf
  <2> QED BY <1>0, <2>1
<1>5. PICK f : f = CHOOSE g : Loop(s, g)
  OBVIOUS
<1>6. Loop(s, f)
  BY <1>5, LoopExists
<1>7. f[1] = {1} \cup f[n + 1] /\ f[n + 1] = {}
  <2>1. NextLook(s, 1) = n + 1
    BY <1>2, <1>3 DEF NextLook
  <2>2. ~(1 > Len(s)) /\ n + 1 > Len(s) /\ n + 1 \in Nat
    BY <1>0, <1>a
  <2>0. \A i \in Nat : ~(i > Len(s)) => f[i] = {i} \cup f[NextLook(s, i)]
    BY <1>6, LoopAt
  <2>3. f[1] = {1} \cup f[NextLook(s, 1)]
    <3>1. 1 \in Nat
      OBVIOUS
    <3> QED BY <2>0, <2>2, <3>1, Zenon
  <2>4. f[n + 1] = {}
    BY <1>6, <2>2, LoopAt
  <2> QED BY <2>1, <2>3, <2>4
<1>8. Looks(s) = {1}
  BY <1>5, <1>7, LooksAre
<1>9. HasUnknown(s, values) <=> key \notin DOMAIN values
  BY <1>2, <1>4, <1>8 DEF HasUnknown
<1>10. ASSUME key \in DOMAIN values PROVE Replaced(s, values) = values[key]
  <2> DEFINE v == values[key]
  <2>1. v \in Seq(E)
    BY <1>10 DEF AreTexts
  <2>2. InOrder({1}) \in Seq({1}) /\ Len(InOrder({1})) = 1
    <3>1. Cardinality({1}) = 1
      BY FS_Singleton
    <3>2. {1} \in SUBSET (1..1)
      OBVIOUS
    <3> QED BY <3>1, <3>2, InOrderIs
  <2>3. InOrder({1})[1] = 1
    BY <2>2
  <2>4. ValueAt(s, values, 1) = v
    BY <1>2, <1>4 DEF ValueAt
  <2>5. Chunks(s, values) = [k \in 1..1 |-> ValueAt(s, values, InOrder({1})[k])]
    BY <1>8, <2>2 DEF Chunks
  <2> HIDE DEF v
  <2>6. \A k \in 1..1 : ValueAt(s, values, InOrder({1})[k]) = v
    BY <2>3, <2>4
  <2>7. Chunks(s, values) = [k \in 1..1 |-> v]
    BY <2>5, <2>6
  <2>8. Chunks(s, values) = Append(<<>>, v)
    BY <2>7
  <2>9. FlattenSeq(Append(<<>>, v)) = v
    <3>1. <<>> \in Seq(Seq(E))
      OBVIOUS
    <3> QED BY <2>1, <3>1, FlattenAppend
  <2> QED BY <2>8, <2>9, ReplacedIs DEF v
<1> QED BY <1>9, <1>10

\* A text is what it has before a place, from there to another, and behind that.
Cut(s, b, e, pre, mid, post) ==
  /\ pre = SubSeq(s, 1, b - 1) /\ mid = SubSeq(s, b, e) /\ post = SubSeq(s, e + 1, Len(s))
  /\ Len(pre) = b - 1 /\ \A k \in 1..(b - 1) : pre[k] = s[k]
  /\ Len(mid) = (e - b) + 1 /\ \A k \in 1..((e - b) + 1) : mid[k] = s[(b + k) - 1]
  /\ Len(post) = Len(s) - e /\ \A k \in 1..(Len(s) - e) : post[k] = s[e + k]
  /\ s = (pre \o mid) \o post

\* A script (placeholder.go) can be cut so around each placeholder.
LEMMA ThreeParts ==
  ASSUME NEW E, NEW s \in Seq(E), NEW b \in 1..Len(s), NEW e \in 1..Len(s), b <= e
  PROVE  \E pre, mid, post \in Seq(E) : Cut(s, b, e, pre, mid, post)
<1>1. PICK n \in Nat : n = Len(s)
  OBVIOUS
<1>2. b \in Nat /\ e \in Nat /\ b # 0 /\ e <= n
  BY <1>1
<1>3. PICK pre, mid, post \in Seq(E) :
        pre = SubSeq(s, 1, b - 1) /\ mid = SubSeq(s, b, e) /\ post = SubSeq(s, e + 1, n)
  <2>1. SubSeq(s, 1, b - 1) \in Seq(E) /\ SubSeq(s, b, e) \in Seq(E) /\ SubSeq(s, e + 1, n) \in Seq(E)
    BY <1>1, <1>2
  <2> QED BY <2>1, Zenon
<1>4. Len(pre) = b - 1 /\ \A k \in 1..(b - 1) : pre[k] = s[k]
  BY <1>1, <1>2, <1>3
<1>5. Len(mid) = (e - b) + 1 /\ \A k \in 1..((e - b) + 1) : mid[k] = s[(b + k) - 1]
  <2>1. (e + 1) - b = (e - b) + 1 /\ (e - b) + 1 \in Nat
    BY <1>2
  <2>2. mid = [k \in 1..((e + 1) - b) |-> s[(b + k) - 1]]
    BY <1>3
  <2>3. Len(mid) = (e - b) + 1
    BY <2>1, <2>2
  <2> QED BY <2>1, <2>2, <2>3
<1>6. Len(post) = n - e /\ \A k \in 1..(n - e) : post[k] = s[e + k]
  <2>1. (n + 1) - (e + 1) = n - e /\ n - e \in Nat
    BY <1>2
  <2>2. post = [k \in 1..((n + 1) - (e + 1)) |-> s[((e + 1) + k) - 1]]
    BY <1>3
  <2>3. \A k \in 1..(n - e) : ((e + 1) + k) - 1 = e + k
    BY <1>2
  <2>4. post = [k \in 1..(n - e) |-> s[((e + 1) + k) - 1]]
    BY <2>1, <2>2
  <2>5. Len(post) = n - e
    BY <2>1, <2>4
  <2> QED BY <2>3, <2>4, <2>5
<1>7. PICK two \in Seq(E) : two = pre \o mid
  <2>1. pre \o mid \in Seq(E)
    BY <1>3
  <2> QED BY <2>1, Zenon
<1>8. /\ Len(two) = e
      /\ \A k \in 1..(b - 1) : two[k] = s[k]
      /\ \A k \in 1..((e - b) + 1) : two[(b - 1) + k] = s[(b + k) - 1]
  <2>1. /\ Len(two) = Len(pre) + Len(mid)
        /\ \A k \in 1..Len(pre) : two[k] = pre[k]
        /\ \A k \in 1..Len(mid) : two[Len(pre) + k] = mid[k]
    BY <1>3, <1>7, PlacesOf
  <2>2. (b - 1) + ((e - b) + 1) = e
    BY <1>2
  <2> QED BY <1>4, <1>5, <2>1, <2>2
<1>9. \A k \in 1..e : two[k] = s[k]
  <2> TAKE k \in 1..e
  <2>1. CASE k < b
    <3>1. k \in 1..(b - 1)
      BY <1>2, <2>1
    <3> QED BY <1>8, <3>1
  <2>2. CASE ~(k < b)
    <3>1. PICK l \in 1..((e - b) + 1) : l = (k - b) + 1
      BY <1>2, <2>2
    <3>2. (b - 1) + l = k /\ (b + l) - 1 = k
      BY <1>2, <3>1
    <3> QED BY <1>8, <3>2
  <2> QED BY <2>1, <2>2
<1>10. PICK all \in Seq(E) : all = two \o post
  <2>1. two \o post \in Seq(E)
    BY <1>3
  <2> QED BY <2>1, Zenon
<1>11. /\ Len(all) = n
       /\ \A k \in 1..e : all[k] = s[k]
       /\ \A k \in 1..(n - e) : all[e + k] = s[e + k]
  <2>1. /\ Len(all) = Len(two) + Len(post)
        /\ \A k \in 1..Len(two) : all[k] = two[k]
        /\ \A k \in 1..Len(post) : all[Len(two) + k] = post[k]
    BY <1>3, <1>10, PlacesOf
  <2>2. e + (n - e) = n
    BY <1>2
  <2> QED BY <1>6, <1>8, <1>9, <2>1, <2>2
<1>12. \A k \in 1..n : all[k] = s[k]
  <2> TAKE k \in 1..n
  <2>1. CASE k <= e
    <3>1. k \in 1..e
      BY <1>2, <2>1
    <3> QED BY <1>11, <3>1
  <2>2. CASE ~(k <= e)
    <3>1. PICK l \in 1..(n - e) : l = k - e
      BY <1>2, <2>2
    <3>2. e + l = k
      BY <1>2, <3>1
    <3> QED BY <1>11, <3>2
  <2> QED BY <2>1, <2>2
<1>13. all = s
  BY <1>1, <1>11, <1>12, SameText
<1>14. s = (pre \o mid) \o post
  BY <1>7, <1>10, <1>13
<1>15. Cut(s, b, e, pre, mid, post)
  BY <1>1, <1>3, <1>4, <1>5, <1>6, <1>14, Zenon DEF Cut
<1> QED BY <1>15

\* A prefix that waits for its suffix in two texts in a row waits in one of them.
LEMMA UnclosedParts ==
  ASSUME NEW E, NEW s \in Seq(E), NEW t \in Seq(E), Unclosed(s \o t)
  PROVE  Unclosed(s) \/ Unclosed(t)
<1>1. PICK n \in Nat, m \in Nat : n = Len(s) /\ m = Len(t)
  OBVIOUS
<1>2. PICK u \in Seq(E) : u = s \o t
  <2>1. s \o t \in Seq(E)
    OBVIOUS
  <2> QED BY <2>1, Zenon
<1>3. Len(u) = n + m /\ (\A k \in 1..n : u[k] = s[k]) /\ \A k \in 1..m : u[n + k] = t[k]
  BY <1>1, <1>2, PlacesOf
<1>4. PICK i \in 1..(n + m) : u[i] = "${" /\ \A k \in (i + 1)..(n + m) : u[k] # "}"
  BY <1>2, <1>3 DEF Unclosed
<1>5. CASE i <= n
  <2>1. i \in 1..n
    BY <1>5
  <2>2. \A k \in (i + 1)..n : k \in (i + 1)..(n + m) /\ k \in 1..n
    BY <2>1
  <2>3. \A k \in (i + 1)..n : s[k] # "}"
    BY <1>3, <1>4, <2>2
  <2> QED BY <1>1, <1>3, <1>4, <2>1, <2>3 DEF Unclosed
<1>6. CASE ~(i <= n)
  <2>1. PICK j \in 1..m : n + j = i
    <3>1. i - n \in 1..m /\ n + (i - n) = i
      BY <1>6
    <3> QED BY <3>1
  <2>2. \A k \in (j + 1)..m : n + k \in (i + 1)..(n + m) /\ k \in 1..m
    BY <2>1
  <2>3. \A k \in (j + 1)..m : t[k] # "}"
    BY <1>3, <1>4, <2>2
  <2>4. t[j] = "${"
    BY <1>3, <1>4, <2>1
  <2> QED BY <1>1, <2>3, <2>4 DEF Unclosed
<1> QED BY <1>5, <1>6

\* In a text with one placeholder, that becomes the value of its key and the rest
\* stays (replacePlaceholders).
LEMMA OneReplaced ==
  ASSUME NEW E, NEW values, AreTexts(values, E), NEW s \in Seq(E),
         NEW b \in 1..Len(s), NEW e \in 1..Len(s), HasOne(s, b, e),
         NEW key, key = LowerCase(SubSeq(s, b + 1, e - 1))
  PROVE  /\ HasUnknown(s, values) <=> key \notin DOMAIN values
         /\ key \in DOMAIN values =>
              Replaced(s, values) = SubSeq(s, 1, b - 1) \o values[key] \o SubSeq(s, e + 1, Len(s))
<1>1. PICK n \in Nat : n = Len(s)
  OBVIOUS
<1>2. s[b] = "${" /\ s[e] = "}"
  BY DEF HasOne
<1>d. b < e
  BY DEF HasOne
<1>3. b \in Nat /\ e \in Nat /\ b # 0 /\ e <= n /\ b < e
  BY <1>1, <1>d
<1>4. PICK pre, mid, post \in Seq(E) :
        /\ pre = SubSeq(s, 1, b - 1) /\ mid = SubSeq(s, b, e)
        /\ post = SubSeq(s, e + 1, Len(s))
        /\ Len(pre) = b - 1 /\ \A k \in 1..(b - 1) : pre[k] = s[k]
        /\ Len(mid) = (e - b) + 1 /\ \A k \in 1..((e - b) + 1) : mid[k] = s[(b + k) - 1]
        /\ Len(post) = Len(s) - e /\ \A k \in 1..(Len(s) - e) : post[k] = s[e + k]
        /\ s = (pre \o mid) \o post
  <2>1. \E pre, mid, post \in Seq(E) : Cut(s, b, e, pre, mid, post)
    BY <1>d, ThreeParts
  <2> QED BY <2>1 DEF Cut
<1>a. Len(pre) = b - 1 /\ \A k \in 1..(b - 1) : pre[k] = s[k]
  BY <1>4
<1>b. Len(mid) = (e - b) + 1 /\ \A k \in 1..((e - b) + 1) : mid[k] = s[(b + k) - 1]
  BY <1>4
<1>c. Len(post) = n - e /\ \A k \in 1..(n - e) : post[k] = s[e + k]
  BY <1>1, <1>4
<1>5. s = (pre \o mid) \o post /\ key = LowerCase(SubSeq(s, b + 1, e - 1))
  BY <1>4
<1>6. \A k \in 1..n : (k < b \/ e < k => s[k] # "${") /\ (b < k /\ k < e => s[k] # "}")
  BY <1>1 DEF HasOne
<1>7. \A k \in 1..Len(pre) : pre[k] # "${"
  <2>1. \A k \in 1..(b - 1) : k \in 1..n /\ k < b
    BY <1>3
  <2> QED BY <1>6, <1>a, <2>1
<1>8. \A k \in 1..Len(post) : post[k] # "${"
  <2>1. \A k \in 1..(n - e) : e + k \in 1..n /\ e < e + k
    BY <1>3
  <2> QED BY <1>6, <1>c, <2>1
<1>9. PICK m \in Nat : m = (e - b) + 1 /\ m > 1 /\ Len(mid) = m
  <2>1. (e - b) + 1 \in Nat /\ (e - b) + 1 > 1
    BY <1>3
  <2> QED BY <1>b, <2>1
<1>10. mid[1] = "${" /\ mid[m] = "}" /\ \A k \in 2..(m - 1) : mid[k] # "}"
  <2>1. 1 \in 1..m /\ m \in 1..m /\ (b + 1) - 1 = b /\ (b + m) - 1 = e
    BY <1>3, <1>9
  <2>2. \A k \in 2..(m - 1) :
          k \in 1..m /\ (b + k) - 1 \in 1..n /\ b < (b + k) - 1 /\ (b + k) - 1 < e
    BY <1>3, <1>9
  <2>3. \A k \in 1..m : mid[k] = s[(b + k) - 1]
    BY <1>9, <1>b
  <2>4. mid[1] = "${" /\ mid[m] = "}"
    BY <1>2, <2>1, <2>3
  <2> QED BY <1>6, <2>2, <2>3, <2>4
<1>11. HasOne(mid, 1, Len(mid))
  <2>1. \A k \in 1..m : ~(k < 1 \/ m < k) /\ (1 < k /\ k < m => k \in 2..(m - 1))
    BY <1>9
  <2> QED BY <1>9, <1>10, <2>1 DEF HasOne
<1>12. key = LowerCase(SubSeq(mid, 2, Len(mid) - 1))
  <2>1. SubSeq(s, b + 1, e - 1) = [k \in 1..(((e - 1) + 1) - (b + 1)) |-> s[((b + 1) + k) - 1]]
    OBVIOUS
  <2>2. SubSeq(mid, 2, m - 1) = [k \in 1..(((m - 1) + 1) - 2) |-> mid[(2 + k) - 1]]
    OBVIOUS
  <2>3. ((e - 1) + 1) - (b + 1) = m - 2 /\ ((m - 1) + 1) - 2 = m - 2
    BY <1>3, <1>9
  <2>4. \A k \in 1..(m - 2) : (2 + k) - 1 \in 1..m /\ (b + ((2 + k) - 1)) - 1 = ((b + 1) + k) - 1
    BY <1>3, <1>9
  <2>5. \A k \in 1..(m - 2) : mid[(2 + k) - 1] = s[((b + 1) + k) - 1]
    <3>1. \A k \in 1..m : mid[k] = s[(b + k) - 1]
      BY <1>9, <1>b
    <3> QED BY <2>4, <3>1
  <2>6. SubSeq(mid, 2, m - 1) = [k \in 1..(m - 2) |-> mid[(2 + k) - 1]]
    BY <2>2, <2>3
  <2>7. SubSeq(s, b + 1, e - 1) = [k \in 1..(m - 2) |-> s[((b + 1) + k) - 1]]
    BY <2>1, <2>3
  <2>8. SubSeq(mid, 2, m - 1) = SubSeq(s, b + 1, e - 1)
    BY <2>5, <2>6, <2>7
  <2> QED BY <1>5, <1>9, <2>8
<1>13. HasUnknown(mid, values) <=> key \notin DOMAIN values
  BY <1>11, <1>12, PlaceholderAlone
<1>14. key \in DOMAIN values => Replaced(mid, values) = values[key]
  BY <1>11, <1>12, PlaceholderAlone
<1>15. ~HasUnknown(pre, values) /\ Replaced(pre, values) = pre
       /\ ~HasUnknown(post, values) /\ Replaced(post, values) = post
  <2>1. IsPlain(pre) /\ IsPlain(post)
    BY <1>7, <1>8 DEF IsPlain
  <2> QED BY <1>5, <2>1, PlainStays
<1>16. PICK two \in Seq(E) : two = pre \o mid
  <2>1. pre \o mid \in Seq(E)
    BY <1>5
  <2> QED BY <2>1, Zenon
<1>17. ~Unclosed(pre) /\ ~Unclosed(mid)
  <2>1. ~Unclosed(pre)
    BY <1>7 DEF Unclosed
  <2>2. ~Unclosed(mid)
    <3>2. \A i \in 1..m : i # m => m \in (i + 1)..m
      BY <1>9
    <3> SUFFICES ASSUME NEW i \in 1..m, mid[i] = "${", \A k \in (i + 1)..m : mid[k] # "}" PROVE FALSE
      BY <1>9 DEF Unclosed
    <3>1. i # m
      BY <1>10
    <3> QED BY <1>10, <3>2
  <2> QED BY <2>1, <2>2
<1>18. Apart(pre, mid) /\ Apart(two, post)
  <2>1. ~Unclosed(two)
    BY <1>5, <1>16, <1>17, UnclosedParts
  <2> QED BY <1>17, <2>1 DEF Apart
<1>19. HasUnknown(two, values) <=> key \notin DOMAIN values
  BY <1>5, <1>13, <1>15, <1>16, <1>18, UnknownParts
<1>20. HasUnknown(s, values) <=> key \notin DOMAIN values
  <2>1. HasUnknown(two \o post, values) <=> HasUnknown(two, values) \/ HasUnknown(post, values)
    BY <1>5, <1>18, UnknownParts
  <2> QED BY <1>5, <1>15, <1>16, <1>19, <2>1
<1>21. ASSUME key \in DOMAIN values PROVE Replaced(s, values) = pre \o values[key] \o post
  <2>1. ~HasUnknown(two, values) /\ ~HasUnknown(mid, values) /\ ~HasUnknown(pre, values)
        /\ ~HasUnknown(post, values)
    BY <1>13, <1>15, <1>19, <1>21
  <2>2. Replaced(pre \o mid, values) = Replaced(pre, values) \o Replaced(mid, values)
    BY <1>5, <1>18, <2>1, ReplacedParts
  <2>3. Replaced(two \o post, values) = Replaced(two, values) \o Replaced(post, values)
    BY <1>5, <1>18, <2>1, ReplacedParts
  <2> QED BY <1>5, <1>14, <1>15, <1>16, <1>21, <2>2, <2>3
<1> QED BY <1>4, <1>20, <1>21

-----------------------------------------------------------------------------
(* Texts made of pieces.                                                   *)

\* The first k of some texts.
UpTo(x, k) == [i \in 1..k |-> x[i]]

\* Texts one after another, up to each.
LEMMA UpToIs ==
  ASSUME NEW E, NEW x \in Seq(Seq(E))
  PROVE  /\ FlattenSeq(UpTo(x, 0)) = <<>> /\ FlattenSeq(UpTo(x, Len(x))) = FlattenSeq(x)
         /\ \A k \in 0..Len(x) : UpTo(x, k) \in Seq(Seq(E)) /\ FlattenSeq(UpTo(x, k)) \in Seq(E)
         /\ \A k \in 0..Len(x) : k + 1 <= Len(x) =>
              x[k + 1] \in Seq(E) /\ FlattenSeq(UpTo(x, k + 1)) = FlattenSeq(UpTo(x, k)) \o x[k + 1]
<1> DEFINE F == Seq(E)
<1>0. x \in Seq(F)
  OBVIOUS
<1> HIDE DEF F
<1>1. UpTo(x, 0) = <<>> /\ UpTo(x, Len(x)) = x
  BY <1>0 DEF UpTo
<1>2. ASSUME NEW k \in 0..Len(x) PROVE UpTo(x, k) \in Seq(F)
  <2>1. \A i \in 1..k : x[i] \in F
    BY <1>0
  <2> QED BY <1>0, <2>1 DEF UpTo
<1>3. ASSUME NEW k \in 0..Len(x), k + 1 <= Len(x)
      PROVE  x[k + 1] \in F /\ UpTo(x, k + 1) = Append(UpTo(x, k), x[k + 1])
  <2>1. x[k + 1] \in F
    BY <1>0, <1>3
  <2>2. Append(UpTo(x, k), x[k + 1]) = [i \in 1..(k + 1) |-> IF i <= k THEN x[i] ELSE x[k + 1]]
    BY <1>2 DEF UpTo
  <2>3. \A i \in 1..(k + 1) : (IF i <= k THEN x[i] ELSE x[k + 1]) = x[i]
    <3> TAKE i \in 1..(k + 1)
    <3>1. i <= k \/ i = k + 1
      OBVIOUS
    <3> QED BY <3>1
  <2> QED BY <2>1, <2>2, <2>3 DEF UpTo
<1>4. \A k \in 0..Len(x) : UpTo(x, k) \in Seq(Seq(E))
  BY <1>2 DEF F
<1>5. \A k \in 0..Len(x) : FlattenSeq(UpTo(x, k)) \in Seq(E)
  BY <1>4, FlattenType
<1>6. ASSUME NEW k \in 0..Len(x), k + 1 <= Len(x)
      PROVE  FlattenSeq(UpTo(x, k + 1)) = FlattenSeq(UpTo(x, k)) \o x[k + 1]
  <2>1. UpTo(x, k) \in Seq(Seq(E)) /\ x[k + 1] \in Seq(E)
    BY <1>3, <1>4, <1>6 DEF F
  <2>2. FlattenSeq(Append(UpTo(x, k), x[k + 1])) = FlattenSeq(UpTo(x, k)) \o x[k + 1]
    BY <2>1, FlattenMore
  <2> QED BY <1>3, <1>6, <2>2
<1> QED BY <1>1, <1>3, <1>4, <1>5, <1>6, FlattenNothing DEF F

\* A script asks for no transaction when one of its directives is on a line of its
\* own, wherever in the script that is, or a longer element of it has a line that looks
\* like one (scriptRequestsNoTransaction).
LEMMA DirectivesIn ==
  ASSUME NEW E, NEW x \in Seq(Seq(E)), NEW D \in SUBSET (1..Len(x)), NEW H \in SUBSET (1..Len(x)),
         \A i \in 1..Len(x) :
           /\ i \in D <=> Opens(x[i])
           /\ i \in H <=> Hides(x[i])
           /\ Mentions(x[i]) => ~EndsInComment(FlattenSeq(UpTo(x, i - 1)))
  PROVE  RequestsNoTransaction(FlattenSeq(x)) <=>
           (\E i \in D : EndsBlank(FlattenSeq(UpTo(x, i - 1)))) \/ H # {}
<1>1. PICK n \in Nat : n = Len(x)
  OBVIOUS
<1> DEFINE t(k) == FlattenSeq(UpTo(x, k))
           Alone(k) == \E i \in D : i <= k /\ EndsBlank(t(i - 1))
           Within(k) == \E i \in H : i <= k
           N == {k \in Nat : k <= n => (RequestsNoTransaction(t(k)) <=> Alone(k) \/ Within(k))}
<1>2. /\ t(0) = <<>> /\ t(n) = FlattenSeq(x)
      /\ \A k \in 0..n : t(k) \in Seq(E)
      /\ \A k \in 0..n : k + 1 <= n => x[k + 1] \in Seq(E) /\ t(k + 1) = t(k) \o x[k + 1]
  BY <1>1, UpToIs
<1>3. D \in SUBSET (1..n) /\ H \in SUBSET (1..n)
  BY <1>1
<1>0. \A i \in 1..n : /\ i \in D <=> Opens(x[i])
                      /\ i \in H <=> Hides(x[i])
                      /\ Mentions(x[i]) => ~EndsInComment(t(i - 1))
  BY <1>1
<1> HIDE DEF t
<1>4. 0 \in N
  <2>1. ~RequestsNoTransaction(<<>>)
    BY DEF RequestsNoTransaction
  <2>2. ~Alone(0) /\ ~Within(0)
    <3>1. (\A i \in D : ~(i <= 0)) /\ \A i \in H : ~(i <= 0)
      BY <1>3
    <3> QED BY <3>1
  <2> QED BY <1>2, <2>1, <2>2
<1>5. ASSUME NEW k \in Nat, k \in N PROVE k + 1 \in N
  <2> SUFFICES ASSUME k + 1 <= n
               PROVE  RequestsNoTransaction(t(k + 1)) <=> Alone(k + 1) \/ Within(k + 1)
    OBVIOUS
  <2>1. k \in 0..n /\ k <= n /\ k + 1 \in 1..n /\ (k + 1) - 1 = k
    BY <1>1
  <2>2. RequestsNoTransaction(t(k)) <=> Alone(k) \/ Within(k)
    BY <1>5, <2>1
  <2>3. PICK s \in Seq(E), p \in Seq(E) : s = t(k) /\ p = x[k + 1] /\ t(k + 1) = s \o p
    BY <1>2, <2>1
  <2>4. /\ k + 1 \in D <=> Opens(p)
        /\ k + 1 \in H <=> Hides(p)
        /\ Mentions(p) => ~EndsInComment(s)
    BY <1>0, <2>1, <2>3
  <2>5. RequestsNoTransaction(s \o p) <=>
          RequestsNoTransaction(s) \/ Hides(p) \/ (EndsBlank(s) /\ Opens(p))
    BY <2>4, DirectiveBehind
  <2> HIDE DEF N
  <2>6. Alone(k + 1) <=> Alone(k) \/ (k + 1 \in D /\ EndsBlank(s))
    <3>1. \A i \in D : i <= k + 1 <=> i <= k \/ i = k + 1
      BY <1>3
    <3>2. EndsBlank(t((k + 1) - 1)) <=> EndsBlank(s)
      BY <2>1, <2>3
    <3> QED BY <3>1, <3>2
  <2>7. Within(k + 1) <=> Within(k) \/ k + 1 \in H
    <3>1. \A i \in H : i <= k + 1 <=> i <= k \/ i = k + 1
      BY <1>3
    <3> QED BY <3>1
  <2> HIDE DEF Alone, Within
  <2> QED BY <2>2, <2>3, <2>4, <2>5, <2>6, <2>7
<1>6. n \in N
  <2> HIDE DEF N
  <2> QED BY <1>4, <1>5, NumbersUpwards
<1>7. RequestsNoTransaction(FlattenSeq(x)) <=> Alone(n) \/ Within(n)
  BY <1>2, <1>6
<1>8. (\A i \in D : i <= n) /\ \A i \in H : i <= n
  BY <1>3
<1>9. Alone(n) <=> \E i \in D : EndsBlank(FlattenSeq(UpTo(x, i - 1)))
  BY <1>8 DEF t
<1>10. Within(n) <=> H # {}
  BY <1>8
<1> HIDE DEF Alone, Within
<1> QED BY <1>7, <1>9, <1>10

\* A text ends with a line of blanks when behind some newline, or nothing, all is
\* blank: the last newline will do.
LEMMA EndsBlankIs ==
  ASSUME NEW E, NEW s \in Seq(E), "nl" \in Blank
  PROVE  EndsBlank(s) <=> \E b \in 0..Len(s) :
                            (b = 0 \/ s[b] = "nl") /\ \A j \in (b + 1)..Len(s) : s[j] \in Blank
<1>1. PICK n \in Nat : n = Len(s)
  OBVIOUS
<1>2. (n + 1) - 1 = n
  OBVIOUS
<1>3. ASSUME EndsBlank(s)
      PROVE  \E b \in 0..n : (b = 0 \/ s[b] = "nl") /\ \A j \in (b + 1)..n : s[j] \in Blank
  BY <1>1, <1>2, <1>3 DEF EndsBlank, LineBehind
<1>4. ASSUME NEW b \in 0..n, b = 0 \/ s[b] = "nl", \A j \in (b + 1)..n : s[j] \in Blank
      PROVE  EndsBlank(s)
  <2> DEFINE S == {b} \cup {j \in (b + 1)..n : s[j] = "nl"}
  <2>1. S \in SUBSET Nat /\ S # {} /\ \A j \in S : j <= n
    BY <1>4
  <2>2. Max(S) \in S /\ \A j \in S : Max(S) >= j
    <3> HIDE DEF S
    <3> QED BY <2>1, MaxOf
  <2>3. PICK m \in S : \A j \in S : m >= j
    BY <2>2
  <2>4. m \in 0..n /\ (m = 0 \/ s[m] = "nl") /\ m >= b
    BY <1>4
  <2>5. ASSUME NEW j \in (m + 1)..n PROVE s[j] \in Blank /\ s[j] # "nl"
    <3>1. j \in (b + 1)..n /\ ~(m >= j)
      BY <2>4
    <3>2. s[j] # "nl"
      BY <2>3, <3>1
    <3> QED BY <1>4, <3>1, <3>2
  <2>6. \A j \in (m + 1)..((n + 1) - 1) : s[j] \in Blank \ {"nl"}
    BY <1>2, <2>5
  <2>7. LineBehind(s, m, n + 1)
    BY <2>4, <2>6 DEF LineBehind
  <2> QED BY <1>1, <2>4, <2>7 DEF EndsBlank
<1> QED BY <1>1, <1>3, <1>4

\* What a script becomes is what its pieces become, one after another, when no piece
\* leaves a prefix that a later one would close (replacePlaceholders).
LEMMA ReplacedPieces ==
  ASSUME NEW E, NEW values, AreTexts(values, E), NEW x \in Seq(Seq(E)), NEW y \in Seq(Seq(E)),
         Len(x) = Len(y), NEW U \in SUBSET (1..Len(x)),
         \A i \in 1..Len(x) : HasUnknown(x[i], values) <=> i \in U,
         \A i \in 1..Len(x) : i \notin U => Replaced(x[i], values) = y[i],
         \A i, j \in 1..Len(x) : i < j => ~(Unclosed(x[i]) /\ Closes(x[j]))
  PROVE  /\ HasUnknown(FlattenSeq(x), values) <=> U # {}
         /\ U = {} => Replaced(FlattenSeq(x), values) = FlattenSeq(y)
<1>a. \A s, p \in Seq(E) : Apart(s, p) /\ ~HasUnknown(s, values) /\ ~HasUnknown(p, values)
          => Replaced(s \o p, values) = Replaced(s, values) \o Replaced(p, values)
  BY ReplacedParts
<1>1. PICK n \in Nat : n = Len(x) /\ n = Len(y)
  OBVIOUS
<1> DEFINE t(k) == FlattenSeq(UpTo(x, k))
           v(k) == FlattenSeq(UpTo(y, k))
           Open(k) == \E i \in 1..k : Unclosed(x[i])
           N == {k \in Nat : k <= n =>
                   /\ HasUnknown(t(k), values) <=> \E i \in U : i <= k
                   /\ (\A i \in U : ~(i <= k)) => Replaced(t(k), values) = v(k)
                   /\ Unclosed(t(k)) => Open(k)}
<1>2. /\ t(0) = <<>> /\ t(n) = FlattenSeq(x)
      /\ \A k \in 0..n : t(k) \in Seq(E)
      /\ \A k \in 0..n : k + 1 <= n => x[k + 1] \in Seq(E) /\ t(k + 1) = t(k) \o x[k + 1]
  BY <1>1, UpToIs
<1>3. /\ v(0) = <<>> /\ v(n) = FlattenSeq(y)
      /\ \A k \in 0..n : v(k) \in Seq(E)
      /\ \A k \in 0..n : k + 1 <= n => y[k + 1] \in Seq(E) /\ v(k + 1) = v(k) \o y[k + 1]
  BY <1>1, UpToIs
<1>4. U \in SUBSET (1..n)
  BY <1>1
<1> HIDE DEF t, v
<1>5. 0 \in N
  <2>1. ~HasUnknown(<<>>, values) /\ Replaced(<<>>, values) = <<>>
    BY NothingStays
  <2>2. ~Unclosed(<<>>)
    <3>1. Len(<<>>) = 0 /\ 1..0 = {}
      OBVIOUS
    <3> QED BY <3>1, Zenon DEF Unclosed
  <2>3. \A i \in U : ~(i <= 0)
    BY <1>4
  <2> QED BY <1>2, <1>3, <2>1, <2>2, <2>3
<1>6. ASSUME NEW k \in Nat, k \in N PROVE k + 1 \in N
  <2> SUFFICES ASSUME k + 1 <= n
               PROVE  /\ HasUnknown(t(k + 1), values) <=> \E i \in U : i <= k + 1
                      /\ (\A i \in U : ~(i <= k + 1)) => Replaced(t(k + 1), values) = v(k + 1)
                      /\ Unclosed(t(k + 1)) => Open(k + 1)
    OBVIOUS
  <2>1. k \in 0..n /\ k <= n /\ k + 1 \in 1..n
    OBVIOUS
  <2>2. /\ HasUnknown(t(k), values) <=> \E i \in U : i <= k
        /\ (\A i \in U : ~(i <= k)) => Replaced(t(k), values) = v(k)
        /\ Unclosed(t(k)) => Open(k)
    BY <1>6, <2>1
  <2>3. PICK s \in Seq(E), p \in Seq(E) : s = t(k) /\ p = x[k + 1] /\ t(k + 1) = s \o p
    BY <1>2, <2>1
  <2>4. v(k + 1) = v(k) \o y[k + 1]
    BY <1>3, <2>1
  <2>5. \A i \in U : i <= k + 1 <=> i <= k \/ i = k + 1
    BY <1>4
  <2>6. /\ HasUnknown(p, values) <=> k + 1 \in U
        /\ k + 1 \notin U => Replaced(p, values) = y[k + 1]
    BY <1>1, <2>1, <2>3
  <2>7. Apart(s, p)
    <3> SUFFICES ASSUME Unclosed(s), Closes(p) PROVE FALSE
      BY DEF Apart
    <3>1. PICK i \in 1..k : Unclosed(x[i])
      BY <2>2, <2>3
    <3>2. i \in 1..n /\ i < k + 1
      BY <2>1
    <3> QED BY <1>1, <2>1, <2>3, <3>1, <3>2
  <2> HIDE DEF N
  <2>8. HasUnknown(s \o p, values) <=> HasUnknown(s, values) \/ HasUnknown(p, values)
    BY <2>7, UnknownParts
  <2>9. HasUnknown(t(k + 1), values) <=> \E i \in U : i <= k + 1
    BY <2>2, <2>3, <2>5, <2>6, <2>8
  <2>10. ASSUME \A i \in U : ~(i <= k + 1) PROVE Replaced(t(k + 1), values) = v(k + 1)
    <3>1. k + 1 \notin U /\ \A i \in U : ~(i <= k)
      <4>1. k + 1 <= k + 1
        OBVIOUS
      <4> QED BY <2>5, <2>10, <4>1
    <3>2. ~HasUnknown(s, values) /\ Replaced(s, values) = v(k)
      BY <2>2, <2>3, <3>1
    <3>3. ~HasUnknown(p, values) /\ Replaced(p, values) = y[k + 1]
      BY <2>6, <3>1
    <3>4. Replaced(s \o p, values) = Replaced(s, values) \o Replaced(p, values)
      BY <1>a, <2>7, <3>2, <3>3
    <3> QED BY <2>3, <2>4, <3>2, <3>3, <3>4
  <2>11. ASSUME Unclosed(t(k + 1)) PROVE Open(k + 1)
    <3>1. Unclosed(s) \/ Unclosed(p)
      BY <2>3, <2>11, UnclosedParts
    <3>2. \A i \in 1..k : i \in 1..(k + 1)
      OBVIOUS
    <3>3. k + 1 \in 1..(k + 1)
      OBVIOUS
    <3> QED BY <2>2, <2>3, <3>1, <3>2, <3>3
  <2> QED BY <2>9, <2>10, <2>11
<1>7. n \in N
  <2> HIDE DEF N
  <2> QED BY <1>5, <1>6, NumbersUpwards
<1>8. \A i \in U : i <= n
  BY <1>4
<1>9. /\ HasUnknown(t(n), values) <=> \E i \in U : i <= n
      /\ (\A i \in U : ~(i <= n)) => Replaced(t(n), values) = v(n)
  BY <1>7
<1>10. HasUnknown(FlattenSeq(x), values) <=> U # {}
  BY <1>2, <1>8, <1>9
<1>11. U = {} => Replaced(FlattenSeq(x), values) = FlattenSeq(y)
  BY <1>2, <1>3, <1>9
<1> QED BY <1>10, <1>11

-----------------------------------------------------------------------------
(* The elements that the splitter skips.                                   *)

\* copyQuoted and copySingleQuoted, taken apart: where they go on from place j.
QuotedBody(s, q, escapes, f, j) ==
  IF j > Len(s) THEN Len(s) + 1
  ELSE IF escapes /\ s[j] = "bs" /\ j < Len(s) THEN f[j + 2]
  ELSE IF s[j] # q THEN f[j + 1]
  ELSE IF j < Len(s) /\ s[j + 1] = q THEN f[j + 2]
  ELSE j + 1
QuotedLoop(s, q, escapes, f) == f = [j \in Nat |-> QuotedBody(s, q, escapes, f, j)]

\* What their loops compute from the place behind the quote on (parser.go).
LEMMA PastQuotedIs ==
  ASSUME NEW s, NEW i, NEW escapes
  PROVE  PastQuoted(s, i, escapes) = (CHOOSE f : QuotedLoop(s, s[i], escapes, f))[i + 1]
BY DEF PastQuoted, QuotedLoop, QuotedBody

\* Their loops end, as they only go forward: the recursive function exists.
LEMMA QuotedExists ==
  ASSUME NEW E, NEW s \in Seq(E), NEW q, NEW escapes
  PROVE  \E f : QuotedLoop(s, q, escapes, f)
<1> DEFINE n == Len(s)
           Right(f, d) == \A j \in Nat : j + d > n => f[j] = QuotedBody(s, q, escapes, f, j)
           N == {d \in Nat : \E f : Right(f, d)}
<1>0. n \in Nat
  OBVIOUS
<1> HIDE DEF n
<1>1. 0 \in N
  <2> DEFINE f == [j \in Nat |-> n + 1]
  <2>1. ASSUME NEW j \in Nat, j > n PROVE f[j] = QuotedBody(s, q, escapes, f, j)
    BY <2>1 DEF QuotedBody, n
  <2> HIDE DEF f
  <2>2. Right(f, 0)
    BY <2>1
  <2> QED BY <2>2
<1>2. ASSUME NEW d \in Nat, d \in N PROVE d + 1 \in N
  <2>1. PICK f : Right(f, d)
    BY <1>2
  <2> DEFINE g == [j \in Nat |-> IF j + d > n THEN f[j] ELSE QuotedBody(s, q, escapes, f, j)]
  <2>2. ASSUME NEW j \in Nat, j + d > n PROVE g[j] = f[j]
    BY <2>2
  <2>3. ASSUME NEW j \in Nat, j + (d + 1) > n PROVE g[j] = QuotedBody(s, q, escapes, f, j)
    BY <2>1
  <2> HIDE DEF g
  <2>4. ASSUME NEW j \in Nat, j + (d + 1) > n PROVE g[j] = QuotedBody(s, q, escapes, g, j)
    <3>1. g[j + 1] = f[j + 1] /\ g[j + 2] = f[j + 2]
      <4>1. j + 1 \in Nat /\ j + 2 \in Nat /\ (j + 1) + d > n /\ (j + 2) + d > n
        BY <1>0, <2>4
      <4> QED BY <2>2, <4>1
    <3>2. QuotedBody(s, q, escapes, g, j) = QuotedBody(s, q, escapes, f, j)
      BY <3>1 DEF QuotedBody
    <3> QED BY <2>3, <2>4, <3>2
  <2>5. Right(g, d + 1)
    BY <2>4
  <2>6. d + 1 \in Nat
    OBVIOUS
  <2> HIDE DEF Right
  <2> QED BY <2>5, <2>6
<1>3. n + 1 \in N
  <2>1. \A d \in Nat : d \in N
    <3> HIDE DEF N
    <3> QED BY <1>1, <1>2, NumbersUpwards
  <2>2. n + 1 \in Nat
    BY <1>0
  <2> HIDE DEF N
  <2> QED BY <2>1, <2>2
<1>4. PICK f : Right(f, n + 1)
  BY <1>3
<1> DEFINE g == [j \in Nat |-> QuotedBody(s, q, escapes, f, j)]
<1>5. \A j \in Nat : g[j] = f[j]
  <2> TAKE j \in Nat
  <2>1. j + (n + 1) > n
    BY <1>0
  <2> QED BY <1>4, <2>1
<1>6. ASSUME NEW j \in Nat PROVE QuotedBody(s, q, escapes, g, j) = QuotedBody(s, q, escapes, f, j)
  <2>1. g[j + 1] = f[j + 1] /\ g[j + 2] = f[j + 2]
    BY <1>5
  <2> HIDE DEF g
  <2> QED BY <2>1 DEF QuotedBody
<1>7. g = [j \in Nat |-> QuotedBody(s, q, escapes, g, j)]
  <2> DEFINE body(j) == QuotedBody(s, q, escapes, f, j)
             other(j) == QuotedBody(s, q, escapes, g, j)
  <2>1. \A j \in Nat : body(j) = other(j)
    BY <1>6
  <2>2. g = [j \in Nat |-> body(j)]
    OBVIOUS
  <2> HIDE DEF g, body, other
  <2>3. g = [j \in Nat |-> other(j)]
    BY <2>1, <2>2
  <2> QED BY <2>3 DEF other
<1> QED BY <1>7 DEF QuotedLoop

\* One round of it.
LEMMA QuotedAt ==
  ASSUME NEW s, NEW q, NEW escapes, NEW f, QuotedLoop(s, q, escapes, f), NEW j \in Nat
  PROVE  f[j] = QuotedBody(s, q, escapes, f, j)
<1> DEFINE body(k) == QuotedBody(s, q, escapes, f, k)
<1>1. f = [k \in Nat |-> body(k)]
  BY Zenon DEF QuotedLoop
<1> HIDE DEF body
<1>2. f[j] = body(j)
  BY <1>1, Zenon
<1> QED BY <1>2 DEF body

\* A quoted element ends behind the quote it begins with, at the latest with the
\* script (parser.go).
LEMMA QuotedForward ==
  ASSUME NEW E, NEW s \in Seq(E), NEW i \in 1..Len(s), NEW escapes
  PROVE  PastQuoted(s, i, escapes) \in (i + 1)..(Len(s) + 1)
<1>1. PICK n \in Nat : n = Len(s)
  OBVIOUS
<1>2. PICK f : QuotedLoop(s, s[i], escapes, f) /\ PastQuoted(s, i, escapes) = f[i + 1]
  BY QuotedExists, PastQuotedIs
<1>3. \A j \in Nat : f[j] = QuotedBody(s, s[i], escapes, f, j)
  BY <1>2, QuotedAt
<1> DEFINE H == {j \in Nat : j <= n + 1 => f[j] \in j..(n + 1)}
<1>4. ASSUME NEW j \in Nat, j > n PROVE j \in H
  <2>1. f[j] = n + 1
    BY <1>1, <1>3, <1>4 DEF QuotedBody
  <2>2. j <= n + 1 => j = n + 1
    BY <1>1, <1>4
  <2> QED BY <1>1, <2>1, <2>2
<1>5. ASSUME NEW j \in Nat, j <= n, \A k \in Nat : k > j => k \in H PROVE j \in H
  <2>1. j + 1 \in H
    BY <1>5
  <2>2. j + 2 \in H
    BY <1>5
  <2>3. f[j + 1] \in j..(n + 1)
    BY <1>1, <1>5, <2>1
  <2>4. j < n => f[j + 2] \in j..(n + 1)
    BY <1>1, <1>5, <2>2
  <2>5. j + 1 \in j..(n + 1)
    BY <1>1, <1>5
  <2>6. f[j] = f[j + 1] \/ f[j] = j + 1 \/ (j < n /\ f[j] = f[j + 2])
    BY <1>1, <1>3, <1>5 DEF QuotedBody
  <2> QED BY <2>3, <2>4, <2>5, <2>6
<1>6. \A j \in Nat : j \in H
  <2> HIDE DEF H
  <2> QED BY <1>1, <1>4, <1>5, PlacesDownwards
<1>7. i + 1 \in Nat /\ i + 1 <= n + 1
  BY <1>1
<1>8. f[i + 1] \in (i + 1)..(n + 1)
  BY <1>6, <1>7
<1> QED BY <1>1, <1>2, <1>8

\* An element that some places can end does so at the first of them.
LEMMA BehindForward ==
  ASSUME NEW E, NEW s \in Seq(E), NEW i \in 1..Len(s), NEW places \in SUBSET (i..Len(s)),
         NEW width \in Nat, \A j \in places : j + width > i /\ j + width <= Len(s) + 1
  PROVE  Behind(s, places, width) \in (i + 1)..(Len(s) + 1)
<1>1. PICK n \in Nat : n = Len(s)
  OBVIOUS
<1>2. CASE places = {}
  BY <1>1, <1>2 DEF Behind
<1>3. CASE places # {}
  <2>1. places \in SUBSET Nat
    BY <1>1
  <2>2. Min(places) \in places
    BY <1>3, <2>1, MinOf
  <2>3. PICK j \in Nat : j = Min(places) /\ j \in places
    BY <2>1, <2>2
  <2>4. j + width > i /\ j + width <= n + 1
    BY <1>1, <2>3
  <2>5. Behind(s, places, width) = j + width
    BY <1>3, <2>3 DEF Behind
  <2> QED BY <1>1, <2>4, <2>5
<1> QED BY <1>2, <1>3

\* Comments, bracketed names and words end behind where they begin.
LEMMA ElementsForward ==
  ASSUME NEW E, NEW s \in Seq(E), NEW i \in 1..Len(s)
  PROVE  /\ s[i] = "--" => PastLineComment(s, i) \in (i + 1)..(Len(s) + 1)
         /\ PastBlockComment(s, i) \in (i + 1)..(Len(s) + 1)
         /\ PastBracket(s, i) \in (i + 1)..(Len(s) + 1)
         /\ StartsWord(s, i) => PastWord(s, i) \in (i + 1)..(Len(s) + 1)
<1>1. PICK n \in Nat : n = Len(s)
  OBVIOUS
<1>2. ASSUME NEW l PROVE PlacesFrom(s, i, l) \in SUBSET (i..Len(s)) /\ \A j \in PlacesFrom(s, i, l) : s[j] = l
  BY DEF PlacesFrom
<1>3. \A j \in i..Len(s) : j \in Nat /\ j >= i /\ j <= Len(s) /\ (j # i => j > i)
  BY <1>1
<1>4. ASSUME s[i] = "--" PROVE PastLineComment(s, i) \in (i + 1)..(Len(s) + 1)
  <2> DEFINE P == PlacesFrom(s, i, "nl")
  <2>1. P \in SUBSET (i..Len(s)) /\ \A j \in P : s[j] = "nl"
    BY <1>2
  <2> HIDE DEF P
  <2>2. \A j \in P : j + 0 > i /\ j + 0 <= Len(s) + 1
    BY <1>1, <1>3, <1>4, <2>1
  <2>3. Behind(s, P, 0) \in (i + 1)..(Len(s) + 1)
    BY <2>1, <2>2, BehindForward
  <2> QED BY <2>3 DEF PastLineComment, P
<1>5. ASSUME NEW P \in SUBSET (i..Len(s)) PROVE Behind(s, P, 1) \in (i + 1)..(Len(s) + 1)
  <2>1. \A j \in P : j + 1 > i /\ j + 1 <= Len(s) + 1
    BY <1>1, <1>3
  <2> QED BY <2>1, BehindForward
<1>6. PastBlockComment(s, i) \in (i + 1)..(Len(s) + 1)
  <2> DEFINE count(l, j) == Cardinality({k \in i..j : s[k] = l})
             P == {j \in PlacesFrom(s, i, "*/") : count("/*", j) = count("*/", j)}
  <2>1. P \in SUBSET (i..Len(s))
    BY <1>2
  <2>2. PastBlockComment(s, i) = Behind(s, P, 1)
    BY DEF PastBlockComment
  <2> HIDE DEF P
  <2> QED BY <1>5, <2>1, <2>2
<1>7. PastBracket(s, i) \in (i + 1)..(Len(s) + 1)
  BY <1>2, <1>5 DEF PastBracket
<1>8. ASSUME StartsWord(s, i) PROVE PastWord(s, i) \in (i + 1)..(Len(s) + 1)
  <2> DEFINE P == {j \in i..Len(s) : s[j] \notin WordLexemes}
  <2>1. P \in SUBSET (i..Len(s)) /\ \A j \in P : s[j] \notin WordLexemes
    OBVIOUS
  <2>2. s[i] \in WordLexemes
    BY <1>8 DEF StartsWord, WordLexemes
  <2> HIDE DEF P
  <2>3. \A j \in P : j + 0 > i /\ j + 0 <= Len(s) + 1
    BY <1>1, <1>3, <2>1, <2>2
  <2>4. Behind(s, P, 0) \in (i + 1)..(Len(s) + 1)
    BY <2>1, <2>3, BehindForward
  <2> QED BY <2>4 DEF PastWord, P
<1> QED BY <1>4, <1>6, <1>7, <1>8

\* So does what is between two tags; a dollar sign alone is passed.
LEMMA DollarForward ==
  ASSUME NEW E, NEW s \in Seq(E), NEW i \in 1..Len(s)
  PROVE  PastDollar(s, i) \in (i + 1)..(Len(s) + 1)
<1>1. PICK n \in Nat : n = Len(s)
  OBVIOUS
<1>2. CASE TagEnds(s, i) = {}
  BY <1>1, <1>2 DEF PastDollar
<1>3. CASE TagEnds(s, i) # {}
  <2>1. TagEnds(s, i) \in SUBSET ((i + 1)..n)
    BY <1>1 DEF TagEnds, PlacesFrom
  <2>2. Min(TagEnds(s, i)) \in TagEnds(s, i)
    <3>1. TagEnds(s, i) \in SUBSET Nat
      BY <1>1, <2>1
    <3> QED BY <1>3, <3>1, MinOf
  <2>3. PICK c \in (i + 1)..n : c = Min(TagEnds(s, i))
    BY <2>1, <2>2
  <2>4. PICK w \in Nat : w = (c + 1) - i
    BY <1>1
  <2> DEFINE tag == SubSeq(s, i, Min(TagEnds(s, i)))
             P == {j \in (i + Len(tag))..(Len(s) - Len(tag) + 1) :
                     SubSeq(s, j, j + Len(tag) - 1) = tag}
  <2>5. PastDollar(s, i) = Behind(s, P, Len(tag))
    BY <1>3, Zenon DEF PastDollar
  <2>6. Len(tag) = w /\ w \in Nat /\ w > 1
    BY <1>1, <2>3, <2>4
  <2>7. P \in SUBSET ((i + w)..((n - w) + 1))
    BY <1>1, <2>6
  <2> HIDE DEF P, tag
  <2>8. PastDollar(s, i) = Behind(s, P, w)
    BY <2>5, <2>6
  <2>9. ASSUME NEW j \in (i + w)..((n - w) + 1) PROVE j \in i..n /\ j + w > i /\ j + w <= n + 1
    <3>1. PICK k \in Nat : k = i
      BY <1>1
    <3>2. j \in (k + w)..((n - w) + 1)
      BY <3>1
    <3>3. j \in k..n /\ j + w > k /\ j + w <= n + 1
      BY <2>6, <3>2
    <3> QED BY <3>1, <3>3
  <2>10. P \in SUBSET (i..Len(s)) /\ \A j \in P : j + w > i /\ j + w <= Len(s) + 1
    BY <1>1, <2>7, <2>9
  <2> QED BY <2>8, <2>10, BehindForward
<1> QED BY <1>2, <1>3

\* Each round of the loop of splitSQLStatements goes forward.
LEMMA PastForward ==
  ASSUME NEW E, NEW s \in Seq(E), NEW i \in 1..Len(s), NEW dialect
  PROVE  Past(s, i, dialect) \in (i + 1)..(Len(s) + 1)
<1>1. i + 1 \in (i + 1)..(Len(s) + 1)
  OBVIOUS
<1>2. \A escapes : PastQuoted(s, i, escapes) \in (i + 1)..(Len(s) + 1)
  BY QuotedForward
<1> QED BY <1>1, <1>2, ElementsForward, DollarForward DEF Past

\* The depth is a number.
LEMMA DepthType ==
  ASSUME NEW s, NEW i, NEW depth \in Nat, NEW dialect
  PROVE  Depth(s, i, depth, dialect) \in Nat
BY DEF Depth

-----------------------------------------------------------------------------
(* The loop of the splitter, and what it divides a script into.            *)

\* The loop of splitSQLStatements, taken apart: what it flushes from a state p on.
DividedBody(s, dialect, f, p) ==
  IF p.index > Len(s) THEN <<SubSeq(s, p.start, Len(s))>>
  ELSE IF s[p.index] = ";" /\ p.depth = 0
       THEN <<SubSeq(s, p.start, p.index)>> \o f[At(p.index + 1, p.index + 1, 0)]
  ELSE f[At(Past(s, p.index, dialect), p.start, Depth(s, p.index, p.depth, dialect))]
DividedLoop(s, dialect, f) == f = [p \in LoopState |-> DividedBody(s, dialect, f, p)]

\* What it flushes from the start on (parser.go).
LEMMA DividedIs ==
  ASSUME NEW s, NEW dialect
  PROVE  Divided(s, dialect) = (CHOOSE f : DividedLoop(s, dialect, f))[At(1, 1, 0)]
BY DEF Divided, DividedLoop, DividedBody

\* What a state is made of.
LEMMA StateIs ==
  ASSUME NEW i, NEW b, NEW depth
  PROVE  /\ At(i, b, depth).index = i /\ At(i, b, depth).start = b /\ At(i, b, depth).depth = depth
         /\ i \in Nat \ {0} /\ b \in Nat \ {0} /\ depth \in Nat => At(i, b, depth) \in LoopState
BY DEF At, LoopState

\* Where a round of the loop goes on: behind the delimiter, or behind the element.
BehindDelimiter(p) == At(p.index + 1, p.index + 1, 0)
BehindElement(s, dialect, p) ==
  At(Past(s, p.index, dialect), p.start, Depth(s, p.index, p.depth, dialect))

\* It goes forward, at the latest to the end of the script.
LEMMA RoundForward ==
  ASSUME NEW E, NEW s \in Seq(E), NEW dialect, NEW p \in LoopState, p.index <= Len(s)
  PROVE  /\ p.index \in 1..Len(s) /\ p.start \in Nat \ {0} /\ p.depth \in Nat
         /\ BehindDelimiter(p) \in LoopState /\ BehindElement(s, dialect, p) \in LoopState
         /\ BehindDelimiter(p).index = p.index + 1 /\ BehindDelimiter(p).start = p.index + 1
         /\ BehindElement(s, dialect, p).index \in (p.index + 1)..(Len(s) + 1)
         /\ BehindElement(s, dialect, p).start = p.start
<1>1. PICK i \in Nat \ {0} : i = p.index
  BY DEF LoopState
<1>2. p.start \in Nat \ {0} /\ p.depth \in Nat
  BY DEF LoopState
<1>3. i \in 1..Len(s)
  BY <1>1
<1>4. PICK l : l = Past(s, i, dialect)
  OBVIOUS
<1>5. l \in (i + 1)..(Len(s) + 1)
  BY <1>3, <1>4, PastForward
<1>6. Depth(s, i, p.depth, dialect) \in Nat
  BY <1>2, DepthType
<1>7. l \in Nat \ {0} /\ i + 1 \in Nat \ {0} /\ 0 \in Nat
  BY <1>1, <1>5
<1>8. BehindDelimiter(p) \in LoopState /\ BehindDelimiter(p).index = i + 1 /\ BehindDelimiter(p).start = i + 1
  BY <1>1, <1>7, StateIs DEF BehindDelimiter
<1>9. /\ BehindElement(s, dialect, p) \in LoopState /\ BehindElement(s, dialect, p).index = l
      /\ BehindElement(s, dialect, p).start = p.start
  BY <1>1, <1>2, <1>4, <1>6, <1>7, StateIs DEF BehindElement
<1> QED BY <1>1, <1>2, <1>3, <1>5, <1>8, <1>9

\* A round looks at where it goes on and nowhere else.
LEMMA RoundSame ==
  ASSUME NEW E, NEW s \in Seq(E), NEW dialect, NEW p \in LoopState, NEW f, NEW g,
         p.index <= Len(s) => /\ f[BehindDelimiter(p)] = g[BehindDelimiter(p)]
                              /\ f[BehindElement(s, dialect, p)] = g[BehindElement(s, dialect, p)]
  PROVE  DividedBody(s, dialect, f, p) = DividedBody(s, dialect, g, p)
<1>1. p.index > Len(s) \/ p.index <= Len(s)
  BY DEF LoopState
<1>2. CASE p.index > Len(s)
  BY <1>2 DEF DividedBody
<1>3. CASE p.index <= Len(s)
  BY <1>3, Zenon DEF DividedBody, BehindDelimiter, BehindElement
<1> QED BY <1>1, <1>2, <1>3

\* The loop ends, as it only goes forward: the recursive function exists.
LEMMA DividedExists ==
  ASSUME NEW E, NEW s \in Seq(E), NEW dialect
  PROVE  \E f : DividedLoop(s, dialect, f)
<1> DEFINE body(f, p) == DividedBody(s, dialect, f, p)
           Right(f, d) == \A p \in LoopState : p.index + d > Len(s) => f[p] = body(f, p)
           N == {d \in Nat : \E f : Right(f, d)}
<1>1. PICK n \in Nat : n = Len(s)
  OBVIOUS
<1>2. \A p \in LoopState : p.index \in Nat /\ p.index > 0
  BY DEF LoopState
<1>3. 0 \in N
  <2> DEFINE f == [p \in LoopState |-> <<SubSeq(s, p.start, Len(s))>>]
  <2>1. ASSUME NEW p \in LoopState, p.index > Len(s) PROVE f[p] = body(f, p)
    BY <2>1 DEF DividedBody
  <2> HIDE DEF f, body
  <2>2. \A p \in LoopState : p.index + 0 > Len(s) => p.index > Len(s)
    BY <1>1, <1>2
  <2>3. Right(f, 0)
    BY <2>1, <2>2
  <2> QED BY <2>3
<1>4. ASSUME NEW d \in Nat, d \in N PROVE d + 1 \in N
  <2>1. PICK f : Right(f, d)
    BY <1>4
  <2> DEFINE g == [p \in LoopState |-> IF p.index + d > Len(s) THEN f[p] ELSE body(f, p)]
  <2> HIDE DEF body
  <2>2. \A p \in LoopState : p.index + d > Len(s) => g[p] = f[p]
    OBVIOUS
  <2>3. \A p \in LoopState : g[p] = body(f, p)
    BY <2>1
  <2> HIDE DEF g
  <2>4. ASSUME NEW p \in LoopState, p.index + (d + 1) > Len(s) PROVE g[p] = body(g, p)
    <3>1. ASSUME p.index <= Len(s)
          PROVE  /\ g[BehindDelimiter(p)] = f[BehindDelimiter(p)]
                 /\ g[BehindElement(s, dialect, p)] = f[BehindElement(s, dialect, p)]
      <4>1. PICK q, r \in LoopState : q = BehindDelimiter(p) /\ r = BehindElement(s, dialect, p)
        BY <3>1, RoundForward
      <4>2. q.index >= p.index + 1 /\ r.index >= p.index + 1
        BY <1>1, <1>2, <3>1, <4>1, RoundForward
      <4>3. q.index + d > Len(s) /\ r.index + d > Len(s)
        BY <1>1, <1>2, <2>4, <4>2
      <4> QED BY <2>2, <4>1, <4>3
    <3>2. DividedBody(s, dialect, g, p) = DividedBody(s, dialect, f, p)
      BY <3>1, RoundSame
    <3> QED BY <2>3, <3>2 DEF body
  <2>5. Right(g, d + 1)
    BY <2>4
  <2>6. d + 1 \in Nat
    OBVIOUS
  <2> HIDE DEF Right
  <2> QED BY <2>5, <2>6
<1>5. n \in N
  <2>1. \A d \in Nat : d \in N
    <3> HIDE DEF N
    <3> QED BY <1>3, <1>4, NumbersUpwards
  <2> HIDE DEF N
  <2> QED BY <1>1, <2>1
<1>6. PICK f : Right(f, n)
  BY <1>5
<1> HIDE DEF body
<1>7. \A p \in LoopState : f[p] = body(f, p)
  <2> TAKE p \in LoopState
  <2>1. p.index + n > Len(s)
    BY <1>1, <1>2
  <2> QED BY <1>6, <2>1
<1> DEFINE g == [p \in LoopState |-> body(f, p)]
<1>8. \A p \in LoopState : g[p] = f[p]
  BY <1>7
<1> HIDE DEF g
<1>9. ASSUME NEW p \in LoopState PROVE body(f, p) = body(g, p)
  <2>1. ASSUME p.index <= Len(s)
        PROVE  /\ f[BehindDelimiter(p)] = g[BehindDelimiter(p)]
               /\ f[BehindElement(s, dialect, p)] = g[BehindElement(s, dialect, p)]
    <3>1. BehindDelimiter(p) \in LoopState /\ BehindElement(s, dialect, p) \in LoopState
      BY <2>1, RoundForward
    <3> QED BY <1>8, <3>1
  <2> QED BY <2>1, RoundSame DEF body
<1>10. g = [p \in LoopState |-> body(g, p)]
  <2>1. g = [p \in LoopState |-> body(f, p)]
    BY DEF g
  <2> DEFINE left(p) == body(f, p)
             right(p) == body(g, p)
  <2>2. g = [p \in LoopState |-> left(p)] /\ \A p \in LoopState : left(p) = right(p)
    BY <1>9, <2>1
  <2> HIDE DEF left, right
  <2>3. g = [p \in LoopState |-> right(p)]
    BY <2>2
  <2> QED BY <2>3 DEF right
<1> QED BY <1>10, Zenon DEF DividedLoop, body

\* One round of it.
LEMMA DividedAt ==
  ASSUME NEW s, NEW dialect, NEW f, DividedLoop(s, dialect, f), NEW p \in LoopState
  PROVE  f[p] = DividedBody(s, dialect, f, p)
<1> DEFINE body(q) == DividedBody(s, dialect, f, q)
<1>1. f = [q \in LoopState |-> body(q)]
  BY Zenon DEF DividedLoop
<1> HIDE DEF body
<1>2. f[p] = body(p)
  BY <1>1, Zenon
<1> QED BY <1>2 DEF body

\* A text that ends with the delimiter.
EndsDelimited(t) == EndsWith(t, ";")
\* A part of a script, an empty one included.
IsStretch(t, s) == \E b \in Nat \ {0}, e \in Nat : e <= Len(s) /\ t = SubSeq(s, b, e)

\* Texts that are parts of a script and, one after another, make a text of it, each but
\* the last up to a delimiter.
IsCut(E, s, r, t) ==
  /\ r \in Seq(Seq(E)) /\ r # <<>>
  /\ FlattenSeq(r) = t
  /\ \A k \in 1..Len(r) : IsStretch(r[k], s)
  /\ \A k \in 1..Len(r) : k < Len(r) => EndsDelimited(r[k])

\* What the loop flushes at the end of a script is one text.
LEMMA CutAtEnd ==
  ASSUME NEW E, NEW s, NEW t \in Seq(E), IsStretch(t, s)
  PROVE  IsCut(E, s, <<t>>, t)
<1>1. FlattenSeq(<<t>>) = t
  <2>1. <<>> \in Seq(Seq(E)) /\ Append(<<>>, t) = <<t>>
    OBVIOUS
  <2> QED BY <2>1, FlattenAppend
<1>2. <<t>> \in Seq(Seq(E)) /\ <<t>> # <<>> /\ Len(<<t>>) = 1 /\ <<t>>[1] = t
  OBVIOUS
<1>3. \A k \in 1..1 : k = 1 /\ ~(k < 1)
  OBVIOUS
<1> QED BY <1>1, <1>2, <1>3, Zenon DEF IsCut

\* What the script has from b on is what it has up to i and behind that.
LEMMA StretchesJoin ==
  ASSUME NEW E, NEW s \in Seq(E), NEW b \in Nat \ {0}, NEW i \in Nat, b <= i, i <= Len(s)
  PROVE  SubSeq(s, b, i) \o SubSeq(s, i + 1, Len(s)) = SubSeq(s, b, Len(s))
<1>1. PICK n \in Nat : n = Len(s)
  OBVIOUS
<1>2. PICK x, y, z \in Seq(E) : x = SubSeq(s, b, i) /\ y = SubSeq(s, i + 1, n) /\ z = SubSeq(s, b, n)
  <2>1. SubSeq(s, b, i) \in Seq(E) /\ SubSeq(s, i + 1, n) \in Seq(E) /\ SubSeq(s, b, n) \in Seq(E)
    BY <1>1
  <2> QED BY <2>1, Zenon
<1>3. Len(x) = (i + 1) - b /\ \A k \in 1..((i + 1) - b) : x[k] = s[(b + k) - 1]
  <2>1. x = [k \in 1..((i + 1) - b) |-> s[(b + k) - 1]] /\ (i + 1) - b \in Nat
    BY <1>2
  <2> QED BY <2>1
<1>4. Len(y) = n - i /\ \A k \in 1..(n - i) : y[k] = s[i + k]
  <2>1. (n + 1) - (i + 1) = n - i /\ n - i \in Nat
    BY <1>1
  <2>2. y = [k \in 1..((n + 1) - (i + 1)) |-> s[((i + 1) + k) - 1]]
    BY <1>1, <1>2
  <2>3. \A k \in 1..(n - i) : ((i + 1) + k) - 1 = i + k
    BY <1>1
  <2> QED BY <2>1, <2>2, <2>3
<1>5. Len(z) = (n + 1) - b /\ \A k \in 1..((n + 1) - b) : z[k] = s[(b + k) - 1]
  <2>1. z = [k \in 1..((n + 1) - b) |-> s[(b + k) - 1]] /\ (n + 1) - b \in Nat
    BY <1>1, <1>2
  <2> QED BY <2>1
<1>6. PICK u \in Seq(E) : u = x \o y
  <2>1. x \o y \in Seq(E)
    OBVIOUS
  <2> QED BY <2>1, Zenon
<1>7. /\ Len(u) = Len(x) + Len(y)
      /\ \A k \in 1..Len(x) : u[k] = x[k]
      /\ \A k \in 1..Len(y) : u[Len(x) + k] = y[k]
  BY <1>6, PlacesOf
<1>8. PICK m \in Nat : m = (i + 1) - b
  <2>1. (i + 1) - b \in Nat
    OBVIOUS
  <2> QED BY <2>1
<1>9. Len(u) = (n + 1) - b
  BY <1>1, <1>3, <1>4, <1>7
<1>10. ASSUME NEW k \in 1..((n + 1) - b) PROVE u[k] = s[(b + k) - 1]
  <2>1. CASE k <= m
    <3>1. k \in 1..m
      BY <2>1
    <3> QED BY <1>3, <1>7, <1>8, <3>1
  <2>2. CASE ~(k <= m)
    <3>1. PICK l \in 1..(n - i) : l = k - m
      <4>1. k - m \in 1..(n - i)
        BY <1>1, <1>8, <2>2
      <4> QED BY <4>1
    <3>2. m + l = k /\ i + l = (b + k) - 1
      BY <1>1, <1>8, <3>1
    <3>3. u[m + l] = s[i + l]
      BY <1>3, <1>4, <1>7, <1>8, <3>1
    <3> QED BY <3>2, <3>3
  <2> QED BY <2>1, <2>2
<1>11. u = z
  BY <1>5, <1>9, <1>10, SameText
<1> QED BY <1>1, <1>2, <1>6, <1>11

\* What it flushes at a delimiter is one text more, before those that come later.
LEMMA CutAtDelimiter ==
  ASSUME NEW E, NEW s, NEW t \in Seq(E), NEW v \in Seq(E), NEW r, IsCut(E, s, r, v),
         IsStretch(t, s), EndsDelimited(t)
  PROVE  IsCut(E, s, <<t>> \o r, t \o v)
<1>4. /\ r \in Seq(Seq(E)) /\ r # <<>>
      /\ FlattenSeq(r) = v
      /\ \A k \in 1..Len(r) : IsStretch(r[k], s)
      /\ \A k \in 1..Len(r) : k < Len(r) => EndsDelimited(r[k])
  BY Zenon DEF IsCut
<1>5. <<t>> \in Seq(Seq(E)) /\ Len(<<t>>) = 1 /\ <<t>>[1] = t /\ FlattenSeq(<<t>>) = t
  <2>1. <<>> \in Seq(Seq(E)) /\ Append(<<>>, t) = <<t>>
    OBVIOUS
  <2>2. FlattenSeq(<<t>>) = t
    BY <2>1, FlattenAppend
  <2> QED BY <2>2
<1>6. PICK u \in Seq(Seq(E)) : u = <<t>> \o r
  <2>1. <<t>> \o r \in Seq(Seq(E))
    BY <1>4, <1>5
  <2> QED BY <2>1, Zenon
<1>7. FlattenSeq(u) = t \o v
  BY <1>4, <1>5, <1>6, FlattenParts, Zenon
<1>8. PICK m \in Nat : m = Len(r) /\ m > 0
  BY <1>4
<1>9. Len(u) = 1 + m /\ u[1] = t /\ \A k \in 1..m : u[1 + k] = r[k]
  <2> DEFINE F == Seq(E)
  <2>1. <<t>> \in Seq(F) /\ r \in Seq(F)
    BY <1>4, <1>5
  <2> HIDE DEF F
  <2>2. /\ Len(<<t>> \o r) = Len(<<t>>) + Len(r)
        /\ \A k \in 1..Len(<<t>>) : (<<t>> \o r)[k] = <<t>>[k]
        /\ \A k \in 1..Len(r) : (<<t>> \o r)[Len(<<t>>) + k] = r[k]
    BY <2>1, PlacesOf
  <2>3. 1 \in 1..Len(<<t>>)
    BY <1>5
  <2> QED BY <1>5, <1>6, <1>8, <2>2, <2>3
<1>10. \A k \in 1..(1 + m) : k = 1 \/ \E l \in 1..m : k = 1 + l /\ (k < 1 + m => l < m)
  <2> TAKE k \in 1..(1 + m)
  <2>1. k = 1 \/ (k - 1 \in 1..m /\ k = 1 + (k - 1) /\ (k < 1 + m => k - 1 < m))
    OBVIOUS
  <2> QED BY <2>1
<1>11. ASSUME NEW k \in 1..(1 + m)
       PROVE  IsStretch(u[k], s) /\ (k < 1 + m => EndsDelimited(u[k]))
  <2>1. CASE k = 1
    BY <1>9, <2>1
  <2>2. ASSUME NEW l \in 1..m, k = 1 + l, k < 1 + m => l < m
        PROVE  IsStretch(u[k], s) /\ (k < 1 + m => EndsDelimited(u[k]))
    <3>1. u[k] = r[l]
      BY <1>9, <2>2
    <3>2. IsStretch(r[l], s) /\ (l < m => EndsDelimited(r[l]))
      BY <1>4, <1>8
    <3> QED BY <2>2, <3>1, <3>2
  <2> QED BY <1>10, <2>1, <2>2, Zenon
<1>12. u # <<>>
  <2>1. Len(u) > 0
    BY <1>9
  <2> QED BY <2>1
<1>13. IsCut(E, s, u, t \o v)
  BY <1>6, <1>7, <1>9, <1>11, <1>12, Zenon DEF IsCut
<1> QED BY <1>6, <1>13

\* What a script has from b on.
RestFrom(s, b) == SubSeq(s, b, Len(s))

\* A part of a script, as the loop flushes it (splitSQLStatements).
LEMMA StretchIs ==
  ASSUME NEW E, NEW s \in Seq(E), NEW b \in Nat \ {0}, NEW e \in Nat, e <= Len(s)
  PROVE  SubSeq(s, b, e) \in Seq(E) /\ IsStretch(SubSeq(s, b, e), s)
<1>1. SubSeq(s, b, e) \in Seq(E)
  OBVIOUS
<1>2. IsStretch(SubSeq(s, b, e), s)
  BY Zenon DEF IsStretch
<1> QED BY <1>1, <1>2

\* One that it flushes at a delimiter ends with it.
LEMMA StretchEnds ==
  ASSUME NEW E, NEW s \in Seq(E), NEW b \in Nat \ {0}, NEW e \in 1..Len(s), b <= e
  PROVE  EndsWith(SubSeq(s, b, e), s[e])
<1>1. PICK t \in Seq(E) : t = SubSeq(s, b, e)
  <2>1. SubSeq(s, b, e) \in Seq(E)
    OBVIOUS
  <2> QED BY <2>1, Zenon
<1>2. t = [k \in 1..((e + 1) - b) |-> s[(b + k) - 1]] /\ (e + 1) - b \in Nat
  BY <1>1
<1>3. PICK m \in Nat : m = (e + 1) - b /\ m > 0 /\ (b + m) - 1 = e /\ m \in 1..m
  <2>1. (e + 1) - b \in Nat /\ (e + 1) - b > 0
    OBVIOUS
  <2> QED BY <2>1
<1>4. Len(t) = m /\ t[m] = s[e]
  BY <1>2, <1>3
<1>5. t # <<>>
  BY <1>3, <1>4
<1> QED BY <1>1, <1>4, <1>5 DEF EndsWith

\* A script is divided at delimiters and nowhere else, and nothing of it is lost
\* (splitSQLStatements).
LEMMA DividedCuts ==
  ASSUME NEW E, NEW s \in Seq(E), NEW dialect
  PROVE  IsCut(E, s, Divided(s, dialect), s)
<1>1. PICK n \in Nat : n = Len(s)
  OBVIOUS
<1>2. PICK f : DividedLoop(s, dialect, f) /\ Divided(s, dialect) = f[At(1, 1, 0)]
  BY DividedExists, DividedIs
<1>3. \A p \in LoopState : f[p] = DividedBody(s, dialect, f, p)
  BY <1>2, DividedAt
<1> DEFINE H == {j \in Nat : \A p \in LoopState :
                   p.index = j /\ p.start <= j /\ j <= n + 1 => IsCut(E, s, f[p], RestFrom(s, p.start))}
<1>4. \A p \in LoopState : p.index \in Nat \ {0} /\ p.start \in Nat \ {0}
  BY DEF LoopState
<1>5. ASSUME NEW j \in Nat, j > n PROVE j \in H
  <2> SUFFICES ASSUME NEW p \in LoopState, p.index = j PROVE IsCut(E, s, f[p], RestFrom(s, p.start))
    OBVIOUS
  <2>1. f[p] = <<SubSeq(s, p.start, Len(s))>>
    BY <1>1, <1>3, <1>5 DEF DividedBody
  <2>2. RestFrom(s, p.start) \in Seq(E) /\ IsStretch(RestFrom(s, p.start), s)
    <3>1. Len(s) \in Nat /\ Len(s) <= Len(s)
      BY <1>1
    <3> QED BY <1>4, <3>1, StretchIs, Zenon DEF RestFrom
  <2>3. IsCut(E, s, <<RestFrom(s, p.start)>>, RestFrom(s, p.start))
    BY <2>2, CutAtEnd, Zenon
  <2> QED BY <2>1, <2>3, Zenon DEF RestFrom
<1>6. ASSUME NEW j \in Nat, j <= n, \A k \in Nat : k > j => k \in H PROVE j \in H
  <2> SUFFICES ASSUME NEW p \in LoopState, p.index = j, p.start <= j
               PROVE  IsCut(E, s, f[p], RestFrom(s, p.start))
    OBVIOUS
  <2>1. p.index <= Len(s) /\ ~(p.index > Len(s)) /\ p.index \in Nat \ {0}
    BY <1>1, <1>4, <1>6
  <2>2. PICK q, r \in LoopState : q = BehindDelimiter(p) /\ r = BehindElement(s, dialect, p)
    BY <2>1, RoundForward
  <2>3. /\ q.index = j + 1 /\ q.start = j + 1 /\ j + 1 <= n + 1
        /\ r.index \in (j + 1)..(n + 1) /\ r.start = p.start
    BY <1>1, <1>6, <2>1, <2>2, RoundForward
  <2>4. j + 1 \in H /\ r.index \in H
    <3>1. j + 1 \in Nat /\ j + 1 > j /\ r.index \in Nat /\ r.index > j
      BY <2>3
    <3> QED BY <1>6, <3>1
  <2>5. IsCut(E, s, f[q], RestFrom(s, j + 1))
    <3>1. q.start <= j + 1
      BY <2>3
    <3> QED BY <2>3, <2>4, <3>1
  <2>6. IsCut(E, s, f[r], RestFrom(s, p.start))
    <3>1. r.start <= r.index /\ r.index <= n + 1
      BY <1>4, <2>3
    <3> QED BY <2>3, <2>4, <3>1
  <2>7. CASE s[p.index] = ";" /\ p.depth = 0
    <3>1. f[p] = <<SubSeq(s, p.start, p.index)>> \o f[q]
      BY <1>3, <2>1, <2>2, <2>7, Zenon DEF DividedBody, BehindDelimiter
    <3>2. p.start \in Nat \ {0} /\ j \in 1..Len(s) /\ j \in Nat /\ j <= Len(s)
          /\ j + 1 \in Nat \ {0} /\ Len(s) \in Nat /\ Len(s) <= Len(s)
      BY <1>1, <1>4, <2>1
    <3> HIDE DEF H
    <3>3. /\ SubSeq(s, p.start, j) \in Seq(E) /\ IsStretch(SubSeq(s, p.start, j), s)
          /\ RestFrom(s, j + 1) \in Seq(E)
      BY <3>2, StretchIs, Zenon DEF RestFrom
    <3>4. EndsDelimited(SubSeq(s, p.start, j))
      <4>1. EndsWith(SubSeq(s, p.start, j), s[j])
        BY <3>2, StretchEnds
      <4> QED BY <2>7, <4>1, Zenon DEF EndsDelimited
    <3>5. IsCut(E, s, <<SubSeq(s, p.start, j)>> \o f[q], SubSeq(s, p.start, j) \o RestFrom(s, j + 1))
      BY <2>5, <3>3, <3>4, CutAtDelimiter, Zenon
    <3>6. SubSeq(s, p.start, j) \o RestFrom(s, j + 1) = RestFrom(s, p.start)
      BY <3>2, StretchesJoin, Zenon DEF RestFrom
    <3> QED BY <3>1, <3>5, <3>6, Zenon
  <2>8. CASE ~(s[p.index] = ";" /\ p.depth = 0)
    <3>1. f[p] = f[r]
      BY <1>3, <2>1, <2>2, <2>8, Zenon DEF DividedBody, BehindElement
    <3> QED BY <2>6, <3>1
  <2> QED BY <2>7, <2>8
<1>7. 1 \in H
  <2>1. \A j \in Nat : j \in H
    <3> HIDE DEF H
    <3> QED BY <1>5, <1>6, PlacesDownwards
  <2> HIDE DEF H
  <2> QED BY <2>1
<1>8. At(1, 1, 0) \in LoopState /\ At(1, 1, 0).index = 1 /\ At(1, 1, 0).start = 1
  BY StateIs
<1>9. 1 <= 1 /\ 1 <= n + 1
  BY <1>1
<1>10. IsCut(E, s, f[At(1, 1, 0)], RestFrom(s, 1))
  BY <1>7, <1>8, <1>9
<1>11. RestFrom(s, 1) = s
  BY DEF RestFrom
<1> QED BY <1>2, <1>10, <1>11, Zenon

-----------------------------------------------------------------------------
(* The statements: what is left of that once it is trimmed.                *)

\* Of blanks nothing is left without blanks: what TrimSpace takes away (parser.go).
LEMMA OnlyThose ==
  ASSUME NEW E, NEW L
  PROVE  \A t \in Seq(E) : (\A k \in 1..Len(t) : t[k] \in L) => Without(t, L) = <<>>
<1> DEFINE All(t) == \A k \in 1..Len(t) : t[k] \in L
           H == {t \in Seq(E) : All(t) => Without(t, L) = <<>>}
<1>1. <<>> \in H
  <2>1. <<>> \in Seq(E)
    OBVIOUS
  <2> QED BY <2>1, WithoutNothing
<1>2. ASSUME NEW t \in Seq(E), t \in H, NEW c \in E PROVE Append(t, c) \in H
  <2>1. PICK u \in Seq(E) : u = Append(t, c)
    <3>1. Append(t, c) \in Seq(E)
      OBVIOUS
    <3> QED BY <3>1, Zenon
  <2>2. PICK n \in Nat : n = Len(t) /\ Len(u) = n + 1 /\ u[n + 1] = c /\ \A k \in 1..n : u[k] = t[k]
    BY <2>1
  <2>3. Without(u, L) = IF c \in L THEN Without(t, L) ELSE Append(Without(t, L), c)
    BY <2>1, WithoutNext
  <2>4. ASSUME All(u) PROVE c \in L /\ All(t)
    <3>1. n + 1 \in 1..(n + 1) /\ \A k \in 1..n : k \in 1..(n + 1)
      OBVIOUS
    <3>2. \A k \in 1..(n + 1) : u[k] \in L
      BY <2>2, <2>4
    <3>3. c \in L
      BY <2>2, <3>1, <3>2
    <3>4. \A k \in 1..n : t[k] \in L
      BY <2>2, <3>1, <3>2
    <3> QED BY <2>2, <3>3, <3>4
  <2>5. All(u) => Without(u, L) = <<>>
    BY <1>2, <2>3, <2>4
  <2>6. u \in H
    BY <2>5
  <2> QED BY <2>1, <2>6
<1>3. \A t \in Seq(E) : t \in H
  <2> HIDE DEF H
  <2> QED BY <1>1, <1>2, SequencesUpwards
<1> QED BY <1>3

\* What is trimmed keeps what is not blank, and begins and ends with it.
Trims(t, u) ==
  /\ Without(u, Blank) = Without(t, Blank)
  /\ u # <<>> => /\ IsTrimmed(u) /\ u[Len(u)] \notin Blank
                 /\ \E b, e \in 1..Len(t) : b <= e /\ u = SubSeq(t, b, e)
                 /\ \A l : EndsWith(t, l) /\ l \notin Blank => EndsWith(u, l)

\* TrimSpace (parser.go), for every text.
LEMMA TrimmedIs ==
  ASSUME NEW E, NEW t \in Seq(E)
  PROVE  Trimmed(t) \in Seq(E) /\ Trims(t, Trimmed(t))
<1>1. PICK n \in Nat : n = Len(t)
  OBVIOUS
<1> DEFINE kept == {i \in 1..Len(t) : t[i] \notin Blank}
<1>2. Trimmed(t) = IF kept = {} THEN <<>> ELSE SubSeq(t, Min(kept), Max(kept))
  BY DEF Trimmed
<1>3. kept \in SUBSET (1..n) /\ \A i \in 1..n : i \notin kept => t[i] \in Blank
  BY <1>1
<1>4. \A i \in kept : t[i] \notin Blank
  OBVIOUS
<1> HIDE DEF kept
<1>5. CASE kept = {}
  <2>1. Trimmed(t) = <<>> /\ <<>> \in Seq(E)
    BY <1>2, <1>5
  <2>2. Without(t, Blank) = <<>>
    BY <1>1, <1>3, <1>5, OnlyThose
  <2> QED BY <2>1, <2>2, WithoutNothing DEF Trims
<1>6. CASE kept # {}
  <2>1. kept \in SUBSET Nat /\ \A i \in kept : i <= n
    BY <1>3
  <2>2. Min(kept) \in kept /\ Max(kept) \in kept /\ \A i \in kept : Min(kept) <= i /\ Max(kept) >= i
    BY <1>6, <2>1, MinOf, MaxOf
  <2>3. PICK b \in 1..n, e \in 1..n : b = Min(kept) /\ e = Max(kept) /\ b \in kept /\ e \in kept
    BY <1>3, <2>2
  <2>4. b <= e /\ \A i \in kept : b <= i /\ i <= e
    BY <1>3, <2>2, <2>3
  <2>5. \E pre, mid, post \in Seq(E) : Cut(t, b, e, pre, mid, post)
    BY <1>1, <2>3, <2>4, ThreeParts
  <2>6. PICK pre, mid, post \in Seq(E) : Cut(t, b, e, pre, mid, post)
    BY <2>5, Zenon
  <2>7. mid = SubSeq(t, b, e) /\ t = (pre \o mid) \o post
    BY <2>6, Zenon DEF Cut
  <2>8. Len(pre) = b - 1 /\ \A k \in 1..(b - 1) : pre[k] = t[k]
    BY <2>6 DEF Cut
  <2>9. Len(mid) = (e - b) + 1 /\ \A k \in 1..((e - b) + 1) : mid[k] = t[(b + k) - 1]
    BY <2>6 DEF Cut
  <2>10. Len(post) = n - e /\ \A k \in 1..(n - e) : post[k] = t[e + k]
    BY <1>1, <2>6 DEF Cut
  <2>11. Trimmed(t) = mid
    BY <1>2, <1>6, <2>3, <2>7
  <2>12. \A k \in 1..Len(pre) : pre[k] \in Blank
    <3>1. \A k \in 1..(b - 1) : k \in 1..n /\ ~(b <= k)
      BY <2>3
    <3> QED BY <1>3, <2>4, <2>8, <3>1
  <2>13. \A k \in 1..Len(post) : post[k] \in Blank
    <3>1. \A k \in 1..(n - e) : e + k \in 1..n /\ ~(e + k <= e)
      BY <2>3
    <3> QED BY <1>3, <2>4, <2>10, <3>1
  <2>14. Without(mid, Blank) = Without(t, Blank)
    <3>1. Without(pre, Blank) = <<>> /\ Without(post, Blank) = <<>>
      BY <2>12, <2>13, OnlyThose
    <3>2. PICK two \in Seq(E) : two = pre \o mid
      <4>1. pre \o mid \in Seq(E)
        OBVIOUS
      <4> QED BY <4>1, Zenon
    <3>3. LeftOfEach(pre, mid, Blank) /\ LeftOfEach(two, post, Blank)
      BY WithoutParts, Zenon
    <3>4. PICK w \in Seq(E) : w = Without(mid, Blank)
      <4>1. Without(mid, Blank) \in Seq(E)
        BY WithoutParts, Zenon
      <4> QED BY <4>1, Zenon
    <3>5. <<>> \o w = w /\ w \o <<>> = w
      OBVIOUS
    <3>6. Without(two, Blank) = w
      BY <3>1, <3>2, <3>3, <3>4, <3>5, Zenon DEF LeftOfEach
    <3>7. Without(two \o post, Blank) = w
      BY <3>1, <3>3, <3>5, <3>6, Zenon DEF LeftOfEach
    <3> QED BY <2>7, <3>2, <3>4, <3>7, Zenon
  <2>15. PICK m \in Nat : m = (e - b) + 1 /\ m > 0 /\ (b + m) - 1 = e /\ (b + 1) - 1 = b
                          /\ 1 \in 1..m /\ m \in 1..m
    <3>1. (e - b) + 1 \in Nat /\ (e - b) + 1 > 0
      BY <2>3, <2>4
    <3>2. PICK m \in Nat : m = (e - b) + 1 /\ m > 0
      BY <3>1
    <3>3. (b + m) - 1 = e /\ (b + 1) - 1 = b /\ 1 \in 1..m /\ m \in 1..m
      BY <2>3, <3>2
    <3> QED BY <3>2, <3>3, Zenon
  <2>16. Len(mid) = m /\ mid # <<>> /\ mid[1] = t[b] /\ mid[m] = t[e]
    <3>1. Len(mid) = m /\ mid[1] = t[b] /\ mid[m] = t[e]
      BY <2>9, <2>15
    <3> QED BY <2>15, <3>1
  <2>17. t[b] \notin Blank /\ t[e] \notin Blank
    BY <1>4, <2>3
  <2>18. IsTrimmed(mid) /\ mid[Len(mid)] \notin Blank
    BY <2>16, <2>17 DEF IsTrimmed
  <2>19. b \in 1..Len(t) /\ e \in 1..Len(t)
    BY <1>1, <2>3
  <2>20. ASSUME NEW l, EndsWith(t, l), l \notin Blank PROVE EndsWith(mid, l)
    <3>1. t[n] = l /\ n \in 1..n
      BY <1>1, <2>3, <2>20 DEF EndsWith
    <3>2. n \in kept
      BY <1>3, <2>20, <3>1
    <3>3. e = n
      BY <2>3, <2>4, <3>2
    <3> QED BY <2>16, <3>1, <3>3 DEF EndsWith
  <2>21. Trims(t, mid)
    BY <2>4, <2>7, <2>14, <2>18, <2>19, <2>20, Zenon DEF Trims
  <2> QED BY <2>11, <2>21, Zenon
<1> QED BY <1>5, <1>6

\* A part of a part of a script is one of the script (splitSQLStatements).
LEMMA PartOfPart ==
  ASSUME NEW E, NEW s \in Seq(E), NEW t, IsStretch(t, s), NEW u,
         \E b, e \in 1..Len(t) : b <= e /\ u = SubSeq(t, b, e)
  PROVE  IsPartOf(u, s)
<1>1. PICK c \in Nat \ {0}, d \in Nat : d <= Len(s) /\ t = SubSeq(s, c, d)
  BY Zenon DEF IsStretch
<1>2. PICK b \in 1..Len(t), e \in 1..Len(t) : b <= e /\ u = SubSeq(t, b, e)
  OBVIOUS
<1>3. t = [k \in 1..((d + 1) - c) |-> s[(c + k) - 1]]
  BY <1>1
<1>4. PICK m \in Nat : m = Len(t)
  <2>1. t \in Seq(E)
    BY <1>1
  <2> QED BY <2>1
<1>5. m = (d + 1) - c /\ m > 0
  <2>1. m > 0
    BY <1>2, <1>4
  <2>2. (d + 1) - c \in Nat \/ (d + 1) - c < 0
    OBVIOUS
  <2>3. (d + 1) - c \in Nat => m = (d + 1) - c
    BY <1>3, <1>4
  <2>4. (d + 1) - c < 0 => m = 0
    BY <1>1, <1>4
  <2> QED BY <2>1, <2>2, <2>3, <2>4
<1>6. b \in 1..m /\ e \in 1..m
  BY <1>2, <1>4
<1>7. PICK x, y \in 1..Len(s) : x = (c + b) - 1 /\ y = (c + e) - 1 /\ x <= y
  <2>1. (c + b) - 1 \in 1..Len(s) /\ (c + e) - 1 \in 1..Len(s) /\ (c + b) - 1 <= (c + e) - 1
    BY <1>1, <1>2, <1>5, <1>6
  <2> QED BY <2>1
<1>8. PICK w \in Nat : w = (e + 1) - b /\ w = (y + 1) - x
  <2>1. (e + 1) - b \in Nat /\ (e + 1) - b = (y + 1) - x
    BY <1>2, <1>6, <1>7
  <2> QED BY <2>1
<1>9. t \in Seq(E)
  BY <1>1
<1>10. u = [k \in 1..w |-> t[(b + k) - 1]]
  BY <1>2, <1>8, <1>9
<1>11. SubSeq(s, x, y) = [k \in 1..w |-> s[(x + k) - 1]]
  BY <1>8
<1>12. ASSUME NEW k \in 1..w PROVE t[(b + k) - 1] = s[(x + k) - 1]
  <2>1. PICK j \in 1..m : j = (b + k) - 1
    <3>1. (b + k) - 1 \in 1..m
      BY <1>2, <1>6, <1>8
    <3> QED BY <3>1
  <2>2. (c + j) - 1 = (x + k) - 1
    BY <1>6, <1>7, <2>1
  <2>3. t[j] = s[(c + j) - 1]
    BY <1>3, <1>5
  <2> QED BY <2>1, <2>2, <2>3
<1>13. u = SubSeq(s, x, y)
  BY <1>10, <1>11, <1>12
<1> QED BY <1>7, <1>13, Zenon DEF IsPartOf

\* Statements that are parts of a script; all of them, or all but the last, end with
\* the delimiter.
AreParts(x, s) == \A j \in 1..Len(x) : IsTrimmed(x[j]) /\ IsPartOf(x[j], s)
AllEnd(x)      == \A j \in 1..Len(x) : EndsDelimited(x[j])
OthersEnd(x)   == \A j \in 1..Len(x) : j < Len(x) => EndsDelimited(x[j])

\* One statement more is one at the end.
LEMMA StatementMore ==
  ASSUME NEW E, NEW x \in Seq(Seq(E)), NEW v \in Seq(E), NEW s, AreParts(x, s), AllEnd(x),
         IsTrimmed(v), IsPartOf(v, s)
  PROVE  /\ AreParts(Append(x, v), s) /\ OthersEnd(Append(x, v))
         /\ EndsDelimited(v) => AllEnd(Append(x, v))
<1> DEFINE F == Seq(E)
<1>0. x \in Seq(F) /\ v \in F
  OBVIOUS
<1> HIDE DEF F
<1>1. PICK n \in Nat : n = Len(x)
  BY <1>0
<1>2. PICK y : y = Append(x, v)
  OBVIOUS
<1>3. Len(y) = n + 1 /\ y[n + 1] = v /\ \A j \in 1..n : y[j] = x[j]
  BY <1>0, <1>1, <1>2
<1>4. \A j \in 1..(n + 1) : j \in 1..n \/ (j = n + 1 /\ ~(j < n + 1))
  BY <1>1
<1>5. AreParts(y, s)
  BY <1>1, <1>3, <1>4, Zenon DEF AreParts
<1>6. OthersEnd(y)
  BY <1>1, <1>3, <1>4, Zenon DEF OthersEnd, AllEnd
<1>7. EndsDelimited(v) => AllEnd(y)
  BY <1>1, <1>3, <1>4, Zenon DEF AllEnd
<1> QED BY <1>2, <1>5, <1>6, <1>7

\* Without their last, statements that all end with the delimiter do so too.
LEMMA AllAndOthers == ASSUME NEW x, AllEnd(x) PROVE OthersEnd(x)
BY Zenon DEF AllEnd, OthersEnd

\* What has been flushed of the first k texts.
FlushedUpTo(r, k) == FlattenSeq(UpTo([i \in 1..Len(r) |-> Flushed(r[i])], k))

\* The statements are what is flushed of each text, in their order
\* (splitSQLStatements).
LEMMA FlushedNext ==
  ASSUME NEW E, NEW r \in Seq(Seq(E))
  PROVE  /\ FlushedUpTo(r, 0) = <<>>
         /\ FlushedUpTo(r, Len(r)) = FlattenSeq([k \in 1..Len(r) |-> Flushed(r[k])])
         /\ \A k \in 0..Len(r) : FlushedUpTo(r, k) \in Seq(Seq(E))
         /\ \A k \in 0..Len(r) : k + 1 <= Len(r) =>
              FlushedUpTo(r, k + 1) = IF Trimmed(r[k + 1]) = <<>> THEN FlushedUpTo(r, k)
                                      ELSE Append(FlushedUpTo(r, k), Trimmed(r[k + 1]))
<1> DEFINE F == Seq(E)
           y == [i \in 1..Len(r) |-> Flushed(r[i])]
<1>0. r \in Seq(F) /\ \A u \in F : Trimmed(u) \in F
  BY TrimmedIs
<1> HIDE DEF F
<1>1. PICK n \in Nat : n = Len(r)
  BY <1>0
<1>2. \A i \in 1..n : r[i] \in F
  BY <1>0, <1>1
<1>3. \A u \in F : Flushed(u) \in Seq(F)
  BY <1>0 DEF Flushed
<1>4. y \in Seq(Seq(F)) /\ Len(y) = n /\ \A i \in 1..n : y[i] = Flushed(r[i])
  <2>1. \A i \in 1..n : Flushed(r[i]) \in Seq(F)
    BY <1>2, <1>3
  <2> QED BY <1>1, <2>1
<1> HIDE DEF y
<1>5. /\ FlattenSeq(UpTo(y, 0)) = <<>> /\ FlattenSeq(UpTo(y, n)) = FlattenSeq(y)
      /\ \A k \in 0..n : FlattenSeq(UpTo(y, k)) \in Seq(F)
      /\ \A k \in 0..n : k + 1 <= n => FlattenSeq(UpTo(y, k + 1)) = FlattenSeq(UpTo(y, k)) \o y[k + 1]
  BY <1>4, UpToIs
<1>6. \A k : FlushedUpTo(r, k) = FlattenSeq(UpTo(y, k))
  BY Zenon DEF FlushedUpTo, y
<1>7. FlushedUpTo(r, 0) = <<>> /\ FlushedUpTo(r, n) = FlattenSeq(y)
      /\ \A k \in 0..n : FlushedUpTo(r, k) \in Seq(F)
  BY <1>5, <1>6
<1>8. ASSUME NEW k \in 0..n, k + 1 <= n
      PROVE  FlushedUpTo(r, k + 1) = IF Trimmed(r[k + 1]) = <<>> THEN FlushedUpTo(r, k)
                                      ELSE Append(FlushedUpTo(r, k), Trimmed(r[k + 1]))
  <2>1. k + 1 \in 1..n
    BY <1>8
  <2>2. PICK x \in Seq(F) : x = FlushedUpTo(r, k)
    BY <1>7
  <2>3. PICK v \in F : v = Trimmed(r[k + 1])
    BY <1>0, <1>2, <2>1
  <2>4. FlushedUpTo(r, k + 1) = x \o y[k + 1]
    BY <1>5, <1>6, <1>8, <2>2
  <2>5. y[k + 1] = IF v = <<>> THEN <<>> ELSE <<v>>
    BY <1>4, <2>1, <2>3 DEF Flushed
  <2>6. x \o <<>> = x /\ x \o <<v>> = Append(x, v)
    OBVIOUS
  <2> QED BY <2>2, <2>3, <2>4, <2>5, <2>6
<1>9. FlattenSeq(y) = FlattenSeq([k \in 1..Len(r) |-> Flushed(r[k])])
  BY DEF y
<1> QED BY <1>1, <1>7, <1>8, <1>9 DEF F

\* TrimSpace keeps delimiters.
DelimiterKept == ";" \notin Blank

\* A script is sent as a whole: its statements are parts of it and, blanks between
\* them aside, all of it, each but the last up to a delimiter (splitSQLStatements).
LEMMA StatementsDivide ==
  ASSUME NEW E, NEW s \in Seq(E), NEW dialect, DelimiterKept
  PROVE  IsDivision(Statements(s, dialect), s)
<1>1. PICK r : r = Divided(s, dialect) /\ IsCut(E, s, r, s)
  BY DividedCuts
<1>2. /\ r \in Seq(Seq(E)) /\ FlattenSeq(r) = s
      /\ \A k \in 1..Len(r) : IsStretch(r[k], s)
      /\ \A k \in 1..Len(r) : k < Len(r) => EndsDelimited(r[k])
  BY <1>1, Zenon DEF IsCut
<1>3. PICK n \in Nat : n = Len(r)
  <2> DEFINE F == Seq(E)
  <2>1. r \in Seq(F)
    BY <1>2
  <2> HIDE DEF F
  <2> QED BY <2>1
<1> DEFINE t(k) == FlushedUpTo(r, k)
           u(k) == FlattenSeq(UpTo(r, k))
           Same(k) == Without(FlattenSeq(t(k)), Blank) = Without(u(k), Blank)
           N == {k \in Nat : k <= n => /\ Same(k) /\ AreParts(t(k), s) /\ OthersEnd(t(k))
                                       /\ k < n => AllEnd(t(k))}
<1>4. /\ t(0) = <<>> /\ t(n) = Statements(s, dialect)
      /\ \A k \in 0..n : t(k) \in Seq(Seq(E))
      /\ \A k \in 0..n : k + 1 <= n =>
           t(k + 1) = IF Trimmed(r[k + 1]) = <<>> THEN t(k) ELSE Append(t(k), Trimmed(r[k + 1]))
  <2>1. /\ t(0) = <<>> /\ t(n) = FlattenSeq([k \in 1..Len(r) |-> Flushed(r[k])])
        /\ \A k \in 0..n : t(k) \in Seq(Seq(E))
        /\ \A k \in 0..n : k + 1 <= n =>
           t(k + 1) = IF Trimmed(r[k + 1]) = <<>> THEN t(k) ELSE Append(t(k), Trimmed(r[k + 1]))
    BY <1>2, <1>3, FlushedNext
  <2>2. Statements(s, dialect) = FlattenSeq([k \in 1..Len(r) |-> Flushed(r[k])])
    BY <1>1, Zenon DEF Statements
  <2> HIDE DEF t
  <2> QED BY <2>1, <2>2, Zenon
<1>5. /\ u(0) = <<>> /\ u(n) = s
      /\ \A k \in 0..n : u(k) \in Seq(E)
      /\ \A k \in 0..n : k + 1 <= n => r[k + 1] \in Seq(E) /\ u(k + 1) = u(k) \o r[k + 1]
  BY <1>2, <1>3, UpToIs
<1> HIDE DEF t, u
<1>6. 0 \in N
  <2>1. Len(<<>>) = 0 /\ 1..0 = {}
    OBVIOUS
  <2>2. AreParts(<<>>, s) /\ OthersEnd(<<>>) /\ AllEnd(<<>>)
    BY <2>1, Zenon DEF AreParts, OthersEnd, AllEnd
  <2>3. Same(0)
    BY <1>4, <1>5, FlattenNothing, Zenon
  <2> HIDE DEF Same
  <2> QED BY <1>4, <2>2, <2>3
<1>7. ASSUME NEW k \in Nat, k \in N PROVE k + 1 \in N
  <2> SUFFICES ASSUME k + 1 <= n
               PROVE  /\ Same(k + 1) /\ AreParts(t(k + 1), s) /\ OthersEnd(t(k + 1))
                      /\ k + 1 < n => AllEnd(t(k + 1))
    OBVIOUS
  <2>1. k \in 0..n /\ k <= n /\ k < n /\ k + 1 \in 1..n
    OBVIOUS
  <2>2. Same(k) /\ AreParts(t(k), s) /\ OthersEnd(t(k)) /\ AllEnd(t(k))
    <3> HIDE DEF Same
    <3> QED BY <1>7, <2>1
  <2> HIDE DEF N
  <2>3. PICK x \in Seq(Seq(E)), w \in Seq(E) : x = t(k) /\ w = r[k + 1] /\ u(k + 1) = u(k) \o w
    BY <1>4, <1>5, <2>1
  <2>4. PICK v \in Seq(E) : v = Trimmed(w) /\ Trims(w, v)
    BY TrimmedIs, Zenon
  <2>5. t(k + 1) = IF v = <<>> THEN x ELSE Append(x, v)
    BY <1>4, <2>1, <2>3, <2>4
  <2>6. IsStretch(w, s) /\ (k + 1 < n => EndsDelimited(w))
    BY <1>2, <1>3, <2>1, <2>3
  <2>7. FlattenSeq(t(k + 1)) = FlattenSeq(x) \o v
    <3>1. FlattenSeq(x) \in Seq(E)
      BY FlattenType
    <3>2. FlattenSeq(x) \o <<>> = FlattenSeq(x)
      BY <3>1
    <3>3. FlattenSeq(Append(x, v)) = FlattenSeq(x) \o v
      BY FlattenMore
    <3> QED BY <2>5, <3>2, <3>3
  <2>8. Same(k + 1)
    <3>1. PICK y \in Seq(E), z \in Seq(E) : y = FlattenSeq(x) /\ z = u(k)
      BY <1>5, <2>1, FlattenType
    <3>2. LeftOfEach(y, v, Blank) /\ LeftOfEach(z, w, Blank)
      BY WithoutParts, Zenon
    <3>3. Without(y, Blank) = Without(z, Blank) /\ Without(v, Blank) = Without(w, Blank)
      BY <2>2, <2>3, <2>4, <3>1, Zenon DEF Trims
    <3>4. Without(y \o v, Blank) = Without(z \o w, Blank)
      BY <3>2, <3>3, Zenon DEF LeftOfEach
    <3> QED BY <2>3, <2>7, <3>1, <3>4, Zenon
  <2> HIDE DEF Same
  <2>9. CASE v = <<>>
    <3>1. t(k + 1) = t(k)
      BY <2>3, <2>5, <2>9
    <3> QED BY <2>2, <2>8, <3>1
  <2>10. CASE v # <<>>
    <3>1. t(k + 1) = Append(x, v)
      BY <2>5, <2>10
    <3>2. IsTrimmed(v) /\ IsPartOf(v, s)
      <4>1. IsTrimmed(v) /\ \E b, e \in 1..Len(w) : b <= e /\ v = SubSeq(w, b, e)
        BY <2>4, <2>10, Zenon DEF Trims
      <4> QED BY <2>6, <4>1, PartOfPart
    <3>3. k + 1 < n => EndsDelimited(v)
      <4>1. EndsDelimited(w) => EndsDelimited(v)
        BY <2>4, <2>10, Zenon DEF Trims, EndsDelimited, DelimiterKept
      <4> QED BY <2>6, <4>1
    <3>4. AreParts(x, s) /\ AllEnd(x)
      BY <2>2, <2>3
    <3>5. /\ AreParts(Append(x, v), s) /\ OthersEnd(Append(x, v))
          /\ EndsDelimited(v) => AllEnd(Append(x, v))
      BY <3>2, <3>4, StatementMore
    <3> QED BY <2>8, <3>1, <3>3, <3>5, Zenon
  <2> QED BY <2>9, <2>10
<1>8. n \in N
  <2> HIDE DEF N
  <2> QED BY <1>6, <1>7, NumbersUpwards
<1> HIDE DEF Same
<1>9. Same(n) /\ AreParts(t(n), s) /\ OthersEnd(t(n))
  <2>1. n <= n
    OBVIOUS
  <2> QED BY <1>8, <2>1
<1> QED BY <1>4, <1>5, <1>9, Zenon DEF IsDivision, Same, AreParts, OthersEnd, EndsDelimited

=============================================================================
