------------------------- MODULE StatementSplitter -------------------------
(***************************************************************************)
(* parser.go: a script is divided at the semicolons that delimit           *)
(* statements.  The lexical elements that hide a semicolon are skipped as a *)
(* whole: Past... is the place at which the loop goes on after the element  *)
(* that begins at place i, the end of the script when it is not closed.    *)
(* "dq" and "bq" are the double quote and the backtick, "bs" the backslash. *)
(***************************************************************************)
EXTENDS ScriptText

CONSTANTS
  WordStarts,   \* Lexemes that begin with a letter or an underscore
  Digits        \* Lexemes of digits

WordLexemes == WordStarts \cup Digits

\* Behind the first of places, at which an element of width lexemes ends it.
Behind(s, places, width) == IF places = {} THEN Len(s) + 1 ELSE Min(places) + width

IsWordAt(s, i) == i \in 1..Len(s) /\ s[i] \in WordLexemes

\* A line comment ends before the end of its line.
PastLineComment(s, i) == Behind(s, PlacesFrom(s, i, "nl"), 0)

\* Block comments nest.
PastBlockComment(s, i) ==
  LET count(l, j) == Cardinality({k \in i..j : s[k] = l})
  IN  Behind(s, {j \in PlacesFrom(s, i, "*/") : count("/*", j) = count("*/", j)}, 1)

\* copyQuoted and copySingleQuoted: a doubled quote does not close, and in an
\* escape string neither does one behind a backslash.
PastQuoted(s, i, escapes) ==
  LET from[j \in Nat] ==
        IF j > Len(s) THEN Len(s) + 1
        ELSE IF escapes /\ s[j] = "bs" /\ j < Len(s) THEN from[j + 2]
        ELSE IF s[j] # s[i] THEN from[j + 1]
        ELSE IF j < Len(s) /\ s[j + 1] = s[i] THEN from[j + 2]
        ELSE j + 1
  IN  from[i + 1]

\* Planted bug: there are no escape strings.
IsEscapeString_Never(s, i) == FALSE

\* A quote behind an E that is a word by itself opens an escape string.
IsEscapeString(s, i) == i > 1 /\ s[i - 1] = "E" /\ ~IsWordAt(s, i - 2)

PastBracket(s, i) == Behind(s, PlacesFrom(s, i, "]"), 1)

\* readDollarTag: where the tag that opens at place i ends, if there is one.
TagEnds(s, i) ==
  {c \in PlacesFrom(s, i + 1, "$") :
     \/ c = i + 1
     \/ s[i + 1] \in WordStarts /\ \A k \in (i + 1)..(c - 1) : s[k] \in WordLexemes}

\* The text between two occurrences of a tag; a dollar sign alone is just that.
PastDollar(s, i) ==
  IF TagEnds(s, i) = {} THEN i + 1
  ELSE LET tag == SubSeq(s, i, Min(TagEnds(s, i)))
       IN  Behind(s, {j \in (i + Len(tag))..(Len(s) - Len(tag) + 1) :
                        SubSeq(s, j, j + Len(tag) - 1) = tag}, Len(tag))

\* readWord.
PastWord(s, i) == Behind(s, {j \in i..Len(s) : s[j] \notin WordLexemes}, 0)
StartsWord(s, i) == s[i] \in WordStarts /\ ~IsWordAt(s, i - 1)

\* The switch of splitSQLStatements but for the delimiter.
Past(s, i, dialect) ==
  CASE s[i] = "--" -> PastLineComment(s, i)
    [] s[i] = "/*" -> PastBlockComment(s, i)
    [] s[i] = "'"  -> PastQuoted(s, i, IsEscapeString(s, i))
    [] s[i] = "dq" -> PastQuoted(s, i, FALSE)
    [] s[i] = "bq" /\ dialect = "sqlite" -> PastQuoted(s, i, FALSE)
    [] s[i] = "["  /\ dialect = "sqlite" -> PastBracket(s, i)
    [] s[i] = "$"  /\ dialect = "postgresql" -> PastDollar(s, i)
    [] dialect = "sqlite" /\ StartsWord(s, i) -> PastWord(s, i)
    [] OTHER -> i + 1

\* The depth of blocks behind the element at place i: SQLite's triggers.
Depth(s, i, depth, dialect) ==
  LET word == SubSeq(s, i, PastWord(s, i) - 1)
  IN  IF ~(dialect = "sqlite" /\ StartsWord(s, i)) THEN depth
      ELSE IF word \in {<<"BEGIN">>, <<"CASE">>} THEN depth + 1
      ELSE IF word = <<"END">> /\ depth > 0 THEN depth - 1
      ELSE depth

\* TrimSpace.
Trimmed(s) ==
  LET kept == {i \in 1..Len(s) : s[i] \notin Blank}
  IN  IF kept = {} THEN <<>> ELSE SubSeq(s, Min(kept), Max(kept))

\* The loop of splitSQLStatements: where it is, where the current statement began and
\* how deep in blocks it is.
LoopState == [index : Nat \ {0}, start : Nat \ {0}, depth : Nat]
At(index, start, depth) == [index |-> index, start |-> start, depth |-> depth]

\* Planted bug: what follows the last delimiter is not flushed.
Divided_RestLost(s, dialect) ==
  LET from[p \in LoopState] ==
        IF p.index > Len(s) THEN <<>>
        ELSE IF s[p.index] = ";" /\ p.depth = 0
             THEN <<SubSeq(s, p.start, p.index)>> \o from[At(p.index + 1, p.index + 1, 0)]
        ELSE from[At(Past(s, p.index, dialect), p.start, Depth(s, p.index, p.depth, dialect))]
  IN  from[At(1, 1, 0)]

\* What it flushes.
Divided(s, dialect) ==
  LET from[p \in LoopState] ==
        IF p.index > Len(s) THEN <<SubSeq(s, p.start, Len(s))>>
        ELSE IF s[p.index] = ";" /\ p.depth = 0
             THEN <<SubSeq(s, p.start, p.index)>> \o from[At(p.index + 1, p.index + 1, 0)]
        ELSE from[At(Past(s, p.index, dialect), p.start, Depth(s, p.index, p.depth, dialect))]
  IN  from[At(1, 1, 0)]

\* flush: statements are trimmed, empty ones left out.
Flushed(text) == IF Trimmed(text) = <<>> THEN <<>> ELSE <<Trimmed(text)>>

\* splitSQLStatements.
Statements(s, dialect) ==
  LET divided == Divided(s, dialect)
  IN  FlattenSeq([k \in 1..Len(divided) |-> Flushed(divided[k])])

=============================================================================
