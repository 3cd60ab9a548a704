----------------------------- MODULE TextShapes -----------------------------
(***************************************************************************)
(* What the texts of scripts look like, in the words of the properties     *)
(* and the proofs about them: lines of blanks, comments that go on, texts  *)
(* with a byte order mark, a directive, one placeholder or none.           *)
(***************************************************************************)
EXTENDS ScriptText

\* A text without some lexemes, and without its line ends.
Without(text, lexemes) ==
  FlattenSeq([i \in 1..Len(text) |-> IF text[i] \in lexemes THEN <<>> ELSE <<text[i]>>])
Kept(text) == Without(text, {"nl", "cr"})

\* A text that neither begins nor ends with a blank, and a part of a text.
IsTrimmed(text) == text # <<>> /\ text[1] \notin Blank /\ text[Len(text)] \notin Blank
EndsWith(text, lexeme) == text # <<>> /\ text[Len(text)] = lexeme
IsPartOf(text, script) == \E b, e \in 1..Len(script) : b <= e /\ text = SubSeq(script, b, e)

\* Texts that are parts of a script and, blanks between them aside, all of it, each
\* but the last up to a delimiter.
IsDivision(texts, script) ==
  /\ Without(FlattenSeq(texts), Blank) = Without(script, Blank)
  /\ \A k \in 1..Len(texts) :
       /\ IsTrimmed(texts[k]) /\ IsPartOf(texts[k], script)
       /\ k < Len(texts) => EndsWith(texts[k], ";")

\* A byte order mark.
IsMark(text) == text = <<"bom">>

\* Blanks only, from the start of a line behind b up to i.
LineBehind(s, b, i) == (b = 0 \/ s[b] = "nl") /\ \A j \in (b + 1)..(i - 1) : s[j] \in Blank \ {"nl"}

\* A text that ends with a line of blanks, and one that ends in the comment its
\* last line begins with.
EndsBlank(s) == \E b \in 0..Len(s) : LineBehind(s, b, Len(s) + 1)
EndsInComment(s) ==
  \E i \in 1..Len(s) :
    /\ s[i] = "--"
    /\ \E b \in 0..(i - 1) : LineBehind(s, b, i)
    /\ \A k \in i..Len(s) : s[k] # "nl"

\* A text in which a marker is somewhere, one whose first line is a comment with a
\* marker, and one in which a later line looks like such a comment.
Mentions(s) == \E k \in 1..Len(s) : s[k] \in Directives
MarkedAt(s, i) == s[i] = "--" /\ \E j \in i..Len(s) : s[j] \in Directives /\ \A k \in i..j : s[k] # "nl"
Opens(s) == \E i \in 1..Len(s) : MarkedAt(s, i) /\ LineBehind(s, 0, i)
Hides(s) == \E i \in 1..Len(s) : MarkedAt(s, i) /\ \E b \in 1..(i - 1) : LineBehind(s, b, i)

\* A text in which a prefix still waits for its suffix, and one with a suffix.
Unclosed(s) == \E i \in 1..Len(s) : s[i] = "${" /\ \A k \in (i + 1)..Len(s) : s[k] # "}"
Closes(s)   == \E k \in 1..Len(s) : s[k] = "}"

\* A text without a placeholder, and one with a placeholder from b to e.
IsPlain(s) == (\A k \in 1..Len(s) : s[k] # "${") \/ ~Closes(s)
HasOne(s, b, e) ==
  /\ s[b] = "${" /\ s[e] = "}" /\ b < e
  /\ \A k \in 1..Len(s) : (k < b \/ e < k => s[k] # "${") /\ (b < k /\ k < e => s[k] # "}")

=============================================================================
