----------------------------- MODULE ScriptText -----------------------------
(***************************************************************************)
(* What is computed from the text of a script as a whole: its checksum     *)
(* (checksum.go), the directive in it (script.go) and the text with its    *)
(* placeholders replaced (placeholder.go).  A text is a sequence of        *)
(* lexemes; "nl" and "cr" end lines, "bom" is the byte order mark.         *)
(***************************************************************************)
EXTENDS LetterCase, Integers, FiniteSets, FiniteSetsExt, SequencesExt

CONSTANTS
  Blank,         \* Lexemes TrimSpace removes
  Directives     \* The markers of noTransactionMarkers, in whatever case

\* The places of a text at which l stands, from i on.
PlacesFrom(s, i, l) == {j \in i..Len(s) : s[j] = l}

\* Places from the first to the last.
InOrder(places) ==
  [k \in 1..Cardinality(places) |->
     CHOOSE i \in places : Cardinality({j \in places : j < i}) = k - 1]

-----------------------------------------------------------------------------
(* Lines.                                                                  *)

\* splitChecksumLines: where lines end, and how long their terminators are.
LineEnds(s) ==
  {i \in 1..Len(s) :
     \/ s[i] = "nl" /\ ~(i > 1 /\ s[i - 1] = "cr")
     \/ s[i] = "cr"}
TerminatorLength(s, i) ==
  IF s[i] = "cr" /\ i < Len(s) /\ s[i + 1] = "nl" THEN 2 ELSE 1

\* Planted bug: a carriage return is a part of its line.
ChecksumLines_NewlineOnly(s) ==
  LET ends   == InOrder(PlacesFrom(s, 1, "nl"))
      start(k) == IF k = 1 THEN 1 ELSE ends[k - 1] + 1
      line(k)  == SubSeq(s, start(k), IF k <= Len(ends) THEN ends[k] - 1 ELSE Len(s))
  IN  [k \in 1..(Len(ends) + 1) |-> line(k)]

\* The lines, without their terminators.  An empty last one makes no difference.
ChecksumLines(s) ==
  LET ends   == InOrder(LineEnds(s))
      start(k) == IF k = 1 THEN 1 ELSE ends[k - 1] + TerminatorLength(s, ends[k - 1])
      line(k)  == SubSeq(s, start(k), IF k <= Len(ends) THEN ends[k] - 1 ELSE Len(s))
  IN  [k \in 1..(Len(ends) + 1) |-> line(k)]

\* stripByteOrderMark.
WithoutMark(line) == IF line # <<>> /\ Head(line) = "bom" THEN Tail(line) ELSE line

\* calculateChecksum: the bytes the digest is fed.
Digested(s) ==
  LET lines == ChecksumLines(s)
  IN  FlattenSeq([k \in 1..Len(lines) |->
                    IF k = 1 THEN WithoutMark(lines[k]) ELSE lines[k]])

\* Planted bug: the directive is looked for in the first line only.
RequestsNoTransaction_FirstLine(s) ==
  \E i \in 1..Len(s) :
    /\ s[i] = "--" /\ \A j \in 1..(i - 1) : s[j] \in Blank \ {"nl"}
    /\ \E j \in i..Len(s) : s[j] \in Directives /\ \A k \in i..j : s[k] # "nl"

\* scriptRequestsNoTransaction: some line whose first two characters other than
\* blanks are "--" contains a marker.
RequestsNoTransaction(s) ==
  \E i \in 1..Len(s) :
    /\ s[i] = "--"
    /\ \E b \in 0..(i - 1) :
         /\ b = 0 \/ s[b] = "nl"
         /\ \A j \in (b + 1)..(i - 1) : s[j] \in Blank \ {"nl"}
    /\ \E j \in i..Len(s) : s[j] \in Directives /\ \A k \in i..j : s[k] # "nl"

-----------------------------------------------------------------------------
(* Placeholders.  "${" and "}" are the configured prefix and suffix, values *)
(* is what effectivePlaceholders returns: the value of each key.            *)

\* A prefix stands for nothing but itself when no suffix follows.
IsPlaceholder(s, i) == s[i] = "${" /\ PlacesFrom(s, i + 1, "}") # {}
SuffixOf(s, i) == Min(PlacesFrom(s, i + 1, "}"))

\* Planted bug: a key is looked up as it is written.
KeyOf_AsWritten(s, i) == SubSeq(s, i + 1, SuffixOf(s, i) - 1)

\* Keys are stored, and looked up, in lower case.
KeyOf(s, i) == LowerCase(SubSeq(s, i + 1, SuffixOf(s, i) - 1))

\* The places at which the loop of replacePlaceholders looks.
Looks(s) ==
  LET from[i \in Nat] ==
        IF i > Len(s) THEN {}
        ELSE {i} \cup from[IF IsPlaceholder(s, i) THEN SuffixOf(s, i) + 1 ELSE i + 1]
  IN  from[1]

\* A key that has no value makes the script an error.
HasUnknown(s, values) ==
  \E i \in Looks(s) : IsPlaceholder(s, i) /\ KeyOf(s, i) \notin DOMAIN values

\* replacePlaceholders, when every key has a value: values are copied as they are.
Replaced(s, values) ==
  LET at == InOrder(Looks(s))
      value(i) == IF IsPlaceholder(s, i) THEN values[KeyOf(s, i)] ELSE <<s[i]>>
  IN  FlattenSeq([k \in 1..Len(at) |-> value(at[k])])

=============================================================================
