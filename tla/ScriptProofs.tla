---------------------------- MODULE ScriptProofs ----------------------------
(***************************************************************************)
(* Theorems about what becomes of the text of a script, with any pieces in *)
(* any number: its checksum leaves out its mark and line ends and nothing  *)
(* else, a directive before any SQL counts and a mere mention does not,    *)
(* every placeholder becomes its value or ends the run, and what is sent   *)
(* is the whole script.                                                    *)
(***************************************************************************)
EXTENDS LoadProofs

\* The texts and the values of a file's pieces, and all their lexemes.
TextsOf(f)  == [i \in 1..Len(f.pieces) |-> f.pieces[i].text]
ValuesOf(f) == [i \in 1..Len(f.pieces) |-> f.pieces[i].value]
LexemesOf(f) ==
  LET values == EffectivePlaceholders(f)
  IN  {"bom"} \cup (UNION {ToSet(p.text) \cup ToSet(p.value) : p \in ToSet(f.pieces)})
              \cup (UNION {ToSet(values[key]) : key \in DOMAIN values})

Right(f) == FileRight(f) /\ MarkRight(f) /\ DirectivesRight(f) /\ PlaceholdersRight(f)

\* The files that were found are the pieces they were made of.
LEMMA FilesRight ==
  ASSUME FilesInv, NEW i \in 1..Len(files)
  PROVE  Right(files[i])
<1>1. files[i] \in ToSet(files)
  BY DEF FilesInv, ToSet
<1> QED BY <1>1, PiecesAreMarked DEF FilesInv, Right

\* A file's text and values are those of its pieces, one after another.
LEMMA PiecesOfFile ==
  ASSUME NEW f, FileRight(f), NEW E, E = LexemesOf(f)
  PROVE  /\ f.pieces \in Seq(ToSet(f.pieces)) /\ Len(f.pieces) \in Nat
         /\ \A i \in 1..Len(f.pieces) : f.pieces[i] \in ToSet(f.pieces)
         /\ TextsOf(f) \in Seq(Seq(E)) /\ Len(TextsOf(f)) = Len(f.pieces)
         /\ ValuesOf(f) \in Seq(Seq(E)) /\ Len(ValuesOf(f)) = Len(f.pieces)
         /\ f.text = FlattenSeq(TextsOf(f)) /\ ValueOf(f.pieces) = FlattenSeq(ValuesOf(f))
         /\ \A p \in ToSet(f.pieces) :
              (\E i \in 1..Len(f.pieces) : p = f.pieces[i]) /\ p.text \in Seq(E) /\ p.value \in Seq(E)
<1>1. PICK s : s = f.pieces
  OBVIOUS
<1>2. s \in Seq(ToSet(s))
  BY <1>1 DEF FileRight
<1>3. Len(s) \in Nat /\ DOMAIN s = 1..Len(s)
  BY <1>2
<1>4. \A i \in 1..Len(s) : s[i] \in ToSet(s)
  BY <1>2, ElementOfSeq
<1>5. ASSUME NEW p \in ToSet(s) PROVE \E i \in 1..Len(s) : p = s[i]
  BY <1>3 DEF ToSet
<1>6. ASSUME NEW p \in ToSet(s) PROVE p.text \in Seq(E) /\ p.value \in Seq(E)
  <2>1. p.text \in Seq(ToSet(p.text)) /\ p.value \in Seq(ToSet(p.value))
    BY <1>1 DEF FileRight
  <2>2. PICK S : S = {ToSet(q.text) \cup ToSet(q.value) : q \in ToSet(s)}
    OBVIOUS
  <2>3. ToSet(p.text) \cup ToSet(p.value) \in S
    BY <2>2
  <2>4. UNION S \subseteq E
    BY <1>1, <2>2, Zenon DEF LexemesOf
  <2>5. ToSet(p.text) \subseteq E /\ ToSet(p.value) \subseteq E
    BY <2>3, <2>4
  <2> QED BY <2>1, <2>5, SeqMonotonic
<1>7. TextsOf(f) \in Seq(Seq(E)) /\ Len(TextsOf(f)) = Len(s)
  <2> DEFINE F == Seq(E)
  <2>1. \A i \in 1..Len(s) : s[i].text \in F
    BY <1>4, <1>6
  <2> HIDE DEF F
  <2>2. [i \in 1..Len(s) |-> s[i].text] \in Seq(F) /\ Len([i \in 1..Len(s) |-> s[i].text]) = Len(s)
    BY <1>3, <2>1
  <2> QED BY <1>1, <2>2 DEF TextsOf, F
<1>8. ValuesOf(f) \in Seq(Seq(E)) /\ Len(ValuesOf(f)) = Len(s)
  <2> DEFINE F == Seq(E)
  <2>1. \A i \in 1..Len(s) : s[i].value \in F
    BY <1>4, <1>6
  <2> HIDE DEF F
  <2>2. [i \in 1..Len(s) |-> s[i].value] \in Seq(F) /\ Len([i \in 1..Len(s) |-> s[i].value]) = Len(s)
    BY <1>3, <2>1
  <2> QED BY <1>1, <2>2 DEF ValuesOf, F
<1>9. f.text = FlattenSeq(TextsOf(f)) /\ ValueOf(f.pieces) = FlattenSeq(ValuesOf(f))
  BY DEF FileRight, TextOf, ValueOf, TextsOf, ValuesOf
<1> QED BY <1>1, <1>2, <1>3, <1>4, <1>5, <1>6, <1>7, <1>8, <1>9

\* The text before a piece.
LEMMA TextBefore ==
  ASSUME NEW f, FileRight(f), NEW i \in 1..Len(f.pieces)
  PROVE  TextOf(SubSeq(f.pieces, 1, i - 1)) = FlattenSeq(UpTo(TextsOf(f), i - 1))
<1>1. PICK s, S : s = f.pieces /\ s \in Seq(S)
  BY DEF FileRight
<1>2. PICK n \in Nat : n = i - 1 /\ n <= Len(s)
  BY <1>1
<1>3. SubSeq(s, 1, n) = [k \in 1..n |-> s[k]]
  BY <1>1, <1>2
<1>4. Len(SubSeq(s, 1, n)) = n
  BY <1>1, <1>2
<1>5. \A k \in 1..n : SubSeq(s, 1, n)[k].text = TextsOf(f)[k]
  <2>1. \A k \in 1..n : SubSeq(s, 1, n)[k] = s[k] /\ k \in 1..Len(s)
    BY <1>1, <1>2, <1>3
  <2> QED BY <1>1, <2>1 DEF TextsOf
<1>6. [k \in 1..Len(SubSeq(s, 1, n)) |-> SubSeq(s, 1, n)[k].text] = UpTo(TextsOf(f), n)
  BY <1>4, <1>5 DEF UpTo
<1> QED BY <1>1, <1>2, <1>6 DEF TextOf

-----------------------------------------------------------------------------
(* Directives.                                                             *)

\* A directive counts on a line of its own, behind nothing but blanks, and so does a
\* line of a longer element that looks like one.
LEMMA DirectiveOfFile ==
  ASSUME NEW f, Right(f)
  PROVE  RequestsNoTransaction(f.text) <=>
           \E i \in 1..Len(f.pieces) : OwnLine(f.pieces, i) \/ f.pieces[i].kind = "hidden"
<1>1. PICK E, x, n : E = LexemesOf(f) /\ x = TextsOf(f) /\ n = Len(f.pieces)
  OBVIOUS
<1>0. FileRight(f) /\ DirectivesRight(f)
  BY DEF Right
<1>2. /\ x \in Seq(Seq(E)) /\ Len(x) = n /\ n \in Nat
      /\ f.text = FlattenSeq(x)
  BY <1>0, <1>1, PiecesOfFile
<1>3. \A i \in 1..n : x[i] = f.pieces[i].text
  BY <1>1 DEF TextsOf
<1>4. \A i \in 1..n : TextOf(Ahead(f.pieces, i)) = FlattenSeq(UpTo(x, i - 1))
  BY <1>0, <1>1, TextBefore DEF Ahead
<1>5. \A i \in 1..n : FlattenSeq(UpTo(x, i - 1)) \in Seq(E)
  <2>1. \A i \in 1..n : i - 1 \in 0..n
    BY <1>2
  <2>2. \A k \in 0..n : FlattenSeq(UpTo(x, k)) \in Seq(E)
    BY <1>2, UpToIs
  <2> QED BY <2>1, <2>2
<1>6. PICK D, H : /\ D = {i \in 1..n : f.pieces[i].kind = "directive"}
                  /\ H = {i \in 1..n : f.pieces[i].kind = "hidden"}
  OBVIOUS
<1>7. \A i \in 1..n : /\ i \in D <=> Opens(x[i])
                      /\ i \in H <=> Hides(x[i])
                      /\ Mentions(x[i]) => ~EndsInComment(FlattenSeq(UpTo(x, i - 1)))
  BY <1>0, <1>1, <1>3, <1>4, <1>6 DEF DirectivesRight, Ahead
<1>8. RequestsNoTransaction(FlattenSeq(x)) <=>
        (\E i \in D : EndsBlank(FlattenSeq(UpTo(x, i - 1)))) \/ H # {}
  <2>1. D \in SUBSET (1..Len(x)) /\ H \in SUBSET (1..Len(x))
    BY <1>2, <1>6
  <2> QED BY <1>2, <1>7, <2>1, DirectivesIn
<1>9. \A i \in 1..n : EndsBlank(FlattenSeq(UpTo(x, i - 1)))
                        <=> AtLineStart(FlattenSeq(UpTo(x, i - 1)))
  <2>1. \A s \in Seq(E) : EndsBlank(s) <=> AtLineStart(s)
    BY NewlineIsBlank, EndsBlankIs DEF AtLineStart
  <2> QED BY <1>5, <2>1
<1>10. (\E i \in D : EndsBlank(FlattenSeq(UpTo(x, i - 1)))) <=> \E i \in 1..n : OwnLine(f.pieces, i)
  BY <1>4, <1>6, <1>9 DEF OwnLine
<1>11. H # {} <=> \E i \in 1..n : f.pieces[i].kind = "hidden"
  BY <1>6
<1> QED BY <1>1, <1>2, <1>8, <1>10, <1>11

\* The place of a directive in a script and what is before it decide whether its
\* migration runs in a transaction (scriptRequestsNoTransaction).
LEMMA DirectivesSeen ==
  ASSUME LoadInv
  PROVE  DirectiveIsSeen
<1> SUFFICES ASSUME NEW m \in ToSet(Migrations)
             PROVE  m.noTransaction <=>
                      \E i \in 1..Len(m.file.pieces) :
                        OwnLine(m.file.pieces, i) \/ m.file.pieces[i].kind = "hidden"
  BY DEF DirectiveIsSeen, Leads
<1>1. PICK f : Right(f) /\ m = Resolved(f)
  <2>1. PICK i \in 1..looked : m = Resolved(files[i])
    BY FoundMigration DEF LoadInv
  <2>2. i \in 1..Len(files)
    BY DEF LoadInv, FilesInv
  <2>3. Right(files[i])
    BY <2>2, FilesRight DEF LoadInv
  <2> QED BY <2>1, <2>3
<1>2. m.file = f /\ m.noTransaction = RequestsNoTransaction(f.text)
  BY <1>1 DEF Resolved
<1> QED BY <1>1, <1>2, DirectiveOfFile

\* A directive before any SQL makes a migration run outside a transaction, and without
\* a directive none does, whatever else of its script has a marker, but for a line of
\* a longer string or comment that looks like one (script.go).
THEOREM DirectivesDecide == Spec => []DirectiveIsSeen
<1>1. LoadInv => DirectiveIsSeen
  BY DirectivesSeen
<1> QED BY <1>1, LoadInductive, PTL

-----------------------------------------------------------------------------
(* Checksums.                                                              *)

\* The mark of the byte order and line ends are left out, and nothing else is.
LEMMA ChecksumOfFile ==
  ASSUME NEW f, Right(f)
  PROVE  Digested(f.text) =
           Kept(TextOf(IF f.pieces # <<>> /\ f.pieces[1].kind = "mark" THEN Tail(f.pieces)
                       ELSE f.pieces))
<1>0. FileRight(f) /\ MarkRight(f)
  BY DEF Right
<1>1. PICK E, x, s : E = LexemesOf(f) /\ x = TextsOf(f) /\ s = f.pieces
  OBVIOUS
<1>2. /\ x \in Seq(Seq(E)) /\ Len(x) = Len(s) /\ s \in Seq(ToSet(s)) /\ f.text = FlattenSeq(x)
  BY <1>0, <1>1, PiecesOfFile
<1>3. FlattenSeq(x) \in Seq(E)
  BY <1>2, FlattenType
<1>4. f.text = TextOf(s)
  BY <1>0, <1>1 DEF FileRight
<1>5. CASE s # <<>> /\ s[1].kind = "mark"
  <2>1. s[1].text = <<"bom">>
    BY <1>0, <1>1, <1>5 DEF MarkRight, IsMark
  <2>2. PICK n \in Nat : Len(s) = n + 1
    <3>1. Len(s) - 1 \in Nat /\ Len(s) = (Len(s) - 1) + 1
      BY <1>2, <1>5
    <3> QED BY <3>1
  <2>3. PICK r : r = Tail(s)
    OBVIOUS
  <2>4. Len(r) = n /\ \A i \in 1..n : r[i] = s[i + 1]
    BY <1>2, <1>5, <2>2, <2>3
  <2>5. PICK y : y = [i \in 1..n |-> r[i].text]
    OBVIOUS
  <2>6. TextOf(r) = FlattenSeq(y)
    BY <2>4, <2>5 DEF TextOf
  <2>7. \A i \in 1..(n + 1) : x[i] = s[i].text
    BY <1>1, <2>2 DEF TextsOf
  <2>8. y \in Seq(Seq(E)) /\ x = <<<<"bom">>>> \o y /\ <<<<"bom">>>> \in Seq(Seq(E))
    <3> DEFINE F == Seq(E)
               z == <<<<"bom">>>> \o y
    <3>1. <<"bom">> \in F
      <4>1. "bom" \in E
        BY <1>1 DEF LexemesOf
      <4> QED BY <4>1
    <3>2. x \in Seq(F) /\ Len(x) = n + 1 /\ x[1] = <<"bom">>
      BY <1>2, <2>1, <2>2, <2>7
    <3> HIDE DEF F
    <3>3. \A i \in 1..n : i + 1 \in 1..(n + 1) /\ y[i] = x[i + 1]
      BY <2>4, <2>5, <2>7
    <3>4. \A i \in 1..n : x[i + 1] \in F
      BY <3>2, <3>3
    <3>5. y \in Seq(F) /\ Len(y) = n
      BY <2>5, <3>3, <3>4
    <3>6. PICK o : o = <<"bom">>
      OBVIOUS
    <3>7. /\ <<o>> \in Seq(F) /\ <<o>> \o y \in Seq(F) /\ Len(<<o>> \o y) = n + 1
          /\ (<<o>> \o y)[1] = o /\ \A i \in 1..n : (<<o>> \o y)[i + 1] = y[i]
      BY <3>1, <3>5, <3>6
    <3>8. \A i \in 1..(n + 1) : i = 1 \/ (i - 1 \in 1..n /\ (i - 1) + 1 = i)
      OBVIOUS
    <3>9. PICK w \in Seq(F) : w = <<o>> \o y
      BY <3>7, Zenon
    <3>10. ASSUME NEW i \in 1..(n + 1) PROVE x[i] = w[i]
      <4>1. CASE i = 1
        BY <3>2, <3>6, <3>7, <3>9, <4>1
      <4>2. CASE i - 1 \in 1..n /\ (i - 1) + 1 = i
        <5>1. w[(i - 1) + 1] = y[i - 1] /\ y[i - 1] = x[(i - 1) + 1]
          BY <3>3, <3>7, <3>9, <4>2
        <5> QED BY <4>2, <5>1
      <4> QED BY <3>8, <4>1, <4>2
    <3>11. x = w
      BY <3>2, <3>7, <3>9, <3>10, SameText
    <3> QED BY <3>5, <3>6, <3>7, <3>9, <3>11 DEF F
  <2>9. FlattenSeq(x) = <<"bom">> \o FlattenSeq(y)
    <3>1. PICK o : o = <<"bom">>
      OBVIOUS
    <3>2. FlattenSeq(x) = FlattenSeq(<<o>>) \o FlattenSeq(y)
      BY <2>8, <3>1, FlattenParts
    <3>3. FlattenSeq(<<o>>) = o
      <4>1. <<>> \in Seq(Seq(E)) /\ o \in Seq(E) /\ Append(<<>>, o) = <<o>>
        <5>1. "bom" \in E
          BY <1>1 DEF LexemesOf
        <5> QED BY <3>1, <5>1
      <4>2. FlattenSeq(Append(<<>>, o)) = o
        BY <4>1, FlattenAppend
      <4> QED BY <4>1, <4>2
    <3> QED BY <3>1, <3>2, <3>3
  <2>10. FlattenSeq(y) \in Seq(E) /\ "bom" \in E
    BY <1>1, <2>8, FlattenType DEF LexemesOf
  <2>11. Digested(<<"bom">> \o FlattenSeq(y)) = Kept(FlattenSeq(y))
    BY <2>10, DigestedMarked
  <2> QED BY <1>1, <1>2, <1>5, <2>3, <2>6, <2>9, <2>11
<1>6. CASE ~(s # <<>> /\ s[1].kind = "mark")
  <2>1. f.text = <<>> \/ f.text[1] # "bom"
    BY <1>0, <1>1, <1>6 DEF MarkRight
  <2>2. Digested(f.text) = Kept(f.text)
    BY <1>2, <1>3, <2>1, DigestedUnmarked
  <2> QED BY <1>1, <1>4, <1>6, <2>2
<1> QED BY <1>5, <1>6

\* A migration's checksum is that of its script without its mark and its line ends
\* (calculateChecksum).
LEMMA ChecksumsIgnore ==
  ASSUME LoadInv
  PROVE  ChecksumIgnoresLineEnds
<1> SUFFICES ASSUME NEW m \in ToSet(Migrations)
             PROVE  LET pieces == m.file.pieces
                        marked == pieces # <<>> /\ pieces[1].kind = "mark"
                    IN  m.checksum = Kept(TextOf(IF marked THEN Tail(pieces) ELSE pieces))
  BY DEF ChecksumIgnoresLineEnds
<1>1. PICK f : Right(f) /\ m = Resolved(f)
  <2>1. PICK i \in 1..looked : m = Resolved(files[i])
    BY FoundMigration DEF LoadInv
  <2>2. i \in 1..Len(files)
    BY DEF LoadInv, FilesInv
  <2>3. Right(files[i])
    BY <2>2, FilesRight DEF LoadInv
  <2> QED BY <2>1, <2>3
<1>2. m.file = f /\ m.checksum = Digested(f.text)
  BY <1>1 DEF Resolved
<1> QED BY <1>1, <1>2, ChecksumOfFile

\* Whatever lines a script has and however they end, its checksum is of the text
\* without its line ends and its byte order mark, and of all of it (checksum.go).
THEOREM ChecksumsOfText == Spec => []ChecksumIgnoresLineEnds
<1>1. LoadInv => ChecksumIgnoresLineEnds
  BY ChecksumsIgnore
<1> QED BY <1>1, LoadInductive, PTL


-----------------------------------------------------------------------------
(* Placeholders.                                                           *)

\* The values of a file's placeholders are texts.
LEMMA ValuesOfFile ==
  ASSUME NEW f, Right(f), NEW values, values = EffectivePlaceholders(f),
         NEW E, E = LexemesOf(f)
  PROVE  AreTexts(values, E)
<1> SUFFICES ASSUME NEW key \in DOMAIN values PROVE values[key] \in Seq(E)
  BY DEF AreTexts
<1>1. values[key] \in Seq(ToSet(values[key]))
  BY DEF Right, PlaceholdersRight
<1>2. PICK S : S = {ToSet(values[k]) : k \in DOMAIN values}
  OBVIOUS
<1>3. ToSet(values[key]) \in S
  BY <1>2
<1>4. UNION S \subseteq E
  BY <1>2, Zenon DEF LexemesOf
<1>5. ToSet(values[key]) \subseteq E
  BY <1>3, <1>4
<1> QED BY <1>1, <1>5, SeqMonotonic

\* A piece has a placeholder with a value, or one without, or none.
LEMMA PieceReplaced ==
  ASSUME NEW E, NEW values, AreTexts(values, E), NEW p, p.text \in Seq(E), PieceRight(p, values)
  PROVE  /\ HasUnknown(p.text, values) <=> p.kind = "unknown"
         /\ p.kind # "unknown" => Replaced(p.text, values) = p.value
<1>1. PICK s \in Seq(E) : s = p.text
  OBVIOUS
<1>2. CASE IsPlain(s) /\ p.value = s /\ p.kind # "unknown"
  BY <1>1, <1>2, PlainStays
<1>3. ASSUME NEW b \in 1..Len(s), NEW e \in 1..Len(s),
             NEW key, key = LowerCase(SubSeq(s, b + 1, e - 1)),
             HasOne(s, b, e), p.kind = "unknown" <=> key \notin DOMAIN values,
             key \in DOMAIN values =>
               p.value = SubSeq(s, 1, b - 1) \o values[key] \o SubSeq(s, e + 1, Len(s))
      PROVE  /\ HasUnknown(s, values) <=> p.kind = "unknown"
             /\ p.kind # "unknown" => Replaced(s, values) = p.value
  BY <1>3, OneReplaced
<1>4. \/ IsPlain(s) /\ p.value = s /\ p.kind # "unknown"
      \/ \E b, e \in 1..Len(s) :
           LET key == LowerCase(SubSeq(s, b + 1, e - 1))
           IN  /\ HasOne(s, b, e)
               /\ p.kind = "unknown" <=> key \notin DOMAIN values
               /\ key \in DOMAIN values =>
                    p.value = SubSeq(s, 1, b - 1) \o values[key] \o SubSeq(s, e + 1, Len(s))
  BY <1>1, Zenon DEF PieceRight
<1> QED BY <1>1, <1>2, <1>3, <1>4

\* What a file becomes is what its pieces become.
LEMMA PlaceholdersOfFile ==
  ASSUME NEW f, Right(f), NEW values, values = EffectivePlaceholders(f)
  PROVE  /\ HasUnknown(f.text, values) <=> \E p \in ToSet(f.pieces) : p.kind = "unknown"
         /\ ~HasUnknown(f.text, values) => Replaced(f.text, values) = ValueOf(f.pieces)
<1>1. PICK E, x, y, s : E = LexemesOf(f) /\ x = TextsOf(f) /\ y = ValuesOf(f) /\ s = f.pieces
  OBVIOUS
<1>2. AreTexts(values, E)
  BY <1>1, ValuesOfFile
<1>0. FileRight(f) /\ PlaceholdersRight(f)
  BY DEF Right
<1>3. /\ Len(s) \in Nat /\ \A i \in 1..Len(s) : s[i] \in ToSet(s)
      /\ x \in Seq(Seq(E)) /\ Len(x) = Len(s) /\ y \in Seq(Seq(E)) /\ Len(y) = Len(s)
      /\ f.text = FlattenSeq(x) /\ ValueOf(f.pieces) = FlattenSeq(y)
      /\ \A p \in ToSet(s) : (\E i \in 1..Len(s) : p = s[i]) /\ p.text \in Seq(E)
  BY <1>0, <1>1, PiecesOfFile
<1>4. \A i \in 1..Len(s) : x[i] = s[i].text /\ y[i] = s[i].value
  BY <1>1 DEF TextsOf, ValuesOf
<1>5. PICK U : U = {i \in 1..Len(s) : s[i].kind = "unknown"}
  OBVIOUS
<1>6. ASSUME NEW i \in 1..Len(s)
      PROVE  /\ HasUnknown(x[i], values) <=> i \in U
             /\ i \notin U => Replaced(x[i], values) = y[i]
  <2>1. PICK p : p = s[i] /\ p \in ToSet(s)
    BY <1>3
  <2>2. PieceRight(p, values)
    BY <1>0, <1>1, <2>1 DEF PlaceholdersRight
  <2>3. p.text \in Seq(E)
    BY <1>3, <2>1
  <2>4. /\ HasUnknown(p.text, values) <=> p.kind = "unknown"
        /\ p.kind # "unknown" => Replaced(p.text, values) = p.value
    BY <1>2, <2>2, <2>3, PieceReplaced
  <2>5. x[i] = p.text /\ y[i] = p.value
    BY <1>4, <2>1
  <2>6. i \in U <=> p.kind = "unknown"
    BY <1>5, <2>1
  <2> QED BY <2>4, <2>5, <2>6
<1>7. \A i, j \in 1..Len(s) : i < j => ~(Unclosed(x[i]) /\ Closes(x[j]))
  BY <1>0, <1>1, <1>4 DEF PlaceholdersRight
<1>8. /\ HasUnknown(FlattenSeq(x), values) <=> U # {}
      /\ U = {} => Replaced(FlattenSeq(x), values) = FlattenSeq(y)
  <2>1. U \in SUBSET (1..Len(x)) /\ Len(x) = Len(y)
    BY <1>3, <1>5
  <2>2. \A i \in 1..Len(x) : HasUnknown(x[i], values) <=> i \in U
    BY <1>3, <1>6
  <2>3. \A i \in 1..Len(x) : i \notin U => Replaced(x[i], values) = y[i]
    BY <1>3, <1>6
  <2>4. \A i, j \in 1..Len(x) : i < j => ~(Unclosed(x[i]) /\ Closes(x[j]))
    BY <1>3, <1>7
  <2>5. x \in Seq(Seq(E)) /\ y \in Seq(Seq(E))
    BY <1>3
  <2> QED BY <1>2, <2>1, <2>2, <2>3, <2>4, <2>5, ReplacedPieces
<1>9. U # {} <=> \E p \in ToSet(s) : p.kind = "unknown"
  BY <1>3, <1>5
<1> QED BY <1>1, <1>3, <1>8, <1>9

\* The migrations are a sequence.
LEMMA MigrationsType ==
  ASSUME LoadInv
  PROVE  /\ Len(Migrations) \in Nat
         /\ \A k \in 1..Len(Migrations) : Migrations[k] \in ToSet(Migrations)
<1>1. PICK S, T : versioned \in Seq(S) /\ repeatable \in Seq(T)
  BY DEF LoadInv, VersionsInv, RepeatablesInv, Lists
<1> DEFINE U == S \cup T
<1>2. versioned \in Seq(U) /\ repeatable \in Seq(U)
  BY <1>1
<1> HIDE DEF U
<1>3. Migrations \in Seq(U)
  BY <1>2 DEF Migrations
<1>4. PICK s \in Seq(U) : s = Migrations
  BY <1>3
<1>5. Len(s) \in Nat /\ DOMAIN s = 1..Len(s)
  OBVIOUS
<1> QED BY <1>4, <1>5 DEF ToSet

\* What applyMigration sends for a script.
StatementsOf(file) == Statements(Replaced(file.text, EffectivePlaceholders(file)), dialect)

\* What was sent was not refused, and what is refused is not sent.
SentInv ==
  /\ \E S : sent \in Seq(S)
  /\ stage \notin {"loaded", "unknown placeholder"} => sent = <<>>
  /\ \A k \in 1..Len(sent) :
       /\ k \in 1..Len(Migrations)
       /\ ~HasUnknown(Migrations[k].file.text, EffectivePlaceholders(Migrations[k].file))
       /\ sent[k] = StatementsOf(Migrations[k].file)
  /\ stage = "unknown placeholder" =>
       /\ Len(sent) < Len(Migrations)
       /\ HasUnknown(Migration.text, EffectivePlaceholders(Migration))

\* Each step keeps it: scripts are sent one after another from when all are loaded
\* (applyMigration), and the first with an unknown placeholder ends the run.
LEMMA SentNext ==
  ASSUME LoadInv, SentInv, [Next]_vars
  PROVE  SentInv'
<1>1. PICK S : sent \in Seq(S)
  BY DEF SentInv
<1>2. Len(sent) \in Nat /\ Len(Migrations) \in Nat
  BY <1>1, MigrationsType
<1>3. CASE SendStatements
  <2>1. PICK x : sent' = Append(sent, x) /\ x = StatementsOf(Migration)
    BY <1>3 DEF SendStatements, StatementsOf
  <2>2. /\ UNCHANGED <<versioned, repeatable, dialect>> /\ stage = "loaded" /\ stage' = "loaded"
        /\ Len(sent) < Len(Migrations)
        /\ ~HasUnknown(Migration.text, EffectivePlaceholders(Migration))
    BY <1>3 DEF SendStatements, Applying, resolvedVars
  <2>3. Migrations' = Migrations
    BY <2>2 DEF Migrations
  <2>4. /\ sent' \in Seq(S \cup {x}) /\ Len(sent') = Len(sent) + 1
        /\ sent'[Len(sent) + 1] = x /\ \A k \in 1..Len(sent) : sent'[k] = sent[k]
    BY <1>1, <2>1
  <2>5. ASSUME NEW k \in 1..Len(sent')
        PROVE  /\ k \in 1..Len(Migrations)
               /\ ~HasUnknown(Migrations[k].file.text, EffectivePlaceholders(Migrations[k].file))
               /\ sent'[k] = StatementsOf(Migrations[k].file)
    <3>1. k \in 1..Len(sent) \/ k = Len(sent) + 1
      BY <1>2, <2>4
    <3>2. CASE k \in 1..Len(sent)
      BY <2>4, <3>2 DEF SentInv
    <3>3. CASE k = Len(sent) + 1
      <4>1. k \in 1..Len(Migrations)
        BY <1>2, <2>2, <3>3
      <4> QED BY <2>1, <2>2, <2>4, <3>3, <4>1 DEF Migration
    <3> QED BY <3>1, <3>2, <3>3
  <2>6. \A k \in 1..Len(sent') :
          /\ k \in 1..Len(Migrations')
          /\ ~HasUnknown(Migrations'[k].file.text, EffectivePlaceholders(Migrations'[k].file))
          /\ sent'[k] = StatementsOf(Migrations'[k].file)
    BY <2>3, <2>5
  <2> QED BY <2>2, <2>4, <2>6 DEF SentInv, EffectivePlaceholders, StatementsOf
<1>4. CASE RefusePlaceholder
  <2>1. /\ UNCHANGED <<versioned, repeatable, dialect, sent>> /\ stage' = "unknown placeholder"
        /\ Len(sent) < Len(Migrations)
        /\ HasUnknown(Migration.text, EffectivePlaceholders(Migration))
    BY <1>4 DEF RefusePlaceholder, Refuse, Applying, resolvedVars
  <2>2. Migrations' = Migrations /\ Migration' = Migration
    BY <2>1 DEF Migrations, Migration
  <2> QED BY <2>1, <2>2 DEF SentInv, EffectivePlaceholders, StatementsOf
<1>5. CASE UNCHANGED vars
  <2>1. UNCHANGED <<versioned, repeatable, dialect, sent, stage>>
    BY <1>5 DEF vars
  <2>2. Migrations' = Migrations /\ Migration' = Migration
    BY <2>1 DEF Migrations, Migration
  <2> QED BY <2>1, <2>2 DEF SentInv, EffectivePlaceholders, StatementsOf
<1>6. ASSUME stage \notin {"loaded", "unknown placeholder"}, sent' = sent, stage' # "unknown placeholder"
      PROVE  SentInv'
  <2>1. sent = <<>>
    BY <1>6 DEF SentInv
  <2>2. sent' = <<>>
    BY <1>6, <2>1
  <2>3. <<>> \in Seq({}) /\ Len(<<>>) = 0 /\ 1..0 = {}
    OBVIOUS
  <2>4. (\E T : sent' \in Seq(T)) /\ 1..Len(sent') = {}
    BY <2>2, <2>3
  <2> QED BY <1>6, <2>2, <2>4 DEF SentInv
<1>7. CASE RefuseSettings \/ RefuseServer \/ DetectDialect
  BY <1>6, <1>7 DEF RefuseSettings, RefuseServer, DetectDialect, Refuse
<1>8. CASE AddCallback \/ IgnoreFile \/ RefuseUnreadable
  BY <1>6, <1>8 DEF AddCallback, IgnoreFile, RefuseUnreadable, Looking, Refuse
<1>9. CASE RefuseRepeatable \/ AddRepeatable \/ RefuseName \/ RefuseVersion \/ AddVersioned
  BY <1>6, <1>9 DEF RefuseRepeatable, AddRepeatable, RefuseName, RefuseVersion, AddVersioned,
     Readable, Looking, Refuse
<1>10. CASE SortMigrations
  BY <1>6, <1>10 DEF SortMigrations
<1> QED BY <1>3, <1>4, <1>5, <1>7, <1>8, <1>9, <1>10 DEF Next

\* Nothing is sent before the scripts are loaded.
LEMMA SentInductive == Spec => []SentInv
<1>1. Init => SentInv
  <2>1. <<>> \in Seq({}) /\ Len(<<>>) = 0
    OBVIOUS
  <2> QED BY <2>1 DEF Init, SentInv
<1>2. LoadInv /\ SentInv /\ [Next]_vars => SentInv'
  BY SentNext
<1> QED BY <1>1, <1>2, LoadInductive, PTL DEF Spec

\* What is sent has its placeholders replaced, and what is refused has an unknown one.
LEMMA PlaceholdersDecided ==
  ASSUME LoadInv, SentInv
  PROVE  PlaceholdersAreReplaced
<1>1. ASSUME NEW k \in 1..Len(Migrations)
      PROVE  LET f == Migrations[k].file
             IN  /\ HasUnknown(f.text, EffectivePlaceholders(f))
                      <=> \E p \in ToSet(f.pieces) : p.kind = "unknown"
                 /\ ~HasUnknown(f.text, EffectivePlaceholders(f))
                      => Replaced(f.text, EffectivePlaceholders(f)) = ValueOf(f.pieces)
  <2>1. Migrations[k] \in ToSet(Migrations)
    BY MigrationsType
  <2>2. PICK i \in 1..looked : Migrations[k] = Resolved(files[i])
    BY <2>1, FoundMigration DEF LoadInv
  <2>3. i \in 1..Len(files)
    BY DEF LoadInv, FilesInv
  <2>4. Right(files[i])
    BY <2>3, FilesRight DEF LoadInv
  <2>5. Migrations[k].file = files[i]
    BY <2>2, ResolvedDescription
  <2>6. PICK f : f = files[i] /\ Right(f)
    BY <2>4
  <2> QED BY <2>5, <2>6, PlaceholdersOfFile
<1>2. ASSUME NEW k \in 1..Len(sent)
      PROVE  LET file == Migrations[k].file
             IN  /\ Replaced(file.text, EffectivePlaceholders(file)) = ValueOf(file.pieces)
                 /\ \A p \in ToSet(file.pieces) : p.kind # "unknown"
  <2>1. k \in 1..Len(Migrations)
        /\ ~HasUnknown(Migrations[k].file.text, EffectivePlaceholders(Migrations[k].file))
    BY DEF SentInv
  <2> QED BY <1>1, <2>1
<1>3. ASSUME stage = "unknown placeholder"
      PROVE  \E p \in ToSet(Migration.pieces) : p.kind = "unknown"
  <2>1. Len(sent) < Len(Migrations) /\ HasUnknown(Migration.text, EffectivePlaceholders(Migration))
    BY <1>3 DEF SentInv
  <2>2. Len(sent) + 1 \in 1..Len(Migrations)
    <3>1. Len(sent) \in Nat
      <4>1. PICK S : sent \in Seq(S)
        BY DEF SentInv
      <4> QED BY <4>1
    <3> QED BY <2>1, <3>1, MigrationsType
  <2> QED BY <1>1, <2>1, <2>2 DEF Migration
<1> QED BY <1>2, <1>3 DEF PlaceholdersAreReplaced

\* Every placeholder of a script that is sent became its value, which was not looked
\* at again, and no script with an unknown one is sent (replacePlaceholders).
THEOREM PlaceholdersReplaced == Spec => []PlaceholdersAreReplaced
<1>1. LoadInv /\ SentInv => PlaceholdersAreReplaced
  BY PlaceholdersDecided
<1> QED BY <1>1, LoadInductive, SentInductive, PTL

-----------------------------------------------------------------------------
(* Statements.                                                             *)

\* What was sent for a script is a division of it.
LEMMA SentIsDivision ==
  ASSUME LoadInv, SentInv
  PROVE  EverythingIsSent
<1> SUFFICES ASSUME NEW k \in 1..Len(sent)
             PROVE  LET file == Migrations[k].file
                    IN  IsDivision(sent[k], Replaced(file.text, EffectivePlaceholders(file)))
  BY DEF EverythingIsSent
<1>1. PICK f : f = Migrations[k].file /\ Right(f)
  <2>1. Migrations[k] \in ToSet(Migrations)
    BY MigrationsType DEF SentInv
  <2>2. PICK i \in 1..looked : Migrations[k] = Resolved(files[i])
    BY <2>1, FoundMigration DEF LoadInv
  <2>3. i \in 1..Len(files)
    BY DEF LoadInv, FilesInv
  <2>4. Right(files[i])
    BY <2>3, FilesRight DEF LoadInv
  <2>5. Migrations[k].file = files[i]
    BY <2>2, ResolvedDescription
  <2> QED BY <2>4, <2>5
<1>2. ~HasUnknown(f.text, EffectivePlaceholders(f)) /\ sent[k] = StatementsOf(f)
  BY <1>1 DEF SentInv
<1>3. PICK E : E = LexemesOf(f)
  OBVIOUS
<1>4. PICK s : s = Replaced(f.text, EffectivePlaceholders(f))
  OBVIOUS
<1>5. s \in Seq(E)
  <2>1. s = ValueOf(f.pieces)
    BY <1>1, <1>2, <1>4, PlaceholdersOfFile
  <2>2. FileRight(f)
    BY <1>1 DEF Right
  <2>3. ValuesOf(f) \in Seq(Seq(E)) /\ ValueOf(f.pieces) = FlattenSeq(ValuesOf(f))
    BY <1>3, <2>2, PiecesOfFile
  <2> QED BY <2>1, <2>3, FlattenType
<1>6. DelimiterKept
  BY DelimiterIsNoBlank, Zenon DEF DelimiterKept
<1>7. IsDivision(Statements(s, dialect), s)
  BY <1>5, <1>6, StatementsDivide
<1>8. sent[k] = Statements(s, dialect)
  BY <1>2, <1>4 DEF StatementsOf
<1> QED BY <1>1, <1>4, <1>7, <1>8

\* Whatever a script holds and whatever the splitter takes it for, its statements are
\* parts of it in their order, each but the last up to a semicolon, and all of it but
\* blanks (splitSQLStatements).
THEOREM ScriptsAreSentWhole == Spec => []EverythingIsSent
<1>1. LoadInv /\ SentInv => EverythingIsSent
  BY SentIsDivision
<1> QED BY <1>1, LoadInductive, SentInductive, PTL

=============================================================================
