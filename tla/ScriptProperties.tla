-------------------------- MODULE ScriptProperties --------------------------
(***************************************************************************)
(* What loading and splitting scripts must do, told by how the files were  *)
(* made and not by how the program takes them apart.  Every file carries   *)
(*   means    kind: "versioned", "repeatable", "callback", "bad version" or *)
(*            "other"; value: a number in the order of the versions or of   *)
(*            the descriptions; description: what the name says;            *)
(*   pieces   its text in pieces, each with its text, its value once the    *)
(*            placeholders are replaced and its kind: "delimiter",          *)
(*            "directive", "hidden" (a string or a block comment with a     *)
(*            directive on a line that is not its first), "comment" (or     *)
(*            blanks), "unknown" (a placeholder), "mark" (of the byte       *)
(*            order), "opaque", or "any" (of which is not said where it is  *)
(*            to be divided).                                               *)
(***************************************************************************)
EXTENDS Resolver, TextShapes

\* What the mark of a file says, in terms of its name.
KindOf(name) ==
  CASE IsRepeatable(name) -> "repeatable"
    [] IsVersioned(name) /\ IsVersion(RawVersion(name)) -> "versioned"
    [] IsVersioned(name) /\ ~IsVersion(RawVersion(name)) -> "bad version"
    [] ~IsMigration(name) /\ IsCallback(name) -> "callback"
    [] OTHER -> "other"
RankOf(name) ==
  IF IsRepeatable(name) THEN CollationOf(Description(name)) ELSE Parts(RawVersion(name))
Precedes(v, w) ==
  \E i \in 1..Len(w) :
    Part(v, i) < Part(w, i) /\ \A j \in 1..(i - 1) : Part(v, j) = Part(w, j)
Applied == {"versioned", "repeatable"}
MarkedRight(f) ==
  /\ f.means.kind = KindOf(f.name)
  /\ f.means.kind \in Applied =>
       f.means.value \in Int /\ f.means.description = Description(f.name)
RankedRight(f, g) ==
  f.means.kind \in Applied /\ g.means.kind = f.means.kind =>
    (f.means.value < g.means.value <=> Precedes(RankOf(f.name), RankOf(g.name)))

\* The files are marked by what their names say, and values are in the order of
\* the numbers in versions, or of the lexemes in descriptions.
ASSUME FilesAreMarked ==
  \A on \in Servers : \A fs \in Directories(on) : \A f, g \in ToSet(fs) :
    MarkedRight(f) /\ RankedRight(f, g)

KindsOf(kind) == {i \in 1..Len(files) : files[i].means.kind = kind}
FilesOf(migrations) == [i \in 1..Len(migrations) |-> migrations[i].file]
Ascending(migrations) ==
  \A i, j \in 1..Len(migrations) :
    i < j => migrations[i].file.means.value < migrations[j].file.means.value

\* Migrations are applied by the numbers in their versions, however they are
\* spelled (1.0 before 1.0.2 before 1.1 before 10), then repeatable ones by their
\* descriptions, in whatever order and case the sources list the files.
MigrationsAreOrdered ==
  stage = "loaded" => Ascending(versioned) /\ Ascending(repeatable)

Clash(kind) ==
  \E i, j \in KindsOf(kind) : i # j /\ files[i].means.value = files[j].means.value
Cause(reason) ==
  CASE reason = "duplicate" -> Clash("versioned") \/ Clash("repeatable")
    [] reason = "bad version" -> KindsOf("bad version") # {}
    [] reason = "unreadable" -> \E i \in 1..Len(files) : ~files[i].readable
    [] OTHER -> FALSE

\* Load succeeds only when no two migrations are one and no migration is bad, and
\* then every migration and callback is loaded once, under the description its
\* name gives, callbacks in the order found; it refuses only for such a reason.  A
\* version that is read back from the history, as it is displayed, is that of one
\* migration, the one it was recorded for.
LoadedIffUnambiguous ==
  /\ stage \in {"duplicate", "bad version", "unreadable"} => Cause(stage)
  /\ stage = "loaded" =>
       /\ ~Cause("duplicate") /\ ~Cause("bad version")
       /\ ToSet(FilesOf(versioned)) = {files[i] : i \in KindsOf("versioned")}
       /\ ToSet(FilesOf(repeatable)) = {files[i] : i \in KindsOf("repeatable")}
       /\ Len(callbacks) = Cardinality(KindsOf("callback"))
       /\ \A i \in KindsOf("callback") :
            callbacks[Cardinality({j \in KindsOf("callback") : j <= i})] = files[i]
       /\ \A m \in ToSet(Migrations) :
            m.file.readable /\ m.description = m.file.means.description
       /\ \A m, n \in ToSet(versioned) :
            VersionKey(Parts(m.display)) = VersionKey(n.version) <=> m = n

-----------------------------------------------------------------------------
TextOf(pieces)  == FlattenSeq([i \in 1..Len(pieces) |-> pieces[i].text])
ValueOf(pieces) == FlattenSeq([i \in 1..Len(pieces) |-> pieces[i].value])

\* The text of a piece either has no placeholder, or one from b to e.
PieceRight(p, values) ==
  \/ IsPlain(p.text) /\ p.value = p.text /\ p.kind # "unknown"
  \/ \E b, e \in 1..Len(p.text) :
       LET key == LowerCase(SubSeq(p.text, b + 1, e - 1))
       IN  /\ HasOne(p.text, b, e)
           /\ p.kind = "unknown" <=> key \notin DOMAIN values
           /\ key \in DOMAIN values =>
                p.value = SubSeq(p.text, 1, b - 1) \o values[key]
                            \o SubSeq(p.text, e + 1, Len(p.text))

\* The files are the pieces they were made of, texts one after another.
FileRight(f) ==
  /\ f.pieces \in Seq(ToSet(f.pieces)) /\ f.text = TextOf(f.pieces)
  /\ \A p \in ToSet(f.pieces) : p.text \in Seq(ToSet(p.text)) /\ p.value \in Seq(ToSet(p.value))
MarkRight(f) ==
  IF f.pieces # <<>> /\ f.pieces[1].kind = "mark" THEN IsMark(f.pieces[1].text)
  ELSE f.text = <<>> \/ f.text[1] # "bom"
DirectivesRight(f) ==
  \A i \in 1..Len(f.pieces) :
    LET p == f.pieces[i]
    IN  /\ p.kind = "directive" <=> Opens(p.text)
        /\ p.kind = "hidden" <=> Hides(p.text)
        /\ Mentions(p.text) => ~EndsInComment(TextOf(SubSeq(f.pieces, 1, i - 1)))
PlaceholdersRight(f) ==
  LET values == EffectivePlaceholders(f)
  IN  /\ \A key \in DOMAIN values : values[key] \in Seq(ToSet(values[key]))
      /\ \A p \in ToSet(f.pieces) : PieceRight(p, values)
      /\ \A i, j \in 1..Len(f.pieces) :
           i < j => ~(Unclosed(f.pieces[i].text) /\ Closes(f.pieces[j].text))

\* Files are marked by what their pieces are: the mark of the byte order is the
\* first piece or none, no marker is put in a line comment that goes on, each piece
\* has at most one placeholder, and none takes its suffix from a later piece.  Any
\* piece may have the marker of a directive in it.
ASSUME PiecesAreMarked ==
  \A on \in Servers : \A fs \in Directories(on) : \A f \in ToSet(fs) :
    FileRight(f) /\ MarkRight(f) /\ DirectivesRight(f) /\ PlaceholdersRight(f)

\* TrimSpace removes newlines and keeps semicolons.
ASSUME NewlineIsBlank == "nl" \in Blank
ASSUME DelimiterIsNoBlank == ";" \notin Blank

\* The pieces up to each delimiter, and those behind the last.
Groups(pieces) ==
  LET delimiters == InOrder({i \in 1..Len(pieces) : pieces[i].kind = "delimiter"})
      start(k) == IF k = 1 THEN 1 ELSE delimiters[k - 1] + 1
      end(k) == IF k > Len(delimiters) THEN Len(pieces) ELSE delimiters[k]
  IN  [k \in 1..Len(delimiters) + 1 |-> SubSeq(pieces, start(k), end(k))]

Written(pieces) ==
  LET values == [k \in 1..Len(Groups(pieces)) |-> Trimmed(ValueOf(Groups(pieces)[k]))]
  IN  SelectSeq(values, LAMBDA t : t # <<>>)

\* What is sent to the database for a script, where its pieces say what its statements
\* are, is these statements, each whole and all in order: no semicolon in a comment or
\* a quotation of the dialect divides a statement, nor, on SQLite, one in the body of
\* a trigger, and every other one does.  Nothing is said of BEGIN on PostgreSQL.
SplitsAtDelimiters ==
  \A k \in 1..Len(sent) :
    LET pieces == Migrations[k].file.pieces
    IN  (\A p \in ToSet(pieces) : p.kind # "any") => sent[k] = Written(pieces)

\* A script is sent as a whole, whatever is in it: wherever the splitter takes SQL for
\* something else, or an element does not end, its statements are parts of the script
\* that end at semicolons, and nothing between them but blanks is lost or sent twice.
EverythingIsSent ==
  \A k \in 1..Len(sent) :
    LET file == Migrations[k].file
    IN  IsDivision(sent[k], Replaced(file.text, EffectivePlaceholders(file)))

\* Each placeholder becomes its value, which is not looked at again, and a
\* migration with an unknown one is never sent and ends the run.
PlaceholdersAreReplaced ==
  /\ \A k \in 1..Len(sent) :
       LET file == Migrations[k].file
       IN  /\ Replaced(file.text, EffectivePlaceholders(file)) = ValueOf(file.pieces)
           /\ \A p \in ToSet(file.pieces) : p.kind # "unknown"
  /\ stage = "unknown placeholder" =>
       \E p \in ToSet(Migration.pieces) : p.kind = "unknown"

\* The checksum of a script does not depend on its byte order mark or on how its
\* lines end, so that a checkout on another system is no checksum mismatch, but
\* on everything else in it.
ChecksumIgnoresLineEnds ==
  \A m \in ToSet(Migrations) :
    LET pieces == m.file.pieces
        marked == pieces # <<>> /\ pieces[1].kind = "mark"
    IN  m.checksum = Kept(TextOf(IF marked THEN Tail(pieces) ELSE pieces))

\* The text before piece i, and a text behind which a line has but blanks.
Ahead(pieces, i) == SubSeq(pieces, 1, i - 1)
AtLineStart(text) ==
  \E b \in 0..Len(text) :
    (b = 0 \/ text[b] = "nl") /\ \A j \in (b + 1)..Len(text) : text[j] \in Blank

\* A directive on a line of its own, and one with only comments and blanks before it.
OwnLine(pieces, i) ==
  pieces[i].kind = "directive" /\ AtLineStart(TextOf(Ahead(pieces, i)))
Leads(pieces, i) ==
  OwnLine(pieces, i) /\ \A p \in ToSet(Ahead(pieces, i)) : p.kind \in {"comment", "directive"}

\* A directive before any SQL, among whatever comments and blank lines, makes a
\* script run outside a transaction, and no script does that has none: a marker in a
\* statement, a string or a comment behind a statement is no directive, but for a
\* line of a longer string or comment that looks like one (of which nothing is said,
\* nor of a directive behind a statement).
DirectiveIsSeen ==
  \A m \in ToSet(Migrations) :
    LET pieces == m.file.pieces
    IN  /\ (\E i \in 1..Len(pieces) : Leads(pieces, i)) => m.noTransaction
        /\ m.noTransaction =>
             \E i \in 1..Len(pieces) : OwnLine(pieces, i) \/ pieces[i].kind = "hidden"

=============================================================================
