------------------------------ MODULE MCTexts ------------------------------
(***************************************************************************)
(* Inputs of ScriptProperties: up to three files of every name with a plain *)
(* text, and one file whose text is made of up to three pieces, or is any   *)
(* text of up to four lexemes.                                             *)
(***************************************************************************)
EXTENDS ScriptProperties

MCNumberOf == [n \in {"0", "01", "1", "2", "10"} |->
                 CASE n = "0" -> 0 [] n = "2" -> 2 [] n = "10" -> 10 [] OTHER -> 1]
MCLower == [l \in {".SQL", "BEFOREMIGRATE", "beforeMigrate", "W", "Nested", "FLYWAY:USER",
                   "flyway:defaultSchema", "flyway:Table"} |->
              CASE l = ".SQL" -> ".sql"
                [] l = "W" -> "w"
                [] l = "Nested" -> "nested"
                [] l = "FLYWAY:USER" -> "flyway:user"
                [] l = "flyway:defaultSchema" -> "flyway:defaultschema"
                [] l = "flyway:Table" -> "flyway:table"
                [] OTHER -> "beforemigrate"]
MCWordStarts == {"w", "E", "BEGIN", "CASE", "END"}
MCPlaceholderValues ==
  (<<"w">> :> <<"w", "sp">>) @@ (<<"semicolon">> :> <<";">>)
    @@ (<<"Nested">> :> <<"${", "w", "}">>)
    @@ (<<"flyway:Table">> :> <<"1", "w", "sp">>)
MCSettings == {{}, {<<"1">>, <<"2", "_">>}}
MCSchema == <<"w", "w", "sp">>
MCInstalledBy == <<"w", "1", "sp">>
MCTable == <<"w">>
MCCollation == <<" ", "a", "b">>

-----------------------------------------------------------------------------
Means(kind, value, description) == [kind |-> kind, value |-> value, description |-> description]
Other == Means("other", 0, <<>>)

\* The value of version a.b.c is 10000a + 100b + c.
Names ==
  {<<<<"V", "1", "_", "_", "a", ".sql">>, Means("versioned", 10000, <<"a">>)>>,
   <<<<"V", "01", "_", "0", "_", "_", "b", ".SQL">>, Means("versioned", 10000, <<"b">>)>>,
   <<<<"V", "1", ".", "1", "_", "_", "_", "a", ".sql">>, Means("versioned", 10100, <<" ", "a">>)>>,
   <<<<"V", "1", "_", "0", "_", "2", "_", "_", "a", "_", "_", "b", ".sql">>,
     Means("versioned", 10002, <<"a", " ", " ", "b">>)>>,
   <<<<"V", "0", "_", "_", "a", ".sql">>, Means("versioned", 0, <<"a">>)>>,
   <<<<"V", "0", ".", "0", "_", "_", "b", ".sql">>, Means("versioned", 0, <<"b">>)>>,
   <<<<"V", "2", "_", "_", ".sql">>, Means("versioned", 20000, <<>>)>>,
   <<<<"V", "10", "_", "_", "a", ".sql">>, Means("versioned", 100000, <<"a">>)>>,
   <<<<"V", "1", ".", ".", "2", "_", "_", "a", ".sql">>, Means("bad version", 0, <<>>)>>,
   <<<<"V", "w", "_", "_", "a", ".sql">>, Means("bad version", 0, <<>>)>>,
   <<<<"V", "2", "_", "a", ".sql">>, Other>>,
   <<<<"V", "_", "_", "a", ".sql">>, Other>>,
   <<<<"V", "2", "_", "_", "b", ".txt">>, Other>>,
   <<<<"R", "_", "_", "a", ".sql">>, Means("repeatable", 1, <<"a">>)>>,
   <<<<"R", "_", "_", "a", "_", "b", ".SQL">>, Means("repeatable", 2, <<"a", " ", "b">>)>>,
   <<<<"R", "_", "_", "b", ".sql">>, Means("repeatable", 3, <<"b">>)>>,
   <<<<"R", "1", "_", "_", "a", ".sql">>, Other>>,
   <<<<"beforeMigrate", ".sql">>, Means("callback", 0, <<>>)>>,
   <<<<"BEFOREMIGRATE", "_", "_", "a", ".sql">>, Means("callback", 0, <<>>)>>,
   <<<<"beforeMigrate", "_", "a", ".sql">>, Other>>}

-----------------------------------------------------------------------------
Piece(kind, text, value) == [kind |-> kind, text |-> text, value |-> value]
Opaque(text) == Piece("opaque", text, text)
Delimiter(text) == Piece("delimiter", text, <<";">>)
Comment(text) == Piece("comment", text, text)
Placeholder(key, value) == Piece("opaque", <<"${", key, "}">>, value)

CommonPieces ==
  {Opaque(<<"w", "sp">>), Comment(<<"nl">>), Comment(<<"cr", "nl">>), Comment(<<"sp", "cr">>),
   Delimiter(<<";">>), Delimiter(<<"${", "semicolon", "}">>),
   Comment(<<"--", "w", ";", "'", "/*", "cr", "nl">>),
   Comment(<<"/*", ";", "'", "nl", "w", "--", "*/">>),
   Opaque(<<"'", ";", "'", "'", ";", "--", "bs", "'">>),
   Opaque(<<"w", "E", "'", "bs", "'", "sp">>),
   Opaque(<<"dq", ";", "dq", "dq", ";", "'", "dq">>),
   Piece("opaque", <<"'", "${", "semicolon", "}", "'">>, <<"'", ";", "'">>),
   Placeholder("nested", <<"${", "w", "}">>), Placeholder("W", <<"w", "sp">>),
   Piece("unknown", <<"${", "unknown", "}">>, <<>>),
   Opaque(<<"END", "sp">>)}

\* Directives, and markers that are none, in comments, strings and behind statements.
Directive == Piece("directive", <<"--", "sp", "noTransaction", "nl">>,
                   <<"--", "sp", "noTransaction", "nl">>)
Marked ==
  {Directive, Opaque(<<"'", "noTransaction", "--", "'">>),
   Comment(<<"/*", "--", "noTransaction", "nl", "*/">>),
   Opaque(<<"w", "--", "noTransaction", "nl">>)}
Hidden ==
  {Piece("hidden", text, text) :
     text \in {<<"'", "nl", "sp", "--", "noTransaction", "nl", "'">>,
              <<"/*", "nl", "--", "noTransaction", "nl", "*/">>}}

\* The names of the files that have all these.
NameOn(on) == CHOOSE n \in Names : n[2].value = IF on = "sqlite" THEN 2 ELSE 20000

\* Built in placeholders, of which the program sets one itself.
BuiltIn(on) ==
  {Placeholder("flyway:defaultSchema", MCSchema), Placeholder("FLYWAY:USER", MCInstalledBy),
   Placeholder("flyway:table", <<"1", "w", "sp">>), Placeholder("flyway:filename", NameOn(on)[1])}

PiecesOf(on) ==
  CommonPieces \cup Marked \cup
    CASE on = "sqlite" ->
           {Opaque(<<"bq", ";", "BEGIN", "bq">>), Opaque(<<"[", ";", "'", "]">>),
            Opaque(<<"BEGIN", "1", "sp">>), Opaque(<<"w", "BEGIN", "sp">>),
            Opaque(<<"BEGIN", "sp", "w", ";", "sp", "CASE", "sp", "END", ";", "END", "sp">>),
            Opaque(<<"$", "w", "$", "sp">>)}
      [] on = "postgresql" ->
           {Opaque(<<"/*", "/*", "*/", ";", "*/">>), Opaque(<<"sp", "E", "'", "bs", "'", ";", "'", "sp">>),
            Opaque(<<"$", "$", ";", "'", "$", "$">>),
            Opaque(<<"$", "w", "1", "$", ";", "$", "$", ";", "$", "w", "1", "$">>),
            Opaque(<<"$", "1", "$", "sp">>), Opaque(<<"[", "sp">>),
            Opaque(<<"bq", "sp">>), Piece("any", <<"BEGIN", "sp">>, <<"BEGIN", "sp">>)}
      [] OTHER -> {}

\* Elements that do not end, and a prefix that stands for itself.
LastPieces ==
  {<<Opaque(<<"--", ";">>)>>, <<Opaque(<<"/*", ";", "*">>)>>, <<Opaque(<<"'", ";", "'", "'">>)>>,
   <<Opaque(<<"dq", ";">>)>>, <<Opaque(<<"${">>), Delimiter(<<";">>)>>}

Bodies(on, n) == UNION {[1..k -> PiecesOf(on)] : k \in 0..n}

Contents(on) ==
  Bodies(on, 3)
    \cup {<<Piece("mark", <<"bom">>, <<"bom">>)>> \o b : b \in Bodies(on, 1)}
    \cup {b \o l : b \in Bodies(on, 1), l \in LastPieces}
    \cup {<<p>> \o b : p \in Hidden \cup BuiltIn(on), b \in Bodies(on, 1)}
    \cup {b \o <<p>> : p \in Hidden \cup BuiltIn(on), b \in Bodies(on, 1)}

File(name, pieces, readable) ==
  [name |-> name[1], means |-> name[2], pieces |-> pieces, text |-> TextOf(pieces),
   readable |-> readable]

Plain(name) == File(name, <<Opaque(<<"w", "sp">>)>>, TRUE)
Unreadable(name) == File(name, <<>>, FALSE)

\* Any text at all: lexemes that open, close or hide something, one after another.
AnyContents(on) ==
  LET common == {"w", "sp", "nl", ";", "'", "--", "/*", "*/"}
      lexemes ==
        CASE on = "sqlite" -> common \cup {"BEGIN", "END", "["}
          [] on = "postgresql" -> common \cup {"$", "E", "bs"}
          [] OTHER -> {}
  IN  {<<Piece("any", text, text)>> : text \in UNION {[1..n -> lexemes] : n \in 1..4}}

\* What sources hold matters on one server, and what scripts hold on two.
MCDirectories(on) ==
  CASE on = "sqlite" ->
         UNION {[1..n -> {Plain(name) : name \in Names}] : n \in 0..3}
           \cup {<<Plain(name), Unreadable(other)>> : name \in Names, other \in Names}
           \cup {<<File(NameOn(on), pieces, TRUE)>> : pieces \in Contents(on) \cup AnyContents(on)}
    [] on = "postgresql" ->
         {<<File(NameOn(on), pieces, TRUE)>> : pieces \in Contents(on) \cup AnyContents(on)}
    [] OTHER -> {<<>>}

=============================================================================
