---------------------------- MODULE ScriptNames ----------------------------
(***************************************************************************)
(* name.go and the names of callbacks in callback.go.  A file name is a    *)
(* sequence of lexemes: prefix, numerals, underscores, words, suffix.      *)
(***************************************************************************)
EXTENDS LetterCase, Integers, FiniteSetsExt

CONSTANTS
  VersionedPrefix,    \* sqlMigrationPrefix
  RepeatablePrefix,   \* repeatableSQLMigrationPrefix
  ScriptSuffixes,     \* sqlMigrationSuffixes
  Events              \* Names of the callback events, in lower case

\* sqlMigrationSeparator.
Separator == <<"_", "_">>

\* matchSuffix: a configured suffix ends the name, in whatever case.
HasSuffix(name) ==
  name # <<>> /\ \E s \in ScriptSuffixes : ToLower(name[Len(name)]) = ToLower(s)
Stem(name) == SubSeq(name, 1, Len(name) - 1)

\* Where the separator occurs.
SeparatorsIn(s) ==
  {i \in 1..Len(s) - 1 : SubSeq(s, i, i + 1) = Separator}

Before(s) ==
  IF SeparatorsIn(s) = {} THEN s ELSE SubSeq(s, 1, Min(SeparatorsIn(s)) - 1)

After(s) == SubSeq(s, Min(SeparatorsIn(s)) + 2, Len(s))

Described(s) == [i \in 1..Len(s) |-> IF s[i] = "_" THEN " " ELSE s[i]]

\* parseResourceName: what follows the prefix of a name that fits the convention.
Rest(name) == Tail(Stem(name))
StartsWith(name, prefix) == Stem(name) # <<>> /\ Head(name) = prefix

IsRepeatable(name) ==
  /\ HasSuffix(name)
  /\ ~StartsWith(name, VersionedPrefix) /\ StartsWith(name, RepeatablePrefix)
  /\ SeparatorsIn(Rest(name)) # {} /\ Before(Rest(name)) = <<>>
IsVersioned(name) ==
  /\ HasSuffix(name) /\ StartsWith(name, VersionedPrefix)
  /\ SeparatorsIn(Rest(name)) # {} /\ Before(Rest(name)) # <<>>
IsMigration(name) == IsRepeatable(name) \/ IsVersioned(name)

RawVersion(name) == Before(Rest(name))
Description(name) == Described(After(Rest(name)))

\* parseCallbackName, asked only of names that are no migration's.
IsCallback(name) ==
  /\ HasSuffix(name)
  /\ Len(Before(Stem(name))) = 1 /\ ToLower(Head(Stem(name))) \in Events

=============================================================================
