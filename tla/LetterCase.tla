----------------------------- MODULE LetterCase -----------------------------
(***************************************************************************)
(* strings.ToLower, of a lexeme and of a text.  File names and the keys of  *)
(* placeholders are compared by it.                                        *)
(***************************************************************************)
EXTENDS Sequences, Naturals

CONSTANT
  Lower   \* Lexemes that ToLower changes, with what it makes of them

ToLower(l) == IF l \in DOMAIN Lower THEN Lower[l] ELSE l
LowerCase(text) == [i \in 1..Len(text) |-> ToLower(text[i])]

=============================================================================
