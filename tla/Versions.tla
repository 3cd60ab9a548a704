------------------------------ MODULE Versions ------------------------------
(***************************************************************************)
(* version.go, and the key under which resolver.go and info.go file a      *)
(* version.  A raw version is a sequence of lexemes: numerals, of any      *)
(* length and with leading zeros, separators and anything else.            *)
(***************************************************************************)
EXTENDS Integers, Sequences, FiniteSetsExt

CONSTANTS
  NumberOf  \* The value of each numeral

Numerals == DOMAIN NumberOf
Separators == {"_", "."}

\* parseVersion refuses a component that is not a non negative integer.
ASSUME NumbersAreNatural == \A n \in Numerals : NumberOf[n] \in Nat

\* Separators are no digits.
ASSUME SeparatorsApart == Separators \cap Numerals = {}

\* parseVersion accepts numerals with one separator between each two.
IsVersion(raw) ==
  /\ Len(raw) % 2 = 1
  /\ \A i \in 1..Len(raw) : raw[i] \in IF i % 2 = 1 THEN Numerals ELSE Separators

\* The place of the last part that is not zero, or d if all are.
LastNonZero(parts, d) == Max({i \in 1..Len(parts) : parts[i] # 0} \cup {d})

\* parseVersion: the numbers, without trailing zeros but for the first.
Parts(raw) ==
  LET all == [i \in 1..((Len(raw) + 1) \div 2) |-> NumberOf[raw[2 * i - 1]]]
  IN  SubSeq(all, 1, LastNonZero(all, 1))

\* String: what is shown, and stored in the history, where all() parses it again.
Display(raw) == [i \in 1..Len(raw) |-> IF raw[i] = "_" THEN "." ELSE raw[i]]

\* A part beyond the end is zero.
Part(v, i) == IF i <= Len(v) THEN v[i] ELSE 0

\* Planted bug: only as many parts as both have are compared.
Compare_Shorter(v, w) ==
  LET differs == {i \in 1..Min({Len(v), Len(w)}) : v[i] # w[i]}
  IN  IF differs = {} THEN 0
      ELSE IF v[Min(differs)] < w[Min(differs)] THEN -1 ELSE 1

\* Compare: decided by the first part that differs.
Compare(v, w) ==
  LET differs == {i \in 1..Max({Len(v), Len(w)}) : Part(v, i) # Part(w, i)}
  IN  IF differs = {} THEN 0
      ELSE IF Part(v, Min(differs)) < Part(w, Min(differs)) THEN -1 ELSE 1

\* normalizedVersionKey.
VersionKey(v) ==
  IF LastNonZero(v, 0) = 0 THEN <<0>> ELSE SubSeq(v, 1, LastNonZero(v, 0))

=============================================================================
