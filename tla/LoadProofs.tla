----------------------------- MODULE LoadProofs -----------------------------
(***************************************************************************)
(* Theorems about versions with any number of components of any size, and  *)
(* about Load with any number of files with any names: Compare is a total  *)
(* preorder, in which two versions are equal when they have the same key,  *)
(* so the order of a run, the refusal of duplicates and the joining of     *)
(* history rows to scripts speak of one notion of version; and Load refuses *)
(* only for a reason, and otherwise finds every migration once, in order.  *)
(***************************************************************************)
EXTENDS ScriptProperties, TextLemmas

-----------------------------------------------------------------------------
(* Versions.                                                               *)

\* The places of components, present or not, and what the key and the order are of.
Positions == Nat \ {0}
Raw == Seq(Nat)

\* Compare (version.go) reads a number at every place, zero beyond the end.
LEMMA PartType ==
  ASSUME NEW v \in Raw, NEW i \in Positions
  PROVE  Part(v, i) \in Nat
BY DEF Part, Raw, Positions

\* The loops that drop trailing zeros (parseVersion, normalizedVersionKey) stop at
\* the last component that is not zero, or at none.
LEMMA LastNonZeroIs ==
  ASSUME NEW v \in Raw
  PROVE  /\ LastNonZero(v, 0) \in 0..Len(v)
         /\ \A i \in Positions : Part(v, i) # 0 => i <= LastNonZero(v, 0)
         /\ LastNonZero(v, 0) # 0 => Part(v, LastNonZero(v, 0)) # 0
<1> DEFINE S == {i \in 1..Len(v) : v[i] # 0} \cup {0}
           l == Max(S)
<1>1. S \in SUBSET Nat /\ S # {} /\ Len(v) \in Nat /\ \A x \in S : x <= Len(v)
  BY DEF Raw
<1>2. l \in S /\ \A x \in S : l >= x
  <2> HIDE DEF S
  <2> QED BY <1>1, MaxOf
<1>3. l = LastNonZero(v, 0)
  BY DEF LastNonZero
<1>4. l \in 0..Len(v) /\ (l # 0 => Part(v, l) # 0)
  <2> HIDE DEF l
  <2> QED BY <1>1, <1>2 DEF Part, Raw
<1>5. \A i \in Positions : Part(v, i) # 0 => i <= l
  <2> HIDE DEF l
  <2> QED BY <1>1, <1>2 DEF Part, Raw, Positions
<1> QED BY <1>3, <1>4, <1>5

\* Whatever parseVersion accepts becomes a list of numbers, which is what the
\* theorems below speak of.
LEMMA PartsAreNumbers ==
  ASSUME NEW Lexemes, NEW raw \in Seq(Lexemes), IsVersion(raw)
  PROVE  Parts(raw) \in Raw
<1> DEFINE n == (Len(raw) + 1) \div 2
           all == [i \in 1..n |-> NumberOf[raw[2 * i - 1]]]
           N == {i \in 1..Len(all) : all[i] # 0} \cup {1}
           l == Max(N)
<1>1. Len(raw) \in Nat /\ Len(raw) % 2 = 1
  BY DEF IsVersion
<1>2. n \in Nat /\ n >= 1
  <2> HIDE DEF n
  <2> QED BY <1>1 DEF n
<1>3. \A i \in 1..n : 2 * i - 1 \in 1..Len(raw) /\ (2 * i - 1) % 2 = 1
  BY <1>1
<1>4. \A i \in 1..n : NumberOf[raw[2 * i - 1]] \in Nat
  BY <1>3, NumbersAreNatural DEF IsVersion
<1>5. all \in Seq(Nat) /\ Len(all) = n
  <2> HIDE DEF n
  <2> QED BY <1>2, <1>4
<1>6. N \in SUBSET Nat /\ N # {} /\ \A x \in N : x <= n
  <2> HIDE DEF n, all
  <2> QED BY <1>2, <1>5
<1>7. l \in N
  <2> HIDE DEF N, n
  <2> QED BY <1>2, <1>6, MaxOf
<1>8. l \in 1..n
  <2> HIDE DEF l, n, all
  <2> QED BY <1>2, <1>5, <1>7
<1>9. SubSeq(all, 1, l) \in Seq(Nat)
  <2> HIDE DEF l, n, all
  <2>1. \A i \in 1..l : all[i] \in Nat
    BY <1>2, <1>5, <1>8
  <2> QED BY <1>8, <2>1, SubSeqProperties
<1>10. Parts(raw) = SubSeq(all, 1, l)
  BY DEF Parts, LastNonZero
<1> QED BY <1>9, <1>10 DEF Raw

\* Equal up to trailing zeros.
Same(v, w) == \A i \in Positions : Part(v, i) = Part(w, i)

\* The first part that differs.
FirstDifference(v, w, i) ==
  /\ i \in Positions /\ Part(v, i) # Part(w, i)
  /\ \A j \in Positions : j < i => Part(v, j) = Part(w, j)

\* Compare (version.go) returns zero for lists that agree everywhere, and otherwise
\* what the first place at which they differ says.
LEMMA CompareIs ==
  ASSUME NEW v \in Raw, NEW w \in Raw
  PROVE  \/ Same(v, w) /\ Compare(v, w) = 0
         \/ \E i \in Positions :
              /\ FirstDifference(v, w, i)
              /\ Compare(v, w) = IF Part(v, i) < Part(w, i) THEN -1 ELSE 1
<1> DEFINE L == {Len(v), Len(w)}
           n == Max(L)
           D == {i \in 1..n : Part(v, i) # Part(w, i)}
           m == Min(D)
<1>1. n \in Nat /\ n >= Len(v) /\ n >= Len(w)
  <2>1. Len(v) \in Nat /\ Len(w) \in Nat
    BY DEF Raw
  <2>2. L \in SUBSET Nat /\ L # {} /\ Len(v) + Len(w) \in Nat
        /\ \A x \in L : x <= Len(v) + Len(w)
    BY <2>1
  <2>3. Max(L) \in L /\ \A x \in L : Max(L) >= x
    <3> HIDE DEF L
    <3> QED BY <2>2, MaxOf
  <2> QED BY <2>1, <2>3
<1>2. \A i \in Positions : i \notin 1..n => Part(v, i) = Part(w, i)
  <2> HIDE DEF n
  <2> QED BY <1>1 DEF Part, Raw, Positions
<1>3. Compare(v, w) = IF D = {} THEN 0 ELSE IF Part(v, m) < Part(w, m) THEN -1 ELSE 1
  BY DEF Compare
<1>4. CASE D = {}
  <2>1. \A i \in Positions : Part(v, i) = Part(w, i)
    <3> HIDE DEF n
    <3> QED BY <1>1, <1>2, <1>4 DEF Positions
  <2> QED BY <1>3, <1>4, <2>1 DEF Same
<1>5. CASE D # {}
  <2>1. D \in SUBSET Nat
    <3> HIDE DEF n
    <3> QED BY <1>1
  <2>2. m \in D /\ \A x \in D : m <= x
    <3> HIDE DEF D
    <3> QED BY <1>5, <2>1, MinOf
  <2>3. FirstDifference(v, w, m)
    <3> HIDE DEF n, m
    <3> QED BY <1>1, <1>2, <2>2 DEF FirstDifference, Positions
  <2>4. m \in Positions
    BY <2>3 DEF FirstDifference
  <2>5. Compare(v, w) = IF Part(v, m) < Part(w, m) THEN -1 ELSE 1
    BY <1>3, <1>5
  <2> HIDE DEF m
  <2> QED BY <2>3, <2>4, <2>5
<1> QED BY <1>4, <1>5

\* normalizedVersionKey (resolver.go) drops nothing but zeros at the end.
LEMMA KeyHasThePartsOf ==
  ASSUME NEW v \in Raw
  PROVE  /\ LastNonZero(v, 0) # 0 => VersionKey(v) = SubSeq(v, 1, LastNonZero(v, 0))
         /\ \A i \in Positions : Part(VersionKey(v), i) = Part(v, i)
<1> DEFINE l == LastNonZero(v, 0)
<1>1. /\ Len(v) \in Nat /\ l \in 0..Len(v)
      /\ \A i \in Positions : Part(v, i) # 0 => i <= l
  BY LastNonZeroIs DEF Raw
<1>2. CASE l = 0
  <2>1. VersionKey(v) = <<0>>
    BY <1>2 DEF VersionKey
  <2>2. \A i \in Positions : Part(<<0>>, i) = 0
    BY DEF Part, Positions
  <2>3. \A i \in Positions : Part(v, i) = 0
    <3> HIDE DEF l
    <3> QED BY <1>1, <1>2 DEF Positions
  <2> QED BY <1>2, <2>1, <2>2, <2>3
<1>3. CASE l # 0
  <2>1. VersionKey(v) = SubSeq(v, 1, l)
    BY <1>3 DEF VersionKey
  <2> HIDE DEF l
  <2>2. \A i \in 1..l : v[i] \in Nat
    BY <1>1 DEF Raw
  <2>3. /\ Len(SubSeq(v, 1, l)) = l
        /\ \A i \in 1..l : SubSeq(v, 1, l)[i] = v[i]
    BY <1>1, <1>3
  <2>4. ASSUME NEW i \in Positions PROVE Part(SubSeq(v, 1, l), i) = Part(v, i)
    <3>1. CASE i <= l
      BY <1>1, <2>3, <3>1 DEF Part, Positions
    <3>2. CASE ~(i <= l)
      BY <1>1, <2>3, <3>2 DEF Part
    <3> QED BY <3>1, <3>2
  <2> QED BY <2>1, <2>4 DEF l
<1> QED BY <1>2, <1>3

\* normalizedVersionKey (resolver.go) gives two lists one key iff they agree up to
\* trailing zeros.
LEMMA SameKey ==
  ASSUME NEW v \in Raw, NEW w \in Raw
  PROVE  Same(v, w) <=> VersionKey(v) = VersionKey(w)
<1>1. ASSUME VersionKey(v) = VersionKey(w) PROVE Same(v, w)
  BY <1>1, KeyHasThePartsOf DEF Same
<1>2. ASSUME Same(v, w) PROVE VersionKey(v) = VersionKey(w)
  <2> DEFINE l(x) == LastNonZero(x, 0)
  <2>1. /\ l(v) \in 0..Len(v) /\ l(w) \in 0..Len(w)
        /\ \A i \in Positions : Part(v, i) # 0 => i <= l(v)
        /\ \A i \in Positions : Part(w, i) # 0 => i <= l(w)
        /\ l(v) # 0 => Part(v, l(v)) # 0
        /\ l(w) # 0 => Part(w, l(w)) # 0
        /\ Len(v) \in Nat /\ Len(w) \in Nat
    BY LastNonZeroIs DEF Raw
  <2>2. l(v) = l(w)
    <3> HIDE DEF l
    <3> QED BY <1>2, <2>1 DEF Same, Positions
  <2>3. CASE l(v) = 0
    BY <2>2, <2>3 DEF VersionKey
  <2>4. CASE l(v) # 0
    <3>1. /\ VersionKey(v) = SubSeq(v, 1, l(v))
          /\ VersionKey(w) = SubSeq(w, 1, l(v))
      BY <2>2, <2>4, KeyHasThePartsOf
    <3> HIDE DEF l
    <3>2. \A i \in 1..l(v) : v[i] = w[i]
      BY <1>2, <2>1, <2>2 DEF Same, Part, Positions
    <3>3. SubSeq(v, 1, l(v)) = SubSeq(w, 1, l(v))
      BY <2>1, <2>2, <3>2
    <3> QED BY <3>1, <3>3
  <2> QED BY <2>3, <2>4
<1> QED BY <1>1, <1>2

\* Compare (version.go), by which migrations are sorted and found out of order, and
\* the key under which resolver.go refuses duplicates and info.go joins scripts to
\* history rows, agree on which versions are the same.
THEOREM KeysAreVersions ==
  ASSUME NEW v \in Raw, NEW w \in Raw
  PROVE  Compare(v, w) = 0 <=> VersionKey(v) = VersionKey(w)
<1>1. Same(v, w) => Compare(v, w) = 0
  <2> SUFFICES ASSUME Same(v, w) PROVE Compare(v, w) = 0
    OBVIOUS
  <2> QED BY CompareIs DEF Same, FirstDifference
<1>2. ~Same(v, w) => Compare(v, w) # 0
  BY CompareIs
<1> QED BY <1>1, <1>2, SameKey

\* Any first difference is the one that decides Compare (version.go).
LEMMA Differs ==
  ASSUME NEW v \in Raw, NEW w \in Raw, NEW i, FirstDifference(v, w, i)
  PROVE  Compare(v, w) = IF Part(v, i) < Part(w, i) THEN -1 ELSE 1
<1>1. ~Same(v, w)
  BY DEF Same, FirstDifference
<1>2. PICK j \in Positions :
        /\ FirstDifference(v, w, j)
        /\ Compare(v, w) = IF Part(v, j) < Part(w, j) THEN -1 ELSE 1
  BY <1>1, CompareIs
<1>3. i = j
  BY <1>2 DEF FirstDifference, Positions
<1> QED BY <1>2, <1>3

\* Trailing zeros do not count for Compare (version.go).
LEMMA Equals ==
  ASSUME NEW v \in Raw, NEW w \in Raw, Same(v, w)
  PROVE  Compare(v, w) = 0
BY CompareIs DEF Same, FirstDifference

\* Compare (version.go) is the same comparison from either side, which the sort of
\* resolveMigrations relies on.
THEOREM CompareIsAntisymmetric ==
  ASSUME NEW v \in Raw, NEW w \in Raw
  PROVE  Compare(w, v) = -Compare(v, w)
<1>1. CASE Same(v, w)
  <2>1. Same(w, v)
    BY <1>1 DEF Same
  <2> QED BY <1>1, <2>1, Equals
<1>2. CASE ~Same(v, w)
  <2>1. PICK i \in Positions : FirstDifference(v, w, i)
    BY <1>2, CompareIs
  <2>2. FirstDifference(w, v, i)
    BY <2>1 DEF FirstDifference
  <2>3. Part(v, i) \in Nat /\ Part(w, i) \in Nat /\ Part(v, i) # Part(w, i)
    BY <2>1, PartType DEF FirstDifference
  <2>4. /\ Compare(v, w) = IF Part(v, i) < Part(w, i) THEN -1 ELSE 1
        /\ Compare(w, v) = IF Part(w, i) < Part(v, i) THEN -1 ELSE 1
    BY <2>1, <2>2, Differs
  <2> QED BY <2>3, <2>4
<1> QED BY <1>1, <1>2

\* Compare (version.go) is transitive, so the sort of resolveMigrations has one
\* outcome and "below the highest applied version" has a meaning.
THEOREM CompareIsTransitive ==
  ASSUME NEW u \in Raw, NEW v \in Raw, NEW w \in Raw,
         Compare(u, v) <= 0, Compare(v, w) <= 0
  PROVE  Compare(u, w) <= 0
<1>1. CASE Same(u, v)
  <2>1. CASE Same(v, w)
    <3>1. Same(u, w)
      BY <1>1, <2>1 DEF Same
    <3> QED BY <3>1, Equals
  <2>2. CASE ~Same(v, w)
    <3>1. PICK i \in Positions : FirstDifference(v, w, i)
      BY <2>2, CompareIs
    <3>2. FirstDifference(u, w, i) /\ Part(u, i) = Part(v, i)
      BY <1>1, <3>1 DEF FirstDifference, Same
    <3>3. Compare(u, w) = Compare(v, w)
      BY <3>1, <3>2, Differs
    <3> QED BY <3>3
  <2> QED BY <2>1, <2>2
<1>2. CASE ~Same(u, v)
  <2>1. PICK i \in Positions : FirstDifference(u, v, i)
    BY <1>2, CompareIs
  <2>2. Part(u, i) < Part(v, i)
    <3>1. Compare(u, v) = IF Part(u, i) < Part(v, i) THEN -1 ELSE 1
      BY <2>1, Differs
    <3> QED BY <3>1
  <2>3. CASE Same(v, w)
    <3>1. FirstDifference(u, w, i) /\ Part(v, i) = Part(w, i)
      BY <2>1, <2>3 DEF FirstDifference, Same
    <3>2. Compare(u, w) = -1
      BY <2>2, <3>1, Differs
    <3> QED BY <3>2
  <2>4. CASE ~Same(v, w)
    <3>1. PICK j \in Positions : FirstDifference(v, w, j)
      BY <2>4, CompareIs
    <3>2. Part(v, j) < Part(w, j)
      <4>1. Compare(v, w) = IF Part(v, j) < Part(w, j) THEN -1 ELSE 1
        BY <3>1, Differs
      <4> QED BY <4>1
    <3>3. \E k \in Positions : FirstDifference(u, w, k) /\ Part(u, k) < Part(w, k)
      <4>1. \A k \in Positions : Part(u, k) \in Nat /\ Part(v, k) \in Nat /\ Part(w, k) \in Nat
        BY PartType
      <4>2. CASE i < j
        BY <2>1, <2>2, <3>1, <4>2 DEF FirstDifference, Positions
      <4>3. CASE j < i
        BY <2>1, <3>1, <3>2, <4>3 DEF FirstDifference, Positions
      <4>4. CASE i = j
        BY <2>1, <2>2, <3>1, <3>2, <4>1, <4>4 DEF FirstDifference, Positions
      <4> QED BY <4>2, <4>3, <4>4 DEF Positions
    <3>4. PICK k \in Positions : FirstDifference(u, w, k) /\ Part(u, k) < Part(w, k)
      BY <3>3
    <3>5. Compare(u, w) = -1
      BY <3>4, Differs
    <3> QED BY <3>5
  <2> QED BY <2>3, <2>4
<1> QED BY <1>1, <1>2

-----------------------------------------------------------------------------
(* The inductive invariant.                                                *)

\* The files among those that were looked at, by kind.
VersionedIn(n)  == {i \in 1..n : IsVersioned(files[i].name)}
RepeatableIn(n) == {i \in 1..n : IsRepeatable(files[i].name)}
CallbackIn(n)   == {i \in 1..n : ~IsMigration(files[i].name) /\ IsCallback(files[i].name)}

KeyIn(i) == VersionKey(Parts(RawVersion(files[i].name)))

\* s is what became of the files with the indices I.
Lists(s, I) ==
  /\ s \in Seq({Resolved(files[i]) : i \in I})
  /\ \A i \in I : \E k \in 1..Len(s) : s[k] = Resolved(files[i])

KeysDiffer(s) ==
  \A k, l \in 1..Len(s) : VersionKey(s[k].version) = VersionKey(s[l].version) => k = l
DescriptionsDiffer(s) ==
  \A k, l \in 1..Len(s) : s[k].description = s[l].description => k = l

FilesInv ==
  /\ files \in Seq(ToSet(files))
  /\ server \in Servers /\ files \in Directories(server)
  /\ \A i \in 1..Len(files) :
       /\ files[i].name \in Seq(ToSet(files[i].name))
       /\ IsRepeatable(files[i].name) => Description(files[i].name) \in Seq(ToSet(Collation))
  /\ looked \in 0..Len(files)
  /\ \A i \in 1..looked : IsMigration(files[i].name) => files[i].readable

VersionsInv ==
  /\ Lists(versioned, VersionedIn(looked)) /\ KeysDiffer(versioned)
  /\ \A i \in VersionedIn(looked) : IsVersion(RawVersion(files[i].name))
  /\ \A i, j \in VersionedIn(looked) : KeyIn(i) = KeyIn(j) => i = j

RepeatablesInv ==
  /\ Lists(repeatable, RepeatableIn(looked)) /\ DescriptionsDiffer(repeatable)
  /\ \A i, j \in RepeatableIn(looked) :
       Description(files[i].name) = Description(files[j].name) => i = j

CallbacksInv ==
  /\ callbacks \in Seq(ToSet(files)) /\ Len(callbacks) = Cardinality(CallbackIn(looked))
  /\ \A i \in CallbackIn(looked) :
       callbacks[Cardinality({j \in CallbackIn(looked) : j <= i})] = files[i]

\* When the scripts are loaded they are in order.
VersionOrder(m, n) == Compare(m.version, n.version)
DescriptionOrder(m, n) == Compare(CollationOf(m.description), CollationOf(n.description))

InOrderInv ==
  /\ \A i, j \in 1..Len(versioned) : i < j => VersionOrder(versioned[i], versioned[j]) < 0
  /\ \A i, j \in 1..Len(repeatable) :
       i < j => DescriptionOrder(repeatable[i], repeatable[j]) <= 0

\* Two files are one migration.
OneMigration(i, j) ==
  \/ /\ IsRepeatable(files[i].name) /\ IsRepeatable(files[j].name)
     /\ Description(files[i].name) = Description(files[j].name)
  \/ /\ IsVersioned(files[i].name) /\ IsVersioned(files[j].name)
     /\ IsVersion(RawVersion(files[i].name)) /\ IsVersion(RawVersion(files[j].name))
     /\ KeyIn(i) = KeyIn(j)

\* There is a reason for every refusal.
ReasonInv ==
  /\ stage = "duplicate" => \E i, j \in 1..Len(files) : i # j /\ OneMigration(i, j)
  /\ stage = "bad version" =>
       \E i \in 1..Len(files) :
         IsVersioned(files[i].name) /\ ~IsVersion(RawVersion(files[i].name))
  /\ stage = "unreadable" => \E i \in 1..Len(files) : ~files[i].readable

StageInv ==
  /\ stage = "configuring" => looked = 0
  /\ stage = "loaded" => looked = Len(files) /\ InOrderInv

LoadInv ==
  FilesInv /\ VersionsInv /\ RepeatablesInv /\ CallbacksInv /\ ReasonInv /\ StageInv

-----------------------------------------------------------------------------
(* What a list of migrations is.                                           *)

\* A name is of one kind.
LEMMA OneKind ==
  ASSUME NEW name
  PROVE  ~(IsRepeatable(name) /\ IsVersioned(name))
BY DEF IsRepeatable, IsVersioned

\* One more file is one more migration.
LEMMA ListsMore ==
  ASSUME NEW s, NEW I, Lists(s, I), NEW i
  PROVE  /\ Lists(Append(s, Resolved(files[i])), I \cup {i})
         /\ Len(s) \in Nat /\ Len(Append(s, Resolved(files[i]))) = Len(s) + 1
         /\ \A k \in 1..Len(s) : Append(s, Resolved(files[i]))[k] = s[k]
         /\ Append(s, Resolved(files[i]))[Len(s) + 1] = Resolved(files[i])
<1> DEFINE S == {Resolved(files[j]) : j \in I \cup {i}}
           r == Resolved(files[i])
           t == Append(s, r)
<1>1. r \in S /\ s \in Seq(S)
  <2>1. {Resolved(files[j]) : j \in I} \subseteq S
    OBVIOUS
  <2>2. s \in Seq({Resolved(files[j]) : j \in I})
    BY DEF Lists
  <2>3. \A k \in 1..Len(s) : s[k] \in S
    BY <2>1, <2>2
  <2> HIDE DEF S
  <2>4. s \in Seq(S)
    BY <2>1, <2>2
  <2>5. r \in S
    BY DEF S
  <2> QED BY <2>4, <2>5
<1> HIDE DEF S
<1>2. /\ t \in Seq(S) /\ Len(s) \in Nat /\ Len(t) = Len(s) + 1
      /\ \A k \in 1..Len(s) : t[k] = s[k]
      /\ t[Len(s) + 1] = r
  <2> HIDE DEF r
  <2> QED BY <1>1, AppendProperties
<1>3. \A j \in I \cup {i} : \E k \in 1..Len(t) : t[k] = Resolved(files[j])
  <2> SUFFICES ASSUME NEW j \in I \cup {i}
               PROVE  \E k \in 1..Len(t) : t[k] = Resolved(files[j])
    OBVIOUS
  <2>1. CASE j = i
    BY <1>2, <2>1
  <2>2. CASE j \in I
    <3>1. PICK k \in 1..Len(s) : s[k] = Resolved(files[j])
      BY <2>2 DEF Lists
    <3> QED BY <1>2, <3>1
  <2> QED BY <2>1, <2>2
<1> QED BY <1>2, <1>3 DEF Lists, S

\* A sort keeps what is listed.
LEMMA ListsSorted ==
  ASSUME NEW s, NEW I, Lists(s, I), NEW p \in Bijection(1..Len(s), 1..Len(s)),
         NEW t, t = [i \in 1..Len(s) |-> s[p[i]]]
  PROVE  Lists(t, I) /\ Len(t) = Len(s)
<1> DEFINE S == {Resolved(files[j]) : j \in I}
<1>1. s \in Seq(S) /\ Len(s) \in Nat
  BY DEF Lists
<1>2. /\ \A i \in 1..Len(s) : p[i] \in 1..Len(s)
      /\ \A k \in 1..Len(s) : \E i \in 1..Len(s) : p[i] = k
  BY DEF Bijection, Injection, Surjection
<1>3. \A i \in 1..Len(s) : s[p[i]] \in S
  <2> HIDE DEF S
  <2> QED BY <1>1, <1>2
<1>4. t \in Seq(S) /\ Len(t) = Len(s)
  <2> HIDE DEF S
  <2> QED BY <1>1, <1>3
<1>5. \A j \in I : \E k \in 1..Len(t) : t[k] = Resolved(files[j])
  <2> SUFFICES ASSUME NEW j \in I PROVE \E k \in 1..Len(t) : t[k] = Resolved(files[j])
    OBVIOUS
  <2>1. PICK k \in 1..Len(s) : s[k] = Resolved(files[j])
    BY DEF Lists
  <2>2. PICK i \in 1..Len(s) : p[i] = k
    BY <1>2
  <2> QED BY <1>4, <2>1, <2>2
<1> QED BY <1>4, <1>5 DEF Lists

\* Looking at one more file.
LEMMA OneMore ==
  ASSUME NEW n \in Nat
  PROVE  /\ VersionedIn(n + 1) = VersionedIn(n) \cup
              (IF IsVersioned(files[n + 1].name) THEN {n + 1} ELSE {})
         /\ RepeatableIn(n + 1) = RepeatableIn(n) \cup
              (IF IsRepeatable(files[n + 1].name) THEN {n + 1} ELSE {})
         /\ CallbackIn(n + 1) = CallbackIn(n) \cup
              (IF ~IsMigration(files[n + 1].name) /\ IsCallback(files[n + 1].name)
               THEN {n + 1} ELSE {})
<1>1. 1..(n + 1) = (1..n) \cup {n + 1}
  OBVIOUS
<1> QED BY <1>1 DEF VersionedIn, RepeatableIn, CallbackIn

-----------------------------------------------------------------------------
(* What the steps do.                                                      *)

\* Load looks at one more file.
LooksAtNext == AddCallback \/ IgnoreFile \/ AddRepeatable \/ AddVersioned

\* Every other step but the sort leaves what was found alone.
LEMMA StepKinds ==
  ASSUME [Next]_vars
  PROVE  /\ files' = files /\ server' = server
         /\ \/ UNCHANGED <<looked, versioned, repeatable, callbacks>>
            \/ LooksAtNext /\ looked' = looked + 1 /\ looked < Len(files)
            \/ SortMigrations
<1> USE DEF programVars, resolvedVars, Refuse
<1>1. CASE UNCHANGED vars
  BY <1>1 DEF vars
<1>2. CASE RefuseSettings \/ RefuseServer \/ DetectDialect \/ RefuseUnreadable
           \/ RefuseRepeatable \/ RefuseName \/ RefuseVersion \/ SendStatements
           \/ RefusePlaceholder
  BY <1>2 DEF RefuseSettings, RefuseServer, DetectDialect, RefuseUnreadable,
    RefuseRepeatable, RefuseName, RefuseVersion, SendStatements, RefusePlaceholder
<1>3. CASE LooksAtNext
  BY <1>3 DEF LooksAtNext, AddCallback, IgnoreFile, AddRepeatable, AddVersioned, Looking, Readable
<1>4. CASE SortMigrations
  BY <1>4 DEF SortMigrations
<1> QED BY <1>1, <1>2, <1>3, <1>4 DEF Next, LooksAtNext

\* No migration is left behind unread.
LEMMA FilesNext ==
  ASSUME FilesInv, [Next]_vars
  PROVE  FilesInv'
<1>0. files' = files /\ server' = server /\ looked \in Nat /\ Len(files) \in Nat
  BY StepKinds DEF FilesInv
<1>1. CASE looked' = looked
  BY <1>0, <1>1 DEF FilesInv
<1>2. CASE LooksAtNext /\ looked' = looked + 1 /\ looked < Len(files)
  <2>1. IsMigration(files[looked + 1].name) => files[looked + 1].readable
    BY <1>2 DEF LooksAtNext, AddCallback, IgnoreFile, AddRepeatable, AddVersioned, Readable,
      NextFile
  <2>2. \A i \in 1..looked' : i \in 1..looked \/ i = looked + 1
    BY <1>0, <1>2
  <2>3. looked' \in 0..Len(files)
    BY <1>0, <1>2
  <2> QED BY <1>0, <2>1, <2>2, <2>3 DEF FilesInv
<1>3. CASE SortMigrations
  BY <1>1, <1>3 DEF SortMigrations, programVars
<1> QED BY <1>1, <1>2, <1>3, StepKinds

-----------------------------------------------------------------------------
(* Versioned migrations.                                                   *)

\* The version of a file's migration.
LEMMA ResolvedVersion ==
  ASSUME NEW f, IsVersioned(f.name)
  PROVE  Resolved(f).version = Parts(RawVersion(f.name))
BY OneKind DEF Resolved

\* No two files have one version.
LEMMA VersionsNext ==
  ASSUME FilesInv, VersionsInv, [Next]_vars
  PROVE  VersionsInv'
<1>0. files' = files /\ looked \in Nat
  BY StepKinds DEF FilesInv
<1>1. CASE versioned' = versioned /\ VersionedIn(looked') = VersionedIn(looked)
  BY <1>0, <1>1 DEF VersionsInv, Lists, KeysDiffer, VersionedIn, KeyIn
<1>2. CASE (AddCallback \/ IgnoreFile \/ AddRepeatable) /\ looked' = looked + 1
  <2>1. ~IsVersioned(files[looked + 1].name) /\ versioned' = versioned
    BY <1>2, OneKind DEF AddCallback, IgnoreFile, AddRepeatable, Readable, NextFile, IsMigration,
      resolvedVars
  <2>2. VersionedIn(looked + 1) = VersionedIn(looked)
    BY <1>0, <2>1, OneMore
  <2> QED BY <1>1, <1>2, <2>1, <2>2
<1>3. CASE AddVersioned
  <2> DEFINE j == looked + 1
             I == VersionedIn(looked)
             v == Append(versioned, Resolved(files[j]))
  <2>1. /\ versioned' = v /\ looked' = j /\ IsVersioned(files[j].name)
        /\ IsVersion(RawVersion(files[j].name))
        /\ \A k \in 1..Len(versioned) : VersionKey(versioned[k].version) # KeyIn(j)
    <3>1. /\ versioned' = v /\ looked' = j /\ IsVersioned(files[j].name)
          /\ IsVersion(RawVersion(files[j].name)) /\ ~SeenVersion(files[j])
      BY <1>3 DEF AddVersioned, NextFile
    <3>2. versioned \in Seq({Resolved(files[i]) : i \in I})
      BY DEF VersionsInv, Lists
    <3>3. DOMAIN versioned = 1..Len(versioned)
      BY <3>2
    <3> QED BY <3>1, <3>3 DEF SeenVersion, KeyIn, ToSet
  <2>2. VersionedIn(j) = I \cup {j}
    BY <1>0, <2>1, OneMore
  <2>3. /\ Lists(v, I \cup {j}) /\ Len(versioned) \in Nat /\ Len(v) = Len(versioned) + 1
        /\ \A k \in 1..Len(versioned) : v[k] = versioned[k]
        /\ v[Len(versioned) + 1] = Resolved(files[j])
    <3>1. Lists(versioned, I)
      BY DEF VersionsInv
    <3> HIDE DEF I, j
    <3> QED BY <3>1, ListsMore
  <2>4. VersionKey(Resolved(files[j]).version) = KeyIn(j)
    BY <2>1, ResolvedVersion DEF KeyIn
  <2> HIDE DEF v
  <2>5. KeysDiffer(v)
    <3> SUFFICES ASSUME NEW k \in 1..Len(v), NEW l \in 1..Len(v),
                        VersionKey(v[k].version) = VersionKey(v[l].version)
                 PROVE  k = l
      BY DEF KeysDiffer
    <3>1. /\ k \in 1..Len(versioned) \/ k = Len(versioned) + 1
          /\ l \in 1..Len(versioned) \/ l = Len(versioned) + 1
      BY <2>3
    <3>2. CASE k \in 1..Len(versioned) /\ l \in 1..Len(versioned)
      BY <2>3, <3>2 DEF VersionsInv, KeysDiffer
    <3>3. CASE k = Len(versioned) + 1 /\ l \in 1..Len(versioned)
      BY <2>1, <2>3, <2>4, <3>3
    <3>4. CASE l = Len(versioned) + 1 /\ k \in 1..Len(versioned)
      BY <2>1, <2>3, <2>4, <3>4
    <3> QED BY <3>1, <3>2, <3>3, <3>4
  <2>6. \A i \in I : KeyIn(i) # KeyIn(j)
    <3> SUFFICES ASSUME NEW i \in I PROVE KeyIn(i) # KeyIn(j)
      OBVIOUS
    <3>1. PICK k \in 1..Len(versioned) : versioned[k] = Resolved(files[i])
      BY DEF VersionsInv, Lists
    <3>2. VersionKey(Resolved(files[i]).version) = KeyIn(i)
      BY ResolvedVersion DEF VersionedIn, KeyIn
    <3> QED BY <2>1, <3>1, <3>2
  <2>7. \A i, l \in I \cup {j} : KeyIn(i) = KeyIn(l) => i = l
    BY <2>6 DEF VersionsInv
  <2>8. \A i \in I \cup {j} : IsVersion(RawVersion(files[i].name))
    BY <2>1 DEF VersionsInv
  <2> HIDE DEF I, j
  <2>9. VersionedIn(looked)' = VersionedIn(j)
    BY <1>0, <2>1 DEF VersionedIn
  <2>10. \A i : KeyIn(i)' = KeyIn(i)
    BY <1>0 DEF KeyIn
  <2>11. Lists(versioned, VersionedIn(looked))'
    BY <1>0, <2>1, <2>2, <2>3, <2>9 DEF Lists
  <2>12. KeysDiffer(versioned)'
    BY <2>1, <2>5 DEF KeysDiffer
  <2> QED BY <1>0, <2>2, <2>7, <2>8, <2>9, <2>10, <2>11, <2>12 DEF VersionsInv
<1>4. CASE SortMigrations
  <2>1. looked' = looked /\ versioned' \in StableSorts(versioned, VersionsOf(versioned))
    BY <1>4 DEF SortMigrations, programVars
  <2>2. PICK p \in Bijection(1..Len(versioned), 1..Len(versioned)) :
          versioned' = [i \in 1..Len(versioned) |-> versioned[p[i]]]
    BY <2>1 DEF StableSorts
  <2>3. Lists(versioned', VersionedIn(looked)) /\ Len(versioned') = Len(versioned)
    BY <2>2, ListsSorted DEF VersionsInv
  <2>4. KeysDiffer(versioned)'
    <3>1. \A i \in 1..Len(versioned) : p[i] \in 1..Len(versioned)
      BY DEF Bijection, Injection
    <3>2. \A i, l \in 1..Len(versioned) : p[i] = p[l] => i = l
      BY DEF Bijection, Injection, IsInjective
    <3> QED BY <2>2, <2>3, <3>1, <3>2 DEF VersionsInv, KeysDiffer
  <2>5. VersionedIn(looked)' = VersionedIn(looked)
    BY <1>0, <2>1 DEF VersionedIn
  <2>6. Lists(versioned, VersionedIn(looked))'
    BY <1>0, <2>3, <2>5 DEF Lists
  <2>7. \A i : KeyIn(i)' = KeyIn(i)
    BY <1>0 DEF KeyIn
  <2> QED BY <1>0, <2>4, <2>5, <2>6, <2>7 DEF VersionsInv
<1> QED BY <1>1, <1>2, <1>3, <1>4, StepKinds DEF LooksAtNext

-----------------------------------------------------------------------------
(* Repeatable migrations.                                                  *)

\* A migration's description, and where it came from.
LEMMA ResolvedDescription ==
  ASSUME NEW f
  PROVE  Resolved(f).description = Description(f.name) /\ Resolved(f).file = f
BY DEF Resolved

\* No two repeatable files have one description.
LEMMA RepeatablesNext ==
  ASSUME FilesInv, RepeatablesInv, [Next]_vars
  PROVE  RepeatablesInv'
<1>0. files' = files /\ looked \in Nat
  BY StepKinds DEF FilesInv
<1>1. CASE repeatable' = repeatable /\ RepeatableIn(looked') = RepeatableIn(looked)
  <2>1. RepeatableIn(looked)' = RepeatableIn(looked)
    BY <1>0, <1>1 DEF RepeatableIn
  <2>2. Lists(repeatable, RepeatableIn(looked))'
    BY <1>0, <1>1, <2>1 DEF RepeatablesInv, Lists
  <2>3. DescriptionsDiffer(repeatable)'
    BY <1>1 DEF RepeatablesInv, DescriptionsDiffer
  <2> QED BY <1>0, <1>1, <2>1, <2>2, <2>3 DEF RepeatablesInv
<1>2. CASE (AddCallback \/ IgnoreFile \/ AddVersioned) /\ looked' = looked + 1
  <2>1. ~IsRepeatable(files[looked + 1].name) /\ repeatable' = repeatable
    BY <1>2, OneKind DEF AddCallback, IgnoreFile, AddVersioned, Readable, NextFile, IsMigration,
      resolvedVars
  <2>2. RepeatableIn(looked + 1) = RepeatableIn(looked)
    BY <1>0, <2>1, OneMore
  <2> QED BY <1>1, <1>2, <2>1, <2>2
<1>3. CASE AddRepeatable
  <2> DEFINE j == looked + 1
             I == RepeatableIn(looked)
             r == Append(repeatable, Resolved(files[j]))
             D(i) == Description(files[i].name)
  <2>1. /\ repeatable' = r /\ looked' = j /\ IsRepeatable(files[j].name)
        /\ \A k \in 1..Len(repeatable) : repeatable[k].description # D(j)
    <3>1. /\ repeatable' = r /\ looked' = j /\ IsRepeatable(files[j].name)
          /\ ~SeenRepeatable(files[j])
      BY <1>3 DEF AddRepeatable, NextFile
    <3>2. repeatable \in Seq({Resolved(files[i]) : i \in I})
      BY DEF RepeatablesInv, Lists
    <3>3. DOMAIN repeatable = 1..Len(repeatable)
      BY <3>2
    <3> QED BY <3>1, <3>3 DEF SeenRepeatable, ToSet
  <2>2. RepeatableIn(j) = I \cup {j}
    BY <1>0, <2>1, OneMore
  <2>3. /\ Lists(r, I \cup {j}) /\ Len(repeatable) \in Nat /\ Len(r) = Len(repeatable) + 1
        /\ \A k \in 1..Len(repeatable) : r[k] = repeatable[k]
        /\ r[Len(repeatable) + 1] = Resolved(files[j])
    <3>1. Lists(repeatable, I)
      BY DEF RepeatablesInv
    <3> HIDE DEF I, j
    <3> QED BY <3>1, ListsMore
  <2>4. Resolved(files[j]).description = D(j)
    BY ResolvedDescription
  <2> HIDE DEF r
  <2>5. DescriptionsDiffer(r)
    <3> SUFFICES ASSUME NEW k \in 1..Len(r), NEW l \in 1..Len(r),
                        r[k].description = r[l].description
                 PROVE  k = l
      BY DEF DescriptionsDiffer
    <3>1. /\ k \in 1..Len(repeatable) \/ k = Len(repeatable) + 1
          /\ l \in 1..Len(repeatable) \/ l = Len(repeatable) + 1
      BY <2>3
    <3>2. CASE k \in 1..Len(repeatable) /\ l \in 1..Len(repeatable)
      BY <2>3, <3>2 DEF RepeatablesInv, DescriptionsDiffer
    <3>3. CASE k = Len(repeatable) + 1 /\ l \in 1..Len(repeatable)
      BY <2>1, <2>3, <2>4, <3>3
    <3>4. CASE l = Len(repeatable) + 1 /\ k \in 1..Len(repeatable)
      BY <2>1, <2>3, <2>4, <3>4
    <3> QED BY <3>1, <3>2, <3>3, <3>4
  <2>6. \A i \in I : D(i) # D(j)
    <3> SUFFICES ASSUME NEW i \in I PROVE D(i) # D(j)
      OBVIOUS
    <3>1. PICK k \in 1..Len(repeatable) : repeatable[k] = Resolved(files[i])
      BY DEF RepeatablesInv, Lists
    <3>2. Resolved(files[i]).description = D(i)
      BY ResolvedDescription
    <3> QED BY <2>1, <3>1, <3>2
  <2>7. \A i, l \in I \cup {j} : D(i) = D(l) => i = l
    BY <2>6 DEF RepeatablesInv
  <2> HIDE DEF I, j
  <2>8. RepeatableIn(looked)' = RepeatableIn(j)
    BY <1>0, <2>1 DEF RepeatableIn
  <2>9. Lists(repeatable, RepeatableIn(looked))'
    BY <1>0, <2>1, <2>2, <2>3, <2>8 DEF Lists
  <2>10. DescriptionsDiffer(repeatable)'
    BY <2>1, <2>5 DEF DescriptionsDiffer
  <2> QED BY <1>0, <2>2, <2>7, <2>8, <2>9, <2>10 DEF RepeatablesInv
<1>4. CASE SortMigrations
  <2>1. looked' = looked /\ repeatable' \in StableSorts(repeatable, DescriptionsOf(repeatable))
    BY <1>4 DEF SortMigrations, programVars
  <2>2. PICK p \in Bijection(1..Len(repeatable), 1..Len(repeatable)) :
          repeatable' = [i \in 1..Len(repeatable) |-> repeatable[p[i]]]
    BY <2>1 DEF StableSorts
  <2>3. Lists(repeatable', RepeatableIn(looked)) /\ Len(repeatable') = Len(repeatable)
    BY <2>2, ListsSorted DEF RepeatablesInv
  <2>4. DescriptionsDiffer(repeatable)'
    <3>1. \A i \in 1..Len(repeatable) : p[i] \in 1..Len(repeatable)
      BY DEF Bijection, Injection
    <3>2. \A i, l \in 1..Len(repeatable) : p[i] = p[l] => i = l
      BY DEF Bijection, Injection, IsInjective
    <3> QED BY <2>2, <2>3, <3>1, <3>2 DEF RepeatablesInv, DescriptionsDiffer
  <2>5. RepeatableIn(looked)' = RepeatableIn(looked)
    BY <1>0, <2>1 DEF RepeatableIn
  <2>6. Lists(repeatable, RepeatableIn(looked))'
    BY <1>0, <2>3, <2>5 DEF Lists
  <2> QED BY <1>0, <2>4, <2>5, <2>6 DEF RepeatablesInv
<1> QED BY <1>1, <1>2, <1>3, <1>4, StepKinds DEF LooksAtNext

-----------------------------------------------------------------------------
(* Callbacks.                                                              *)

\* Callbacks are in the order of their files.
LEMMA CallbacksNext ==
  ASSUME FilesInv, CallbacksInv, [Next]_vars
  PROVE  CallbacksInv'
<1>0. files' = files /\ looked \in Nat
  BY StepKinds DEF FilesInv
<1>1. CASE callbacks' = callbacks /\ CallbackIn(looked') = CallbackIn(looked)
  <2>1. CallbackIn(looked)' = CallbackIn(looked)
    BY <1>0, <1>1 DEF CallbackIn
  <2> QED BY <1>0, <1>1, <2>1 DEF CallbacksInv
<1>2. CASE (IgnoreFile \/ AddVersioned \/ AddRepeatable) /\ looked' = looked + 1
  <2>1. /\ IsMigration(files[looked + 1].name) \/ ~IsCallback(files[looked + 1].name)
        /\ callbacks' = callbacks
    BY <1>2 DEF AddRepeatable, IgnoreFile, AddVersioned, Readable, NextFile, resolvedVars
  <2>2. CallbackIn(looked + 1) = CallbackIn(looked)
    BY <1>0, <2>1, OneMore
  <2> QED BY <1>1, <1>2, <2>1, <2>2
<1>3. CASE AddCallback
  <2> DEFINE j == looked + 1
             K == CallbackIn(looked)
             L == K \cup {j}
             c == Append(callbacks, files[j])
             Upto(S, i) == {l \in S : l <= i}
  <2>1. /\ callbacks' = c /\ looked' = j /\ j \in 1..Len(files)
        /\ ~IsMigration(files[j].name) /\ IsCallback(files[j].name)
    BY <1>0, <1>3 DEF AddCallback, NextFile, Looking, FilesInv
  <2>2. CallbackIn(j) = L
    BY <1>0, <2>1, OneMore
  <2>3. files[j] \in ToSet(files)
    BY <2>1 DEF ToSet, FilesInv
  <2>4. /\ c \in Seq(ToSet(files)) /\ Len(callbacks) \in Nat /\ Len(c) = Len(callbacks) + 1
        /\ \A k \in 1..Len(callbacks) : c[k] = callbacks[k]
        /\ c[Len(callbacks) + 1] = files[j]
    <3> HIDE DEF j
    <3> QED BY <2>3, AppendProperties DEF CallbacksInv
  <2> HIDE DEF c
  <2>5. IsFiniteSet(K) /\ K \subseteq 1..looked
    <3>1. K \subseteq 1..looked
      BY DEF CallbackIn
    <3>2. IsFiniteSet(1..looked)
      BY <1>0, FS_Interval
    <3> HIDE DEF K
    <3> QED BY <3>1, <3>2, FS_Subset
  <2>6. j \notin K /\ Cardinality(L) = Cardinality(K) + 1 /\ Cardinality(K) = Len(callbacks)
    <3>1. j \notin K
      BY <1>0, <2>5
    <3> HIDE DEF j, K
    <3> QED BY <2>5, <3>1, FS_AddElement DEF CallbacksInv, K
  <2>7. ASSUME NEW i \in L PROVE c[Cardinality(Upto(L, i))] = files[i]
    <3>1. CASE i = j
      <4>1. Upto(L, i) = L
        BY <1>0, <2>5, <3>1
      <4> HIDE DEF L, j
      <4> QED BY <2>4, <2>6, <3>1, <4>1
    <3>2. CASE i \in K
      <4>1. Upto(L, i) = Upto(K, i)
        BY <1>0, <2>5, <3>2
      <4>2. Upto(K, i) \in SUBSET K /\ i \in Upto(K, i)
        BY <2>5, <3>2
      <4>3. /\ IsFiniteSet(Upto(K, i)) /\ Cardinality(Upto(K, i)) <= Cardinality(K)
            /\ Cardinality(Upto(K, i)) # 0 /\ Cardinality(Upto(K, i)) \in Nat
        <5> HIDE DEF K, Upto
        <5> QED BY <2>5, <4>2, FS_Subset, FS_EmptySet, FS_CardinalityType
      <4>4. Cardinality(Upto(K, i)) \in 1..Len(callbacks)
        <5> HIDE DEF K, Upto
        <5> QED BY <2>4, <2>6, <4>3
      <4>5. callbacks[Cardinality(Upto(K, i))] = files[i]
        BY <3>2 DEF CallbacksInv
      <4> HIDE DEF K, Upto, j, L
      <4> QED BY <2>4, <4>1, <4>4, <4>5
    <3> QED BY <3>1, <3>2
  <2>8. CallbackIn(looked)' = L
    <3>1. CallbackIn(looked)' = CallbackIn(j)
      BY <1>0, <2>1 DEF CallbackIn
    <3> QED BY <2>2, <3>1
  <2>9. \A i \in L : c[Cardinality({l \in L : l <= i})] = files[i]
    BY <2>7
  <2> HIDE DEF K, L, j
  <2> QED BY <1>0, <2>1, <2>4, <2>6, <2>8, <2>9 DEF CallbacksInv
<1>4. CASE SortMigrations
  BY <1>1, <1>4 DEF SortMigrations, programVars
<1> QED BY <1>1, <1>2, <1>3, <1>4, StepKinds DEF LooksAtNext

-----------------------------------------------------------------------------
(* The sort.                                                               *)

\* What stands between the prefix and the separator is a part of the name
\* (parseResourceName in name.go).
LEMMA RawVersionType ==
  ASSUME NEW S, NEW name \in Seq(S), IsVersioned(name)
  PROVE  RawVersion(name) \in Seq(S)
<1> DEFINE stem == Stem(name)
           s == Rest(name)
           P == SeparatorsIn(s)
<1>1. name # <<>> /\ stem # <<>> /\ P # {}
  BY DEF IsVersioned, HasSuffix, StartsWith
<1>2. stem \in Seq(S)
  <2>1. Len(name) - 1 \in 0..Len(name)
    BY <1>1
  <2>2. \A i \in 1..(Len(name) - 1) : name[i] \in S
    OBVIOUS
  <2> QED BY <2>1, <2>2, SubSeqProperties DEF Stem
<1>3. s \in Seq(S)
  <2> HIDE DEF stem
  <2>1. Tail(stem) \in Seq(S)
    BY <1>1, <1>2
  <2> QED BY <2>1 DEF Rest, stem
<1>4. P \subseteq 1..Len(s) - 1
  BY DEF SeparatorsIn
<1>5. Len(s) \in Nat /\ P \in SUBSET Nat
  <2> HIDE DEF P, s
  <2> QED BY <1>3, <1>4
<1>6. Min(P) \in P
  <2> HIDE DEF P
  <2> QED BY <1>1, <1>5, MinOf
<1>7. SubSeq(s, 1, Min(P) - 1) \in Seq(S)
  <2> HIDE DEF P, s
  <2> DEFINE m == Min(P)
  <2>1. m - 1 \in 0..Len(s)
    <3>1. m \in 1..Len(s) - 1
      BY <1>4, <1>6
    <3> HIDE DEF m
    <3> QED BY <1>5, <3>1
  <2> HIDE DEF m
  <2>2. \A i \in 1..m - 1 : s[i] \in S
    BY <1>3, <1>5, <2>1
  <2>3. SubSeq(s, 1, m - 1) \in Seq(S)
    BY <1>3, <2>1, <2>2, SubSeqProperties
  <2> QED BY <2>3 DEF m
<1>8. RawVersion(name) = SubSeq(s, 1, Min(P) - 1)
  BY <1>1 DEF RawVersion, Before
<1> QED BY <1>7, <1>8

\* parseVersion makes numbers of it.
LEMMA VersionsAreRaw ==
  ASSUME NEW S, NEW name \in Seq(S), IsVersioned(name), IsVersion(RawVersion(name))
  PROVE  Parts(RawVersion(name)) \in Raw
BY RawVersionType, PartsAreNumbers

\* Every version that was found is a list of numbers.
LEMMA FoundIsRaw ==
  ASSUME FilesInv, VersionsInv, NEW k \in 1..Len(versioned)
  PROVE  versioned[k].version \in Raw
<1>1. PICK i \in VersionedIn(looked) : versioned[k] = Resolved(files[i])
  <2>1. versioned \in Seq({Resolved(files[i]) : i \in VersionedIn(looked)})
    BY DEF VersionsInv, Lists
  <2>2. versioned[k] \in {Resolved(files[i]) : i \in VersionedIn(looked)}
    BY <2>1
  <2> QED BY <2>2
<1>2. i \in 1..Len(files) /\ IsVersioned(files[i].name)
  BY DEF VersionedIn, FilesInv
<1>3. Parts(RawVersion(files[i].name)) \in Raw
  BY <1>2, VersionsAreRaw DEF FilesInv, VersionsInv
<1> QED BY <1>1, <1>2, <1>3, ResolvedVersion

\* Compare answers before, equal or after.
LEMMA ComparisonType ==
  ASSUME NEW v, NEW w
  PROVE  Compare(v, w) \in {-1, 0, 1}
BY DEF Compare

\* The sort at the end of resolveMigrations: versions, no two of which are the
\* same, are in strict order, descriptions in order.
LEMMA SortOrders ==
  ASSUME FilesInv, VersionsInv, RepeatablesInv, SortMigrations
  PROVE  InOrderInv'
<1>1. ASSUME NEW i \in 1..Len(versioned'), NEW j \in 1..Len(versioned'), i < j
      PROVE  VersionOrder(versioned'[i], versioned'[j]) < 0
  <2>0. PICK p \in Bijection(1..Len(versioned), 1..Len(versioned)) :
          /\ versioned' = [k \in 1..Len(versioned) |-> versioned[p[k]]]
          /\ \A k, l \in 1..Len(versioned) : k < l =>
               \/ Compare(VersionsOf(versioned)[p[k]], VersionsOf(versioned)[p[l]]) < 0
               \/ Compare(VersionsOf(versioned)[p[k]], VersionsOf(versioned)[p[l]]) = 0 /\ p[k] < p[l]
    BY DEF SortMigrations, StableSorts
  <2>1. /\ versioned' = [k \in 1..Len(versioned) |-> versioned[p[k]]]
        /\ \A k, l \in 1..Len(versioned) : k < l =>
             \/ VersionOrder(versioned[p[k]], versioned[p[l]]) < 0
             \/ VersionOrder(versioned[p[k]], versioned[p[l]]) = 0 /\ p[k] < p[l]
    <3>1. \A k \in 1..Len(versioned) : p[k] \in 1..Len(versioned)
      BY DEF Bijection, Injection
    <3> QED BY <2>0, <3>1 DEF VersionOrder, VersionsOf
  <2>2. Len(versioned) \in Nat
    BY DEF VersionsInv, Lists
  <2>3. Len(versioned') = Len(versioned)
    BY <2>1, <2>2
  <2>4. p[i] \in 1..Len(versioned) /\ p[j] \in 1..Len(versioned)
    BY <1>1, <2>3 DEF Bijection, Injection
  <2>5. versioned[p[i]].version \in Raw /\ versioned[p[j]].version \in Raw
    BY <2>4, FoundIsRaw
  <2>6. CASE VersionOrder(versioned[p[i]], versioned[p[j]]) = 0 /\ p[i] < p[j]
    <3>1. VersionKey(versioned[p[i]].version) = VersionKey(versioned[p[j]].version)
      BY <2>5, <2>6, KeysAreVersions DEF VersionOrder
    <3>2. p[i] = p[j]
      BY <2>4, <3>1 DEF VersionsInv, KeysDiffer
    <3> QED BY <2>2, <2>4, <2>6, <3>2
  <2>7. versioned'[i] = versioned[p[i]] /\ versioned'[j] = versioned[p[j]]
    BY <1>1, <2>1, <2>3
  <2> QED BY <1>1, <2>1, <2>3, <2>6, <2>7
<1>2. ASSUME NEW i \in 1..Len(repeatable'), NEW j \in 1..Len(repeatable'), i < j,
             Len(repeatable) \in Nat
      PROVE  DescriptionOrder(repeatable'[i], repeatable'[j]) <= 0
  <2>0. PICK p \in Bijection(1..Len(repeatable), 1..Len(repeatable)) :
          /\ repeatable' = [k \in 1..Len(repeatable) |-> repeatable[p[k]]]
          /\ \A k, l \in 1..Len(repeatable) : k < l =>
               \/ Compare(DescriptionsOf(repeatable)[p[k]], DescriptionsOf(repeatable)[p[l]]) < 0
               \/ Compare(DescriptionsOf(repeatable)[p[k]], DescriptionsOf(repeatable)[p[l]]) = 0 /\ p[k] < p[l]
    BY DEF SortMigrations, StableSorts
  <2>1. /\ repeatable' = [k \in 1..Len(repeatable) |-> repeatable[p[k]]]
        /\ \A k, l \in 1..Len(repeatable) : k < l =>
             \/ DescriptionOrder(repeatable[p[k]], repeatable[p[l]]) < 0
             \/ DescriptionOrder(repeatable[p[k]], repeatable[p[l]]) = 0 /\ p[k] < p[l]
    <3>1. \A k \in 1..Len(repeatable) : p[k] \in 1..Len(repeatable)
      BY DEF Bijection, Injection
    <3> QED BY <2>0, <3>1 DEF DescriptionOrder, DescriptionsOf
  <2>2. Len(repeatable') = Len(repeatable)
    BY <1>2, <2>1
  <2>3. repeatable'[i] = repeatable[p[i]] /\ repeatable'[j] = repeatable[p[j]]
    BY <1>2, <2>1, <2>2
  <2> HIDE DEF DescriptionOrder
  <2>4. \/ DescriptionOrder(repeatable'[i], repeatable'[j]) < 0
        \/ DescriptionOrder(repeatable'[i], repeatable'[j]) = 0
    BY <1>2, <2>1, <2>2, <2>3
  <2>5. DescriptionOrder(repeatable'[i], repeatable'[j]) \in {-1, 0, 1}
    BY ComparisonType DEF DescriptionOrder
  <2> QED BY <2>4, <2>5
<1>3. Len(repeatable) \in Nat
  BY DEF RepeatablesInv, Lists
<1> QED BY <1>1, <1>2, <1>3 DEF InOrderInv

-----------------------------------------------------------------------------
(* How Load ends.                                                          *)

\* Before it is loaded no program runs a migration, and nothing is looked at before
\* the settings and the server are.
LEMMA StageNext ==
  ASSUME FilesInv, VersionsInv, RepeatablesInv, StageInv, [Next]_vars
  PROVE  StageInv'
<1> USE DEF Refuse, programVars, resolvedVars
<1>0. files' = files
  BY StepKinds
<1>1. CASE UNCHANGED <<stage, looked, versioned, repeatable>>
  BY <1>0, <1>1 DEF StageInv, InOrderInv
<1>2. CASE stage' \notin {"configuring", "loaded"}
  BY <1>2 DEF StageInv
<1>3. CASE SortMigrations
  <2>1. looked' = Len(files') /\ stage' = "loaded"
    BY <1>3 DEF SortMigrations
  <2> QED BY <1>3, <2>1, SortOrders DEF StageInv
<1>4. CASE LooksAtNext
  <2>1. stage' = "resolving"
    BY <1>4 DEF LooksAtNext, AddCallback, IgnoreFile, AddRepeatable, AddVersioned, Readable, Looking
  <2> QED BY <1>2, <2>1
<1>5. CASE RefuseSettings \/ RefuseServer \/ DetectDialect \/ RefuseUnreadable
           \/ RefuseRepeatable \/ RefuseName \/ RefuseVersion \/ RefusePlaceholder
  BY <1>2, <1>5 DEF RefuseSettings, RefuseServer, DetectDialect, RefuseUnreadable,
    RefuseRepeatable, RefuseName, RefuseVersion, RefusePlaceholder
<1>6. CASE SendStatements
  BY <1>1, <1>6 DEF SendStatements
<1>7. CASE UNCHANGED vars
  BY <1>1, <1>7 DEF vars
<1> QED BY <1>3, <1>4, <1>5, <1>6, <1>7 DEF Next, LooksAtNext

\* resolveMigrations refuses a file as a duplicate of one that it has accepted.
LEMMA DuplicatesAre ==
  ASSUME FilesInv, VersionsInv, RepeatablesInv, RefuseRepeatable \/ RefuseVersion
  PROVE  \E i, j \in 1..Len(files) : i # j /\ OneMigration(i, j)
<1> DEFINE j == looked + 1
<1>0. looked \in Nat /\ j \in 1..Len(files) /\ Len(files) \in Nat /\ looked < Len(files)
  <2>1. looked < Len(files)
    BY DEF RefuseRepeatable, RefuseVersion, Readable, Looking
  <2> QED BY <2>1 DEF FilesInv
<1>1. CASE RefuseRepeatable
  <2>1. IsRepeatable(files[j].name) /\ SeenRepeatable(files[j])
    BY <1>1 DEF RefuseRepeatable, NextFile
  <2>2. PICK m \in ToSet(repeatable) : m.description = Description(files[j].name)
    BY <2>1 DEF SeenRepeatable
  <2>3. PICK i \in RepeatableIn(looked) : m = Resolved(files[i])
    <3>1. repeatable \in Seq({Resolved(files[i]) : i \in RepeatableIn(looked)})
      BY DEF RepeatablesInv, Lists
    <3>2. m \in {Resolved(files[i]) : i \in RepeatableIn(looked)}
      <4> DEFINE R == {Resolved(files[i]) : i \in RepeatableIn(looked)}
      <4> HIDE DEF R
      <4> QED BY <3>1 DEF ToSet, R
    <3> QED BY <3>2
  <2>4. i \in 1..looked /\ IsRepeatable(files[i].name)
    BY DEF RepeatableIn
  <2>5. OneMigration(i, j)
    BY <2>1, <2>2, <2>3, <2>4, ResolvedDescription DEF OneMigration
  <2>6. i \in 1..Len(files) /\ i # j
    BY <1>0, <2>4
  <2> QED BY <1>0, <2>5, <2>6
<1>2. CASE RefuseVersion
  <2>1. /\ IsVersioned(files[j].name) /\ IsVersion(RawVersion(files[j].name))
        /\ SeenVersion(files[j])
    BY <1>2 DEF RefuseVersion, NextFile
  <2>2. PICK m \in ToSet(versioned) : VersionKey(m.version) = KeyIn(j)
    BY <2>1 DEF SeenVersion, KeyIn
  <2>3. PICK i \in VersionedIn(looked) : m = Resolved(files[i])
    <3>1. versioned \in Seq({Resolved(files[i]) : i \in VersionedIn(looked)})
      BY DEF VersionsInv, Lists
    <3>2. m \in {Resolved(files[i]) : i \in VersionedIn(looked)}
      <4> DEFINE R == {Resolved(files[i]) : i \in VersionedIn(looked)}
      <4> HIDE DEF R
      <4> QED BY <3>1 DEF ToSet, R
    <3> QED BY <3>2
  <2>4. /\ i \in 1..looked /\ IsVersioned(files[i].name)
        /\ IsVersion(RawVersion(files[i].name))
    BY DEF VersionedIn, VersionsInv
  <2>5. KeyIn(i) = KeyIn(j)
    BY <2>2, <2>3, <2>4, ResolvedVersion DEF KeyIn
  <2>6. OneMigration(i, j)
    BY <2>1, <2>4, <2>5 DEF OneMigration
  <2>7. i \in 1..Len(files) /\ i # j
    BY <1>0, <2>4
  <2> QED BY <1>0, <2>6, <2>7
<1> QED BY <1>1, <1>2

\* Every refusal has a reason that lasts.
LEMMA ReasonNext ==
  ASSUME FilesInv, VersionsInv, RepeatablesInv, ReasonInv, [Next]_vars
  PROVE  ReasonInv'
<1> USE DEF Refuse, programVars, resolvedVars
<1>0. files' = files /\ Len(files) \in Nat /\ looked \in Nat
  BY StepKinds DEF FilesInv
<1>1. \A i, j : OneMigration(i, j)' = OneMigration(i, j)
  BY <1>0 DEF OneMigration, KeyIn
<1>2. CASE stage' = stage
  BY <1>0, <1>1, <1>2 DEF ReasonInv
<1>3. CASE stage' \notin {"duplicate", "bad version", "unreadable"}
  BY <1>3 DEF ReasonInv
<1>4. CASE RefuseRepeatable \/ RefuseVersion
  <2>1. stage' = "duplicate"
    BY <1>4 DEF RefuseRepeatable, RefuseVersion
  <2>2. \E i, j \in 1..Len(files) : i # j /\ OneMigration(i, j)
    BY <1>4, DuplicatesAre
  <2> QED BY <1>0, <1>1, <2>1, <2>2 DEF ReasonInv
<1>5. CASE RefuseName \/ RefuseUnreadable
  <2>1. looked < Len(files)
    BY <1>5 DEF RefuseName, RefuseUnreadable, Readable, Looking
  <2>2. looked + 1 \in 1..Len(files)
    BY <1>0, <2>1
  <2>3. \/ stage' = "unreadable" /\ ~files[looked + 1].readable
        \/ /\ stage' = "bad version" /\ IsVersioned(files[looked + 1].name)
           /\ ~IsVersion(RawVersion(files[looked + 1].name))
    BY <1>5 DEF RefuseName, RefuseUnreadable, NextFile
  <2> QED BY <1>0, <2>2, <2>3 DEF ReasonInv
<1>6. CASE RefuseSettings \/ RefuseServer \/ DetectDialect \/ SortMigrations \/ RefusePlaceholder
  BY <1>3, <1>6 DEF RefuseSettings, RefuseServer, DetectDialect, SortMigrations, RefusePlaceholder
<1>7. CASE AddCallback \/ IgnoreFile \/ AddRepeatable \/ AddVersioned \/ SendStatements
           \/ UNCHANGED vars
  BY <1>2, <1>7 DEF AddCallback, IgnoreFile, AddRepeatable, AddVersioned, SendStatements, vars
<1> QED BY <1>4, <1>5, <1>6, <1>7 DEF Next

-----------------------------------------------------------------------------
(* The invariant holds.                                                    *)

\* A program that has not looked at any file.
LEMMA LoadInit ==
  ASSUME Init
  PROVE  LoadInv
<1>1. VersionedIn(looked) = {} /\ RepeatableIn(looked) = {} /\ CallbackIn(looked) = {}
  BY DEF Init, VersionedIn, RepeatableIn, CallbackIn
<1>2. \A S : <<>> \in Seq(S) /\ Len(<<>>) = 0
  BY EmptySeq
<1>3. FilesInv
  <2>1. files \in Directories(server) /\ server \in Servers /\ looked = 0
    BY DEF Init
  <2>2. files \in Seq(ToSet(files))
    BY <2>1, FilesAreSequences
  <2>3. \A i \in 1..Len(files) :
          /\ files[i].name \in Seq(ToSet(files[i].name))
          /\ IsRepeatable(files[i].name) =>
               Description(files[i].name) \in Seq(ToSet(Collation))
    <3>1. \A f \in ToSet(files) :
            /\ f.name \in Seq(ToSet(f.name))
            /\ IsRepeatable(f.name) => Description(f.name) \in Seq(ToSet(Collation))
      BY <2>1, FilesAreSequences
    <3>2. \A i \in 1..Len(files) : files[i] \in ToSet(files)
      BY <2>2 DEF ToSet
    <3> QED BY <3>1, <3>2
  <2>4. 0 \in 0..Len(files) /\ 1..0 = {}
    BY <2>2
  <2> QED BY <2>1, <2>2, <2>3, <2>4 DEF FilesInv
<1>4. VersionsInv /\ RepeatablesInv
  BY <1>1, <1>2 DEF Init, VersionsInv, RepeatablesInv, Lists, KeysDiffer, DescriptionsDiffer
<1>5. CallbacksInv
  BY <1>1, <1>2, FS_EmptySet DEF Init, CallbacksInv
<1>6. ReasonInv /\ StageInv
  BY DEF Init, ReasonInv, StageInv
<1> QED BY <1>3, <1>4, <1>5, <1>6 DEF LoadInv

\* The inductive invariant of loading.
LEMMA LoadInductive == Spec => []LoadInv
<1>1. Init => LoadInv
  BY LoadInit
<1>2. LoadInv /\ [Next]_vars => LoadInv'
  BY FilesNext, VersionsNext, RepeatablesNext, CallbacksNext, StageNext, ReasonNext DEF LoadInv
<1> QED BY <1>1, <1>2, PTL DEF Spec

-----------------------------------------------------------------------------
(* The order of the marks.                                                 *)

\* Compare (version.go) is below zero exactly when the first number that differs
\* is the lesser one.
LEMMA CompareBelow ==
  ASSUME NEW v \in Raw, NEW w \in Raw
  PROVE  Compare(v, w) < 0 <=> Precedes(v, w)
<1>0. /\ Len(v) \in Nat /\ Len(w) \in Nat
      /\ \A i \in Positions : Part(v, i) \in Nat /\ Part(w, i) \in Nat
  BY PartType DEF Raw
<1>1. ASSUME Precedes(v, w) PROVE Compare(v, w) < 0
  <2>1. PICK i \in 1..Len(w) :
          Part(v, i) < Part(w, i) /\ \A j \in 1..(i - 1) : Part(v, j) = Part(w, j)
    BY <1>1 DEF Precedes
  <2>2. i \in Positions /\ \A j \in Positions : j < i => j \in 1..(i - 1)
    BY <1>0 DEF Positions
  <2>3. FirstDifference(v, w, i)
    BY <1>0, <2>1, <2>2 DEF FirstDifference
  <2>4. Compare(v, w) = -1
    BY <2>1, <2>3, Differs
  <2> QED BY <2>4
<1>2. ASSUME Compare(v, w) < 0 PROVE Precedes(v, w)
  <2>1. PICK i \in Positions :
          /\ FirstDifference(v, w, i)
          /\ Compare(v, w) = IF Part(v, i) < Part(w, i) THEN -1 ELSE 1
    BY <1>2, CompareIs
  <2>2. Part(v, i) < Part(w, i)
    BY <1>2, <2>1
  <2>3. i \in 1..Len(w)
    <3>1. Part(w, i) # 0
      BY <1>0, <2>2
    <3> QED BY <1>0, <3>1 DEF Part, Positions
  <2>4. \A j \in 1..(i - 1) : Part(v, j) = Part(w, j)
    BY <1>0, <2>1, <2>3 DEF FirstDifference, Positions
  <2> QED BY <2>2, <2>3, <2>4 DEF Precedes
<1> QED BY <1>1, <1>2

\* The order of strings compares each lexeme by its place in the collation.
LEMMA CollationIs ==
  ASSUME NEW d \in Seq(ToSet(Collation))
  PROVE  /\ CollationOf(d) \in Raw /\ Len(CollationOf(d)) = Len(d)
         /\ \A i \in 1..Len(d) : CollationOf(d)[i] # 0 /\ Collation[CollationOf(d)[i]] = d[i]
<1>1. ASSUME NEW i \in 1..Len(d)
      PROVE  \E n \in 1..Len(Collation) : Collation[n] = d[i]
  <2>1. d[i] \in {Collation[n] : n \in DOMAIN Collation}
    BY DEF ToSet
  <2>2. DOMAIN Collation = 1..Len(Collation)
    BY CollationIsSequence
  <2> QED BY <2>1, <2>2
<1>2. ASSUME NEW i \in 1..Len(d)
      PROVE  CollationOf(d)[i] \in 1..Len(Collation) /\ Collation[CollationOf(d)[i]] = d[i]
  BY <1>1 DEF CollationOf
<1>3. Len(Collation) \in Nat /\ Len(d) \in Nat
  BY CollationIsSequence
<1>4. CollationOf(d) \in [1..Len(d) -> Nat]
  <2>1. CollationOf(d) = [i \in 1..Len(d) |-> CollationOf(d)[i]]
    BY DEF CollationOf
  <2>2. \A i \in 1..Len(d) : CollationOf(d)[i] \in Nat
    BY <1>2, <1>3
  <2> QED BY <2>1, <2>2
<1> QED BY <1>2, <1>3, <1>4 DEF Raw

\* Descriptions that are equal in the order of strings are equal.
LEMMA CollationDecides ==
  ASSUME NEW d \in Seq(ToSet(Collation)), NEW e \in Seq(ToSet(Collation)),
         Same(CollationOf(d), CollationOf(e))
  PROVE  d = e
<1> DEFINE v == CollationOf(d)
           w == CollationOf(e)
<1>1. /\ Len(v) = Len(d) /\ Len(w) = Len(e) /\ Len(d) \in Nat /\ Len(e) \in Nat
      /\ \A i \in 1..Len(d) : v[i] # 0 /\ Collation[v[i]] = d[i]
      /\ \A i \in 1..Len(e) : w[i] # 0 /\ Collation[w[i]] = e[i]
      /\ Same(v, w)
  BY CollationIs
<1> HIDE DEF v, w
<1>2. \A i \in Positions : (i <= Len(d) <=> i <= Len(e)) /\ (i <= Len(d) => v[i] = w[i])
  BY <1>1 DEF Same, Part, Positions
<1>3. Len(d) = Len(e)
  <2>1. Len(d) <= Len(e)
    BY <1>1, <1>2 DEF Positions
  <2>2. Len(e) <= Len(d)
    BY <1>1, <1>2 DEF Positions
  <2> QED BY <1>1, <2>1, <2>2
<1>4. \A i \in 1..Len(d) : d[i] = e[i]
  BY <1>1, <1>2, <1>3 DEF Positions
<1> QED BY <1>3, <1>4

-----------------------------------------------------------------------------
(* The marks.                                                              *)

\* A name has exactly one mark.
LEMMA KindIs ==
  ASSUME NEW name
  PROVE  /\ KindOf(name) = "repeatable" <=> IsRepeatable(name)
         /\ KindOf(name) = "versioned" <=> IsVersioned(name) /\ IsVersion(RawVersion(name))
         /\ KindOf(name) = "bad version" <=> IsVersioned(name) /\ ~IsVersion(RawVersion(name))
         /\ KindOf(name) = "callback" <=> ~IsMigration(name) /\ IsCallback(name)
<1> DEFINE r == IsRepeatable(name)
           v == IsVersioned(name)
           n == IsVersion(RawVersion(name))
           c == IsCallback(name)
<1>1. ~(r /\ v)
  BY OneKind
<1>2. KindOf(name) =
        CASE r -> "repeatable" [] v /\ n -> "versioned" [] v /\ ~n -> "bad version"
          [] ~(r \/ v) /\ c -> "callback" [] OTHER -> "other"
  BY DEF KindOf, IsMigration
<1>3. IsMigration(name) <=> r \/ v
  BY DEF IsMigration
<1> HIDE DEF r, v, n, c
<1> QED BY <1>1, <1>2, <1>3 DEF r, v, n, c

\* What the files that a program loads are marked with.
LEMMA Marks ==
  ASSUME FilesInv, NEW i \in 1..Len(files), NEW j \in 1..Len(files)
  PROVE  MarkedRight(files[i]) /\ RankedRight(files[i], files[j])
<1>1. files[i] \in ToSet(files) /\ files[j] \in ToSet(files)
  BY DEF FilesInv, ToSet
<1> QED BY <1>1, FilesAreMarked DEF FilesInv

\* Rank is a list of numbers, and decides what is one migration.
LEMMA Ranks ==
  ASSUME FilesInv, NEW i \in 1..Len(files), NEW j \in 1..Len(files),
         files[i].means.kind \in Applied, files[j].means.kind = files[i].means.kind
  PROVE  /\ RankOf(files[i].name) \in Raw /\ RankOf(files[j].name) \in Raw
         /\ OneMigration(i, j) <=>
              Compare(RankOf(files[i].name), RankOf(files[j].name)) = 0
         /\ files[i].means.value < files[j].means.value <=>
              Compare(RankOf(files[i].name), RankOf(files[j].name)) < 0
         /\ files[i].means.value = files[j].means.value <=> OneMigration(i, j)
<1> DEFINE v == RankOf(files[i].name)
           w == RankOf(files[j].name)
<1>1. /\ MarkedRight(files[i]) /\ MarkedRight(files[j])
      /\ RankedRight(files[i], files[j]) /\ RankedRight(files[j], files[i])
  BY Marks
<1>2. \/ files[i].means.kind = "repeatable" \/ files[i].means.kind = "versioned"
  BY DEF Applied
<1>3. ASSUME files[i].means.kind = "repeatable"
      PROVE  v \in Raw /\ w \in Raw /\ (OneMigration(i, j) <=> Compare(v, w) = 0)
  <2>1. IsRepeatable(files[i].name) /\ IsRepeatable(files[j].name)
    BY <1>1, <1>3 DEF MarkedRight, KindOf
  <2> DEFINE d == Description(files[i].name)
             e == Description(files[j].name)
  <2>2. d \in Seq(ToSet(Collation)) /\ e \in Seq(ToSet(Collation))
    BY <2>1 DEF FilesInv
  <2>3. v = CollationOf(d) /\ w = CollationOf(e)
    BY <2>1 DEF RankOf
  <2>4. OneMigration(i, j) <=> d = e
    BY <2>1, OneKind DEF OneMigration
  <2> HIDE DEF v, w, d, e
  <2>5. v \in Raw /\ w \in Raw
    BY <2>2, <2>3, CollationIs
  <2>6. Compare(v, w) = 0 => d = e
    <3>1. Compare(v, w) = 0 => Same(v, w)
      BY <2>5, SameKey, KeysAreVersions
    <3> QED BY <2>2, <2>3, <3>1, CollationDecides
  <2>7. d = e => Compare(v, w) = 0
    BY <2>3, <2>5, KeysAreVersions
  <2> QED BY <2>4, <2>5, <2>6, <2>7
<1>4. ASSUME files[i].means.kind = "versioned"
      PROVE  v \in Raw /\ w \in Raw /\ (OneMigration(i, j) <=> Compare(v, w) = 0)
  <2>1. /\ IsVersioned(files[i].name) /\ IsVersion(RawVersion(files[i].name))
        /\ IsVersioned(files[j].name) /\ IsVersion(RawVersion(files[j].name))
    BY <1>1, <1>4 DEF MarkedRight, KindOf
  <2>2. v = Parts(RawVersion(files[i].name)) /\ w = Parts(RawVersion(files[j].name))
    BY <2>1, OneKind DEF RankOf
  <2>3. v \in Raw /\ w \in Raw
    BY <2>1, <2>2, VersionsAreRaw DEF FilesInv
  <2>4. OneMigration(i, j) <=> VersionKey(v) = VersionKey(w)
    BY <2>1, <2>2, OneKind DEF OneMigration, KeyIn
  <2> HIDE DEF v, w
  <2> QED BY <2>3, <2>4, KeysAreVersions
<1>5. v \in Raw /\ w \in Raw /\ (OneMigration(i, j) <=> Compare(v, w) = 0)
  BY <1>2, <1>3, <1>4
<1>6. /\ files[i].means.value < files[j].means.value <=> Precedes(v, w)
      /\ files[j].means.value < files[i].means.value <=> Precedes(w, v)
      /\ files[i].means.value \in Int /\ files[j].means.value \in Int
  BY <1>1 DEF MarkedRight, RankedRight
<1> HIDE DEF v, w
<1>7. /\ Precedes(v, w) <=> Compare(v, w) < 0
      /\ Precedes(w, v) <=> Compare(w, v) < 0
      /\ Compare(w, v) = -Compare(v, w) /\ Compare(v, w) \in {-1, 0, 1}
  BY <1>5, CompareBelow, CompareIsAntisymmetric, ComparisonType
<1> QED BY <1>5, <1>6, <1>7 DEF v, w

\* Every version that was found is that of a file marked as versioned.
LEMMA FoundVersion ==
  ASSUME FilesInv, VersionsInv, NEW k \in 1..Len(versioned)
  PROVE  \E i \in 1..Len(files) :
           /\ i \in VersionedIn(looked) /\ versioned[k] = Resolved(files[i])
           /\ versioned[k].file = files[i] /\ files[i].means.kind = "versioned"
           /\ versioned[k].version = RankOf(files[i].name)
<1>1. PICK i \in VersionedIn(looked) : versioned[k] = Resolved(files[i])
  <2>1. versioned \in Seq({Resolved(files[i]) : i \in VersionedIn(looked)})
    BY DEF VersionsInv, Lists
  <2>2. versioned[k] \in {Resolved(files[i]) : i \in VersionedIn(looked)}
    BY <2>1
  <2> QED BY <2>2
<1>2. i \in 1..Len(files) /\ IsVersioned(files[i].name) /\ IsVersion(RawVersion(files[i].name))
  BY DEF VersionedIn, FilesInv, VersionsInv
<1>3. files[i].means.kind = "versioned"
  <2>1. KindOf(files[i].name) = "versioned"
    BY <1>2, KindIs
  <2> QED BY <1>2, <2>1, Marks DEF MarkedRight
<1>4. versioned[k].version = RankOf(files[i].name)
  BY <1>1, <1>2, ResolvedVersion, OneKind DEF RankOf
<1> QED BY <1>1, <1>2, <1>3, <1>4, ResolvedDescription

\* Every repeatable migration that was found is that of a file marked so.
LEMMA FoundRepeatable ==
  ASSUME FilesInv, RepeatablesInv, NEW k \in 1..Len(repeatable)
  PROVE  \E i \in 1..Len(files) :
           /\ i \in RepeatableIn(looked) /\ repeatable[k] = Resolved(files[i])
           /\ repeatable[k].file = files[i] /\ files[i].means.kind = "repeatable"
           /\ CollationOf(repeatable[k].description) = RankOf(files[i].name)
<1>1. PICK i \in RepeatableIn(looked) : repeatable[k] = Resolved(files[i])
  <2>1. repeatable \in Seq({Resolved(files[i]) : i \in RepeatableIn(looked)})
    BY DEF RepeatablesInv, Lists
  <2>2. repeatable[k] \in {Resolved(files[i]) : i \in RepeatableIn(looked)}
    BY <2>1
  <2> QED BY <2>2
<1>2. i \in 1..Len(files) /\ IsRepeatable(files[i].name)
  BY DEF RepeatableIn, FilesInv
<1>3. files[i].means.kind = "repeatable"
  <2>1. KindOf(files[i].name) = "repeatable"
    BY <1>2, KindIs
  <2> QED BY <1>2, <2>1, Marks DEF MarkedRight
<1>4. CollationOf(repeatable[k].description) = RankOf(files[i].name)
  BY <1>1, <1>2, ResolvedDescription DEF RankOf
<1> QED BY <1>1, <1>2, <1>3, <1>4, ResolvedDescription

\* Once Load is done, migrations are in the order of their values.
LEMMA OrderedWhenLoaded ==
  ASSUME LoadInv
  PROVE  MigrationsAreOrdered
<1> SUFFICES ASSUME stage = "loaded" PROVE Ascending(versioned) /\ Ascending(repeatable)
  BY DEF MigrationsAreOrdered
<1>0. FilesInv /\ VersionsInv /\ RepeatablesInv /\ InOrderInv
  BY DEF LoadInv, StageInv
<1>1. ASSUME NEW k \in 1..Len(versioned), NEW l \in 1..Len(versioned), k < l
      PROVE  versioned[k].file.means.value < versioned[l].file.means.value
  <2>1. PICK i \in 1..Len(files) :
          /\ versioned[k].file = files[i] /\ files[i].means.kind = "versioned"
          /\ versioned[k].version = RankOf(files[i].name)
    BY <1>0, FoundVersion
  <2>2. PICK j \in 1..Len(files) :
          /\ versioned[l].file = files[j] /\ files[j].means.kind = "versioned"
          /\ versioned[l].version = RankOf(files[j].name)
    BY <1>0, FoundVersion
  <2>3. Compare(RankOf(files[i].name), RankOf(files[j].name)) < 0
    BY <1>0, <1>1, <2>1, <2>2 DEF InOrderInv, VersionOrder
  <2>4. files[i].means.value < files[j].means.value
    BY <1>0, <2>1, <2>2, <2>3, Ranks DEF Applied
  <2> QED BY <2>1, <2>2, <2>4
<1>2. ASSUME NEW k \in 1..Len(repeatable), NEW l \in 1..Len(repeatable), k < l
      PROVE  repeatable[k].file.means.value < repeatable[l].file.means.value
  <2>1. PICK i \in 1..Len(files) :
          /\ i \in RepeatableIn(looked) /\ repeatable[k] = Resolved(files[i])
          /\ repeatable[k].file = files[i] /\ files[i].means.kind = "repeatable"
          /\ CollationOf(repeatable[k].description) = RankOf(files[i].name)
    BY <1>0, FoundRepeatable
  <2>2. PICK j \in 1..Len(files) :
          /\ j \in RepeatableIn(looked) /\ repeatable[l] = Resolved(files[j])
          /\ repeatable[l].file = files[j] /\ files[j].means.kind = "repeatable"
          /\ CollationOf(repeatable[l].description) = RankOf(files[j].name)
    BY <1>0, FoundRepeatable
  <2>3. Compare(RankOf(files[i].name), RankOf(files[j].name)) <= 0
    BY <1>0, <1>2, <2>1, <2>2 DEF InOrderInv, DescriptionOrder
  <2>4. /\ OneMigration(i, j) <=> Compare(RankOf(files[i].name), RankOf(files[j].name)) = 0
        /\ files[i].means.value < files[j].means.value
             <=> Compare(RankOf(files[i].name), RankOf(files[j].name)) < 0
    BY <1>0, <2>1, <2>2, Ranks DEF Applied
  <2>5. ~OneMigration(i, j)
    <3>1. IsRepeatable(files[i].name) /\ IsRepeatable(files[j].name)
      BY <2>1, <2>2 DEF RepeatableIn
    <3>2. OneMigration(i, j) => repeatable[k].description = repeatable[l].description
      BY <2>1, <2>2, <3>1, ResolvedDescription, OneKind DEF OneMigration
    <3>3. k # l
      BY <1>2
    <3> QED BY <1>0, <3>2, <3>3 DEF RepeatablesInv, DescriptionsDiffer
  <2>6. Compare(RankOf(files[i].name), RankOf(files[j].name)) \in {-1, 0, 1}
    BY ComparisonType
  <2> QED BY <2>1, <2>2, <2>3, <2>4, <2>5, <2>6
<1> QED BY <1>1, <1>2 DEF Ascending

\* The sorts of resolveMigrations put any number of migrations in the order of
\* their versions, however many parts these have and however they are spelled, and
\* then of their descriptions.
THEOREM MigrationsOrdered == Spec => []MigrationsAreOrdered
BY LoadInductive, OrderedWhenLoaded, PTL

-----------------------------------------------------------------------------
(* Success and refusal.                                                    *)

\* String (version.go) changes the separators, which parseVersion takes either way.
LEMMA DisplayKeepsParts ==
  ASSUME NEW S, NEW raw \in Seq(S), IsVersion(raw)
  PROVE  Parts(Display(raw)) = Parts(raw)
<1> DEFINE n == (Len(raw) + 1) \div 2
           all(r) == [i \in 1..n |-> NumberOf[r[2 * i - 1]]]
<1>1. Len(raw) \in Nat /\ Len(raw) % 2 = 1
  BY DEF IsVersion
<1>2. Len(Display(raw)) = Len(raw)
  BY <1>1 DEF Display
<1>3. ASSUME NEW i \in 1..n PROVE Display(raw)[2 * i - 1] = raw[2 * i - 1]
  <2>1. 2 * i - 1 \in 1..Len(raw) /\ (2 * i - 1) % 2 = 1
    BY <1>1
  <2>2. raw[2 * i - 1] \in Numerals
    BY <2>1 DEF IsVersion
  <2>3. raw[2 * i - 1] # "_"
    BY <2>2, SeparatorsApart DEF Separators
  <2> QED BY <2>1, <2>3 DEF Display
<1>4. all(Display(raw)) = all(raw)
  <2> HIDE DEF n
  <2> QED BY <1>3
<1>5. Parts(raw) = SubSeq(all(raw), 1, LastNonZero(all(raw), 1))
  BY DEF Parts
<1>6. Parts(Display(raw)) = SubSeq(all(Display(raw)), 1, LastNonZero(all(Display(raw)), 1))
  BY <1>2 DEF Parts
<1> QED BY <1>4, <1>5, <1>6

\* Two files are one migration when they clash, and the other way round.
LEMMA ClashIs ==
  ASSUME FilesInv
  PROVE  Cause("duplicate") <=> \E i, j \in 1..Len(files) : i # j /\ OneMigration(i, j)
<1>0. Cause("duplicate") <=> Clash("versioned") \/ Clash("repeatable")
  BY DEF Cause
<1>1. \A i \in 1..Len(files) : files[i].means.kind = KindOf(files[i].name)
  BY Marks DEF MarkedRight
<1>2. ASSUME NEW kind \in Applied, Clash(kind)
      PROVE  \E i, j \in 1..Len(files) : i # j /\ OneMigration(i, j)
  <2>1. PICK i \in KindsOf(kind), j \in KindsOf(kind) :
          i # j /\ files[i].means.value = files[j].means.value
    BY <1>2 DEF Clash
  <2>2. /\ i \in 1..Len(files) /\ j \in 1..Len(files)
        /\ files[i].means.kind = kind /\ files[j].means.kind = kind
    BY DEF KindsOf
  <2> QED BY <2>1, <2>2, Ranks
<1>3. ASSUME NEW i \in 1..Len(files), NEW j \in 1..Len(files), i # j, OneMigration(i, j)
      PROVE  Clash("versioned") \/ Clash("repeatable")
  <2>1. \/ files[i].means.kind = "repeatable" /\ files[j].means.kind = "repeatable"
        \/ files[i].means.kind = "versioned" /\ files[j].means.kind = "versioned"
    BY <1>1, <1>3, KindIs DEF OneMigration
  <2>2. files[i].means.value = files[j].means.value
    BY <1>3, <2>1, Ranks DEF Applied
  <2> QED BY <1>3, <2>1, <2>2 DEF Clash, KindsOf
<1> QED BY <1>0, <1>2, <1>3 DEF Applied

\* A refusal has a cause that the marks tell of.
LEMMA RefusedForCause ==
  ASSUME FilesInv, ReasonInv, stage \in {"duplicate", "bad version", "unreadable"}
  PROVE  Cause(stage)
<1>1. CASE stage = "duplicate"
  BY <1>1, ClashIs DEF ReasonInv
<1>2. CASE stage = "bad version"
  <2>1. PICK i \in 1..Len(files) :
          IsVersioned(files[i].name) /\ ~IsVersion(RawVersion(files[i].name))
    BY <1>2 DEF ReasonInv
  <2>2. files[i].means.kind = "bad version"
    <3>1. KindOf(files[i].name) = "bad version"
      BY <2>1, KindIs
    <3> QED BY <3>1, Marks DEF MarkedRight
  <2> QED BY <1>2, <2>2 DEF Cause, KindsOf
<1>3. CASE stage = "unreadable"
  BY <1>3 DEF ReasonInv, Cause
<1> QED BY <1>1, <1>2, <1>3

\* The files of a list.
LEMMA ListedFiles ==
  ASSUME NEW s, NEW I, Lists(s, I)
  PROVE  ToSet(FilesOf(s)) = {files[i] : i \in I}
<1> DEFINE S == {Resolved(files[i]) : i \in I}
<1>1. s \in Seq(S) /\ Len(s) \in Nat
  BY DEF Lists
<1>2. ToSet(FilesOf(s)) = {s[k].file : k \in 1..Len(s)}
  <2> DEFINE t == FilesOf(s)
  <2>1. DOMAIN t = 1..Len(s) /\ \A k \in 1..Len(s) : t[k] = s[k].file
    BY DEF FilesOf
  <2> HIDE DEF t
  <2>2. ToSet(t) = {s[k].file : k \in 1..Len(s)}
    BY <2>1 DEF ToSet
  <2> QED BY <2>2 DEF t
<1>3. ASSUME NEW k \in 1..Len(s) PROVE s[k].file \in {files[i] : i \in I}
  <2>1. s[k] \in S
    <3> HIDE DEF S
    <3> QED BY <1>1
  <2>2. PICK i \in I : s[k] = Resolved(files[i])
    BY <2>1
  <2> QED BY <2>2, ResolvedDescription
<1>4. ASSUME NEW i \in I PROVE files[i] \in {s[k].file : k \in 1..Len(s)}
  <2>1. PICK k \in 1..Len(s) : s[k] = Resolved(files[i])
    BY DEF Lists
  <2> QED BY <2>1, ResolvedDescription
<1> QED BY <1>2, <1>3, <1>4

\* When every file was looked at, the sets by name are the sets by mark.
LEMMA LookedAtAll ==
  ASSUME FilesInv, VersionsInv, looked = Len(files)
  PROVE  /\ VersionedIn(looked) = KindsOf("versioned") /\ KindsOf("bad version") = {}
         /\ RepeatableIn(looked) = KindsOf("repeatable")
         /\ CallbackIn(looked) = KindsOf("callback")
<1>1. \A i \in 1..Len(files) : files[i].means.kind = KindOf(files[i].name)
  BY Marks DEF MarkedRight
<1>2. \A i \in 1..Len(files) :
        IsVersioned(files[i].name) => IsVersion(RawVersion(files[i].name))
  BY DEF VersionsInv, VersionedIn
<1> QED BY <1>1, <1>2, KindIs DEF KindsOf, VersionedIn, RepeatableIn, CallbackIn

\* What is displayed is read back as the version it was made of.
LEMMA DisplayedVersion ==
  ASSUME FilesInv, VersionsInv, NEW k \in 1..Len(versioned)
  PROVE  Parts(versioned[k].display) = versioned[k].version
<1>1. PICK i \in 1..Len(files) :
        i \in VersionedIn(looked) /\ versioned[k] = Resolved(files[i])
  BY FoundVersion
<1> DEFINE raw == RawVersion(files[i].name)
<1>2. IsVersioned(files[i].name) /\ IsVersion(raw)
  BY <1>1 DEF VersionedIn, VersionsInv
<1>3. versioned[k].display = Display(raw) /\ versioned[k].version = Parts(raw)
  BY <1>1, <1>2, OneKind DEF Resolved
<1>4. raw \in Seq(ToSet(files[i].name))
  BY <1>2, RawVersionType DEF FilesInv
<1> HIDE DEF raw
<1> QED BY <1>2, <1>3, <1>4, DisplayKeepsParts

\* Each migration is what became of a file that was looked at.
LEMMA FoundMigration ==
  ASSUME FilesInv, VersionsInv, RepeatablesInv, NEW m \in ToSet(Migrations)
  PROVE  \E i \in 1..looked :
           m = Resolved(files[i]) /\ IsMigration(files[i].name) /\ files[i].means.kind \in Applied
<1>1. \A k \in 1..Len(versioned) : \E i \in 1..looked :
        versioned[k] = Resolved(files[i]) /\ IsMigration(files[i].name)
        /\ files[i].means.kind \in Applied
  <2> TAKE k \in 1..Len(versioned)
  <2>1. PICK i \in 1..Len(files) :
          /\ i \in VersionedIn(looked) /\ versioned[k] = Resolved(files[i])
          /\ files[i].means.kind = "versioned"
    BY FoundVersion
  <2> QED BY <2>1 DEF VersionedIn, IsMigration, Applied
<1>2. \A k \in 1..Len(repeatable) : \E i \in 1..looked :
        repeatable[k] = Resolved(files[i]) /\ IsMigration(files[i].name)
        /\ files[i].means.kind \in Applied
  <2> TAKE k \in 1..Len(repeatable)
  <2>1. PICK i \in 1..Len(files) :
          /\ i \in RepeatableIn(looked) /\ repeatable[k] = Resolved(files[i])
          /\ files[i].means.kind = "repeatable"
    BY FoundRepeatable
  <2> QED BY <2>1 DEF RepeatableIn, IsMigration, Applied
<1>3. \/ \E k \in 1..Len(versioned) : m = versioned[k]
      \/ \E k \in 1..Len(repeatable) : m = repeatable[k]
  <2>1. PICK S, T : versioned \in Seq(S) /\ repeatable \in Seq(T)
    BY DEF VersionsInv, RepeatablesInv, Lists
  <2>2. /\ Len(versioned) \in Nat /\ Len(repeatable) \in Nat
        /\ DOMAIN Migrations = 1..Len(versioned) + Len(repeatable)
        /\ \A k \in 1..Len(versioned) + Len(repeatable) :
             Migrations[k] = IF k <= Len(versioned) THEN versioned[k]
                             ELSE repeatable[k - Len(versioned)]
    <3> DEFINE U == S \cup T
    <3>1. versioned \in Seq(U) /\ repeatable \in Seq(U)
      BY <2>1
    <3> HIDE DEF U
    <3> QED BY <3>1, ConcatProperties DEF Migrations
  <2>3. PICK k \in 1..Len(versioned) + Len(repeatable) : m = Migrations[k]
    BY <2>2 DEF ToSet
  <2>4. CASE k <= Len(versioned)
    BY <2>2, <2>3, <2>4
  <2>5. CASE ~(k <= Len(versioned))
    <3>1. k - Len(versioned) \in 1..Len(repeatable)
      BY <2>2, <2>5
    <3> QED BY <2>2, <2>3, <2>5, <3>1
  <2> QED BY <2>4, <2>5
<1> QED BY <1>1, <1>2, <1>3

\* Each migration is readable and described by its name.
LEMMA MigrationIs ==
  ASSUME FilesInv, VersionsInv, RepeatablesInv, NEW m \in ToSet(Migrations)
  PROVE  m.file.readable /\ m.description = m.file.means.description
<1>1. PICK i \in 1..looked :
        m = Resolved(files[i]) /\ IsMigration(files[i].name) /\ files[i].means.kind \in Applied
  BY FoundMigration
<1>2. i \in 1..Len(files) /\ files[i].readable
  BY <1>1 DEF FilesInv
<1>3. MarkedRight(files[i])
  BY <1>2, Marks
<1> QED BY <1>1, <1>2, <1>3, ResolvedDescription DEF MarkedRight

\* When Load succeeds it has found everything once.
LEMMA UnambiguousWhenLoaded ==
  ASSUME LoadInv
  PROVE  LoadedIffUnambiguous
<1>0. /\ FilesInv /\ VersionsInv /\ RepeatablesInv /\ CallbacksInv /\ ReasonInv
      /\ stage = "loaded" => looked = Len(files)
  BY DEF LoadInv, StageInv
<1>1. stage \in {"duplicate", "bad version", "unreadable"} => Cause(stage)
  BY <1>0, RefusedForCause
<1>2. ASSUME stage = "loaded"
      PROVE  /\ ~Cause("duplicate") /\ ~Cause("bad version")
             /\ ToSet(FilesOf(versioned)) = {files[i] : i \in KindsOf("versioned")}
             /\ ToSet(FilesOf(repeatable)) = {files[i] : i \in KindsOf("repeatable")}
             /\ Len(callbacks) = Cardinality(KindsOf("callback"))
             /\ \A i \in KindsOf("callback") :
                  callbacks[Cardinality({j \in KindsOf("callback") : j <= i})] = files[i]
             /\ \A m \in ToSet(Migrations) :
                  m.file.readable /\ m.description = m.file.means.description
             /\ \A m, n \in ToSet(versioned) :
                  VersionKey(Parts(m.display)) = VersionKey(n.version) <=> m = n
  <2>1. looked = Len(files)
    BY <1>0, <1>2
  <2>2. /\ VersionedIn(looked) = KindsOf("versioned") /\ KindsOf("bad version") = {}
        /\ RepeatableIn(looked) = KindsOf("repeatable")
        /\ CallbackIn(looked) = KindsOf("callback")
    BY <1>0, <2>1, LookedAtAll
  <2>3. ~Cause("duplicate")
    <3> SUFFICES ASSUME NEW i \in 1..Len(files), NEW j \in 1..Len(files), i # j,
                        OneMigration(i, j)
                 PROVE  FALSE
      BY <1>0, ClashIs
    <3>1. \/ i \in RepeatableIn(looked) /\ j \in RepeatableIn(looked)
          \/ i \in VersionedIn(looked) /\ j \in VersionedIn(looked)
      BY <2>1 DEF OneMigration, RepeatableIn, VersionedIn
    <3>2. IsRepeatable(files[i].name) => ~IsVersioned(files[i].name)
      BY OneKind
    <3> QED BY <1>0, <3>1, <3>2
          DEF OneMigration, RepeatablesInv, VersionsInv, RepeatableIn, VersionedIn
  <2>4. ~Cause("bad version")
    BY <2>2 DEF Cause
  <2>5. /\ ToSet(FilesOf(versioned)) = {files[i] : i \in KindsOf("versioned")}
        /\ ToSet(FilesOf(repeatable)) = {files[i] : i \in KindsOf("repeatable")}
    <3>1. Lists(versioned, KindsOf("versioned")) /\ Lists(repeatable, KindsOf("repeatable"))
      BY <1>0, <2>2 DEF VersionsInv, RepeatablesInv
    <3> QED BY <3>1, ListedFiles
  <2>6. /\ Len(callbacks) = Cardinality(KindsOf("callback"))
        /\ \A i \in KindsOf("callback") :
             callbacks[Cardinality({j \in KindsOf("callback") : j <= i})] = files[i]
    BY <1>0, <2>2 DEF CallbacksInv
  <2>7. \A m \in ToSet(Migrations) :
          m.file.readable /\ m.description = m.file.means.description
    BY <1>0, MigrationIs
  <2>8. ASSUME NEW m \in ToSet(versioned), NEW n \in ToSet(versioned)
        PROVE  VersionKey(Parts(m.display)) = VersionKey(n.version) <=> m = n
    <3>1. DOMAIN versioned = 1..Len(versioned)
      BY <1>0 DEF VersionsInv, Lists
    <3>2. PICK k \in 1..Len(versioned), l \in 1..Len(versioned) :
            m = versioned[k] /\ n = versioned[l]
      BY <3>1 DEF ToSet
    <3>3. Parts(m.display) = m.version
      BY <1>0, <3>2, DisplayedVersion
    <3>4. VersionKey(m.version) = VersionKey(n.version) => m = n
      BY <1>0, <3>2 DEF VersionsInv, KeysDiffer
    <3> QED BY <3>3, <3>4
  <2> QED BY <2>3, <2>4, <2>5, <2>6, <2>7, <2>8
<1> QED BY <1>1, <1>2 DEF LoadedIffUnambiguous

\* However many files there are, resolveMigrations refuses them only for two that
\* are one migration, a bad version or a file that cannot be read, and otherwise
\* loads each migration and callback once, under a version that the history gives
\* back.
THEOREM LoadsUnambiguously == Spec => []LoadedIffUnambiguous
BY LoadInductive, UnambiguousWhenLoaded, PTL

=============================================================================
