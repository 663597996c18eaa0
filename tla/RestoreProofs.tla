------------------------------ MODULE RestoreProofs ------------------------------
(***************************************************************************)
(* The streaming restore gives back what the whole text would have given,  *)
(* for any cap a placeholder fits in, texts of any length and chunks of    *)
(* any size.                                                               *)
(***************************************************************************)
EXTENDS RestoreStream, Integers, FiniteSetTheorems, SequenceTheorems, TLAPS

(* ---------- Elements of a finite set, in order ---------- *)

LEMMA RankFacts ==
  ASSUME NEW S, S \subseteq Nat, IsFiniteSet(S)
  PROVE  /\ Cardinality(S) \in Nat
         /\ \A i \in S : Rank(S, i) \in 1 .. Cardinality(S)
         /\ \A i, j \in S : Rank(S, i) = Rank(S, j) => i = j
         /\ \A n \in 1 .. Cardinality(S) : \E i \in S : Rank(S, i) = n
<1> DEFINE below(i) == {k \in S : k <= i}
<1>0. \A k \in S : k \in Nat
  OBVIOUS
<1>1. Cardinality(S) \in Nat
  BY FS_CardinalityType
<1>2. ASSUME NEW i \in S
      PROVE  /\ IsFiniteSet(below(i)) /\ Rank(S, i) = Cardinality(below(i))
             /\ Rank(S, i) \in 1 .. Cardinality(S)
  <2>1. below(i) \subseteq S /\ i \in below(i)
    OBVIOUS
  <2>2. IsFiniteSet(below(i)) /\ Cardinality(below(i)) <= Cardinality(S)
    BY <2>1, FS_Subset
  <2>3. Cardinality(below(i)) \in Nat /\ Cardinality(below(i)) # 0
    BY <2>1, <2>2, FS_CardinalityType, FS_EmptySet
  <2> QED
    BY <1>1, <2>2, <2>3 DEF Rank
<1>3. ASSUME NEW i \in S, NEW j \in S, i < j
      PROVE  Rank(S, i) < Rank(S, j)
  <2>0. i \in Nat /\ j \in Nat
    BY <1>0
  <2>3. \A k \in S : k <= i => k <= j
    BY <1>0, <1>3, <2>0
  <2>4. j <= j /\ ~(j <= i)
    BY <1>3, <2>0
  <2>1. below(i) \subseteq below(j) /\ j \in below(j) /\ j \notin below(i)
    BY <2>3, <2>4
  <2>2. Cardinality(below(i)) <= Cardinality(below(j))
        /\ Cardinality(below(i)) # Cardinality(below(j))
    <3> HIDE DEF below
    <3> QED
      BY <1>2, <2>1, FS_Subset
  <2> HIDE DEF below
  <2> QED
    BY <1>1, <1>2, <2>2
<1> HIDE DEF below
<1>4. \A i, j \in S : Rank(S, i) = Rank(S, j) => i = j
  <2> SUFFICES ASSUME NEW i \in S, NEW j \in S, Rank(S, i) = Rank(S, j) PROVE i = j
    OBVIOUS
  <2>0. Rank(S, i) \in Nat
    BY <1>1, <1>2
  <2>1. ~(i < j) /\ ~(j < i)
    BY <1>3, <2>0
  <2> QED
    BY <1>0, <2>1
<1> DEFINE f == [i \in S |-> Rank(S, i)]
<1>5. f \in Injection(S, 1 .. Cardinality(S))
  BY <1>2, <1>4 DEF Injection, IsInjective
<1>6. f \in Surjection(S, 1 .. Cardinality(S))
  <2>1. /\ IsFiniteSet(1 .. Cardinality(S))
        /\ Cardinality(1 .. Cardinality(S)) = Cardinality(S)
    BY <1>1, FS_Interval
  <2> HIDE DEF f
  <2> QED
    BY <1>5, <2>1, FS_Injection
<1> QED
  BY <1>1, <1>2, <1>4, <1>6 DEF Surjection

LEMMA NthIs ==
  ASSUME NEW S, S \subseteq Nat, IsFiniteSet(S), NEW i \in S
  PROVE  Nth(S, Rank(S, i)) = i
BY RankFacts DEF Nth

LEMMA NthFacts ==
  ASSUME NEW S, S \subseteq Nat, IsFiniteSet(S), NEW n \in 1 .. Cardinality(S)
  PROVE  Nth(S, n) \in S /\ Rank(S, Nth(S, n)) = n
BY RankFacts DEF Nth

(* A set and another put behind it *)
After(n, T) == {n + i : i \in T}
Join(S, n, T) == S \cup After(n, T)

LEMMA AfterFacts ==
  ASSUME NEW n \in Nat, NEW T, T \subseteq Nat, IsFiniteSet(T)
  PROVE  /\ After(n, T) \subseteq Nat
         /\ IsFiniteSet(After(n, T)) /\ Cardinality(After(n, T)) = Cardinality(T)
<1> DEFINE f == [i \in T |-> n + i]
<1>1. f \in Bijection(T, After(n, T))
  BY DEF Bijection, Injection, IsInjective, Surjection, After
<1>2. After(n, T) \subseteq Nat
  BY DEF After
<1> HIDE DEF f
<1> QED
  BY <1>1, <1>2, FS_Bijection DEF ExistsBijection

LEMMA JoinParts ==
  ASSUME NEW n \in Nat, NEW S, S \subseteq 1 .. n, NEW T, T \subseteq Nat \ {0}, IsFiniteSet(T)
  PROVE  /\ IsFiniteSet(S) /\ Cardinality(S) \in Nat /\ Cardinality(T) \in Nat
         /\ S \cap After(n, T) = {}
         /\ \A k \in After(n, T) : k \in Nat /\ k > n
         /\ \A k \in S : k \in Nat /\ k <= n
<1>0. /\ \A k \in S : k \in Nat /\ k <= n
      /\ \A k \in T : k \in Nat /\ k > 0
  OBVIOUS
<1>1. IsFiniteSet(S)
  <2>1. IsFiniteSet(1 .. n)
    BY FS_Interval
  <2> QED
    BY <2>1, FS_Subset
<1>3. \A k \in After(n, T) : k \in Nat /\ k > n
  BY <1>0 DEF After
<1>4. S \cap After(n, T) = {}
  BY <1>0, <1>3
<1> QED
  BY <1>0, <1>1, <1>3, <1>4, FS_CardinalityType

LEMMA JoinCardinality ==
  ASSUME NEW n \in Nat, NEW S, S \subseteq 1 .. n, NEW T, T \subseteq Nat \ {0}, IsFiniteSet(T)
  PROVE  Cardinality(Join(S, n, T)) = Cardinality(S) + Cardinality(T)
<1>1. IsFiniteSet(After(n, T)) /\ Cardinality(After(n, T)) = Cardinality(T)
  BY AfterFacts
<1>2. /\ IsFiniteSet(S) /\ Cardinality(S) \in Nat /\ Cardinality(T) \in Nat
      /\ S \cap After(n, T) = {}
  BY JoinParts
<1>3. Cardinality(S \cap After(n, T)) = 0
  BY <1>2, FS_EmptySet
<1> QED
  BY <1>1, <1>2, <1>3, FS_Union DEF Join

LEMMA JoinFirst ==
  ASSUME NEW n \in Nat, NEW S, S \subseteq 1 .. n, NEW T, T \subseteq Nat \ {0}, IsFiniteSet(T),
         NEW i \in S
  PROVE  Rank(Join(S, n, T), i) = Rank(S, i)
<1>1. /\ \A k \in After(n, T) : k \in Nat /\ k > n
      /\ \A k \in S : k \in Nat /\ k <= n
  BY JoinParts
<1>2. {k \in S \cup After(n, T) : k <= i} = {k \in S : k <= i}
  BY <1>1
<1> QED
  BY <1>2 DEF Rank, Join

\* The rank of i of T behind S
RankBehind(S, T, i) == Cardinality(S) + Rank(T, i)

LEMMA JoinSecond ==
  ASSUME NEW n \in Nat, NEW S, S \subseteq 1 .. n, NEW T, T \subseteq Nat \ {0}, IsFiniteSet(T),
         NEW i \in T
  PROVE  Rank(Join(S, n, T), n + i) = RankBehind(S, T, i)
<1> DEFINE Ti == {k \in T : k <= i}
<1>1. /\ IsFiniteSet(S) /\ Cardinality(S) \in Nat
      /\ S \cap After(n, T) = {}
      /\ \A k \in After(n, T) : k \in Nat /\ k > n
      /\ \A k \in S : k \in Nat /\ k <= n
  BY JoinParts
<1>2. {k \in S \cup After(n, T) : k <= n + i} = S \cup After(n, Ti)
  <2>1. \A k \in S : k <= n + i
    BY <1>1
  <2>2. {k \in After(n, T) : k <= n + i} = After(n, Ti)
    BY DEF After
  <2> QED
    BY <2>1, <2>2
<1>3. IsFiniteSet(Ti) /\ Ti \subseteq Nat
  BY FS_Subset
<1>4. IsFiniteSet(After(n, Ti)) /\ Cardinality(After(n, Ti)) = Cardinality(Ti)
  <2> HIDE DEF Ti
  <2> QED
    BY <1>3, AfterFacts
<1>5. S \cap After(n, Ti) = {}
  BY <1>1 DEF After
<1>6. Cardinality(S \cap After(n, Ti)) = 0 /\ Cardinality(Ti) \in Nat
  BY <1>3, <1>5, FS_EmptySet, FS_CardinalityType
<1>7. Cardinality(S \cup After(n, Ti)) = Cardinality(S) + Cardinality(Ti)
  <2>1. IsFiniteSet(S) /\ Cardinality(S) \in Nat
    BY <1>1
  <2> HIDE DEF Ti
  <2>2. Cardinality(S \cup After(n, Ti)) =
          Cardinality(S) + Cardinality(After(n, Ti)) - Cardinality(S \cap After(n, Ti))
    BY <1>4, <2>1, FS_Union
  <2> QED
    BY <1>4, <1>6, <2>1, <2>2
<1> QED
  BY <1>2, <1>7 DEF Rank, Join, RankBehind

(* ---------- Placeholders, character by character ---------- *)

Bodies == {Own, Foreign}
Texts == Seq(Chars)

LEMMA Characters ==
  /\ "{" \in Chars /\ "}" \in Chars /\ Own \in Chars /\ Foreign \in Chars
  /\ "{" # "}" /\ "{" # Own /\ "{" # Foreign /\ "}" # Own /\ "}" # Foreign
  /\ Own # Foreign
BY DEF Chars, Own, Foreign

LEMMA OccursIs ==
  ASSUME NEW s \in Texts, NEW part \in Texts, Len(part) >= 1, NEW i \in Nat \ {0}
  PROVE  Occurs(s, i, part) <=>
           i + Len(part) - 1 <= Len(s) /\ \A j \in 1 .. Len(part) : s[i + j - 1] = part[j]
<1> DEFINE n == Len(part)
           cut == SubSeq(s, i, i + n - 1)
<1>1. n \in Nat /\ Len(s) \in Nat /\ i \in Nat
  BY DEF Texts
<1> SUFFICES ASSUME i + n - 1 <= Len(s)
             PROVE  cut = part <=> \A j \in 1 .. n : s[i + j - 1] = part[j]
  BY DEF Occurs
<1>2. \A j \in i .. (i + n - 1) : s[j] \in Chars
  BY <1>1 DEF Texts
<1> HIDE DEF n
<1>3. /\ cut \in Seq(Chars)
      /\ Len(cut) = IF i <= i + n - 1 THEN (i + n - 1) - i + 1 ELSE 0
      /\ \A j \in 1 .. (i + n - 1) - i + 1 : cut[j] = s[i + j - 1]
  BY <1>1, <1>2, SubSeqProperties
<1> HIDE DEF cut
<1>4. Len(cut) = n /\ n >= 1 /\ (i + n - 1) - i + 1 = n
  BY <1>1, <1>3 DEF n
<1>5. (\A j \in 1 .. n : cut[j] = part[j]) => cut = part
  BY <1>3, <1>4, SeqEqual DEF Texts, n
<1> QED
  BY <1>3, <1>4, <1>5

\* A placeholder stands at i as far as the text goes.
Begins(s, i, body) ==
  \A j \in 1 .. 5 : i + j - 1 <= Len(s) => s[i + j - 1] = Braced(body)[j]

LEMMA FiveLong ==
  ASSUME NEW S, NEW a \in S, NEW b \in S, NEW c \in S, NEW d \in S, NEW e \in S
  PROVE  LET s == <<a, b, c, d, e>>
         IN  /\ s \in Seq(S) /\ Len(s) = 5
             /\ s[1] = a /\ s[2] = b /\ s[3] = c /\ s[4] = d /\ s[5] = e
OBVIOUS

LEMMA BracedIs ==
  ASSUME NEW body \in Bodies
  PROVE  /\ Braced(body) \in Texts /\ Len(Braced(body)) = 5
         /\ Braced(body)[1] = "{" /\ Braced(body)[2] = "{" /\ Braced(body)[3] = body
         /\ Braced(body)[4] = "}" /\ Braced(body)[5] = "}"
<1>1. body \in Chars /\ "{" \in Chars /\ "}" \in Chars
  BY Characters DEF Bodies
<1>2. Braced(body) = <<"{", "{", body, "}", "}">>
  BY DEF Braced
<1> DEFINE o == "{"
           c == "}"
<1>3. o \in Chars /\ c \in Chars /\ Braced(body) = <<o, o, body, c, c>>
  BY <1>1, <1>2
<1> HIDE DEF o, c
<1>4. LET s == <<o, o, body, c, c>>
      IN  /\ s \in Seq(Chars) /\ Len(s) = 5
          /\ s[1] = o /\ s[2] = o /\ s[3] = body /\ s[4] = c /\ s[5] = c
  BY <1>1, <1>3, FiveLong
<1>5. /\ Braced(body) \in Seq(Chars) /\ Len(Braced(body)) = 5
      /\ Braced(body)[1] = o /\ Braced(body)[2] = o /\ Braced(body)[3] = body
      /\ Braced(body)[4] = c /\ Braced(body)[5] = c
  BY <1>3, <1>4
<1> QED
  BY <1>5 DEF Texts, o, c

LEMMA BracedOccurs ==
  ASSUME NEW s \in Texts, NEW body \in Bodies, NEW i \in DOMAIN s
  PROVE  i \in Occurrences(s, body) <=> i + 4 <= Len(s) /\ Begins(s, i, body)
<1>1. Braced(body) \in Texts /\ Len(Braced(body)) = 5
  BY BracedIs
<1>2. i \in Nat \ {0} /\ Len(s) \in Nat
  BY DEF Texts
<1>3. Occurs(s, i, Braced(body)) <=>
        i + 5 - 1 <= Len(s) /\ \A j \in 1 .. 5 : s[i + j - 1] = Braced(body)[j]
  <2> DEFINE part == Braced(body)
  <2>1. part \in Texts /\ Len(part) = 5 /\ Len(part) >= 1
    BY <1>1
  <2> HIDE DEF part
  <2>2. Occurs(s, i, part) <=>
          i + Len(part) - 1 <= Len(s) /\ \A j \in 1 .. Len(part) : s[i + j - 1] = part[j]
    BY <1>2, <2>1, OccursIs
  <2>3. Occurs(s, i, part) <=>
          i + 5 - 1 <= Len(s) /\ \A j \in 1 .. 5 : s[i + j - 1] = part[j]
    BY <2>1, <2>2
  <2> QED
    BY <2>3 DEF part
<1>4. i + 4 <= Len(s) => \A j \in 1 .. 5 : i + j - 1 <= Len(s)
  BY <1>2
<1> QED
  BY <1>2, <1>3, <1>4 DEF Occurrences, Begins

LEMMA TwoOccur ==
  ASSUME NEW s \in Texts, NEW c \in Chars, NEW i \in Nat \ {0}
  PROVE  Occurs(s, i, <<c, c>>) <=> i + 1 <= Len(s) /\ s[i] = c /\ s[i + 1] = c
<1>1. <<c, c>> \in Texts /\ Len(<<c, c>>) = 2
  BY DEF Texts
<1>2. Occurs(s, i, <<c, c>>) <=>
        i + 2 - 1 <= Len(s) /\ \A j \in 1 .. 2 : s[i + j - 1] = <<c, c>>[j]
  <2> DEFINE part == <<c, c>>
  <2>1. part \in Texts /\ Len(part) = 2 /\ Len(part) >= 1
    BY <1>1
  <2> HIDE DEF part
  <2>2. Occurs(s, i, part) <=>
          i + Len(part) - 1 <= Len(s) /\ \A j \in 1 .. Len(part) : s[i + j - 1] = part[j]
    BY <2>1, OccursIs
  <2>3. Occurs(s, i, part) <=>
          i + 2 - 1 <= Len(s) /\ \A j \in 1 .. 2 : s[i + j - 1] = part[j]
    BY <2>1, <2>2
  <2> QED
    BY <2>3 DEF part
<1>3. (\A j \in 1 .. 2 : s[i + j - 1] = <<c, c>>[j]) <=> s[i] = c /\ s[i + 1] = c
  <2>1. i + 1 - 1 = i /\ i + 2 - 1 = i + 1
    OBVIOUS
  <2>2. \A j \in 1 .. 2 : j = 1 \/ j = 2
    OBVIOUS
  <2>3. 1 \in 1 .. 2 /\ 2 \in 1 .. 2 /\ <<c, c>>[1] = c /\ <<c, c>>[2] = c
    OBVIOUS
  <2> QED
    BY <2>1, <2>2, <2>3
<1> QED
  BY <1>2, <1>3

(* ---------- A text and another put behind it ---------- *)

\* No placeholder stands across the end of the first.
Apart(a, b, body) == \A i \in Occurrences(a \o b, body) : i > Len(a) \/ i + 4 <= Len(a)

LEMMA TextJoin ==
  ASSUME NEW a \in Texts, NEW b \in Texts
  PROVE  /\ Len(a) \in Nat /\ Len(b) \in Nat
         /\ DOMAIN a = 1 .. Len(a) /\ DOMAIN b = 1 .. Len(b)
         /\ a \o b \in Texts /\ Len(a \o b) = Len(a) + Len(b)
         /\ DOMAIN (a \o b) = 1 .. (Len(a) + Len(b))
         /\ \A i \in 1 .. Len(a) : (a \o b)[i] = a[i]
         /\ \A i \in 1 .. Len(b) : (a \o b)[Len(a) + i] = b[i]
<1>1. /\ Len(a) \in Nat /\ Len(b) \in Nat
      /\ DOMAIN a = 1 .. Len(a) /\ DOMAIN b = 1 .. Len(b)
  BY DEF Texts
<1>2. /\ a \o b \in Texts /\ Len(a \o b) = Len(a) + Len(b)
      /\ \A i \in 1 .. Len(a) + Len(b) : (a \o b)[i] =
           IF i <= Len(a) THEN a[i] ELSE b[i - Len(a)]
  BY ConcatProperties DEF Texts
<1>3. DOMAIN (a \o b) = 1 .. (Len(a) + Len(b))
  BY <1>2 DEF Texts
<1>4. ASSUME NEW i \in 1 .. Len(a) PROVE (a \o b)[i] = a[i]
  BY <1>1, <1>2
<1>5. ASSUME NEW i \in 1 .. Len(b) PROVE (a \o b)[Len(a) + i] = b[i]
  <2>1. Len(a) + i \in 1 .. Len(a) + Len(b) /\ ~(Len(a) + i <= Len(a))
        /\ (Len(a) + i) - Len(a) = i
    BY <1>1
  <2> QED
    BY <1>2, <2>1
<1> QED
  BY <1>1, <1>2, <1>3, <1>4, <1>5

LEMMA PositionsJoin ==
  ASSUME NEW n \in Nat, NEW m \in Nat, NEW i \in 1 .. (n + m)
  PROVE  i \in 1 .. n \/ \E k \in 1 .. m : i = n + k
<1>1. CASE i <= n
  BY <1>1
<1>2. CASE i > n
  <2>1. i - n \in 1 .. m /\ i = n + (i - n)
    BY <1>2
  <2> QED
    BY <2>1
<1> QED
  BY <1>1, <1>2

LEMMA OccurrencesJoin ==
  ASSUME NEW a \in Texts, NEW b \in Texts, NEW body \in Bodies, Apart(a, b, body)
  PROVE  /\ Occurrences(a \o b, body) =
              Join(Occurrences(a, body), Len(a), Occurrences(b, body))
         /\ \A i \in Occurrences(a, body) : i \in 1 .. Len(a) /\ i + 4 <= Len(a)
         /\ \A i \in Occurrences(b, body) : i \in 1 .. Len(b)
<1> DEFINE s == a \o b
           n == Len(a)
<1>1. /\ n \in Nat /\ Len(b) \in Nat
      /\ DOMAIN a = 1 .. n /\ DOMAIN b = 1 .. Len(b) /\ DOMAIN s = 1 .. (n + Len(b))
      /\ s \in Texts /\ Len(s) = n + Len(b)
      /\ \A i \in 1 .. n : s[i] = a[i]
      /\ \A i \in 1 .. Len(b) : s[n + i] = b[i]
  BY TextJoin
<1>A. \A i \in Occurrences(s, body) : i > n \/ i + 4 <= n
  BY DEF Apart
<1> HIDE DEF s, n
<1>2. ASSUME NEW i \in 1 .. n, i + 4 <= n
      PROVE  i \in Occurrences(s, body) <=> i \in Occurrences(a, body)
  <2>1. Begins(s, i, body) <=> Begins(a, i, body)
    <3>1. \A j \in 1 .. 5 : /\ i + j - 1 \in 1 .. n /\ i + j - 1 <= Len(s)
                            /\ s[i + j - 1] = a[i + j - 1]
      BY <1>1, <1>2
    <3>2. \A j \in 1 .. 5 : i + j - 1 <= n
      BY <1>1, <1>2
    <3> QED
      BY <3>1, <3>2 DEF Begins, n
  <2>2. i \in DOMAIN s /\ i \in DOMAIN a /\ i + 4 <= Len(s) /\ i + 4 <= Len(a)
    BY <1>1, <1>2 DEF n
  <2> QED
    BY <1>1, <2>1, <2>2, BracedOccurs
<1>3. ASSUME NEW i \in 1 .. Len(b)
      PROVE  n + i \in Occurrences(s, body) <=> i \in Occurrences(b, body)
  <2>1. ASSUME i + 4 <= Len(b) PROVE Begins(s, n + i, body) <=> Begins(b, i, body)
    <3>1. \A j \in 1 .. 5 : i + j - 1 \in 1 .. Len(b) /\ i + j - 1 <= Len(b)
      BY <1>1, <2>1
    <3>2. \A j \in 1 .. 5 : n + i + j - 1 = n + (i + j - 1) /\ n + i + j - 1 <= Len(s)
      BY <1>1, <3>1
    <3>3. \A j \in 1 .. 5 : s[n + i + j - 1] = b[i + j - 1]
      BY <1>1, <3>1, <3>2
    <3> QED
      BY <3>1, <3>2, <3>3 DEF Begins
  <2>2. n + i \in DOMAIN s /\ i \in DOMAIN b
    BY <1>1
  <2>3. n + i + 4 <= Len(s) <=> i + 4 <= Len(b)
    BY <1>1
  <2> QED
    BY <1>1, <2>1, <2>2, <2>3, BracedOccurs
<1>4. ASSUME NEW i \in Occurrences(a, body)
      PROVE  i \in 1 .. n /\ i + 4 <= n
  <2>1. i \in DOMAIN a
    BY DEF Occurrences
  <2> QED
    BY <1>1, <2>1, BracedOccurs DEF n
<1>5. \A i \in Occurrences(b, body) : i \in 1 .. Len(b)
  BY <1>1 DEF Occurrences
<1>6. ASSUME NEW i \in Occurrences(s, body)
      PROVE  i \in Occurrences(a, body) \cup After(n, Occurrences(b, body))
  <2>1. i \in 1 .. (n + Len(b))
    BY <1>1 DEF Occurrences
  <2>2. CASE i \in 1 .. n
    BY <1>1, <1>2, <1>A, <2>2
  <2>3. CASE \E k \in 1 .. Len(b) : i = n + k
    BY <1>3, <2>3 DEF After
  <2> QED
    BY <1>1, <2>1, <2>2, <2>3, PositionsJoin
<1>7. ASSUME NEW i \in Occurrences(a, body) \cup After(n, Occurrences(b, body))
      PROVE  i \in Occurrences(s, body)
  <2>1. CASE i \in Occurrences(a, body)
    BY <1>2, <1>4, <2>1
  <2>2. CASE i \in After(n, Occurrences(b, body))
    BY <1>3, <1>5, <2>2 DEF After
  <2> QED
    BY <2>1, <2>2
<1>8. Occurrences(s, body) = Occurrences(a, body) \cup After(n, Occurrences(b, body))
  BY <1>6, <1>7
<1> QED
  BY <1>4, <1>5, <1>8 DEF s, n, Join

LEMMA CountJoin ==
  ASSUME NEW a \in Texts, NEW b \in Texts, NEW body \in Bodies, Apart(a, b, body)
  PROVE  Count(a \o b, body) = Count(a, body) + Count(b, body)
<1> DEFINE A == Occurrences(a, body)
           B == Occurrences(b, body)
<1>1. /\ Occurrences(a \o b, body) = Join(A, Len(a), B)
      /\ \A i \in A : i \in 1 .. Len(a)
      /\ \A i \in B : i \in 1 .. Len(b)
  <2> HIDE DEF A, B
  <2> QED
    BY OccurrencesJoin DEF A, B
<1>2. Len(a) \in Nat /\ Len(b) \in Nat
  BY TextJoin
<1> HIDE DEF A, B
<1>3. A \subseteq 1 .. Len(a) /\ B \subseteq 1 .. Len(b) /\ B \subseteq Nat \ {0}
  BY <1>1, <1>2
<1>4. IsFiniteSet(B)
  <2>1. IsFiniteSet(1 .. Len(b))
    BY <1>2, FS_Interval
  <2> QED
    BY <1>3, <2>1, FS_Subset
<1> DEFINE n == Len(a)
<1>5. Cardinality(Join(A, n, B)) = Cardinality(A) + Cardinality(B)
  <2>1. n \in Nat /\ A \subseteq 1 .. n
    BY <1>2, <1>3
  <2> HIDE DEF n
  <2> QED
    BY <1>3, <1>4, <2>1, JoinCardinality
<1> QED
  BY <1>1, <1>5 DEF Count, A, B

\* A kept character is in no placeholder of the session but as its first.
LEMMA KeptIs ==
  ASSUME NEW s, NEW i \in DOMAIN s
  PROVE  i \in Kept(s) <=> \A o \in Occurrences(s, Own) : ~(o < i /\ i < o + 5)
<1>1. LongestBraced = 5
  BY BracedIs DEF LongestBraced, Bodies
<1> QED
  BY <1>1 DEF Kept

LEMMA KeptJoin ==
  ASSUME NEW a \in Texts, NEW b \in Texts, Apart(a, b, Own)
  PROVE  /\ Kept(a \o b) = Join(Kept(a), Len(a), Kept(b))
         /\ Kept(a) \subseteq 1 .. Len(a)
         /\ Kept(b) \subseteq 1 .. Len(b)
<1> DEFINE s == a \o b
           n == Len(a)
           A == Occurrences(a, Own)
           B == Occurrences(b, Own)
<1>1. /\ n \in Nat /\ Len(b) \in Nat
      /\ DOMAIN a = 1 .. n /\ DOMAIN b = 1 .. Len(b) /\ DOMAIN s = 1 .. (n + Len(b))
  BY TextJoin
<1>2. /\ Occurrences(s, Own) = A \cup After(n, B)
      /\ \A o \in A : o \in 1 .. n /\ o + 4 <= n
      /\ \A o \in B : o \in 1 .. Len(b)
  BY OccurrencesJoin DEF Bodies, Join
<1>3. Kept(a) \subseteq 1 .. n /\ Kept(b) \subseteq 1 .. Len(b) /\ Kept(s) \subseteq 1 .. (n + Len(b))
  BY <1>1 DEF Kept
<1> HIDE DEF s, n, A, B
<1>4. \A o \in After(n, B) : o > n
  BY <1>1, <1>2 DEF After
<1>5. ASSUME NEW i \in 1 .. n
      PROVE  i \in Kept(s) <=> i \in Kept(a)
  <2>1. i \in Kept(s) <=> \A o \in Occurrences(s, Own) : ~(o < i /\ i < o + 5)
    BY <1>1, KeptIs
  <2>2. i \in Kept(a) <=> \A o \in A : ~(o < i /\ i < o + 5)
    BY <1>1, KeptIs DEF A
  <2>3. \A o \in After(n, B) : ~(o < i)
    <3> SUFFICES ASSUME NEW o \in B PROVE ~(n + o < i)
      BY DEF After
    <3> QED
      BY <1>1, <1>2
  <2> QED
    BY <1>2, <2>1, <2>2, <2>3
<1>6. ASSUME NEW i \in 1 .. Len(b)
      PROVE  n + i \in Kept(s) <=> i \in Kept(b)
  <2>1. n + i \in Kept(s) <=> \A o \in Occurrences(s, Own) : ~(o < n + i /\ n + i < o + 5)
    BY <1>1, KeptIs
  <2>2. i \in Kept(b) <=> \A o \in B : ~(o < i /\ i < o + 5)
    BY <1>1, KeptIs DEF B
  <2>3. \A o \in A : ~(n + i < o + 5)
    BY <1>1, <1>2
  <2>4. \A o \in B : (n + o < n + i /\ n + i < n + o + 5) <=> (o < i /\ i < o + 5)
    BY <1>1, <1>2
  <2>5. (\A o \in After(n, B) : ~(o < n + i /\ n + i < o + 5)) <=>
        \A o \in B : ~(o < i /\ i < o + 5)
    BY <2>4 DEF After
  <2> QED
    BY <1>2, <2>1, <2>2, <2>3, <2>5
<1>7. ASSUME NEW i \in Kept(s) PROVE i \in Kept(a) \cup After(n, Kept(b))
  <2>1. CASE i \in 1 .. n
    BY <1>5, <2>1
  <2>2. CASE \E k \in 1 .. Len(b) : i = n + k
    BY <1>6, <2>2 DEF After
  <2> QED
    BY <1>1, <1>3, <2>1, <2>2, PositionsJoin
<1>8. ASSUME NEW i \in Kept(a) \cup After(n, Kept(b)) PROVE i \in Kept(s)
  <2>1. CASE i \in Kept(a)
    BY <1>3, <1>5, <2>1
  <2>2. CASE i \in After(n, Kept(b))
    BY <1>3, <1>6, <2>2 DEF After
  <2> QED
    BY <2>1, <2>2
<1>9. Kept(s) = Kept(a) \cup After(n, Kept(b))
  BY <1>7, <1>8
<1> QED
  BY <1>3, <1>9 DEF s, n, Join

\* What is restored, as a sequence.
Out == Chars \cup {Value}

LEMMA RestoredIs ==
  ASSUME NEW s \in Texts
  PROVE  /\ IsFiniteSet(Kept(s)) /\ Kept(s) \subseteq 1 .. Len(s)
         /\ Cardinality(Kept(s)) \in Nat
         /\ Restored(s) \in Seq(Out) /\ Len(Restored(s)) = Cardinality(Kept(s))
         /\ \A i \in Kept(s) :
              /\ Rank(Kept(s), i) \in 1 .. Cardinality(Kept(s))
              /\ Restored(s)[Rank(Kept(s), i)] =
                   IF i \in Occurrences(s, Own) THEN Value ELSE s[i]
         /\ \A j \in 1 .. Cardinality(Kept(s)) : \E i \in Kept(s) : Rank(Kept(s), i) = j
<1> DEFINE K == Kept(s)
           n == Cardinality(K)
           Sign(i) == IF i \in Occurrences(s, Own) THEN Value ELSE s[i]
<1>1. Len(s) \in Nat /\ DOMAIN s = 1 .. Len(s) /\ \A i \in 1 .. Len(s) : s[i] \in Chars
  BY DEF Texts
<1>2. K \subseteq 1 .. Len(s)
  BY <1>1 DEF Kept
<1>3. IsFiniteSet(K) /\ K \subseteq Nat
  <2>1. IsFiniteSet(1 .. Len(s))
    BY <1>1, FS_Interval
  <2> HIDE DEF K
  <2>2. IsFiniteSet(K)
    BY <1>2, <2>1, FS_Subset
  <2>3. K \subseteq Nat
    BY <1>1, <1>2
  <2> QED
    BY <2>2, <2>3
<1>4. Restored(s) = [j \in 1 .. n |-> Sign(Nth(K, j))]
  BY DEF Restored
<1> HIDE DEF K
<1>5. /\ n \in Nat
      /\ \A i \in K : Rank(K, i) \in 1 .. n
      /\ \A j \in 1 .. n : \E i \in K : Rank(K, i) = j
  BY <1>3, RankFacts
<1>6. \A i \in K : Sign(i) \in Out
  BY <1>1, <1>2 DEF Out
<1> HIDE DEF Sign
<1>7. \A j \in 1 .. n : Nth(K, j) \in K
  BY <1>3, NthFacts
<1>8. Restored(s) \in [1 .. n -> Out]
  BY <1>4, <1>6, <1>7
<1>9. Restored(s) \in Seq(Out) /\ Len(Restored(s)) = n
  BY <1>5, <1>8
<1>10. ASSUME NEW i \in K PROVE Restored(s)[Rank(K, i)] = Sign(i)
  <2>1. Nth(K, Rank(K, i)) = i
    BY <1>3, NthIs
  <2> QED
    BY <1>4, <1>5, <2>1
<1> QED
  BY <1>2, <1>3, <1>5, <1>9, <1>10 DEF K, Sign

(* The restored text of two texts apart is that of the one and of the other. *)
LEMMA RestoredJoin ==
  ASSUME NEW a \in Texts, NEW b \in Texts, Apart(a, b, Own)
  PROVE  Restored(a \o b) = Restored(a) \o Restored(b)
<1> DEFINE s == a \o b
           n == Len(a)
           S == Kept(a)
           T == Kept(b)
           c == Cardinality(S)
           d == Cardinality(T)
           ra == Restored(a)
           rb == Restored(b)
           rs == Restored(s)
<1>1. /\ s \in Texts /\ n \in Nat /\ Len(b) \in Nat
      /\ \A i \in 1 .. n : s[i] = a[i]
      /\ \A i \in 1 .. Len(b) : s[n + i] = b[i]
  BY TextJoin
<1>2. /\ Kept(s) = Join(S, n, T)
      /\ S \subseteq 1 .. n /\ T \subseteq 1 .. Len(b)
  BY KeptJoin
<1>3. /\ Occurrences(s, Own) = Join(Occurrences(a, Own), n, Occurrences(b, Own))
      /\ \A i \in Occurrences(a, Own) : i \in 1 .. n
      /\ \A i \in Occurrences(b, Own) : i \in 1 .. Len(b)
  BY OccurrencesJoin DEF Bodies
<1>4. /\ IsFiniteSet(T) /\ c \in Nat /\ d \in Nat
      /\ ra \in Seq(Out) /\ Len(ra) = c /\ rb \in Seq(Out) /\ Len(rb) = d
      /\ \A i \in S : Rank(S, i) \in 1 .. c
                      /\ ra[Rank(S, i)] = IF i \in Occurrences(a, Own) THEN Value ELSE a[i]
      /\ \A i \in T : Rank(T, i) \in 1 .. d
                      /\ rb[Rank(T, i)] = IF i \in Occurrences(b, Own) THEN Value ELSE b[i]
      /\ \A j \in 1 .. c : \E i \in S : Rank(S, i) = j
      /\ \A j \in 1 .. d : \E i \in T : Rank(T, i) = j
  BY RestoredIs
<1>5. /\ rs \in Seq(Out) /\ Len(rs) = Cardinality(Kept(s))
      /\ \A i \in Kept(s) : rs[Rank(Kept(s), i)] =
                              IF i \in Occurrences(s, Own) THEN Value ELSE s[i]
  BY <1>1, RestoredIs
<1> HIDE DEF s, n, S, T, ra, rb, rs
<1>6. /\ Cardinality(Kept(s)) = c + d
      /\ \A i \in S : Rank(Kept(s), i) = Rank(S, i)
      /\ \A i \in T : Rank(Kept(s), n + i) = RankBehind(S, T, i)
  <2>1. n \in Nat /\ S \subseteq 1 .. n /\ T \subseteq Nat \ {0} /\ IsFiniteSet(T)
    BY <1>1, <1>2, <1>4
  <2>2. Cardinality(Join(S, n, T)) = Cardinality(S) + Cardinality(T)
    BY <2>1, JoinCardinality
  <2>3. \A i \in S : Rank(Join(S, n, T), i) = Rank(S, i)
    BY <2>1, JoinFirst
  <2>4. \A i \in T : Rank(Join(S, n, T), n + i) = RankBehind(S, T, i)
    BY <2>1, JoinSecond
  <2>5. Cardinality(Kept(s)) = Cardinality(S) + Cardinality(T)
    BY <1>2, <2>2
  <2>6. \A i \in S : Rank(Kept(s), i) = Rank(S, i)
    BY <1>2, <2>3
  <2>7. \A i \in T : Rank(Kept(s), n + i) = RankBehind(S, T, i)
    BY <1>2, <2>4
  <2> QED
    BY <2>5, <2>6, <2>7
<1>7. ASSUME NEW i \in S
      PROVE  rs[Rank(S, i)] = ra[Rank(S, i)]
  <2>1. i \in Kept(s) /\ i \in 1 .. n
    BY <1>2 DEF Join
  <2>2. i \in Occurrences(s, Own) <=> i \in Occurrences(a, Own)
    <3>1. \A k \in Occurrences(b, Own) : n + k # i
      BY <1>1, <1>3, <2>1
    <3> QED
      BY <1>3, <3>1 DEF Join, After
  <2>3. rs[Rank(S, i)] = IF i \in Occurrences(s, Own) THEN Value ELSE s[i]
    BY <1>5, <1>6, <2>1
  <2> QED
    BY <1>1, <1>4, <2>1, <2>2, <2>3
<1>8. ASSUME NEW i \in T
      PROVE  rs[c + Rank(T, i)] = rb[Rank(T, i)]
  <2>1. n + i \in Kept(s) /\ i \in 1 .. Len(b)
    BY <1>2 DEF Join, After
  <2>2. n + i \in Occurrences(s, Own) <=> i \in Occurrences(b, Own)
    <3>1. n + i \notin Occurrences(a, Own)
      BY <1>1, <1>3, <2>1
    <3>2. \A k \in Occurrences(b, Own) : n + k = n + i => k = i
      BY <1>1, <1>3, <2>1
    <3> QED
      BY <1>3, <3>1, <3>2 DEF Join, After
  <2>3. rs[RankBehind(S, T, i)] = IF n + i \in Occurrences(s, Own) THEN Value ELSE s[n + i]
    BY <1>5, <1>6, <2>1
  <2>4. rs[RankBehind(S, T, i)] = rb[Rank(T, i)]
    BY <1>1, <1>4, <2>1, <2>2, <2>3
  <2> QED
    BY <2>4 DEF RankBehind
<1> HIDE DEF c, d
<1>9. /\ ra \o rb \in Seq(Out) /\ Len(ra \o rb) = c + d
      /\ \A j \in 1 .. c + d : (ra \o rb)[j] = IF j <= c THEN ra[j] ELSE rb[j - c]
  <2>1. /\ ra \o rb \in Seq(Out) /\ Len(ra \o rb) = Len(ra) + Len(rb)
        /\ \A j \in 1 .. Len(ra) + Len(rb) :
             (ra \o rb)[j] = IF j <= Len(ra) THEN ra[j] ELSE rb[j - Len(ra)]
    <3>1. ra \in Seq(Out) /\ rb \in Seq(Out)
      BY <1>4
    <3> QED
      BY <3>1, ConcatProperties
  <2>2. Len(ra) = c /\ Len(rb) = d
    BY <1>4
  <2> QED
    BY <2>1, <2>2
<1>10. ASSUME NEW j \in 1 .. c + d PROVE rs[j] = (ra \o rb)[j]
  <2>1. CASE j <= c
    <3>1. j \in 1 .. c
      BY <1>4, <2>1
    <3>2. PICK i \in S : Rank(S, i) = j
      BY <1>4, <3>1
    <3>3. rs[j] = ra[j]
      BY <1>7, <3>2
    <3> QED
      BY <1>9, <2>1, <3>3
  <2>2. CASE j > c
    <3>1. j - c \in 1 .. d /\ ~(j <= c)
      BY <1>4, <2>2
    <3>2. PICK i \in T : Rank(T, i) = j - c
      BY <1>4, <3>1
    <3>3. rs[c + (j - c)] = rb[j - c]
      BY <1>8, <3>2
    <3>4. c + (j - c) = j
      BY <1>4
    <3>5. rs[j] = rb[j - c]
      BY <3>3, <3>4
    <3> QED
      BY <1>9, <3>1, <3>5
  <2> QED
    BY <1>4, <2>1, <2>2
<1>11. Len(rs) = Len(ra \o rb)
  BY <1>5, <1>6, <1>9
<1>12. rs = ra \o rb
  <2> DEFINE both == ra \o rb
  <2>1. /\ rs \in Seq(Out) /\ both \in Seq(Out) /\ Len(rs) = Len(both)
        /\ \A j \in 1 .. Len(rs) : rs[j] = both[j]
    BY <1>5, <1>6, <1>9, <1>10, <1>11
  <2> HIDE DEF both
  <2>2. rs = both
    BY <2>1, SeqEqual
  <2> QED
    BY <2>2 DEF both
<1> QED
  BY <1>12 DEF rs, ra, rb, s

(* ---------- Cuts that break no placeholder ---------- *)

\* Whatever follows h, none that begins in its first k characters ends
\* behind them.
Clean(h, k) ==
  \A body \in Bodies : \A i \in 1 .. k : i + 4 > k => ~Begins(h, i, body)

LEMMA CleanGrows ==
  ASSUME NEW h \in Texts, NEW c \in Texts, NEW k \in 0 .. Len(h), Clean(h, k)
  PROVE  Clean(h \o c, k)
<1> DEFINE s == h \o c
<1>1. /\ Len(h) \in Nat /\ Len(c) \in Nat /\ Len(s) = Len(h) + Len(c)
      /\ \A i \in 1 .. Len(h) : s[i] = h[i]
  BY TextJoin
<1> HIDE DEF s
<1>2. ASSUME NEW body \in Bodies, NEW i \in 1 .. k, i + 4 > k, Begins(s, i, body)
      PROVE  FALSE
  <2>1. Begins(h, i, body)
    <3> SUFFICES ASSUME NEW j \in 1 .. 5, i + j - 1 <= Len(h)
                 PROVE  h[i + j - 1] = Braced(body)[j]
      BY DEF Begins
    <3>1. i + j - 1 \in 1 .. Len(h) /\ i + j - 1 <= Len(s)
      BY <1>1
    <3>2. s[i + j - 1] = Braced(body)[j]
      BY <1>2, <3>1 DEF Begins
    <3> QED
      BY <1>1, <3>1, <3>2
  <2> QED
    BY <1>2, <2>1 DEF Clean
<1> QED
  BY <1>2 DEF Clean, s

LEMMA CleanShifts ==
  ASSUME NEW g \in Texts, NEW b \in Texts, NEW k \in 0 .. Len(b),
         Clean(g \o b, Len(g)), Clean(b, k)
  PROVE  Clean(g \o b, Len(g) + k)
<1> DEFINE s == g \o b
           n == Len(g)
<1>1. /\ n \in Nat /\ Len(b) \in Nat /\ Len(s) = n + Len(b)
      /\ \A i \in 1 .. Len(b) : s[n + i] = b[i]
  BY TextJoin
<1>2. Clean(s, n)
  OBVIOUS
<1> HIDE DEF s, n
<1>3. ASSUME NEW body \in Bodies, NEW i \in 1 .. n, i + 4 > n + k, Begins(s, i, body)
      PROVE  FALSE
  <2>1. i + 4 > n
    BY <1>1, <1>3
  <2> QED
    BY <1>2, <1>3, <2>1 DEF Clean
<1>4. ASSUME NEW body \in Bodies, NEW m \in 1 .. k, n + m + 4 > n + k, Begins(s, n + m, body)
      PROVE  FALSE
  <2>1. Begins(b, m, body)
    <3> SUFFICES ASSUME NEW j \in 1 .. 5, m + j - 1 <= Len(b)
                 PROVE  b[m + j - 1] = Braced(body)[j]
      BY DEF Begins
    <3>1. /\ m + j - 1 \in 1 .. Len(b)
          /\ n + m + j - 1 <= Len(s) /\ n + m + j - 1 = n + (m + j - 1)
      BY <1>1
    <3>2. s[n + m + j - 1] = Braced(body)[j]
      BY <1>4, <3>1 DEF Begins
    <3> QED
      BY <1>1, <3>1, <3>2
  <2>2. m + 4 > k
    BY <1>1, <1>4
  <2> QED
    BY <2>1, <2>2 DEF Clean
<1>5. ASSUME NEW body \in Bodies, NEW i \in 1 .. (n + k), i + 4 > n + k, Begins(s, i, body)
      PROVE  FALSE
  <2>1. k \in Nat
    BY <1>1
  <2>2. i \in 1 .. n \/ \E m \in 1 .. k : i = n + m
    BY <1>1, <2>1, PositionsJoin
  <2> QED
    BY <1>3, <1>4, <1>5, <2>2
<1>6. Clean(s, n + k)
  BY <1>5 DEF Clean
<1> QED
  BY <1>6 DEF s, n

LEMMA CleanIsApart ==
  ASSUME NEW a \in Texts, NEW c \in Texts, NEW d \in Texts, NEW body \in Bodies,
         Clean((a \o c) \o d, Len(a))
  PROVE  Apart(a, c, body)
<1> DEFINE s == a \o c
           t == s \o d
<1>1. /\ Len(a) \in Nat /\ s \in Texts /\ Len(s) \in Nat /\ DOMAIN s = 1 .. Len(s)
  BY TextJoin
<1>2. Clean(t, Len(a))
  OBVIOUS
<1> HIDE DEF s
<1>3. \A i \in 1 .. Len(s) : t[i] = s[i]
  BY <1>1, TextJoin
<1> HIDE DEF t
<1>4. ASSUME NEW i \in Occurrences(s, body), ~(i > Len(a)), ~(i + 4 <= Len(a))
      PROVE  FALSE
  <2>1. i \in 1 .. Len(s)
    BY <1>1 DEF Occurrences
  <2>2. i + 4 <= Len(s) /\ Begins(s, i, body)
    BY <1>1, <2>1, BracedOccurs
  <2>3. Begins(t, i, body)
    <3> SUFFICES ASSUME NEW j \in 1 .. 5 PROVE t[i + j - 1] = Braced(body)[j]
      BY DEF Begins
    <3>1. i + j - 1 \in 1 .. Len(s)
      BY <1>1, <2>1, <2>2
    <3>2. s[i + j - 1] = Braced(body)[j]
      BY <1>1, <2>2, <3>1 DEF Begins
    <3> QED
      BY <1>3, <3>1, <3>2
  <2>4. i \in 1 .. Len(a) /\ i + 4 > Len(a)
    BY <1>1, <1>4, <2>1
  <2> QED
    BY <1>2, <2>3, <2>4 DEF Clean
<1> QED
  BY <1>4 DEF Apart, s

LEMMA LastOf ==
  ASSUME NEW S, S \subseteq Nat, IsFiniteSet(S), S # {}
  PROVE  \E i \in S : \A j \in S : j <= i
<1>1. Cardinality(S) \in 1 .. Cardinality(S)
  <2>1. Cardinality(S) \in Nat /\ Cardinality(S) # 0
    BY FS_CardinalityType, FS_EmptySet
  <2> QED
    BY <2>1
<1>2. PICK i \in S : Rank(S, i) = Cardinality(S)
  BY <1>1, NthFacts
<1> DEFINE below == {k \in S : k <= i}
<1>3. below \subseteq S /\ Cardinality(below) = Cardinality(S)
  BY <1>2 DEF Rank
<1>4. below = S
  <2> HIDE DEF below
  <2> QED
    BY <1>3, FS_Subset
<1> QED
  BY <1>4

Open == "{"
Shut == "}"

LEMMA Signs ==
  /\ Open \in Chars /\ Shut \in Chars /\ Open # Shut
  /\ \A body \in Bodies : body # Open /\ body # Shut
BY Characters DEF Open, Shut, Bodies

\* The run a text leaves open: at the last two braces and nowhere behind it
LEMMA LastOpenIs ==
  ASSUME NEW s \in Texts
  PROVE  /\ LastOpen(s) \in 0 .. Len(s)
         /\ LastOpen(s) # 0 => LastOpen(s) + 1 <= Len(s)
                               /\ s[LastOpen(s)] = Open /\ s[LastOpen(s) + 1] = Open
         /\ \A i \in 1 .. Len(s) : i + 1 <= Len(s) /\ s[i] = Open /\ s[i + 1] = Open
              => LastOpen(s) # 0 /\ i <= LastOpen(s)
<1> DEFINE opens == {i \in DOMAIN s : Occurs(s, i, <<Open, Open>>)}
<1>1. Len(s) \in Nat /\ DOMAIN s = 1 .. Len(s)
  BY DEF Texts
<1>2. \A i \in 1 .. Len(s) :
        i \in opens <=> i + 1 <= Len(s) /\ s[i] = Open /\ s[i + 1] = Open
  <2> TAKE i \in 1 .. Len(s)
  <2>1. i \in Nat \ {0} /\ Open \in Chars
    BY <1>1, Signs
  <2>2. Occurs(s, i, <<Open, Open>>) <=> i + 1 <= Len(s) /\ s[i] = Open /\ s[i + 1] = Open
    BY <2>1, TwoOccur
  <2> QED
    BY <1>1, <2>2
<1>3. opens \subseteq 1 .. Len(s)
  BY <1>1
<1>4. LastOpen(s) = IF opens = {} THEN 0 ELSE CHOOSE i \in opens : \A j \in opens : j <= i
  BY DEF LastOpen, Open
<1> HIDE DEF opens
<1>5. CASE opens = {}
  <2>1. LastOpen(s) = 0
    BY <1>4, <1>5
  <2> QED
    BY <1>1, <1>2, <1>5, <2>1
<1>6. CASE opens # {}
  <2>1. IsFiniteSet(opens) /\ opens \subseteq Nat
    <3>1. IsFiniteSet(1 .. Len(s))
      BY <1>1, FS_Interval
    <3>2. IsFiniteSet(opens)
      BY <1>3, <3>1, FS_Subset
    <3> QED
      BY <1>1, <1>3, <3>2
  <2>2. \E i \in opens : \A j \in opens : j <= i
    BY <1>6, <2>1, LastOf
  <2>3. LastOpen(s) \in opens /\ \A j \in opens : j <= LastOpen(s)
    BY <1>4, <1>6, <2>2
  <2> DEFINE at == LastOpen(s)
  <2>4. at \in 1 .. Len(s) /\ at \in opens /\ \A j \in opens : j <= at
    BY <1>3, <2>3
  <2> HIDE DEF at
  <2>5. at \in 0 .. Len(s) /\ at # 0
    BY <1>1, <2>4
  <2>6. at + 1 <= Len(s) /\ s[at] = Open /\ s[at + 1] = Open
    BY <1>2, <2>4
  <2>7. \A i \in 1 .. Len(s) :
          i + 1 <= Len(s) /\ s[i] = Open /\ s[i + 1] = Open => i <= at
    BY <1>2, <2>4
  <2> QED
    BY <2>5, <2>6, <2>7 DEF at
<1> QED
  BY <1>5, <1>6

LEMMA ClosedIs ==
  ASSUME NEW s \in Texts, NEW i \in 1 .. Len(s)
  PROVE  Closed(s, i) => \E j \in i .. Len(s) : j + 1 <= Len(s) /\ s[j] = Shut /\ s[j + 1] = Shut
<1>1. Len(s) \in Nat /\ Shut \in Chars
  BY Signs DEF Texts
<1>2. Closed(s, i) <=> \E j \in i .. Len(s) : Occurs(s, j, <<Shut, Shut>>)
  BY DEF Closed, Shut
<1>3. ASSUME NEW j \in i .. Len(s)
      PROVE  Occurs(s, j, <<Shut, Shut>>) <=> j + 1 <= Len(s) /\ s[j] = Shut /\ s[j + 1] = Shut
  <2>1. j \in Nat \ {0}
    BY <1>1
  <2> QED
    BY <1>1, <2>1, TwoOccur
<1> QED
  BY <1>2, <1>3

\* The signs of a placeholder, at i and behind it, as far as the text goes
LEMMA BeginsIs ==
  ASSUME NEW s \in Texts, NEW body \in Bodies, NEW i \in 1 .. Len(s), Begins(s, i, body)
  PROVE  /\ s[i] = Open
         /\ i + 1 <= Len(s) => s[i + 1] = Open
         /\ i + 2 <= Len(s) => s[i + 2] = body
         /\ i + 3 <= Len(s) => s[i + 3] = Shut
         /\ i + 4 <= Len(s) => s[i + 4] = Shut
<1>1. Len(s) \in Nat /\ i \in Nat /\ i <= Len(s)
  BY DEF Texts
<1>2. /\ Braced(body)[1] = Open /\ Braced(body)[2] = Open /\ Braced(body)[3] = body
      /\ Braced(body)[4] = Shut /\ Braced(body)[5] = Shut
  BY BracedIs DEF Open, Shut
<1>3. \A j \in 1 .. 5 : i + j - 1 <= Len(s) => s[i + j - 1] = Braced(body)[j]
  BY DEF Begins
<1>4. /\ i + 1 - 1 = i /\ i + 2 - 1 = i + 1 /\ i + 3 - 1 = i + 2
      /\ i + 4 - 1 = i + 3 /\ i + 5 - 1 = i + 4
      /\ 1 \in 1 .. 5 /\ 2 \in 1 .. 5 /\ 3 \in 1 .. 5 /\ 4 \in 1 .. 5 /\ 5 \in 1 .. 5
  BY <1>1
<1> QED
  BY <1>1, <1>2, <1>3, <1>4

(* The boundary findSafeBoundary answers with is such a cut. *)
LEMMA BoundaryIsClean ==
  ASSUME NEW b \in Texts
  PROVE  /\ SafeBoundary(b) \in 0 .. Len(b)
         /\ Len(b) - SafeBoundary(b) <= MaxOpenBuffer
         /\ ~TooLong(b) => Clean(b, SafeBoundary(b))
<1> DEFINE n == Len(b)
           k == SafeBoundary(b)
           at == LastOpen(b)
<1>1. n \in Nat /\ MaxOpenBuffer \in Nat /\ MaxOpenBuffer >= 4
  <2>1. LongestBraced = 5
    BY BracedIs DEF LongestBraced, Bodies
  <2> QED
    BY <2>1, RestoreStreamAssumption DEF Texts
<1>2. /\ at \in 0 .. n
      /\ at # 0 => at + 1 <= n /\ b[at] = Open /\ b[at + 1] = Open
      /\ \A i \in 1 .. n : i + 1 <= n /\ b[i] = Open /\ b[i + 1] = Open => at # 0 /\ i <= at
  BY LastOpenIs
<1>3. ASSUME NEW body \in Bodies, NEW i \in 1 .. n, Begins(b, i, body)
      PROVE  /\ b[i] = Open /\ body # Open /\ body # Shut
             /\ i + 1 <= n => b[i + 1] = Open
             /\ i + 2 <= n => b[i + 2] = body
             /\ i + 3 <= n => b[i + 3] = Shut
             /\ i + 4 <= n => b[i + 4] = Shut
  BY <1>3, BeginsIs, Signs
<1>4. Open # Shut
  BY Signs
<1>5. Unclosed(b) <=> at # 0 /\ ~Closed(b, at)
  BY DEF Unclosed
<1>6. TooLong(b) <=> Unclosed(b) /\ n - at + 1 > MaxOpenBuffer
  BY DEF TooLong
<1>7. k = IF TooLong(b) THEN n ELSE IF Unclosed(b) THEN at - 1 ELSE WithoutSoloBrace(b)
  BY DEF SafeBoundary
<1>8. WithoutSoloBrace(b) = IF b # <<>> /\ b[n] = Open THEN n - 1 ELSE n
  BY DEF WithoutSoloBrace, Open
<1>9. b # <<>> <=> n > 0
  BY <1>1, EmptySeq DEF Texts
<1>10. at # 0 /\ Closed(b, at) =>
         \E j \in at .. n : j + 1 <= n /\ b[j] = Shut /\ b[j + 1] = Shut
  BY <1>1, <1>2, ClosedIs
<1> HIDE DEF n, k, at
<1>11. k \in 0 .. n /\ n - k <= MaxOpenBuffer
  BY <1>1, <1>2, <1>5, <1>6, <1>7, <1>8, <1>9
<1>12. ASSUME ~TooLong(b), NEW body \in Bodies, NEW i \in 1 .. k, i + 4 > k, Begins(b, i, body)
       PROVE  FALSE
  <2>1. i \in 1 .. n /\ i \in Nat
    BY <1>1, <1>11
  <2>2. /\ b[i] = Open /\ body # Open /\ body # Shut
        /\ i + 1 <= n => b[i + 1] = Open
        /\ i + 2 <= n => b[i + 2] = body
        /\ i + 3 <= n => b[i + 3] = Shut
        /\ i + 4 <= n => b[i + 4] = Shut
    BY <1>3, <1>12, <2>1
  <2>3. CASE Unclosed(b)
    <3>1. k = at - 1 /\ at # 0 /\ b[at] = Open /\ b[at + 1] = Open /\ at + 1 <= n
      BY <1>2, <1>5, <1>7, <1>12, <2>3
    <3>2. at = i + 1 \/ at = i + 2 \/ at = i + 3 \/ at = i + 4
      BY <1>1, <1>2, <1>12, <2>1, <3>1
    <3> QED
      BY <1>1, <1>2, <1>4, <2>1, <2>2, <3>1, <3>2
  <2>4. CASE ~Unclosed(b) /\ n > 0 /\ b[n] = Open
    <3>1. k = n - 1
      BY <1>7, <1>8, <1>9, <1>12, <2>4
    <3>2. n = i + 1 \/ n = i + 2 \/ n = i + 3 \/ n = i + 4
      BY <1>1, <1>12, <2>1, <3>1
    <3>3. n = i + 1
      BY <1>1, <1>4, <2>1, <2>2, <2>4, <3>2
    <3>4. at # 0 /\ i <= at
      BY <1>1, <1>2, <2>1, <2>2, <3>3
    <3>5. at = i
      BY <1>1, <1>2, <2>1, <3>3, <3>4
    <3>6. PICK j \in at .. n : j + 1 <= n /\ b[j] = Shut /\ b[j + 1] = Shut
      BY <1>5, <1>10, <2>4, <3>4
    <3>7. j = i
      BY <1>1, <2>1, <3>3, <3>5, <3>6
    <3> QED
      BY <1>4, <2>2, <3>6, <3>7
  <2>5. CASE ~Unclosed(b) /\ ~(n > 0 /\ b[n] = Open)
    <3>1. k = n
      BY <1>7, <1>8, <1>9, <1>12, <2>5
    <3>2. i + 1 <= n
      BY <1>1, <2>1, <2>2, <2>5
    <3>3. at # 0 /\ i <= at
      BY <1>1, <1>2, <2>1, <2>2, <3>2
    <3>4. at \in Nat /\ at + 1 <= n /\ b[at] = Open /\ b[at + 1] = Open /\ n <= i + 3
      BY <1>1, <1>2, <1>12, <2>1, <3>1, <3>3
    <3>5. at = i \/ at = i + 1 \/ at = i + 2
      BY <1>1, <2>1, <3>3, <3>4
    <3>6. at = i
      BY <1>1, <2>1, <2>2, <3>4, <3>5
    <3>7. PICK j \in at .. n : j + 1 <= n /\ b[j] = Shut /\ b[j + 1] = Shut
      BY <1>5, <1>10, <2>5, <3>3
    <3>8. j = i \/ j = i + 1 \/ j = i + 2
      BY <1>1, <2>1, <3>4, <3>6, <3>7
    <3> QED
      BY <1>1, <1>4, <2>1, <2>2, <3>7, <3>8
  <2> QED
    BY <2>3, <2>4, <2>5
<1>13. ~TooLong(b) => Clean(b, k)
  BY <1>12 DEF Clean
<1> QED
  BY <1>11, <1>13 DEF n, k

(* ---------- The stream ---------- *)

\* What has been heard is what has gone out and what is held; unless the
\* stream has given up, what was told is the restored text of what has gone
\* out, and as long as it listens no placeholder stands across the cut.
Settled(gone) ==
  /\ heard = gone \o held
  /\ ~gaveUp =>
       /\ told = Restored(gone)
       /\ replaced = Count(gone, Own)
       /\ strangers = Count(gone, Foreign)
       /\ ~over => Clean(heard, Len(gone))

InvStream ==
  /\ held \in Texts /\ heard \in Texts
  /\ gaveUp \in BOOLEAN /\ over \in BOOLEAN
  /\ Len(held) <= MaxOpenBuffer
  /\ over => held = <<>>
  /\ \E gone \in Texts : Settled(gone)

LEMMA NoText ==
  /\ <<>> \in Texts /\ Len(<<>>) = 0
  /\ Occurrences(<<>>, Own) = {} /\ Occurrences(<<>>, Foreign) = {}
  /\ Restored(<<>>) = <<>>
  /\ Count(<<>>, Own) = 0 /\ Count(<<>>, Foreign) = 0
<1>1. <<>> \in Texts /\ Len(<<>>) = 0 /\ DOMAIN <<>> = {}
  BY EmptySeq DEF Texts
<1>2. Occurrences(<<>>, Own) = {} /\ Occurrences(<<>>, Foreign) = {} /\ Kept(<<>>) = {}
  BY <1>1 DEF Occurrences, Kept
<1>3. Cardinality({}) = 0
  BY FS_EmptySet
<1>4. Restored(<<>>) \in Seq(Out) /\ Len(Restored(<<>>)) = 0
  BY <1>1, <1>2, <1>3, RestoredIs
<1>5. Restored(<<>>) = <<>>
  BY <1>4, EmptySeq
<1> QED
  BY <1>1, <1>2, <1>3, <1>5 DEF Count

LEMMA StreamBegins == InitStream => InvStream
<1> SUFFICES ASSUME InitStream PROVE InvStream
  OBVIOUS
<1>1. heard = <<>> /\ held = <<>> /\ told = <<>> /\ replaced = 0 /\ strangers = 0
      /\ gaveUp = FALSE /\ over = FALSE
  BY DEF InitStream
<1>2. <<>> \in Texts /\ Len(<<>>) = 0 /\ <<>> \o <<>> = <<>>
  BY NoText, ConcatEmptySeq DEF Texts
<1>3. Clean(<<>>, 0)
  BY DEF Clean
<1>4. Settled(<<>>)
  BY <1>1, <1>2, <1>3, NoText DEF Settled
<1>5. Len(held) <= MaxOpenBuffer
  BY <1>1, <1>2, RestoreStreamAssumption
<1>6. \E gone \in Texts : Settled(gone)
  BY <1>2, <1>4
<1> QED
  BY <1>1, <1>2, <1>5, <1>6 DEF InvStream

(* What Emit adds to what was told. *)
LEMMA EmitJoins ==
  ASSUME NEW gone \in Texts, NEW slice \in Texts, Emit(slice),
         told = Restored(gone), replaced = Count(gone, Own), strangers = Count(gone, Foreign),
         Apart(gone, slice, Own), Apart(gone, slice, Foreign)
  PROVE  /\ told' = Restored(gone \o slice)
         /\ replaced' = Count(gone \o slice, Own)
         /\ strangers' = Count(gone \o slice, Foreign)
<1>1. /\ told' = told \o Restored(slice)
      /\ replaced' = replaced + Count(slice, Own)
      /\ strangers' = strangers + Count(slice, Foreign)
  BY DEF Emit
<1>2. Restored(gone \o slice) = Restored(gone) \o Restored(slice)
  BY RestoredJoin
<1>3. /\ Count(gone \o slice, Own) = Count(gone, Own) + Count(slice, Own)
      /\ Count(gone \o slice, Foreign) = Count(gone, Foreign) + Count(slice, Foreign)
  BY CountJoin DEF Bodies
<1> QED
  BY <1>1, <1>2, <1>3

LEMMA PushSettles == InvStream /\ Push => InvStream'
<1> SUFFICES ASSUME InvStream, Push PROVE InvStream'
  OBVIOUS
<1>1. /\ held \in Texts /\ heard \in Texts /\ gaveUp \in BOOLEAN /\ over \in BOOLEAN
  BY DEF InvStream
<1>2. PICK gone \in Texts : Settled(gone)
  BY DEF InvStream
<1>n. PICK n \in 1 .. MaxChunk : \E chunk \in [1 .. n -> Chars] :
        /\ heard' = heard \o chunk
        /\ LET buffered == held \o chunk
               k == SafeBoundary(buffered)
           IN /\ Emit(SubSeq(buffered, 1, k))
              /\ held' = SubSeq(buffered, k + 1, Len(buffered))
              /\ gaveUp' = (gaveUp \/ TooLong(buffered))
  BY DEF Push
<1>3. PICK chunk \in [1 .. n -> Chars] :
        /\ heard' = heard \o chunk
        /\ LET buffered == held \o chunk
               k == SafeBoundary(buffered)
           IN /\ Emit(SubSeq(buffered, 1, k))
              /\ held' = SubSeq(buffered, k + 1, Len(buffered))
              /\ gaveUp' = (gaveUp \/ TooLong(buffered))
  BY <1>n
<1>4. ~over /\ over' = over
  BY DEF Push
<1>5. chunk \in Texts
  <2>1. n \in Nat
    BY RestoreStreamAssumption
  <2> QED
    BY <2>1 DEF Texts
<1>cut. PICK b, k, slice, rest :
          /\ b = held \o chunk /\ k = SafeBoundary(b)
          /\ slice = SubSeq(b, 1, k) /\ rest = SubSeq(b, k + 1, Len(b))
  OBVIOUS
<1>6. b \in Texts /\ Len(b) \in Nat
  BY <1>1, <1>5, <1>cut, TextJoin
<1>7. /\ Emit(slice) /\ held' = rest /\ gaveUp' = (gaveUp \/ TooLong(b))
  BY <1>3, <1>cut
<1>8. /\ k \in 0 .. Len(b) /\ Len(b) - k <= MaxOpenBuffer
      /\ ~TooLong(b) => Clean(b, k)
  BY <1>6, <1>cut, BoundaryIsClean
<1>9. /\ slice \in Texts /\ Len(slice) = k
      /\ rest \in Texts /\ Len(rest) = Len(b) - k
  <2>1. \A i \in 1 .. Len(b) : b[i] \in Chars
    BY <1>6 DEF Texts
  <2>2. k \in Int /\ Len(b) \in Int /\ 1 \in Int /\ k + 1 \in Int
    BY <1>6, <1>8
  <2>3. (\A i \in 1 .. k : b[i] \in Chars) /\ \A i \in k + 1 .. Len(b) : b[i] \in Chars
    BY <1>6, <1>8, <2>1
  <2>4. /\ SubSeq(b, 1, k) \in Seq(Chars)
        /\ Len(SubSeq(b, 1, k)) = IF 1 <= k THEN k - 1 + 1 ELSE 0
    BY <2>2, <2>3, SubSeqProperties
  <2>5. /\ SubSeq(b, k + 1, Len(b)) \in Seq(Chars)
        /\ Len(SubSeq(b, k + 1, Len(b))) =
             IF k + 1 <= Len(b) THEN Len(b) - (k + 1) + 1 ELSE 0
    BY <2>2, <2>3, SubSeqProperties
  <2>6. slice \in Seq(Chars) /\ Len(slice) = IF 1 <= k THEN k - 1 + 1 ELSE 0
    BY <1>cut, <2>4
  <2>7. rest \in Seq(Chars)
        /\ Len(rest) = IF k + 1 <= Len(b) THEN Len(b) - (k + 1) + 1 ELSE 0
    BY <1>cut, <2>5
  <2>8. k \in 0 .. Len(b) /\ Len(b) \in Nat
    BY <1>6, <1>8
  <2>9. Len(slice) = k /\ Len(rest) = Len(b) - k
    BY <2>6, <2>7, <2>8
  <2> QED
    BY <2>6, <2>7, <2>9 DEF Texts
<1>10. slice \o rest = b
  <2>1. 1 \in 1 .. Len(b) + 1 /\ k \in 1 - 1 .. Len(b) /\ Len(b) \in k .. Len(b)
    BY <1>6, <1>8
  <2>2. SubSeq(b, 1, k) \o SubSeq(b, k + 1, Len(b)) = SubSeq(b, 1, Len(b))
    BY <1>6, <2>1, ConcatAdjacentSubSeq DEF Texts
  <2>3. SubSeq(b, 1, Len(b)) = b
    BY <1>6, SubSeqFull DEF Texts
  <2> QED
    BY <1>cut, <2>2, <2>3
<1>11. heard' = gone \o b
  <2>1. heard = gone \o held
    BY <1>2 DEF Settled
  <2> QED
    BY <1>1, <1>2, <1>3, <1>5, <1>cut, <2>1, ConcatAssociative DEF Texts
<1>12. heard' \in Texts /\ heard' = (gone \o slice) \o rest
  <2>1. gone \o b \in Texts
    BY <1>6, TextJoin
  <2>2. (gone \o slice) \o rest = gone \o (slice \o rest)
    <3>1. gone \in Seq(Chars) /\ slice \in Seq(Chars) /\ rest \in Seq(Chars)
      BY <1>9 DEF Texts
    <3> QED
      BY <3>1, ConcatAssociative
  <2> QED
    BY <1>10, <1>11, <2>1, <2>2
<1>13. gone \o slice \in Texts /\ Len(gone \o slice) = Len(gone) + k
  BY <1>2, <1>9, TextJoin
<1>14. ASSUME ~gaveUp'
       PROVE  /\ told' = Restored(gone \o slice)
              /\ replaced' = Count(gone \o slice, Own)
              /\ strangers' = Count(gone \o slice, Foreign)
              /\ Clean(heard', Len(gone \o slice))
  <2>1. ~gaveUp /\ ~TooLong(b)
    BY <1>7, <1>14
  <2>2. /\ told = Restored(gone) /\ replaced = Count(gone, Own)
        /\ strangers = Count(gone, Foreign) /\ Clean(heard, Len(gone))
    BY <1>2, <1>4, <2>1 DEF Settled
  <2>3. Len(gone) \in 0 .. Len(heard)
    BY <1>1, <1>2, TextJoin DEF Settled
  <2>4. Clean(heard', Len(gone))
    BY <1>1, <1>3, <1>5, <2>2, <2>3, CleanGrows
  <2>5. Clean(gone \o b, Len(gone)) /\ Clean(b, k)
    BY <1>8, <1>11, <2>1, <2>4
  <2>6. Clean(gone \o b, Len(gone) + k)
    BY <1>2, <1>6, <1>8, <2>5, CleanShifts
  <2>7. Apart(gone, slice, Own) /\ Apart(gone, slice, Foreign)
    <3>1. Own \in Bodies /\ Foreign \in Bodies
      BY DEF Bodies
    <3>2. Clean((gone \o slice) \o rest, Len(gone))
      BY <1>12, <2>4
    <3> QED
      BY <1>2, <1>9, <3>1, <3>2, CleanIsApart
  <2>8. /\ told' = Restored(gone \o slice)
        /\ replaced' = Count(gone \o slice, Own)
        /\ strangers' = Count(gone \o slice, Foreign)
    BY <1>2, <1>7, <1>9, <2>2, <2>7, EmitJoins
  <2> QED
    BY <1>11, <1>13, <2>6, <2>8
<1>15. Settled(gone \o slice)'
  BY <1>7, <1>12, <1>14 DEF Settled
<1>16. gaveUp' \in BOOLEAN
  BY <1>1, <1>7 DEF TooLong, Unclosed
<1> QED
  BY <1>1, <1>4, <1>7, <1>8, <1>9, <1>12, <1>13, <1>15, <1>16 DEF InvStream

LEMMA EndSettles == InvStream /\ End => InvStream'
<1> SUFFICES ASSUME InvStream, End PROVE InvStream'
  OBVIOUS
<1>1. /\ held \in Texts /\ heard \in Texts /\ gaveUp \in BOOLEAN
  BY DEF InvStream
<1>2. PICK gone \in Texts : Settled(gone)
  BY DEF InvStream
<1>3. /\ ~over /\ Emit(held) /\ held' = <<>> /\ over' = TRUE
      /\ heard' = heard /\ gaveUp' = gaveUp
  BY DEF End
<1>4. heard = gone \o held
  BY <1>2 DEF Settled
<1>5. <<>> \in Texts /\ Len(<<>>) = 0 /\ heard \o <<>> = heard
  BY <1>1, NoText, ConcatEmptySeq DEF Texts
<1>6. ASSUME ~gaveUp'
      PROVE  /\ told' = Restored(heard)
             /\ replaced' = Count(heard, Own)
             /\ strangers' = Count(heard, Foreign)
  <2>1. /\ told = Restored(gone) /\ replaced = Count(gone, Own)
        /\ strangers = Count(gone, Foreign) /\ Clean(heard, Len(gone))
    BY <1>2, <1>3, <1>6 DEF Settled
  <2>2. Clean((gone \o held) \o <<>>, Len(gone))
    BY <1>4, <1>5, <2>1
  <2>3. Apart(gone, held, Own) /\ Apart(gone, held, Foreign)
    <3>1. Own \in Bodies /\ Foreign \in Bodies
      BY DEF Bodies
    <3> QED
      BY <1>1, <1>2, <1>5, <2>2, <3>1, CleanIsApart
  <2> QED
    BY <1>1, <1>2, <1>3, <1>4, <2>1, <2>3, EmitJoins
<1>7. Settled(heard)'
  BY <1>3, <1>5, <1>6 DEF Settled
<1> QED
  BY <1>1, <1>3, <1>5, <1>7, RestoreStreamAssumption DEF InvStream

\* However a text is cut into chunks, what the stream tells by its end is
\* what restoring the whole text tells, with the same counts, unless it gave
\* up on an unclosed run; and what it holds fits the cap (push and end of
\* restore-stream.ts).
THEOREM StreamRestoresTheWhole == SpecStream => []RestoresTheWhole
<1>1. InvStream /\ [NextStream]_streamvars => InvStream'
  <2> SUFFICES ASSUME InvStream, [NextStream]_streamvars PROVE InvStream'
    OBVIOUS
  <2>1. CASE Push
    BY <2>1, PushSettles
  <2>2. CASE End
    BY <2>2, EndSettles
  <2>3. CASE UNCHANGED streamvars
    BY <2>3 DEF InvStream, Settled, streamvars
  <2> QED
    BY <2>1, <2>2, <2>3 DEF NextStream
<1>2. InvStream => RestoresTheWhole
  <2> SUFFICES ASSUME InvStream PROVE RestoresTheWhole
    OBVIOUS
  <2>1. PICK gone \in Texts : Settled(gone)
    BY DEF InvStream
  <2>2. ASSUME over PROVE heard = gone
    BY <2>1, <2>2, ConcatEmptySeq DEF InvStream, Settled, Texts
  <2> QED
    BY <2>1, <2>2 DEF InvStream, Settled, RestoresTheWhole
<1> QED
  BY StreamBegins, <1>1, <1>2, PTL DEF SpecStream

=============================================================================
