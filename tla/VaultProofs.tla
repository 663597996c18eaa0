----------------------------- MODULE VaultProofs -----------------------------
(***************************************************************************)
(* The vault's invariants for every alphabet, label set, minimum length    *)
(* and stream of requests, proved with TLAPS.                              *)
(***************************************************************************)
EXTENDS VaultProperties, FiniteSetTheorems, SequenceTheorems, TLAPS

(***************************************************************************)
(* Facts about integers and finite sets                                    *)
(***************************************************************************)
\* A non-empty set of naturals has a least element.
LEMMA LeastNat ==
    ASSUME NEW T, T \subseteq Nat, T # {}
    PROVE  \E x \in T : \A y \in T : x <= y
<1> DEFINE R == {ss \in Nat \X Nat : ss[1] < ss[2]}
<1>1. R = OpToRel(<, Nat)
    BY DEF OpToRel
<1>2. IsWellFoundedOn(R, Nat)
    BY <1>1, NatLessThanWellFounded
<1>0. \A u, v \in Nat : <<u, v>> \in R <=> u < v
    OBVIOUS
<1> HIDE DEF R
<1>3. PICK x \in T : \A y \in T : ~ (<<y, x>> \in R)
    BY <1>2, WFMin
<1>4. ASSUME NEW y \in T
      PROVE  x <= y
    <2>1. ~ (y < x)
        BY <1>0, <1>3
    <2>2. x \in Nat /\ y \in Nat
        OBVIOUS
    <2> QED
        BY <2>1, <2>2
<1> QED
    BY <1>4

\* So a function to the naturals has a least value on a non-empty set.
LEMMA LeastBy ==
    ASSUME NEW S, S # {}, NEW f, \A x \in S : f[x] \in Nat
    PROVE  \E x \in S : \A y \in S : f[x] <= f[y]
<1> DEFINE T == {f[x] : x \in S}
<1>1. T \subseteq Nat /\ T # {}
    OBVIOUS
<1>2. PICK n \in T : \A k \in T : n <= k
    BY <1>1, LeastNat
<1> QED
    BY <1>2

\* A strictly smaller set of a finite one has fewer elements.
LEMMA FewerElements ==
    ASSUME NEW S, IsFiniteSet(S), NEW T, T \subseteq S, NEW x \in S, x \notin T
    PROVE  /\ Cardinality(T) \in Nat
           /\ Cardinality(S) \in Nat
           /\ Cardinality(T) < Cardinality(S)
<1>1. IsFiniteSet(T) /\ Cardinality(T) <= Cardinality(S)
    BY FS_Subset
<1>2. Cardinality(S) # Cardinality(T)
    BY FS_Subset
<1>3. Cardinality(T) \in Nat /\ Cardinality(S) \in Nat
    BY <1>1, FS_CardinalityType
<1> QED
    BY <1>1, <1>2, <1>3

(***************************************************************************)
(* Spans and their merging                                                 *)
(***************************************************************************)
Known(known) == DOMAIN known \subseteq Key

\* What every member of a call is: a non-empty span inside the text.
IsMember(m, t) ==
    /\ m[1].label \in Labels
    /\ m[1].score \in 0..KnownScore
    /\ m[1].start \in 1..Len(t)
    /\ m[1].end \in 2..(Len(t) + 1)
    /\ m[1].start < m[1].end
    /\ m[2] \in Nat

LEMMA MembersAreSpans ==
    ASSUME NEW r \in Requests, NEW known, Known(known),
           NEW m \in Members(r.text, r.spans, known)
    PROVE  IsMember(m, r.text)
<1> DEFINE t == r.text
<1>1. r \in [text : Seq(Char), spans : Seq(Span)]
    BY VaultAssumption
<1>2. t \in Seq(Char) /\ r.spans \in Seq(Span) /\ Len(t) \in Nat /\ KnownScore \in Nat
    BY <1>1, VaultAssumption
<1>3. m[1].start < m[1].end
    BY DEF Members
<1>4. CASE \E i \in DOMAIN r.spans : m = <<Clamp(t, r.spans[i]), i>>
    <2>1. PICK i \in DOMAIN r.spans : m = <<Clamp(t, r.spans[i]), i>>
        BY <1>4
    <2>2. r.spans[i] \in Span /\ i \in Nat
        BY <1>2
    <2>3. m[1] = Clamp(t, r.spans[i]) /\ m[2] = i
        BY <2>1
    <2> DEFINE s == r.spans[i]
    <2>4. /\ s.label \in Labels /\ s.score \in 0..KnownScore
          /\ s.start \in Int /\ s.end \in Int
        BY <2>2 DEF Span
    <2>5. /\ Clamp(t, s).label = s.label
          /\ Clamp(t, s).score = s.score
          /\ Clamp(t, s).start = IF s.start < 1 THEN 1 ELSE s.start
          /\ Clamp(t, s).end = IF s.end > Len(t) + 1 THEN Len(t) + 1 ELSE s.end
        BY <2>2 DEF Clamp, Span
    <2> HIDE DEF s
    <2>6. /\ m[1].start \in Int /\ m[1].start >= 1
          /\ m[1].end \in Int /\ m[1].end <= Len(t) + 1
        BY <2>3, <2>4, <2>5, <1>2 DEF s
    <2> QED
        BY <2>2, <2>3, <2>4, <2>5, <2>6, <1>2, <1>3 DEF IsMember, s
<1>5. CASE \E s \in KnownSpans(t, known) : m = <<s, Len(r.spans) + 1>>
    <2>1. PICK s \in KnownSpans(t, known) : m = <<s, Len(r.spans) + 1>>
        BY <1>5
    <2>2. PICK k \in Sought(known), at \in DOMAIN t :
              FoundAt(t, k.text, at) /\
              s = [label |-> k.label, start |-> at, end |-> at + Len(k.text),
                   score |-> KnownScore]
        BY <2>1 DEF KnownSpans
    <2>3. k \in Key
        BY <2>2 DEF Sought, Known
    <2>4. k.label \in Labels /\ Len(k.text) \in Nat
        BY <2>3 DEF Key
    <2>5. at \in 1..Len(t) /\ at + Len(k.text) - 1 <= Len(t)
        BY <2>2, <1>2 DEF FoundAt, OccursAt
    <2>6. /\ s.label = k.label /\ s.start = at
          /\ s.end = at + Len(k.text) /\ s.score = KnownScore
        BY <2>2
    <2>7. m[1] = s /\ m[2] = Len(r.spans) + 1 /\ Len(r.spans) \in Nat
        BY <2>1, <1>2
    <2>8. /\ m[1].start = at /\ m[1].end = at + Len(k.text)
          /\ m[1].label = k.label /\ m[1].score = KnownScore
        BY <2>6, <2>7
    <2>9. m[1].label \in Labels /\ m[1].score \in 0..KnownScore
        BY <2>4, <2>8, <1>2
    <2>10. m[1].start \in 1..Len(t) /\ m[1].end \in 2..(Len(t) + 1)
        BY <2>4, <2>5, <2>8, <1>2, <1>3
    <2>11. m[2] \in Nat
        BY <2>7
    <2> QED
        BY <2>9, <2>10, <2>11, <1>3 DEF IsMember
<1> QED
    BY <1>4, <1>5 DEF Members

\* A non-empty set of members has one that outranks them all, so a merged
\* span has a label.
LEMMA SomeOutranksAll ==
    ASSUME NEW t, Len(t) \in Nat, NEW S, S # {}, \A m \in S : IsMember(m, t)
    PROVE  \E m \in S : \A o \in S : Outranks(m, o)
<1> USE VaultAssumption
<1> DEFINE score == [m \in S |-> KnownScore - m[1].score]
<1>1. PICK a \in S : \A o \in S : score[a] <= score[o]
    <2>1. \A m \in S : score[m] \in Nat
        BY DEF IsMember
    <2> HIDE DEF score
    <2> QED
        BY <2>1, LeastBy
<1> DEFINE S1 == {m \in S : m[1].score = a[1].score}
<1> DEFINE start == [m \in S1 |-> m[1].start]
<1>2. PICK b \in S1 : \A o \in S1 : start[b] <= start[o]
    <2>1. S1 # {} /\ \A m \in S1 : start[m] \in Nat
        BY DEF IsMember
    <2> HIDE DEF start, S1
    <2> QED
        BY <2>1, LeastBy
<1> DEFINE S2 == {m \in S1 : m[1].start = b[1].start}
<1> DEFINE end == [m \in S2 |-> Len(t) + 1 - m[1].end]
<1>3. PICK c \in S2 : \A o \in S2 : end[c] <= end[o]
    <2>1. S2 # {} /\ \A m \in S2 : end[m] \in Nat
        BY DEF IsMember
    <2> HIDE DEF end, S2
    <2> QED
        BY <2>1, LeastBy
<1> DEFINE S3 == {m \in S2 : m[1].end = c[1].end}
<1> DEFINE rank == [m \in S3 |-> m[2]]
<1>4. PICK d \in S3 : \A o \in S3 : rank[d] <= rank[o]
    <2>1. S3 # {} /\ \A m \in S3 : rank[m] \in Nat
        BY DEF IsMember
    <2> HIDE DEF rank, S3
    <2> QED
        BY <2>1, LeastBy
<1>5. ASSUME NEW o \in S PROVE Outranks(d, o)
    <2>1. d[1].score >= o[1].score
        BY <1>1 DEF IsMember
    <2>2. CASE o[1].score = d[1].score
        <3>1. o \in S1 /\ d[1].start <= o[1].start
            BY <1>2, <2>2
        <3>2. CASE o[1].start = d[1].start
            <4>1. o \in S2 /\ d[1].end >= o[1].end
                BY <1>3, <3>1, <3>2 DEF IsMember
            <4>2. o[1].end = d[1].end => d[2] <= o[2]
                BY <1>4, <4>1
            <4> QED
                BY <2>2, <3>2, <4>1, <4>2 DEF Outranks, Before, IsMember
        <3> QED
            BY <2>2, <3>1, <3>2 DEF Outranks, Before, IsMember
    <2> QED
        BY <2>1, <2>2 DEF Outranks, IsMember
<1> QED
    BY <1>5

\* Two merged ranges are equal or apart.
LEMMA RunOrder ==
    ASSUME NEW t, Len(t) \in Nat, NEW members,
           NEW r \in Runs(t, members), NEW q \in Runs(t, members),
           r.start <= q.start
    PROVE  r = q \/ r.end <= q.start
<1>1. /\ r \in [start : 1..Len(t), end : 2..(Len(t) + 1)]
      /\ q \in [start : 1..Len(t), end : 2..(Len(t) + 1)]
    BY DEF Runs
<1>2. /\ ~Linked(members, q.start - 1) /\ ~Linked(members, q.end - 1)
      /\ ~Linked(members, r.end - 1)
      /\ \A p \in r.start..(r.end - 2) : Linked(members, p)
      /\ \A p \in q.start..(q.end - 2) : Linked(members, p)
      /\ r.start < r.end /\ q.start < q.end
    BY DEF Runs
<1>3. r.start \in Int /\ r.end \in Int /\ q.start \in Int /\ q.end \in Int
    BY <1>1
<1>4. SUFFICES ASSUME r.end > q.start PROVE r = q
    BY <1>3
<1>5. r.start = q.start
    <2>1. r.start < q.start => q.start - 1 \in r.start..(r.end - 2)
        BY <1>3, <1>4
    <2> QED
        BY <1>2, <1>3, <2>1
<1>6. r.end = q.end
    <2>1. r.end < q.end => r.end - 1 \in q.start..(q.end - 2)
        BY <1>2, <1>3, <1>5
    <2>2. q.end < r.end => q.end - 1 \in r.start..(r.end - 2)
        BY <1>2, <1>3, <1>5
    <2> QED
        BY <1>2, <1>3, <2>1, <2>2
<1> QED
    BY <1>1, <1>5, <1>6

\* What the spans to mask of one call are: finitely many, inside the text,
\* apart, each with the key of the value it covers.
SpanSet(S, t) ==
    /\ IsFiniteSet(S)
    /\ \A s \in S :
          /\ s.start \in 1..Len(t)
          /\ s.end \in 2..(Len(t) + 1)
          /\ s.start < s.end
          /\ s.key \in Key
          /\ s.key.text = Slice(t, s)
    /\ \A s, o \in S : s = o \/ s.end <= o.start \/ o.end <= s.start

LEMMA MergedIsSpanSet ==
    ASSUME NEW r \in Requests, NEW known, Known(known)
    PROVE  SpanSet(Merged(r.text, Members(r.text, r.spans, known)), r.text)
<1> DEFINE t == r.text
           members == Members(t, r.spans, known)
           S == Merged(t, members)
<1>1. t \in Seq(Char) /\ Len(t) \in Nat
    BY VaultAssumption
<1>2. \A m \in members : IsMember(m, t)
    BY MembersAreSpans
<1> HIDE DEF members
<1>3. ASSUME NEW s \in S
      PROVE  \E run \in Runs(t, members) :
                /\ s.start = run.start /\ s.end = run.end
                /\ s.key = [label |-> MergedLabel(run, members),
                            text |-> Slice(t, run)]
                /\ s = [start |-> run.start, end |-> run.end,
                        key |-> [label |-> MergedLabel(run, members),
                                 text |-> Slice(t, run)]]
    BY DEF Merged
<1>4. ASSUME NEW run \in Runs(t, members)
      PROVE  /\ run.start \in 1..Len(t) /\ run.end \in 2..(Len(t) + 1)
             /\ run.start < run.end
             /\ Slice(t, run) \in Seq(Char)
             /\ MergedLabel(run, members) \in Labels
    <2>1. /\ run.start \in 1..Len(t) /\ run.end \in 2..(Len(t) + 1)
          /\ run.start < run.end
          /\ ~Linked(members, run.start - 1)
          /\ \E m \in members : Covers(m[1], run.start)
        BY DEF Runs
    <2>2. Slice(t, run) \in Seq(Char)
        <3>1. \A i \in run.start..(run.end - 1) : t[i] \in Char
            BY <1>1, <2>1
        <3> QED
            BY <2>1, <3>1, SubSeqProperties DEF Slice
    <2>3. PICK m \in members : Covers(m[1], run.start)
        BY <2>1
    <2>4. m[1].start = run.start
        <3>1. IsMember(m, t)
            BY <1>2
        <3>2. m[1].start <= run.start /\ run.start < m[1].end
            BY <2>3 DEF Covers
        <3>3. m[1].start < run.start =>
                  Covers(m[1], run.start - 1) /\ Covers(m[1], run.start - 1 + 1)
            BY <2>1, <3>1, <3>2 DEF Covers, IsMember
        <3> QED
            BY <2>1, <3>1, <3>2, <3>3 DEF Linked, IsMember
    <2> DEFINE within == {n \in members : Covers(run, n[1].start)}
    <2>5. within # {} /\ \A n \in within : IsMember(n, t)
        BY <1>2, <2>1, <2>4 DEF Covers
    <2>6. \E n \in within : \A o \in within : Outranks(n, o)
        <3> HIDE DEF within
        <3> QED
            BY <1>1, <2>5, SomeOutranksAll
    <2>7. \E n \in within : MergedLabel(run, members) = n[1].label
        BY <2>6 DEF MergedLabel
    <2> QED
        BY <2>1, <2>2, <2>5, <2>7 DEF IsMember
<1>5. ASSUME NEW s \in S
      PROVE  /\ s.start \in 1..Len(t) /\ s.end \in 2..(Len(t) + 1)
             /\ s.start < s.end
             /\ s.key \in Key /\ s.key.text = Slice(t, s)
    <2>1. PICK run \in Runs(t, members) :
              /\ s.start = run.start /\ s.end = run.end
              /\ s.key = [label |-> MergedLabel(run, members),
                          text |-> Slice(t, run)]
        BY <1>3
    <2>2. s.key \in Key
        BY <1>4, <2>1 DEF Key
    <2>3. s.key.text = Slice(t, s)
        <3>1. s.key.text = Slice(t, run)
            BY <2>1
        <3>2. Slice(t, run) = Slice(t, s)
            BY <2>1 DEF Slice
        <3> QED
            BY <3>1, <3>2
    <2> QED
        BY <1>4, <2>1, <2>2, <2>3
<1>6. ASSUME NEW s \in S, NEW o \in S
      PROVE  s = o \/ s.end <= o.start \/ o.end <= s.start
    <2>1. PICK r1 \in Runs(t, members) :
              /\ s.start = r1.start /\ s.end = r1.end
              /\ s = [start |-> r1.start, end |-> r1.end,
                      key |-> [label |-> MergedLabel(r1, members),
                               text |-> Slice(t, r1)]]
        BY <1>3
    <2>2. PICK r2 \in Runs(t, members) :
              /\ o.start = r2.start /\ o.end = r2.end
              /\ o = [start |-> r2.start, end |-> r2.end,
                      key |-> [label |-> MergedLabel(r2, members),
                               text |-> Slice(t, r2)]]
        BY <1>3
    <2>3. r1.start <= r2.start \/ r2.start <= r1.start
        BY <1>4
    <2>4. r1 = r2 \/ r1.end <= r2.start \/ r2.end <= r1.start
        BY <1>1, <2>3, RunOrder
    <2> QED
        BY <2>1, <2>2, <2>4
<1>7. IsFiniteSet(S)
    <2> DEFINE f == [s \in S |-> s.start]
    <2> HIDE DEF S
    <2>1. f \in [S -> 1..Len(t)]
        BY <1>5
    <2>2. \A s, o \in S : f[s] = f[o] => s = o
        BY <1>5, <1>6
    <2>3. f \in Injection(S, 1..Len(t))
        BY <2>1, <2>2 DEF Injection, IsInjective
    <2>4. IsFiniteSet(1..Len(t))
        BY <1>1, FS_Interval
    <2> QED
        BY <2>3, <2>4, FS_Injection
<1> QED
    BY <1>5, <1>6, <1>7 DEF SpanSet, members

\* No member is linked over either end of the text.
LEMMA LinksAreInside ==
    ASSUME NEW t, Len(t) \in Nat, NEW members, \A m \in members : IsMember(m, t)
    PROVE  ~Linked(members, 0) /\ ~Linked(members, Len(t))
<1> SUFFICES ASSUME NEW m \in members
             PROVE  ~Covers(m[1], 0) /\ ~Covers(m[1], Len(t) + 1)
    BY DEF Linked
<1>1. m[1].start \in 1..Len(t) /\ m[1].end \in 2..(Len(t) + 1)
    BY DEF IsMember
<1> QED
    BY <1>1 DEF Covers

\* The merged ranges cover the characters their members cover, no fewer and
\* no more: mergeOverlappingSpans hides nothing else.
LEMMA RunsCover ==
    ASSUME NEW t, Len(t) \in Nat, NEW members, \A m \in members : IsMember(m, t),
           NEW p \in 1..Len(t)
    PROVE  (\E r \in Runs(t, members) : Covers(r, p)) <=>
           (\E m \in members : Covers(m[1], p))
<1>1. ASSUME NEW r \in Runs(t, members), Covers(r, p)
      PROVE  \E m \in members : Covers(m[1], p)
    <2>1. /\ r.start \in 1..Len(t) /\ r.end \in 2..(Len(t) + 1)
          /\ \E m \in members : Covers(m[1], r.start)
          /\ \A q \in r.start..(r.end - 2) : Linked(members, q)
        BY DEF Runs
    <2>2. r.start <= p /\ p < r.end
        BY <1>1 DEF Covers
    <2>3. CASE p # r.start
        <3>1. p - 1 \in r.start..(r.end - 2)
            BY <2>1, <2>2, <2>3
        <3>2. PICK m \in members : Covers(m[1], p - 1 + 1)
            BY <2>1, <3>1 DEF Linked
        <3> QED
            BY <3>2
    <2> QED
        BY <2>1, <2>3
<1>2. ASSUME NEW m \in members, Covers(m[1], p)
      PROVE  \E r \in Runs(t, members) : Covers(r, p)
    <2> DEFINE starts == {a \in 1..p : \A q \in a..(p - 1) : Linked(members, q)}
               ends   == {b \in (p + 1)..(Len(t) + 1) : ~Linked(members, b - 1)}
    <2>0. ~Linked(members, 0) /\ ~Linked(members, Len(t))
        BY LinksAreInside
    <2>1. PICK a \in starts : \A x \in starts : a <= x
        <3>1. starts \subseteq Nat /\ p \in starts
            OBVIOUS
        <3> HIDE DEF starts
        <3> QED
            BY <3>1, LeastNat
    <2>2. PICK b \in ends : \A x \in ends : b <= x
        <3>1. Len(t) + 1 \in ends /\ ends \subseteq Nat
            BY <2>0
        <3> HIDE DEF ends
        <3> QED
            BY <3>1, LeastNat
    <2>3. a \in 1..p /\ b \in (p + 1)..(Len(t) + 1) /\ ~Linked(members, b - 1)
          /\ \A q \in a..(p - 1) : Linked(members, q)
        OBVIOUS
    <2>4. \A q \in p..(b - 2) : Linked(members, q)
        <3> SUFFICES ASSUME NEW q \in p..(b - 2), ~Linked(members, q) PROVE FALSE
            OBVIOUS
        <3>1. q + 1 \in (p + 1)..(Len(t) + 1) /\ (q + 1) - 1 = q /\ ~(b <= q + 1)
            BY <2>3
        <3> QED
            BY <2>2, <3>1
    <2>5. ~Linked(members, a - 1)
        <3> SUFFICES ASSUME Linked(members, a - 1) PROVE FALSE
            OBVIOUS
        <3>1. a # 1
            BY <2>0
        <3>2. a - 1 \in 1..p /\ ~(a <= a - 1)
            BY <2>3, <3>1
        <3>3. \A q \in (a - 1)..(p - 1) : q = a - 1 \/ q \in a..(p - 1)
            BY <2>3
        <3>4. a - 1 \in starts
            BY <2>3, <3>2, <3>3
        <3> QED
            BY <2>1, <3>2, <3>4
    <2>6. \E n \in members : Covers(n[1], a)
        <3>1. a # p => a \in a..(p - 1)
            BY <2>3
        <3> QED
            BY <1>2, <2>3, <3>1 DEF Linked
    <2> DEFINE r == [start |-> a, end |-> b]
    <2>7. \A q \in a..(b - 2) : q \in a..(p - 1) \/ q \in p..(b - 2)
        BY <2>3
    <2>8. r \in Runs(t, members)
        <3>1. r \in [start : 1..Len(t), end : 2..(Len(t) + 1)] /\ r.start < r.end
            BY <2>3
        <3> QED
            BY <2>3, <2>4, <2>5, <2>6, <2>7, <3>1 DEF Runs
    <2>9. Covers(r, p)
        BY <2>3 DEF Covers
    <2> QED
        BY <2>8, <2>9
<1> QED
    BY <1>1, <1>2

\* A text is sought when it is long enough and the session knows it.
LEMMA SoughtIsKnown ==
    ASSUME NEW known, \A k \in DOMAIN known : known[k].place \in Nat,
           NEW v
    PROVE  (\E k \in Sought(known) : k.text = v) <=>
           (Len(v) >= MinKnown /\ \E k \in DOMAIN known : k.text = v)
<1>1. ASSUME NEW k \in Sought(known), k.text = v
      PROVE  Len(v) >= MinKnown /\ \E o \in DOMAIN known : o.text = v
    BY <1>1 DEF Sought
<1>2. ASSUME Len(v) >= MinKnown, NEW k \in DOMAIN known, k.text = v
      PROVE  \E o \in Sought(known) : o.text = v
    <2> DEFINE same == {o \in DOMAIN known : o.text = v}
               place == [o \in same |-> known[o].place]
    <2>1. PICK o \in same : \A x \in same : place[o] <= place[x]
        <3>1. same # {} /\ \A x \in same : place[x] \in Nat
            BY <1>2
        <3> HIDE DEF same, place
        <3> QED
            BY <3>1, LeastBy
    <2>2. \A x \in DOMAIN known : x.text = o.text => known[o].place <= known[x].place
        BY <2>1
    <2> QED
        BY <1>2, <2>1, <2>2 DEF Sought
<1> QED
    BY <1>1, <1>2

\* The members of a call cover what a detected span or a known value covers.
LEMMA MembersCover ==
    ASSUME NEW r \in Requests, NEW known, Known(known), NEW p \in 1..Len(r.text)
    PROVE  (\E m \in Members(r.text, r.spans, known) : Covers(m[1], p)) <=>
           \/ \E i \in DOMAIN r.spans : Covers(r.spans[i], p)
           \/ \E k \in Sought(known), at \in DOMAIN r.text :
                 /\ FoundAt(r.text, k.text, at)
                 /\ at <= p /\ p < at + Len(k.text)
<1> DEFINE t == r.text
           members == Members(t, r.spans, known)
<1>1. t \in Seq(Char) /\ r.spans \in Seq(Span) /\ Len(t) \in Nat
    BY VaultAssumption
<1>2. ASSUME NEW i \in DOMAIN r.spans
      PROVE  Covers(Clamp(t, r.spans[i]), p) <=> Covers(r.spans[i], p)
    <2> DEFINE s == r.spans[i]
    <2>0. s \in Span
        BY <1>1
    <2>1. s \in Span /\ s.start \in Int /\ s.end \in Int
        <3> HIDE DEF s
        <3> QED
            BY <2>0 DEF Span
    <2>2. /\ Clamp(t, s).start = IF s.start < 1 THEN 1 ELSE s.start
          /\ Clamp(t, s).end = IF s.end > Len(t) + 1 THEN Len(t) + 1 ELSE s.end
        BY <2>1 DEF Clamp, Span
    <2> HIDE DEF s
    <2>3. Covers(Clamp(t, s), p) <=> Covers(s, p)
        BY <1>1, <2>1, <2>2 DEF Covers
    <2> QED
        BY <2>3 DEF s
<1>3. ASSUME NEW m \in members, Covers(m[1], p)
      PROVE  \/ \E i \in DOMAIN r.spans : Covers(r.spans[i], p)
             \/ \E k \in Sought(known), at \in DOMAIN t :
                   FoundAt(t, k.text, at) /\ at <= p /\ p < at + Len(k.text)
    <2>1. CASE \E i \in DOMAIN r.spans : m = <<Clamp(t, r.spans[i]), i>>
        BY <1>2, <1>3, <2>1
    <2>2. CASE \E s \in KnownSpans(t, known) : m = <<s, Len(r.spans) + 1>>
        <3>1. m[1] \in KnownSpans(t, known)
            BY <2>2
        <3>2. PICK k \in Sought(known), at \in DOMAIN t :
                  /\ FoundAt(t, k.text, at)
                  /\ m[1] = [label |-> k.label, start |-> at, end |-> at + Len(k.text),
                             score |-> KnownScore]
            BY <3>1 DEF KnownSpans
        <3> QED
            BY <1>3, <3>2 DEF Covers
    <2> QED
        BY <2>1, <2>2 DEF Members
<1>4. ASSUME NEW i \in DOMAIN r.spans, Covers(r.spans[i], p)
      PROVE  \E m \in members : Covers(m[1], p)
    <2> DEFINE s == Clamp(t, r.spans[i])
    <2>1. Covers(s, p)
        BY <1>2, <1>4
    <2>2. r.spans[i] \in Span
        BY <1>1
    <2>3. s.start \in Int /\ s.end \in Int
        BY <1>1, <2>2 DEF Clamp, Span
    <2> HIDE DEF s
    <2>4. s.start < s.end
        BY <2>1, <2>3 DEF Covers
    <2>5. <<s, i>> \in members
        BY <2>4 DEF Members, s
    <2> QED
        BY <2>1, <2>5
<1>5. ASSUME NEW k \in Sought(known), NEW at \in DOMAIN t,
             FoundAt(t, k.text, at), at <= p, p < at + Len(k.text)
      PROVE  \E m \in members : Covers(m[1], p)
    <2> DEFINE s == [label |-> k.label, start |-> at, end |-> at + Len(k.text),
                     score |-> KnownScore]
    <2>1. s \in KnownSpans(t, known)
        BY <1>5 DEF KnownSpans
    <2>2. s.start = at /\ s.end = at + Len(k.text)
        OBVIOUS
    <2>3. k \in Key
        BY DEF Sought, Known
    <2>4. at \in Nat /\ Len(k.text) \in Nat
        BY <1>1, <2>3 DEF Key
    <2> HIDE DEF s
    <2>5. s.start < s.end /\ Covers(s, p)
        BY <1>5, <2>2, <2>4 DEF Covers
    <2>6. <<s, Len(r.spans) + 1>> \in members
        BY <2>1, <2>5 DEF Members
    <2> QED
        BY <2>5, <2>6
<1> QED
    BY <1>3, <1>4, <1>5

(***************************************************************************)
(* Minting placeholders                                                    *)
(***************************************************************************)
LEMMA MintingFacts ==
    ASSUME NEW t, Len(t) \in Nat, NEW S, SpanSet(S, t), NEW known
    PROVE  LET M == Minting(S, known)
           IN  /\ M \subseteq S
               /\ IsFiniteSet(M)
               /\ \A s \in M : s.key \notin DOMAIN known
               /\ \A s, o \in M : s.key = o.key => s = o
               /\ \A s \in S : \/ s.key \in DOMAIN known
                               \/ \E o \in M : o.key = s.key
<1> DEFINE M == Minting(S, known)
<1>1. M \subseteq S /\ \A s \in M : s.key \notin DOMAIN known
    BY DEF Minting
<1>2. IsFiniteSet(M)
    BY <1>1, FS_Subset DEF SpanSet
<1>3. ASSUME NEW s \in M, NEW o \in M, s.key = o.key
      PROVE  s = o
    <2>1. s.start <= o.start /\ o.start <= s.start
        BY <1>3 DEF Minting
    <2>2. s \in S /\ o \in S
        BY <1>1
    <2> QED
        BY <2>1, <2>2 DEF SpanSet
<1>4. ASSUME NEW s \in S, s.key \notin DOMAIN known
      PROVE  \E o \in M : o.key = s.key
    <2> DEFINE same == {o \in S : o.key = s.key}
               f == [o \in same |-> o.start]
    <2>1. same # {} /\ \A o \in same : f[o] \in Nat
        BY DEF SpanSet
    <2>2. PICK o \in same : \A x \in same : f[o] <= f[x]
        <3> HIDE DEF same, f
        <3> QED
            BY <2>1, LeastBy
    <2>3. \A x \in S : x.key = o.key => o.start <= x.start
        BY <2>2
    <2> QED
        BY <1>4, <2>2, <2>3 DEF Minting
<1> QED
    BY <1>1, <1>2, <1>3, <1>4

\* p bears s's label, and its index is between the two counts of that label.
Fresh(p, s, before, after, id) ==
    /\ p.label = s.key.label /\ p.session = id /\ p.idx \in Nat
    /\ p.label \in Labels
    /\ p = [label |-> s.key.label, idx |-> p.idx, session |-> id]
    /\ before[p.label] <= p.idx
    /\ p.idx < after[p.label]

\* The minted placeholders of a call are new: each label's indices start at
\* its counter, end before the counter the call leaves, and do not repeat.
LEMMA MintedFacts ==
    ASSUME NEW M, IsFiniteSet(M), NEW id,
           NEW count \in [Labels -> Nat],
           \A s \in M : s.start \in Nat /\ s.key \in Key,
           \A s, o \in M : s.start = o.start => s = o
    PROVE  /\ Counted(M, count) \in [Labels -> Nat]
           /\ \A l \in Labels : count[l] <= Counted(M, count)[l]
           /\ \A s \in M : Fresh(Minted(s, M, count, id), s, count,
                                  Counted(M, count), id)
           /\ \A s, o \in M : Minted(s, M, count, id) = Minted(o, M, count, id) => s = o
           /\ \A s, o \in M : s.key.label = o.key.label /\ s.start < o.start =>
                 Minted(s, M, count, id).idx < Minted(o, M, count, id).idx
<1> DEFINE under(s) == {o \in Earlier(s, M) : o.key.label = s.key.label}
           all(l) == {o \in M : o.key.label = l}
           p(s) == Minted(s, M, count, id)
<1>1. ASSUME NEW l \in Labels
      PROVE  IsFiniteSet(all(l)) /\ Cardinality(all(l)) \in Nat
    BY FS_Subset, FS_CardinalityType
<1>2. ASSUME NEW s \in M
      PROVE  /\ s.key.label \in Labels
             /\ Cardinality(under(s)) \in Nat
             /\ Cardinality(under(s)) < Cardinality(all(s.key.label))
    <2>1. s.key.label \in Labels
        BY DEF Key
    <2>2. s \in all(s.key.label) /\ s \notin under(s)
        BY DEF Earlier
    <2>3. under(s) \subseteq all(s.key.label)
        BY DEF Earlier
    <2>4. IsFiniteSet(all(s.key.label))
        BY <1>1, <2>1
    <2> HIDE DEF under, all
    <2> QED
        BY <2>1, <2>2, <2>3, <2>4, FewerElements
<1>3. ASSUME NEW s \in M, NEW o \in M, s.key.label = o.key.label, s.start < o.start
      PROVE  Cardinality(under(s)) < Cardinality(under(o))
    <2>1. s \in under(o) /\ s \notin under(s)
        BY <1>3 DEF Earlier
    <2>2. under(s) \subseteq under(o)
        BY <1>3 DEF Earlier
    <2>3. IsFiniteSet(under(o))
        BY FS_Subset DEF Earlier
    <2> HIDE DEF under
    <2> QED
        BY <2>1, <2>2, <2>3, FewerElements
<1>4. \A s \in M : p(s) = [label |-> s.key.label,
                           idx |-> count[s.key.label] + Cardinality(under(s)),
                           session |-> id]
    BY DEF Minted
<1>5. Counted(M, count) = [l \in Labels |-> count[l] + Cardinality(all(l))]
    BY DEF Counted
<1> HIDE DEF under, all, p
<1>6. /\ Counted(M, count) \in [Labels -> Nat]
      /\ \A l \in Labels : count[l] <= Counted(M, count)[l]
    BY <1>1, <1>5
<1>7. ASSUME NEW s \in M
      PROVE  /\ p(s).label = s.key.label /\ p(s).session = id /\ p(s).idx \in Nat
             /\ p(s).label \in Labels
             /\ p(s) = [label |-> s.key.label, idx |-> p(s).idx, session |-> id]
             /\ count[p(s).label] <= p(s).idx
             /\ p(s).idx < Counted(M, count)[p(s).label]
    <2>1. /\ p(s).label = s.key.label /\ p(s).session = id
          /\ p(s).idx = count[s.key.label] + Cardinality(under(s))
          /\ p(s) = [label |-> s.key.label, idx |-> p(s).idx, session |-> id]
        BY <1>4
    <2>2. count[s.key.label] \in Nat
        BY <1>2
    <2>3. Cardinality(all(s.key.label)) \in Nat
        BY <1>1, <1>2
    <2>4. Counted(M, count)[s.key.label] =
              count[s.key.label] + Cardinality(all(s.key.label))
        BY <1>2, <1>5
    <2> QED
        BY <1>2, <2>1, <2>2, <2>3, <2>4
<1>8. ASSUME NEW s \in M, NEW o \in M, p(s) = p(o)
      PROVE  s = o
    <2>1. /\ p(s).label = s.key.label
          /\ p(s).idx = count[s.key.label] + Cardinality(under(s))
        BY <1>4
    <2>2. /\ p(o).label = o.key.label
          /\ p(o).idx = count[o.key.label] + Cardinality(under(o))
        BY <1>4
    <2>3. s.key.label = o.key.label
        BY <1>8, <2>1, <2>2
    <2>4. Cardinality(under(s)) \in Nat /\ Cardinality(under(o)) \in Nat
          /\ count[s.key.label] \in Nat
        BY <1>2
    <2>5. Cardinality(under(s)) = Cardinality(under(o))
        BY <1>8, <2>1, <2>2, <2>3, <2>4
    <2>6. ~(s.start < o.start) /\ ~(o.start < s.start)
        BY <1>3, <2>3, <2>4, <2>5
    <2> QED
        BY <2>6
<1>9. ASSUME NEW s \in M, NEW o \in M, s.key.label = o.key.label, s.start < o.start
      PROVE  p(s).idx < p(o).idx
    <2>1. /\ p(s).idx = count[s.key.label] + Cardinality(under(s))
          /\ p(o).idx = count[s.key.label] + Cardinality(under(o))
        BY <1>4, <1>9
    <2>2. Cardinality(under(s)) \in Nat /\ Cardinality(under(o)) \in Nat
          /\ count[s.key.label] \in Nat
        BY <1>2
    <2> QED
        BY <1>3, <1>9, <2>1, <2>2
<1> QED
    BY <1>6, <1>7, <1>8, <1>9 DEF p, Fresh

\* What a call leaves in byValue: every key known before keeps its record,
\* and each minting span's key has the placeholder it minted.
Taught(L, known, M, count, id) ==
    /\ L = [k \in DOMAIN L |-> L[k]]
    /\ Known(L) /\ IsFiniteSet(DOMAIN L)
    /\ DOMAIN L = DOMAIN known \cup {s.key : s \in M}
    /\ \A k \in DOMAIN known : L[k] = known[k]
    /\ \A s \in M : /\ L[s.key].placeholder = Minted(s, M, count, id)
                    /\ \E n \in Nat : L[s.key] =
                          [placeholder |-> Minted(s, M, count, id), place |-> n]

LEMMA LearnedFacts ==
    ASSUME NEW M, IsFiniteSet(M), NEW known, Known(known),
           IsFiniteSet(DOMAIN known), NEW count, NEW id,
           \A s \in M : s.key \in Key /\ s.key \notin DOMAIN known,
           \A s, o \in M : s.key = o.key => s = o,
           NEW L, L = Learned(M, known, count, id)
    PROVE  Taught(L, known, M, count, id)
<1> DEFINE keys == {s.key : s \in M}
           At(s) == Cardinality(DOMAIN known) + Cardinality(Earlier(s, M))
           Of(k) == CHOOSE s \in M : s.key = k
<1>1. L = [k \in DOMAIN known \cup keys |->
              IF \E s \in M : s.key = k
              THEN [placeholder |-> Minted(Of(k), M, count, id), place |-> At(Of(k))]
              ELSE known[k]]
    BY DEF Learned
<1>2. \A s \in M : Of(s.key) = s
    OBVIOUS
<1> HIDE DEF Of
<1>3. DOMAIN L = DOMAIN known \cup keys /\ L = [k \in DOMAIN L |-> L[k]]
    BY <1>1
<1>4. \A k \in DOMAIN known : L[k] = known[k]
    BY <1>1
<1>5. ASSUME NEW s \in M
      PROVE  At(s) \in Nat /\ L[s.key] = [placeholder |-> Minted(s, M, count, id),
                                          place |-> At(s)]
    <2>1. Cardinality(DOMAIN known) \in Nat
        BY FS_CardinalityType
    <2>2. Earlier(s, M) \subseteq M
        BY DEF Earlier
    <2>3. Cardinality(Earlier(s, M)) \in Nat
        BY <2>2, FS_Subset, FS_CardinalityType
    <2>4. L[s.key] = [placeholder |-> Minted(s, M, count, id), place |-> At(s)]
        BY <1>1, <1>2
    <2> QED
        BY <2>1, <2>3, <2>4
<1>6. IsFiniteSet(keys)
    <2> DEFINE f == [s \in M |-> s.key]
    <2>1. f \in Surjection(M, keys)
        BY DEF Surjection
    <2> HIDE DEF f, keys
    <2> QED
        BY <2>1, FS_Surjection
<1>7. IsFiniteSet(DOMAIN L)
    <2> HIDE DEF keys
    <2>1. IsFiniteSet(DOMAIN known \cup keys)
        BY <1>6, FS_Union
    <2> QED
        BY <1>3, <2>1
<1>8. Known(L)
    BY <1>3 DEF Known
<1>9. ASSUME NEW s \in M
      PROVE  /\ L[s.key].placeholder = Minted(s, M, count, id)
             /\ \E n \in Nat : L[s.key] = [placeholder |-> Minted(s, M, count, id),
                                         place |-> n]
    <2>1. PICK n \in Nat : L[s.key] = [placeholder |-> Minted(s, M, count, id),
                                      place |-> n]
        BY <1>5
    <2>2. L[s.key].placeholder = Minted(s, M, count, id)
        BY <2>1
    <2> QED
        BY <2>1, <2>2
<1> QED
    BY <1>3, <1>4, <1>7, <1>8, <1>9 DEF Taught

\* What a call leaves in the entries: the old ones untouched, as every
\* minted placeholder is new, and each new one holding its value.
LEMMA EnteredFacts ==
    ASSUME NEW M, NEW old, NEW count, NEW id,
           \A s, o \in M : Minted(s, M, count, id) = Minted(o, M, count, id) => s = o,
           \A s \in M : Minted(s, M, count, id) \notin DOMAIN old,
           NEW E, E = Entered(M, old, count, id)
    PROVE      /\ E = [p \in DOMAIN E |-> E[p]]
               /\ DOMAIN E = DOMAIN old \cup {Minted(s, M, count, id) : s \in M}
               /\ \A p \in DOMAIN old : E[p] = old[p]
               /\ \A s \in M : E[Minted(s, M, count, id)] = s.key.text
<1> DEFINE P(s) == Minted(s, M, count, id)
           Of(p) == CHOOSE s \in M : P(s) = p
<1>1. E = [p \in DOMAIN old \cup {P(s) : s \in M} |->
              IF \E s \in M : P(s) = p THEN Of(p).key.text ELSE old[p]]
    BY DEF Entered
<1> HIDE DEF P
<1>2. DOMAIN E = DOMAIN old \cup {P(s) : s \in M} /\ E = [p \in DOMAIN E |-> E[p]]
    BY <1>1
<1>3. \A p \in DOMAIN old : E[p] = old[p]
    BY <1>1 DEF P
<1>4. ASSUME NEW s \in M PROVE E[P(s)] = s.key.text
    <2>1. Of(P(s)) = s
        BY DEF P
    <2> HIDE DEF Of
    <2> QED
        BY <1>1, <2>1
<1> QED
    BY <1>2, <1>3, <1>4 DEF P

(***************************************************************************)
(* One call of sanitize, taken apart once for all that follows             *)
(***************************************************************************)
Taken(id, request, S, m) ==
    /\ id \in live /\ live' = live /\ used' = used
    /\ S = Merged(request.text, Members(request.text, request.spans, byValue[id]))
    /\ SpanSet(S, request.text)
    /\ m = [session |-> id, request |-> request,
            cover |-> {[start |-> s.start, end |-> s.end,
                        placeholder |-> byValue'[id][s.key].placeholder] : s \in S}]
    /\ sent' = sent \cup {m}
    /\ byValue' = [byValue EXCEPT ![id] = byValue'[id]]
    /\ entries' = [entries EXCEPT ![id] = entries'[id]]
    /\ counters' = [counters EXCEPT ![id] = counters'[id]]
    /\ \A s \in S : s.key \in DOMAIN byValue'[id]
    /\ \A p \in DOMAIN entries'[id] \ DOMAIN entries[id] :
          \E s \in S : byValue'[id][s.key].placeholder = p

\* The counters only grow.
Climbs(old, new) == /\ new \in [Labels -> Nat]
                    /\ \A l \in Labels : old[l] <= new[l]

\* byValue keeps what it had, and its new records are of this call.
Teaches(old, new, held, id) ==
    /\ new = [k \in DOMAIN new |-> new[k]]
    /\ IsFiniteSet(DOMAIN new)
    /\ DOMAIN old \subseteq DOMAIN new
    /\ \A k \in DOMAIN old : new[k] = old[k]
    /\ \A k \in DOMAIN new \ DOMAIN old :
          /\ k \in Key
          /\ new[k] \in [placeholder : Placeholder, place : Nat]
          /\ new[k].placeholder \in DOMAIN held
          /\ held[new[k].placeholder] = k.text
          /\ new[k].placeholder.label = k.label
          /\ new[k].placeholder.session = id

\* The entries keep what they had, and new ones are counted.
Holds(old, new, count, id) ==
    /\ new = [p \in DOMAIN new |-> new[p]]
    /\ DOMAIN old \subseteq DOMAIN new
    /\ \A p \in DOMAIN old : new[p] = old[p]
    /\ \A p \in DOMAIN new \ DOMAIN old :
          /\ p \in Placeholder /\ p.session = id
          /\ p.idx < count[p.label]
          /\ new[p] \in Seq(Char)

LEMMA SanitizeFacts ==
    ASSUME TypeOK, Consistent, NEW id \in Ids, NEW request \in Requests,
           Sanitize(id, request)
    PROVE  /\ \E S, m : Taken(id, request, S, m)
           /\ Climbs(counters[id], counters'[id])
           /\ Teaches(byValue[id], byValue'[id], entries'[id], id)
           /\ Holds(entries[id], entries'[id], counters'[id], id)
<1> DEFINE known == byValue[id]
           old   == entries[id]
           count == counters[id]
           t     == request.text
           S     == Merged(t, Members(t, request.spans, known))
           M     == Minting(S, known)
           L     == Learned(M, known, count, id)
           E     == Entered(M, old, count, id)
           C     == Counted(M, count)
           m     == [session |-> id, request |-> request,
                     cover |-> {[start |-> s.start, end |-> s.end,
                                 placeholder |-> L[s.key].placeholder] : s \in S}]
<1>1. /\ id \in live /\ live' = live /\ used' = used
      /\ byValue' = [byValue EXCEPT ![id] = L]
      /\ entries' = [entries EXCEPT ![id] = E]
      /\ counters' = [counters EXCEPT ![id] = C]
      /\ sent' = sent \cup {m}
    BY DEF Sanitize
<1>2. /\ Known(known) /\ IsFiniteSet(DOMAIN known)
      /\ count \in [Labels -> Nat]
      /\ DOMAIN old \subseteq Placeholder
      /\ DOMAIN byValue = live /\ DOMAIN entries = live /\ DOMAIN counters = live
    BY <1>1 DEF TypeOK, Known
<1>3. \A p \in DOMAIN old : p.idx < count[p.label]
    BY <1>1 DEF Consistent, MapsAgree
<1>4. SpanSet(S, t)
    BY <1>2, MergedIsSpanSet
<1>5. t \in Seq(Char) /\ Len(t) \in Nat
    BY VaultAssumption
<1> HIDE DEF S, t
<1>6. /\ M \subseteq S /\ IsFiniteSet(M)
      /\ \A s \in M : s.key \notin DOMAIN known
      /\ \A s, o \in M : s.key = o.key => s = o
      /\ \A s \in S : s.key \in DOMAIN known \/ \E o \in M : o.key = s.key
    BY <1>4, <1>5, MintingFacts
<1> HIDE DEF M
<1>7. /\ \A s \in M : s.start \in Nat /\ s.key \in Key
      /\ \A s, o \in M : s.start = o.start => s = o
    BY <1>4, <1>6 DEF SpanSet
<1> DEFINE P(s) == Minted(s, M, count, id)
<1> HIDE DEF known, old, count
<1>m. /\ C \in [Labels -> Nat]
      /\ \A l \in Labels : count[l] <= C[l]
      /\ \A s \in M : Fresh(P(s), s, count, C, id)
      /\ \A s, o \in M : P(s) = P(o) => s = o
    BY <1>2, <1>6, <1>7, MintedFacts
<1>8. \A s \in M : /\ P(s).label = s.key.label /\ P(s).session = id
                   /\ P(s).idx \in Nat /\ P(s).label \in Labels
                   /\ P(s) = [label |-> s.key.label, idx |-> P(s).idx, session |-> id]
                   /\ count[P(s).label] <= P(s).idx
                   /\ P(s).idx < C[P(s).label]
    BY <1>m DEF Fresh
<1>9. \A s \in M : P(s) \notin DOMAIN old /\ P(s) \in Placeholder
    <2> SUFFICES ASSUME NEW s \in M PROVE P(s) \notin DOMAIN old /\ P(s) \in Placeholder
        OBVIOUS
    <2> HIDE DEF P, C
    <2>1. count[P(s).label] \in Nat /\ P(s).idx \in Nat
        BY <1>2, <1>8
    <2>2. P(s) \notin DOMAIN old
        BY <1>3, <1>8, <2>1
    <2>3. P(s) = [label |-> s.key.label, idx |-> P(s).idx, session |-> id]
          /\ s.key.label \in Labels
        BY <1>8
    <2>4. P(s) \in Placeholder
        BY <1>8, <2>3 DEF Placeholder
    <2> QED
        BY <2>2, <2>4
<1>L. L = Learned(M, known, count, id) /\ E = Entered(M, old, count, id)
    OBVIOUS
<1> HIDE DEF L, E
<1>10. /\ L = [k \in DOMAIN L |-> L[k]]
       /\ Known(L) /\ IsFiniteSet(DOMAIN L)
       /\ DOMAIN L = DOMAIN known \cup {s.key : s \in M}
       /\ \A k \in DOMAIN known : L[k] = known[k]
       /\ \A s \in M : /\ L[s.key].placeholder = P(s)
                       /\ \E n \in Nat : L[s.key] = [placeholder |-> P(s), place |-> n]
    <2>1. \A s \in M : s.key \in Key /\ s.key \notin DOMAIN known
        BY <1>6, <1>7
    <2>2. /\ IsFiniteSet(M) /\ Known(known) /\ IsFiniteSet(DOMAIN known)
          /\ \A s, o \in M : s.key = o.key => s = o
        BY <1>2, <1>6
    <2>3. Taught(L, known, M, count, id)
        <3> HIDE DEF m, C
        <3> QED
            BY <2>1, <2>2, <1>L, LearnedFacts
    <2> QED
        BY <2>3 DEF Taught
<1>11. /\ E = [p \in DOMAIN E |-> E[p]]
       /\ DOMAIN E = DOMAIN old \cup {P(s) : s \in M}
       /\ \A p \in DOMAIN old : E[p] = old[p]
       /\ \A s \in M : E[P(s)] = s.key.text
    BY <1>m, <1>9, <1>L, EnteredFacts
<1>12. byValue'[id] = L /\ entries'[id] = E /\ counters'[id] = C
    BY <1>1, <1>2
<1> HIDE DEF C, P
<1>13. \A s \in S : s.key \in DOMAIN L
    BY <1>6, <1>10
<1>14. ASSUME NEW k \in DOMAIN L \ DOMAIN known
       PROVE  /\ k \in Key
              /\ L[k] \in [placeholder : Placeholder, place : Nat]
              /\ L[k].placeholder \in DOMAIN E
              /\ E[L[k].placeholder] = k.text
              /\ L[k].placeholder.label = k.label
              /\ L[k].placeholder.session = id
    <2>1. PICK s \in M : k = s.key
        BY <1>10
    <2>2. L[k].placeholder = P(s) /\ P(s) \in DOMAIN E /\ E[P(s)] = k.text
        BY <1>10, <1>11, <2>1
    <2>3. PICK n \in Nat : L[k] = [placeholder |-> P(s), place |-> n]
        BY <1>10, <2>1
    <2>4. L[k] \in [placeholder : Placeholder, place : Nat]
        BY <1>9, <2>3
    <2> QED
        BY <1>7, <1>8, <2>1, <2>2, <2>4
<1>15. ASSUME NEW p \in DOMAIN E \ DOMAIN old
       PROVE  /\ p \in Placeholder /\ p.session = id
              /\ p.idx < C[p.label]
              /\ E[p] \in Seq(Char)
    <2>1. PICK s \in M : p = P(s)
        BY <1>11
    <2>2. E[p] = s.key.text /\ s.key \in Key
        BY <1>7, <1>11, <2>1
    <2>3. E[p] \in Seq(Char)
        BY <2>2 DEF Key
    <2> QED
        BY <1>8, <1>9, <2>1, <2>3
<1>16. DOMAIN known \subseteq DOMAIN L /\ DOMAIN old \subseteq DOMAIN E
    BY <1>10, <1>11
<1>17. m = [session |-> id, request |-> request,
            cover |-> {[start |-> s.start, end |-> s.end,
                        placeholder |-> L[s.key].placeholder] : s \in S}]
    OBVIOUS
<1> HIDE DEF m
<1>22. ASSUME NEW p \in DOMAIN E \ DOMAIN old
       PROVE  \E s \in S : L[s.key].placeholder = p
    <2>1. PICK s \in M : p = P(s)
        BY <1>11
    <2> QED
        BY <1>6, <1>10, <2>1
<1>23. S = Merged(request.text, Members(request.text, request.spans, byValue[id]))
    BY DEF S, t, known
<1>24. \A p \in DOMAIN entries'[id] \ DOMAIN entries[id] :
          \E s \in S : byValue'[id][s.key].placeholder = p
    BY <1>12, <1>22 DEF old
<1> HIDE DEF S
<1>18. Taken(id, request, S, m)
    <2>1. SpanSet(S, request.text)
        BY <1>4 DEF t
    <2>2. m = [session |-> id, request |-> request,
               cover |-> {[start |-> s.start, end |-> s.end,
                           placeholder |-> byValue'[id][s.key].placeholder] : s \in S}]
        BY <1>12, <1>17
    <2>3. \A s \in S : s.key \in DOMAIN byValue'[id]
        BY <1>12, <1>13
    <2>4. /\ byValue' = [byValue EXCEPT ![id] = byValue'[id]]
          /\ entries' = [entries EXCEPT ![id] = entries'[id]]
          /\ counters' = [counters EXCEPT ![id] = counters'[id]]
        BY <1>1, <1>12
    <2> QED
        BY <1>1, <2>1, <2>2, <2>3, <2>4, <1>23, <1>24 DEF Taken
<1>19. Climbs(count, C)
    BY <1>m DEF Climbs
<1>20. Teaches(known, L, E, id)
    BY <1>10, <1>14, <1>16 DEF Teaches
<1>21. Holds(old, E, C, id)
    BY <1>11, <1>15, <1>16 DEF Holds
<1> QED
    BY <1>12, <1>18, <1>19, <1>20, <1>21 DEF known, old, count

\* What the output of a call covers, and by what.
Written(id, request, S, m) ==
    /\ m.session = id /\ m.request = request
    /\ \A c \in m.cover :
          \E s \in S : /\ c.start = s.start /\ c.end = s.end
                     /\ c.placeholder = byValue'[id][s.key].placeholder
                     /\ s.key \in DOMAIN byValue'[id]
                     /\ s.key = [label |-> s.key.label,
                                text |-> Slice(request.text, c)]
    /\ \A c, d \in m.cover : c = d \/ c.end <= d.start \/ d.end <= c.start

LEMMA OutputFacts ==
    ASSUME NEW id, NEW request, NEW S, NEW m, Taken(id, request, S, m)
    PROVE  Written(id, request, S, m)
<1>1. /\ m = [session |-> id, request |-> request,
              cover |-> {[start |-> s.start, end |-> s.end,
                          placeholder |-> byValue'[id][s.key].placeholder] : s \in S}]
      /\ \A s \in S : s.key \in DOMAIN byValue'[id]
      /\ SpanSet(S, request.text)
    BY DEF Taken
<1>2. \A c \in m.cover : \E s \in S :
         c = [start |-> s.start, end |-> s.end,
              placeholder |-> byValue'[id][s.key].placeholder]
    BY <1>1
<1>3. ASSUME NEW c \in m.cover
      PROVE  \E s \in S : /\ c.start = s.start /\ c.end = s.end
                         /\ c.placeholder = byValue'[id][s.key].placeholder
                         /\ s.key \in DOMAIN byValue'[id]
                         /\ s.key = [label |-> s.key.label,
                                    text |-> Slice(request.text, c)]
    <2>1. PICK s \in S : c = [start |-> s.start, end |-> s.end,
                             placeholder |-> byValue'[id][s.key].placeholder]
        BY <1>2
    <2>2. s.key \in Key /\ s.key.text = Slice(request.text, s)
        BY <1>1 DEF SpanSet
    <2>3. Slice(request.text, s) = Slice(request.text, c)
        BY <2>1 DEF Slice
    <2>4. s.key = [label |-> s.key.label, text |-> Slice(request.text, c)]
        BY <2>2, <2>3 DEF Key
    <2> QED
        BY <1>1, <2>1, <2>4
<1>4. ASSUME NEW c \in m.cover, NEW d \in m.cover
      PROVE  c = d \/ c.end <= d.start \/ d.end <= c.start
    <2>1. PICK s \in S : c = [start |-> s.start, end |-> s.end,
                             placeholder |-> byValue'[id][s.key].placeholder]
        BY <1>2
    <2>2. PICK o \in S : d = [start |-> o.start, end |-> o.end,
                             placeholder |-> byValue'[id][o.key].placeholder]
        BY <1>2
    <2>3. s = o \/ s.end <= o.start \/ o.end <= s.start
        BY <1>1 DEF SpanSet
    <2> QED
        BY <2>1, <2>2, <2>3
<1> QED
    BY <1>1, <1>3, <1>4 DEF Written

(***************************************************************************)
(* The invariants                                                          *)
(***************************************************************************)
LEMMA InitHolds ==
    Init => TypeOK /\ Consistent
BY DEF Init, TypeOK, Consistent

\* A record of byValue bears a placeholder of its label.
LEMMA SanitizeKeepsTypes ==
    ASSUME TypeOK, Consistent, NEW id \in Ids, NEW request \in Requests,
           Sanitize(id, request)
    PROVE  TypeOK'
<1>1. PICK S, m : Taken(id, request, S, m)
    BY SanitizeFacts
<1>2. /\ Climbs(counters[id], counters'[id])
      /\ Teaches(byValue[id], byValue'[id], entries'[id], id)
      /\ Holds(entries[id], entries'[id], counters'[id], id)
    BY SanitizeFacts
<1>3. /\ id \in live /\ live' = live /\ used' = used
      /\ byValue' = [byValue EXCEPT ![id] = byValue'[id]]
      /\ entries' = [entries EXCEPT ![id] = entries'[id]]
      /\ counters' = [counters EXCEPT ![id] = counters'[id]]
      /\ sent' = sent \cup {m}
    BY <1>1 DEF Taken
<1>4. /\ live' \subseteq used' /\ used' \subseteq Ids
      /\ DOMAIN entries' = live' /\ DOMAIN counters' = live' /\ DOMAIN byValue' = live'
    BY <1>3 DEF TypeOK
<1>5. \A s \in live' : s # id => /\ entries'[s] = entries[s]
                                /\ counters'[s] = counters[s]
                                /\ byValue'[s] = byValue[s]
    BY <1>3 DEF TypeOK
<1>6. ASSUME NEW s \in live'
      PROVE  /\ entries'[s] = [p \in DOMAIN entries'[s] |-> entries'[s][p]]
             /\ DOMAIN entries'[s] \subseteq Placeholder
             /\ \A p \in DOMAIN entries'[s] : entries'[s][p] \in Seq(Char)
    <2>1. CASE s = id
        BY <1>2, <1>3, <2>1 DEF TypeOK, Holds
    <2>2. CASE s # id
        BY <1>3, <1>5, <2>2 DEF TypeOK
    <2> QED
        BY <2>1, <2>2
<1>7. ASSUME NEW s \in live'
      PROVE  counters'[s] \in [Labels -> Nat]
    BY <1>2, <1>3, <1>5 DEF TypeOK, Climbs
<1>8. ASSUME NEW s \in live'
      PROVE  /\ byValue'[s] = [k \in DOMAIN byValue'[s] |-> byValue'[s][k]]
             /\ DOMAIN byValue'[s] \subseteq Key
             /\ IsFiniteSet(DOMAIN byValue'[s])
             /\ \A k \in DOMAIN byValue'[s] :
                   byValue'[s][k] \in [placeholder : Placeholder, place : Nat]
    <2>1. CASE s = id
        BY <1>2, <1>3, <2>1 DEF TypeOK, Teaches
    <2>2. CASE s # id
        BY <1>3, <1>5, <2>2 DEF TypeOK
    <2> QED
        BY <2>1, <2>2
<1>10. Written(id, request, S, m)
    BY <1>1, OutputFacts
<1>9. ASSUME NEW n \in sent'
      PROVE  /\ n.session \in used' /\ n.request \in Requests
             /\ \A c \in n.cover : c.placeholder \in Placeholder
    <2>1. CASE n \in sent
        BY <1>3, <2>1 DEF TypeOK
    <2>2. CASE n = m
        <3>1. m.session = id /\ m.request = request /\ id \in used'
            BY <1>3, <1>10 DEF TypeOK, Written
        <3>2. ASSUME NEW c \in m.cover PROVE c.placeholder \in Placeholder
            <4>1. PICK k \in DOMAIN byValue'[id] : c.placeholder = byValue'[id][k].placeholder
                BY <1>10 DEF Written
            <4> QED
                BY <1>3, <1>8, <4>1
        <3> QED
            BY <2>2, <3>1, <3>2
    <2> QED
        BY <1>3, <2>1, <2>2
<1> QED
    BY <1>4, <1>6, <1>7, <1>8, <1>9 DEF TypeOK

LEMMA SanitizeKeepsConsistent ==
    ASSUME TypeOK, Consistent, NEW id \in Ids, NEW request \in Requests,
           Sanitize(id, request)
    PROVE  Consistent'
<1>1. PICK S, m : Taken(id, request, S, m)
    BY SanitizeFacts
<1>2. /\ Climbs(counters[id], counters'[id])
      /\ Teaches(byValue[id], byValue'[id], entries'[id], id)
      /\ Holds(entries[id], entries'[id], counters'[id], id)
    BY SanitizeFacts
<1>3. /\ id \in live /\ live' = live /\ used' = used
      /\ byValue' = [byValue EXCEPT ![id] = byValue'[id]]
      /\ entries' = [entries EXCEPT ![id] = entries'[id]]
      /\ counters' = [counters EXCEPT ![id] = counters'[id]]
      /\ sent' = sent \cup {m}
    BY <1>1 DEF Taken
<1>4. Written(id, request, S, m)
    BY <1>1, OutputFacts
<1>5. \A s \in live' : s # id => /\ entries'[s] = entries[s]
                                /\ counters'[s] = counters[s]
                                /\ byValue'[s] = byValue[s]
    BY <1>3 DEF TypeOK
<1>6. /\ byValue'[id] = [k \in DOMAIN byValue'[id] |-> byValue'[id][k]]
      /\ \A k \in DOMAIN byValue'[id] :
            LET p == byValue'[id][k].placeholder
            IN  /\ p \in DOMAIN entries'[id] /\ entries'[id][p] = k.text
                /\ p.label = k.label /\ p.session = id
    BY <1>2, <1>3 DEF Consistent, MapsAgree, Teaches, Holds
<1>7. ASSUME NEW p \in DOMAIN entries'[id]
      PROVE  /\ p.session = id /\ p.idx < counters'[id][p.label]
             /\ \E k \in DOMAIN byValue'[id] : byValue'[id][k].placeholder = p
    <2>1. CASE p \in DOMAIN entries[id]
        <3>4. \E k \in DOMAIN byValue'[id] : byValue'[id][k].placeholder = p
            BY <1>2, <1>3, <2>1 DEF Consistent, MapsAgree, Teaches
        <3>1. /\ p.session = id /\ p.idx < counters[id][p.label]
              /\ p \in Placeholder
            BY <1>3, <2>1 DEF Consistent, MapsAgree, TypeOK
        <3>2. /\ p.idx \in Nat /\ p.label \in Labels
            BY <3>1 DEF Placeholder
        <3>3. /\ counters[id] \in [Labels -> Nat] /\ counters'[id] \in [Labels -> Nat]
              /\ counters[id][p.label] <= counters'[id][p.label]
            BY <1>2, <1>3, <3>2 DEF TypeOK, Climbs
        <3> QED
            BY <3>1, <3>2, <3>3, <3>4
    <2>2. CASE p \notin DOMAIN entries[id]
        <3>1. \E k \in DOMAIN byValue'[id] : byValue'[id][k].placeholder = p
            BY <1>1, <2>2 DEF Taken
        <3> QED
            BY <1>2, <2>2, <3>1 DEF Holds
    <2> QED
        BY <2>1, <2>2
<1>8. ASSUME NEW s \in live'
      PROVE  /\ \A k \in DOMAIN byValue'[s] :
                   LET p == byValue'[s][k].placeholder
                   IN  /\ p \in DOMAIN entries'[s] /\ entries'[s][p] = k.text
                       /\ p.label = k.label /\ p.session = s
             /\ \A p \in DOMAIN entries'[s] :
                   /\ p.session = s /\ p.idx < counters'[s][p.label]
                   /\ \E k \in DOMAIN byValue'[s] : byValue'[s][k].placeholder = p
    <2>1. CASE s = id
        BY <1>6, <1>7, <2>1
    <2>2. CASE s # id
        BY <1>3, <1>5, <2>2 DEF Consistent, MapsAgree
    <2> QED
        BY <2>1, <2>2
<1>9. ASSUME NEW n \in sent'
      PROVE  /\ \A c \in n.cover : c.placeholder.session = n.session
             /\ \A c, d \in n.cover : c = d \/ c.end <= d.start \/ d.end <= c.start
             /\ n.session \in live' =>
                   \A c \in n.cover :
                       LET k == [label |-> c.placeholder.label,
                                 text |-> Slice(n.request.text, c)]
                       IN  /\ k \in DOMAIN byValue'[n.session]
                           /\ byValue'[n.session][k].placeholder = c.placeholder
    <2>1. CASE n \in sent
        <3>1. /\ \A c \in n.cover : c.placeholder.session = n.session
              /\ \A c, d \in n.cover : c = d \/ c.end <= d.start \/ d.end <= c.start
            BY <2>1 DEF Consistent, OutputAgrees
        <3>2. ASSUME n.session \in live', NEW c \in n.cover, NEW k,
                     k = [label |-> c.placeholder.label,
                          text |-> Slice(n.request.text, c)]
              PROVE  /\ k \in DOMAIN byValue'[n.session]
                     /\ byValue'[n.session][k].placeholder = c.placeholder
            <4>1. /\ k \in DOMAIN byValue[n.session]
                  /\ byValue[n.session][k].placeholder = c.placeholder
                BY <1>3, <2>1, <3>2 DEF Consistent, OutputAgrees
            <4>2. CASE n.session = id
                BY <1>2, <4>1, <4>2 DEF Teaches
            <4>3. CASE n.session # id
                BY <1>5, <3>2, <4>1, <4>3
            <4> QED
                BY <4>2, <4>3
        <3> QED
            BY <3>1, <3>2
    <2>2. CASE n = m
        <3>1. ASSUME NEW c \in m.cover
              PROVE  /\ c.placeholder.session = id
                     /\ LET k == [label |-> c.placeholder.label,
                                  text |-> Slice(request.text, c)]
                        IN  /\ k \in DOMAIN byValue'[id]
                            /\ byValue'[id][k].placeholder = c.placeholder
            <4>1. PICK s \in S :
                      /\ c.placeholder = byValue'[id][s.key].placeholder
                      /\ s.key \in DOMAIN byValue'[id]
                      /\ s.key = [label |-> s.key.label,
                                 text |-> Slice(request.text, c)]
                BY <1>4 DEF Written
            <4>2. c.placeholder.label = s.key.label /\ c.placeholder.session = id
                BY <1>6, <4>1
            <4> QED
                BY <4>1, <4>2
        <3> QED
            BY <1>4, <2>2, <3>1 DEF Written
    <2> QED
        BY <1>3, <2>1, <2>2
<1> QED
    BY <1>8, <1>9 DEF Consistent, MapsAgree, OutputAgrees

LEMMA CreateKeeps ==
    ASSUME TypeOK, Consistent, NEW id \in Ids, CreateSession(id)
    PROVE  TypeOK' /\ Consistent'
<1>1. /\ id \notin used /\ live' = live \cup {id} /\ used' = used \cup {id}
      /\ sent' = sent
      /\ DOMAIN entries' = live' /\ DOMAIN counters' = live' /\ DOMAIN byValue' = live'
    BY DEF CreateSession
<1>2. \A s \in live' : s # id => /\ s \in live
                                /\ entries'[s] = entries[s]
                                /\ counters'[s] = counters[s]
                                /\ byValue'[s] = byValue[s]
    BY <1>1 DEF CreateSession
<1>3. /\ entries'[id] = << >> /\ byValue'[id] = << >>
      /\ counters'[id] = [l \in Labels |-> 0]
    BY <1>1 DEF CreateSession
<1>4. \A n \in sent : n.session # id /\ (n.session \in live' => n.session \in live)
    BY <1>1 DEF TypeOK
<1>5. << >> = [x \in {} |-> << >>[x]] /\ DOMAIN << >> = {}
    OBVIOUS
<1>6. IsFiniteSet({})
    BY FS_EmptySet
<1>7. TypeOK'
    <2>1. ASSUME NEW s \in live'
          PROVE  /\ entries'[s] = [p \in DOMAIN entries'[s] |-> entries'[s][p]]
                 /\ DOMAIN entries'[s] \subseteq Placeholder
                 /\ \A p \in DOMAIN entries'[s] : entries'[s][p] \in Seq(Char)
                 /\ counters'[s] \in [Labels -> Nat]
                 /\ byValue'[s] = [k \in DOMAIN byValue'[s] |-> byValue'[s][k]]
                 /\ DOMAIN byValue'[s] \subseteq Key
                 /\ IsFiniteSet(DOMAIN byValue'[s])
                 /\ \A k \in DOMAIN byValue'[s] :
                        byValue'[s][k] \in [placeholder : Placeholder, place : Nat]
        <3>1. CASE s = id
            BY <1>3, <1>5, <1>6, <3>1
        <3>2. CASE s # id
            BY <1>2, <3>2 DEF TypeOK
        <3> QED
            BY <3>1, <3>2
    <2>2. /\ used' \subseteq Ids /\ live' \subseteq used'
          /\ \A n \in sent' : /\ n.session \in used' /\ n.request \in Requests
                              /\ \A c \in n.cover : c.placeholder \in Placeholder
        BY <1>1 DEF TypeOK
    <2> QED
        BY <1>1, <2>1, <2>2 DEF TypeOK
<1>8. Consistent'
    <2>1. ASSUME NEW s \in live'
          PROVE  /\ \A k \in DOMAIN byValue'[s] :
                       LET p == byValue'[s][k].placeholder
                       IN  /\ p \in DOMAIN entries'[s] /\ entries'[s][p] = k.text
                           /\ p.label = k.label /\ p.session = s
                 /\ \A p \in DOMAIN entries'[s] :
                       /\ p.session = s /\ p.idx < counters'[s][p.label]
                       /\ \E k \in DOMAIN byValue'[s] : byValue'[s][k].placeholder = p
        <3>1. CASE s = id
            BY <1>3, <1>5, <3>1
        <3>2. CASE s # id
            BY <1>2, <3>2 DEF Consistent, MapsAgree
        <3> QED
            BY <3>1, <3>2
    <2>2. ASSUME NEW n \in sent, n.session \in live'
          PROVE  n.session \in live /\ byValue'[n.session] = byValue[n.session]
        BY <1>2, <1>4, <2>2
    <2> QED
        BY <1>1, <2>1, <2>2 DEF Consistent, MapsAgree, OutputAgrees
<1> QED
    BY <1>7, <1>8

LEMMA ForgetKeeps ==
    ASSUME TypeOK, Consistent, NEW gone, Forget(gone)
    PROVE  TypeOK' /\ Consistent'
<1>1. /\ live' \subseteq live /\ used' = used /\ sent' = sent
      /\ DOMAIN entries' = live' /\ DOMAIN counters' = live' /\ DOMAIN byValue' = live'
      /\ \A s \in live' : /\ entries'[s] = entries[s]
                          /\ counters'[s] = counters[s]
                          /\ byValue'[s] = byValue[s]
    BY DEF Forget
<1>2. TypeOK'
    BY <1>1 DEF TypeOK
<1>3. Consistent'
    <2>1. ASSUME NEW s \in live'
          PROVE  /\ \A k \in DOMAIN byValue'[s] :
                       LET p == byValue'[s][k].placeholder
                       IN  /\ p \in DOMAIN entries'[s] /\ entries'[s][p] = k.text
                           /\ p.label = k.label /\ p.session = s
                 /\ \A p \in DOMAIN entries'[s] :
                       /\ p.session = s /\ p.idx < counters'[s][p.label]
                       /\ \E k \in DOMAIN byValue'[s] : byValue'[s][k].placeholder = p
        <3>1. MapsAgree(s)
            BY <1>1 DEF Consistent
        <3> QED
            BY <1>1, <3>1 DEF MapsAgree
    <2>2. ASSUME NEW n \in sent, n.session \in live'
          PROVE  n.session \in live /\ byValue'[n.session] = byValue[n.session]
        BY <1>1, <2>2
    <2> QED
        BY <1>1, <2>1, <2>2 DEF Consistent, MapsAgree, OutputAgrees
<1> QED
    BY <1>2, <1>3

\* What every step does to the sessions and the outputs: an output that is
\* new belongs to a session that is live.
LEMMA StepKeeps ==
    ASSUME TypeOK, Consistent, [Next]_vars
    PROVE  /\ TypeOK' /\ Consistent'
           /\ \A n \in sent' : n \in sent \/ n.session \in live'
<1>1. CASE \E id \in Ids : CreateSession(id)
    BY <1>1, CreateKeeps DEF CreateSession
<1>2. ASSUME NEW id \in live, NEW request \in Requests, Sanitize(id, request)
      PROVE  /\ TypeOK' /\ Consistent'
             /\ \A n \in sent' : n \in sent \/ n.session \in live'
    <2>1. id \in Ids
        BY DEF TypeOK
    <2>2. TypeOK' /\ Consistent'
        BY <1>2, <2>1, SanitizeKeepsTypes, SanitizeKeepsConsistent
    <2>3. PICK S, m : Taken(id, request, S, m)
        BY <1>2, <2>1, SanitizeFacts
    <2>4. sent' = sent \cup {m} /\ m.session = id /\ live' = live
        BY <2>3 DEF Taken
    <2> QED
        BY <2>2, <2>4
<1>3. ASSUME NEW gone, Forget(gone)
      PROVE  /\ TypeOK' /\ Consistent'
             /\ \A n \in sent' : n \in sent \/ n.session \in live'
    BY <1>3, ForgetKeeps DEF Forget
<1>4. CASE UNCHANGED vars
    BY <1>4 DEF vars, TypeOK, Consistent, MapsAgree, OutputAgrees
<1> QED
    BY <1>1, <1>2, <1>3, <1>4 DEF Next, DestroySession, Clear

\* The variables hold what their types say, whatever is asked of the vault.
THEOREM TypeCorrect == Spec => []TypeOK
<1>1. Init => TypeOK /\ Consistent
    BY InitHolds
<1>2. TypeOK /\ Consistent /\ [Next]_vars => TypeOK' /\ Consistent'
    BY StepKeeps
<1> QED
    BY <1>1, <1>2, PTL DEF Spec

\* The three maps of every session and all its outputs agree, always.
THEOREM AlwaysConsistent == Spec => []Consistent
<1>1. Init => TypeOK /\ Consistent
    BY InitHolds
<1>2. TypeOK /\ Consistent /\ [Next]_vars => TypeOK' /\ Consistent'
    BY StepKeeps
<1> QED
    BY <1>1, <1>2, PTL DEF Spec

LEMMA ConsistentRestores == TypeOK /\ Consistent => RoundTrip
<1> SUFFICES ASSUME TypeOK, Consistent,
                    NEW m \in sent, m.session \in live, NEW c \in m.cover
             PROVE  /\ RestoreOf(m.session, c.placeholder) =
                          [outcome |-> "restored", text |-> Slice(m.request.text, c)]
                    /\ \A d \in m.cover : d = c \/ d.end <= c.start \/ c.end <= d.start
    BY DEF RoundTrip
<1> DEFINE k == [label |-> c.placeholder.label, text |-> Slice(m.request.text, c)]
<1>1. /\ k \in DOMAIN byValue[m.session]
      /\ byValue[m.session][k].placeholder = c.placeholder
      /\ c.placeholder.session = m.session
    BY DEF Consistent, OutputAgrees
<1>2. /\ c.placeholder \in DOMAIN entries[m.session]
      /\ entries[m.session][c.placeholder] = k.text
    <2> HIDE DEF k
    <2> QED
        BY <1>1 DEF Consistent, MapsAgree
<1>3. \A d \in m.cover : d = c \/ d.end <= c.start \/ c.end <= d.start
    BY DEF Consistent, OutputAgrees
<1> QED
    BY <1>1, <1>2, <1>3 DEF RestoreOf

\* Whatever was masked can be restored exactly while its session lives.
THEOREM RestoresExactly == Spec => []RoundTrip
<1> QED
    BY TypeCorrect, AlwaysConsistent, ConsistentRestores, PTL

\* An output of a live session against any other: their placeholders agree
\* exactly as their values do.
LiveAgree ==
    \A m, n \in sent : m.session \in live =>
        \A c \in m.cover, d \in n.cover :
            /\ c.placeholder = d.placeholder =>
                   Slice(m.request.text, c) = Slice(n.request.text, d)
            /\ /\ m.session = n.session
               /\ c.placeholder.label = d.placeholder.label
               /\ Slice(m.request.text, c) = Slice(n.request.text, d)
               => c.placeholder = d.placeholder

LEMMA ConsistentAgrees == Consistent => LiveAgree
<1> SUFFICES ASSUME Consistent, NEW m \in sent, NEW n \in sent, m.session \in live,
                    NEW c \in m.cover, NEW d \in n.cover
             PROVE  /\ c.placeholder = d.placeholder =>
                          Slice(m.request.text, c) = Slice(n.request.text, d)
                    /\ /\ m.session = n.session
                       /\ c.placeholder.label = d.placeholder.label
                       /\ Slice(m.request.text, c) = Slice(n.request.text, d)
                       => c.placeholder = d.placeholder
    BY DEF LiveAgree
<1> DEFINE j == [label |-> c.placeholder.label, text |-> Slice(m.request.text, c)]
           k == [label |-> d.placeholder.label, text |-> Slice(n.request.text, d)]
<1>1. /\ c.placeholder.session = m.session /\ d.placeholder.session = n.session
      /\ j \in DOMAIN byValue[m.session]
      /\ byValue[m.session][j].placeholder = c.placeholder
    BY DEF Consistent, OutputAgrees
<1>2. n.session = m.session => /\ k \in DOMAIN byValue[m.session]
                               /\ byValue[m.session][k].placeholder = d.placeholder
    <2>1. n.session \in live => /\ k \in DOMAIN byValue[n.session]
                                /\ byValue[n.session][k].placeholder = d.placeholder
        BY DEF Consistent, OutputAgrees
    <2> QED
        BY <2>1
<1>3. ASSUME c.placeholder = d.placeholder
      PROVE  Slice(m.request.text, c) = Slice(n.request.text, d)
    <2> HIDE DEF j, k
    <2>1. entries[m.session][c.placeholder] = j.text
        BY <1>1 DEF Consistent, MapsAgree
    <2>2. entries[m.session][d.placeholder] = k.text
        BY <1>1, <1>2, <1>3 DEF Consistent, MapsAgree
    <2> QED
        BY <1>3, <2>1, <2>2 DEF j, k
<1>4. ASSUME m.session = n.session,
             c.placeholder.label = d.placeholder.label,
             Slice(m.request.text, c) = Slice(n.request.text, d)
      PROVE  c.placeholder = d.placeholder
    BY <1>1, <1>2, <1>4
<1> QED
    BY <1>3, <1>4

\* No placeholder ever stands for two values.
THEOREM NeverAmbiguous == Spec => []Unambiguous
<1>1. Init => Unambiguous
    BY DEF Init, Unambiguous
<1>2. ASSUME TypeOK, Consistent, [Next]_vars, LiveAgree', Unambiguous
      PROVE  Unambiguous'
    <2>1. \A n \in sent' : n \in sent \/ n.session \in live'
        BY <1>2, StepKeeps
    <2>2. ASSUME NEW m \in sent', NEW n \in sent', NEW c \in m.cover, NEW d \in n.cover,
                 c.placeholder = d.placeholder
          PROVE  Slice(m.request.text, c) = Slice(n.request.text, d)
        <3>1. CASE m \in sent /\ n \in sent
            BY <1>2, <2>2, <3>1 DEF Unambiguous
        <3>2. CASE m.session \in live'
            BY <1>2, <2>2, <3>2 DEF LiveAgree
        <3>3. CASE n.session \in live'
            BY <1>2, <2>2, <3>3 DEF LiveAgree
        <3> QED
            BY <2>1, <3>1, <3>2, <3>3
    <2> QED
        BY <2>2 DEF Unambiguous
<1> QED
    BY <1>1, <1>2, TypeCorrect, AlwaysConsistent, ConsistentAgrees, PTL DEF Spec

\* In a session a value and its label have one placeholder for good.
THEOREM OneTokenForAll == Spec => []OneTokenPerLabel
<1>1. Init => OneTokenPerLabel
    BY DEF Init, OneTokenPerLabel
<1>2. ASSUME TypeOK, Consistent, [Next]_vars, LiveAgree', OneTokenPerLabel
      PROVE  OneTokenPerLabel'
    <2>1. \A n \in sent' : n \in sent \/ n.session \in live'
        BY <1>2, StepKeeps
    <2>2. ASSUME NEW m \in sent', NEW n \in sent', NEW c \in m.cover, NEW d \in n.cover,
                 m.session = n.session,
                 c.placeholder.label = d.placeholder.label,
                 Slice(m.request.text, c) = Slice(n.request.text, d)
          PROVE  c.placeholder = d.placeholder
        <3>1. CASE m \in sent /\ n \in sent
            BY <1>2, <2>2, <3>1 DEF OneTokenPerLabel
        <3>2. CASE m.session \in live'
            BY <1>2, <2>2, <3>2 DEF LiveAgree
        <3> QED
            BY <2>1, <2>2, <3>1, <3>2
    <2> QED
        BY <2>2 DEF OneTokenPerLabel
<1> QED
    BY <1>1, <1>2, TypeCorrect, AlwaysConsistent, ConsistentAgrees, PTL DEF Spec

(***************************************************************************)
(* The promise                                                             *)
(***************************************************************************)
\* The promise and the vault read texts alike.
LEMMA SameReading ==
    /\ \A s, p : Promise!Covers(s, p) <=> Covers(s, p)
    /\ \A t, s : Promise!Slice(t, s) = Slice(t, s)
    /\ \A t, v, at : Promise!FoundAt(t, v, at) <=> FoundAt(t, v, at)
<1>1. \A s, p : Promise!Covers(s, p) <=> Covers(s, p)
    BY DEF Promise!Covers, Covers
<1>2. \A t, s : Promise!Slice(t, s) = Slice(t, s)
    BY DEF Promise!Slice, Slice
<1>3. \A t, p : Promise!Joined(t, p) <=> Joined(t, p)
    BY DEF Promise!Joined, Joined
<1>4. \A t, v, at : Promise!OccursAt(t, v, at) <=> OccursAt(t, v, at)
    BY DEF Promise!OccursAt, OccursAt
<1>5. \A t, v, at : Promise!FoundAt(t, v, at) <=> FoundAt(t, v, at)
    BY <1>3, <1>4 DEF Promise!FoundAt, FoundAt, Promise!WholeWord, WholeWord
<1> QED
    BY <1>1, <1>2, <1>5

\* What the cover of a call hides is what the detector found and what the
\* session knew.
LEMMA CoverHidesJustThat ==
    ASSUME TypeOK, Consistent, NEW id \in Ids, NEW request \in Requests,
           NEW S, NEW m, Taken(id, request, S, m)
    PROVE  Promise!HidesJustThat(id, request, m.cover)
<1> DEFINE t == request.text
           known == byValue[id]
           members == Members(t, request.spans, known)
<1>1. /\ id \in live /\ S = Merged(t, members)
      /\ m = [session |-> id, request |-> request,
              cover |-> {[start |-> s.start, end |-> s.end,
                          placeholder |-> byValue'[id][s.key].placeholder] : s \in S}]
    BY DEF Taken
<1>2. /\ Known(known) /\ MapsAgree(id)
      /\ \A k \in DOMAIN known : known[k].place \in Nat
    BY <1>1 DEF TypeOK, Consistent, Known
<1>3. t \in Seq(Char) /\ Len(t) \in Nat /\ DOMAIN t = 1..Len(t)
    BY VaultAssumption
<1>4. \A n \in members : IsMember(n, t)
    BY <1>2, MembersAreSpans
<1> SUFFICES ASSUME NEW p \in DOMAIN t
             PROVE  (\E c \in m.cover : Covers(c, p)) <=>
                    (Promise!ShownByDetector(request, p)
                     \/ Promise!KnownBefore(id, t, p))
    BY SameReading DEF Promise!HidesJustThat
<1>5. (\E c \in m.cover : Covers(c, p)) <=> \E s \in S : Covers(s, p)
    <2> DEFINE Piece(s) == [start |-> s.start, end |-> s.end,
                            placeholder |-> byValue'[id][s.key].placeholder]
    <2>1. m.cover = {Piece(s) : s \in S}
        BY <1>1
    <2>2. \A s : Covers(Piece(s), p) <=> Covers(s, p)
        BY DEF Covers
    <2> HIDE DEF Piece
    <2> QED
        BY <2>1, <2>2
<1> HIDE DEF members
<1>6. (\E s \in S : Covers(s, p)) <=> \E r \in Runs(t, members) : Covers(r, p)
    <2> DEFINE Whole(r) == [start |-> r.start, end |-> r.end,
                            key |-> [label |-> MergedLabel(r, members),
                                     text |-> Slice(t, r)]]
    <2>1. S = {Whole(r) : r \in Runs(t, members)}
        BY <1>1 DEF Merged
    <2>2. \A r : Covers(Whole(r), p) <=> Covers(r, p)
        BY DEF Covers
    <2> HIDE DEF Whole
    <2> QED
        BY <2>1, <2>2
<1>7. (\E r \in Runs(t, members) : Covers(r, p)) <=>
      \E n \in members : Covers(n[1], p)
    BY <1>3, <1>4, RunsCover
<1>8. (\E n \in members : Covers(n[1], p)) <=>
      \/ \E i \in DOMAIN request.spans : Covers(request.spans[i], p)
      \/ \E k \in Sought(known), at \in DOMAIN t :
            FoundAt(t, k.text, at) /\ at <= p /\ p < at + Len(k.text)
    BY <1>2, <1>3, MembersCover DEF members
<1>9. (\E k \in Sought(known), at \in DOMAIN t :
          FoundAt(t, k.text, at) /\ at <= p /\ p < at + Len(k.text)) <=>
      Promise!KnownBefore(id, t, p)
    <2>1. Meanings[id] = {<<q, entries[id][q]>> : q \in DOMAIN entries[id]}
        BY <1>1 DEF Meanings
    <2>2. ASSUME NEW k \in Sought(known)
          PROVE  Len(k.text) >= MinKnown /\ \E x \in Meanings[id] : x[2] = k.text
        <3>1. k \in DOMAIN known /\ Len(k.text) >= MinKnown
            BY DEF Sought
        <3>2. known[k].placeholder \in DOMAIN entries[id]
              /\ entries[id][known[k].placeholder] = k.text
            BY <1>2, <3>1 DEF MapsAgree
        <3> DEFINE x == <<known[k].placeholder, entries[id][known[k].placeholder]>>
        <3>3. x \in Meanings[id]
            BY <2>1, <3>2
        <3>4. x[2] = k.text
            BY <3>2
        <3> HIDE DEF x
        <3> QED
            BY <3>1, <3>3, <3>4
    <2>3. ASSUME NEW x \in Meanings[id], Len(x[2]) >= MinKnown
          PROVE  \E k \in Sought(known) : k.text = x[2]
        <3>1. PICK q \in DOMAIN entries[id] : x = <<q, entries[id][q]>>
            BY <2>1
        <3>2. PICK k \in DOMAIN known : known[k].placeholder = q
            BY <1>2 DEF MapsAgree
        <3>3. k.text = x[2]
            BY <1>2, <3>1, <3>2 DEF MapsAgree
        <3> QED
            BY <1>2, <2>3, <3>3, SoughtIsKnown
    <2> DEFINE Shows(v, at) == FoundAt(t, v, at) /\ at <= p /\ p < at + Len(v)
    <2>4. Promise!KnownBefore(id, t, p) <=>
              \E x \in Meanings[id], at \in DOMAIN t :
                  Len(x[2]) >= MinKnown /\ Shows(x[2], at)
        BY SameReading DEF Promise!KnownBefore
    <2> HIDE DEF Shows
    <2>5. (\E k \in Sought(known), at \in DOMAIN t : Shows(k.text, at)) <=>
          \E x \in Meanings[id], at \in DOMAIN t :
              Len(x[2]) >= MinKnown /\ Shows(x[2], at)
        BY <2>2, <2>3
    <2> QED
        BY <2>4, <2>5 DEF Shows
<1>10. Promise!ShownByDetector(request, p) <=>
           \E i \in DOMAIN request.spans : Covers(request.spans[i], p)
    BY SameReading DEF Promise!ShownByDetector
<1> QED
    BY <1>5, <1>6, <1>7, <1>8, <1>9, <1>10

\* A call adds what its output means, and nothing else.
LEMMA MeaningsGrow ==
    ASSUME TypeOK, Consistent, Consistent', NEW id \in Ids, NEW request \in Requests,
           NEW S, NEW m, Taken(id, request, S, m),
           Holds(entries[id], entries'[id], counters'[id], id)
    PROVE  Meanings' = [Meanings EXCEPT ![id] = @ \cup Promise!Meant(m)]
<1>1. /\ id \in live /\ live' = live /\ m \in sent'
      /\ m.session = id /\ m.request = request
      /\ m.cover = {[start |-> s.start, end |-> s.end,
                     placeholder |-> byValue'[id][s.key].placeholder] : s \in S}
      /\ entries' = [entries EXCEPT ![id] = entries'[id]]
    BY DEF Taken
<1>2. MapsAgree(id)' /\ OutputAgrees(m)'
    BY <1>1 DEF Consistent
<1>3. \A p \in DOMAIN entries[id] : p \in DOMAIN entries'[id] /\ entries'[id][p] = entries[id][p]
    BY DEF Holds
<1>4. ASSUME NEW c \in m.cover
      PROVE  /\ c.placeholder \in DOMAIN entries'[id]
             /\ entries'[id][c.placeholder] = Slice(request.text, c)
    <2> DEFINE k == [label |-> c.placeholder.label, text |-> Slice(request.text, c)]
    <2>1. k \in DOMAIN byValue'[id] /\ byValue'[id][k].placeholder = c.placeholder
        BY <1>1, <1>2 DEF OutputAgrees
    <2>2. k.text = Slice(request.text, c)
        OBVIOUS
    <2> HIDE DEF k
    <2> QED
        BY <1>2, <2>1, <2>2 DEF MapsAgree
<1>5. ASSUME NEW p \in DOMAIN entries'[id] \ DOMAIN entries[id]
      PROVE  \E c \in m.cover : c.placeholder = p
    <2>1. PICK s \in S : byValue'[id][s.key].placeholder = p
        BY DEF Taken
    <2> DEFINE c == [start |-> s.start, end |-> s.end,
                     placeholder |-> byValue'[id][s.key].placeholder]
    <2>2. c \in m.cover
        BY <1>1
    <2>3. c.placeholder = p
        BY <2>1
    <2> QED
        BY <2>2, <2>3
<1> DEFINE now == {<<p, entries'[id][p]>> : p \in DOMAIN entries'[id]}
           was == {<<p, entries[id][p]>> : p \in DOMAIN entries[id]}
<1>11. Promise!Meant(m) = {<<c.placeholder, Slice(request.text, c)>> : c \in m.cover}
    BY <1>1, SameReading DEF Promise!Meant
<1>6. now = was \cup Promise!Meant(m)
    <2>1. ASSUME NEW p \in DOMAIN entries'[id]
          PROVE  <<p, entries'[id][p]>> \in was \cup Promise!Meant(m)
        <3>1. CASE p \in DOMAIN entries[id]
            BY <1>3, <3>1
        <3>2. CASE p \notin DOMAIN entries[id]
            <4>1. PICK c \in m.cover : c.placeholder = p
                BY <1>5, <3>2
            <4> QED
                BY <1>4, <1>11, <4>1
        <3> QED
            BY <3>1, <3>2
    <2>2. ASSUME NEW x \in was PROVE x \in now
        BY <1>3
    <2>3. ASSUME NEW x \in Promise!Meant(m) PROVE x \in now
        <3>1. PICK c \in m.cover : x = <<c.placeholder, Slice(request.text, c)>>
            BY <1>11
        <3> QED
            BY <1>4, <3>1
    <2> QED
        BY <2>1, <2>2, <2>3
<1>7. /\ Meanings = [s \in live |-> {<<p, entries[s][p]>> : p \in DOMAIN entries[s]}]
      /\ Meanings' = [s \in live |-> {<<p, entries'[s][p]>> : p \in DOMAIN entries'[s]}]
    BY <1>1 DEF Meanings
<1>8. \A s \in live : s # id => entries'[s] = entries[s]
    BY <1>1 DEF TypeOK
<1>9. Meanings'[id] = now /\ Meanings[id] = was
    BY <1>1, <1>7
<1>10. \A s \in live : s # id => Meanings'[s] = Meanings[s]
    BY <1>7, <1>8
<1> HIDE DEF now, was
<1> QED
    BY <1>1, <1>6, <1>7, <1>9, <1>10

\* So every call of sanitize is a call the promise allows.
LEMMA SanitizeMasks ==
    ASSUME TypeOK, Consistent, Consistent', NEW id \in Ids, NEW request \in Requests,
           Sanitize(id, request)
    PROVE  Promise!Mask(id, request)
<1>1. PICK S, m : Taken(id, request, S, m)
    BY SanitizeFacts
<1>2. Holds(entries[id], entries'[id], counters'[id], id)
    BY SanitizeFacts
<1>3. /\ id \in live /\ live' = live /\ sent' = sent \cup {m}
      /\ m.session = id /\ m.request = request
    BY <1>1 DEF Taken
<1>4. Promise!Apart(m.cover)
    BY <1>3 DEF Consistent, OutputAgrees, Promise!Apart
<1>5. Promise!HidesJustThat(id, request, m.cover)
    BY <1>1, CoverHidesJustThat
<1>6. Meanings' = [Meanings EXCEPT ![id] = @ \cup Promise!Meant(m)]
    BY <1>1, <1>2, MeaningsGrow
<1>7. \A x, y \in Meanings'[id] : x[1] = y[1] => x[2] = y[2]
    <2>1. Meanings'[id] = {<<p, entries'[id][p]>> : p \in DOMAIN entries'[id]}
        BY <1>3 DEF Meanings
    <2> QED
        BY <2>1
<1> QED
    BY <1>3, <1>4, <1>5, <1>6, <1>7 DEF Promise!Mask

\* The vault implements its promise: whatever it does is a step the promise
\* allows, or changes nothing a caller can see.
THEOREM VaultKeepsItsPromise == Spec => KeepsPromise
<1>1. Init => Promise!Init
    <2> SUFFICES ASSUME Init PROVE Promise!Init
        OBVIOUS
    <2>1. live = {} /\ sent = {}
        BY DEF Init
    <2> QED
        BY <2>1 DEF Promise!Init, Meanings
<1>2. ASSUME TypeOK, Consistent, TypeOK', Consistent', [Next]_vars
      PROVE  [Promise!Next]_(Promise!vars)
    <2>1. ASSUME NEW id \in Ids, CreateSession(id)
          PROVE  Promise!Create(id)
        <3>1. /\ id \notin used /\ live' = live \cup {id} /\ sent' = sent
              /\ entries' = [s \in live' |-> IF s = id THEN << >> ELSE entries[s]]
            BY <2>1 DEF CreateSession
        <3>2. id \notin live /\ \A n \in sent : n.session # id
            BY <1>2, <3>1 DEF TypeOK
        <3>3. Meanings' = [s \in live' |-> IF s = id THEN {} ELSE Meanings[s]]
            <4>1. entries'[id] = << >> /\ \A s \in live : entries'[s] = entries[s]
                BY <3>1, <3>2
            <4>2. {<<p, entries'[id][p]>> : p \in DOMAIN entries'[id]} = {}
                BY <4>1
            <4>3. \A s \in live' :
                     {<<p, entries'[s][p]>> : p \in DOMAIN entries'[s]} =
                     IF s = id THEN {} ELSE Meanings[s]
                BY <3>1, <4>1, <4>2 DEF Meanings
            <4> QED
                BY <4>3 DEF Meanings
        <3> QED
            BY <3>1, <3>2, <3>3 DEF Promise!Create
    <2>2. ASSUME NEW gone \in SUBSET live, Forget(gone)
          PROVE  Promise!Drop(gone)
        <3>1. /\ live' = live \ gone /\ sent' = sent
              /\ entries' = [s \in live' |-> entries[s]]
            BY <2>2 DEF Forget
        <3>2. \A s \in live' :
                 {<<p, entries'[s][p]>> : p \in DOMAIN entries'[s]} = Meanings[s]
            BY <3>1 DEF Meanings
        <3>3. Meanings' = [s \in live' |-> Meanings[s]]
            BY <3>2 DEF Meanings
        <3> QED
            BY <3>1, <3>3 DEF Promise!Drop
    <2>3. ASSUME NEW id \in live, NEW request \in Requests, Sanitize(id, request)
          PROVE  Promise!Mask(id, request)
        <3>1. id \in Ids
            BY <1>2 DEF TypeOK
        <3> QED
            BY <1>2, <2>3, <3>1, SanitizeMasks
    <2>4. CASE UNCHANGED vars
        BY <2>4 DEF vars, Promise!vars, Meanings
    <2> QED
        BY <1>2, <2>1, <2>2, <2>3, <2>4 DEF Next, DestroySession, Clear, Promise!Next
<1> QED
    BY <1>1, <1>2, TypeCorrect, AlwaysConsistent, PTL DEF Spec, KeepsPromise, Promise!Spec

(***************************************************************************)
(* Reading order                                                           *)
(***************************************************************************)
\* Where a placeholder that is new to its session first stands in an output,
\* those of its label to its left have smaller indices.
LEMMA OutputReads ==
    ASSUME TypeOK, Consistent, NEW id \in Ids, NEW request \in Requests,
           Sanitize(id, request), NEW S, NEW m, Taken(id, request, S, m),
           NEW c \in m.cover, NEW d \in m.cover,
           c.start < d.start,
           c.placeholder.label = d.placeholder.label,
           d.placeholder \notin DOMAIN entries[id],
           \A e \in m.cover : e.placeholder = d.placeholder => d.start <= e.start
    PROVE  c.placeholder.idx < d.placeholder.idx
<1> DEFINE known == byValue[id]
           count == counters[id]
           M == Minting(S, known)
           L == byValue'[id]
           P(s) == Minted(s, M, count, id)
           Piece(s) == [start |-> s.start, end |-> s.end,
                        placeholder |-> L[s.key].placeholder]
<1>1. /\ id \in live /\ SpanSet(S, request.text)
      /\ S = Merged(request.text, Members(request.text, request.spans, known))
      /\ m.cover = {Piece(s) : s \in S}
    BY DEF Taken
<1>2. /\ Known(known) /\ IsFiniteSet(DOMAIN known) /\ count \in [Labels -> Nat]
      /\ DOMAIN byValue = live /\ MapsAgree(id)
      /\ DOMAIN entries[id] \subseteq Placeholder
    BY <1>1 DEF TypeOK, Consistent, Known
<1>3. L = Learned(M, known, count, id)
    BY <1>1, <1>2 DEF Sanitize
<1>4. Len(request.text) \in Nat
    BY VaultAssumption
<1> HIDE DEF M
<1>5. /\ M \subseteq S /\ IsFiniteSet(M)
      /\ \A s \in M : s.key \notin DOMAIN known
      /\ \A s, o \in M : s.key = o.key => s = o
      /\ \A s \in S : s.key \in DOMAIN known \/ \E o \in M : o.key = s.key
    BY <1>1, <1>4, MintingFacts DEF M
<1>6. /\ \A s \in S : s.start \in Nat /\ s.key \in Key
      /\ \A s, o \in S : s.start = o.start => s = o
    <2> HIDE DEF L, Piece, known
    <2> QED
        BY <1>1, <1>4 DEF SpanSet
<1>7. /\ \A s \in M : Fresh(P(s), s, count, Counted(M, count), id)
      /\ \A s, o \in M : s.key.label = o.key.label /\ s.start < o.start =>
            P(s).idx < P(o).idx
    <2>1. /\ \A s \in M : s.start \in Nat /\ s.key \in Key
          /\ \A s, o \in M : s.start = o.start => s = o
        BY <1>5, <1>6
    <2> HIDE DEF count
    <2> QED
        BY <1>2, <1>5, <2>1, MintedFacts
<1>8. Taught(L, known, M, count, id)
    <2>1. \A s \in M : s.key \in Key /\ s.key \notin DOMAIN known
        BY <1>5, <1>6
    <2> HIDE DEF L, known, count
    <2> QED
        BY <1>2, <1>3, <1>5, <2>1, LearnedFacts
<1>9. ASSUME NEW s \in S, s.key \in DOMAIN known
      PROVE  /\ L[s.key].placeholder \in DOMAIN entries[id]
             /\ L[s.key].placeholder.idx < count[L[s.key].placeholder.label]
    BY <1>2, <1>8, <1>9 DEF Taught, MapsAgree
<1>10. ASSUME NEW s \in S, s.key \notin DOMAIN known
       PROVE  \E o \in M : /\ o.key = s.key /\ o.start <= s.start
                           /\ L[s.key].placeholder = P(o)
    <2>1. PICK o \in M : o.key = s.key
        BY <1>5, <1>10
    <2>2. o.start <= s.start
        BY <2>1 DEF M, Minting
    <2> QED
        BY <1>8, <2>1, <2>2 DEF Taught
<1> HIDE DEF known, count, L
<1>11. PICK x \in S : c = Piece(x)
    BY <1>1
<1>12. PICK y \in S : d = Piece(y)
    BY <1>1
<1>13. /\ c.start = x.start /\ c.placeholder = L[x.key].placeholder
       /\ d.start = y.start /\ d.placeholder = L[y.key].placeholder
    BY <1>11, <1>12
<1>14. PICK o \in M : /\ o.key = y.key /\ o.start <= y.start
                      /\ d.placeholder = P(o)
    BY <1>9, <1>10, <1>13
<1>15. o.start = d.start
    <2>1. Piece(o) \in m.cover /\ Piece(o).placeholder = d.placeholder
          /\ Piece(o).start = o.start
        BY <1>1, <1>5, <1>13, <1>14
    <2>2. d.start <= o.start
        BY <2>1
    <2> QED
        BY <1>5, <1>6, <1>13, <1>14, <2>2
<1> HIDE DEF Piece, P
<1>16. /\ P(o).label = o.key.label /\ P(o).idx \in Nat /\ P(o).label \in Labels
       /\ count[P(o).label] <= P(o).idx
    BY <1>7 DEF Fresh
<1>17. CASE x.key \in DOMAIN known
    <2>1. /\ c.placeholder \in Placeholder
          /\ c.placeholder.idx < count[c.placeholder.label]
        BY <1>2, <1>9, <1>13, <1>17
    <2>2. c.placeholder.idx \in Nat
        BY <2>1 DEF Placeholder
    <2>3. count[P(o).label] \in Nat
        BY <1>2, <1>16
    <2> QED
        BY <1>14, <1>16, <2>1, <2>2, <2>3
<1>18. CASE x.key \notin DOMAIN known
    <2>1. PICK q \in M : /\ q.key = x.key /\ q.start <= x.start
                         /\ c.placeholder = P(q)
        BY <1>10, <1>13, <1>18
    <2>2. q.key.label = o.key.label
        BY <1>7, <1>14, <1>16, <2>1 DEF Fresh
    <2>3. q.start < o.start
        BY <1>5, <1>6, <1>13, <1>15, <2>1
    <2> QED
        BY <1>7, <1>14, <2>1, <2>2, <2>3
<1> QED
    BY <1>17, <1>18

\* Indices follow reading order in every output.
THEOREM IndicesFollowTheText == Spec => ReadingOrder
<1> DEFINE Reads ==
        \A m \in sent' \ sent : \A c, d \in m.cover :
            /\ c.start < d.start
            /\ c.placeholder.label = d.placeholder.label
            /\ d.placeholder \notin DOMAIN entries[m.session]
            /\ \A e \in m.cover : e.placeholder = d.placeholder => d.start <= e.start
            => c.placeholder.idx < d.placeholder.idx
<1>1. ASSUME TypeOK, Consistent, [Next]_vars
      PROVE  [Reads]_vars
    <2>1. ASSUME NEW id \in live, NEW request \in Requests, Sanitize(id, request)
          PROVE  Reads
        <3>1. id \in Ids
            BY <1>1 DEF TypeOK
        <3>2. PICK S, m : Taken(id, request, S, m)
            BY <1>1, <2>1, <3>1, SanitizeFacts
        <3>3. sent' = sent \cup {m} /\ m.session = id
            BY <3>2 DEF Taken
        <3>4. ASSUME NEW c \in m.cover, NEW d \in m.cover,
                     c.start < d.start,
                     c.placeholder.label = d.placeholder.label,
                     d.placeholder \notin DOMAIN entries[id],
                     \A e \in m.cover : e.placeholder = d.placeholder => d.start <= e.start
              PROVE  c.placeholder.idx < d.placeholder.idx
            BY <1>1, <2>1, <3>1, <3>2, <3>4, OutputReads
        <3> QED
            BY <3>3, <3>4
    <2>2. CASE sent' = sent
        BY <2>2
    <2> QED
        BY <1>1, <2>1, <2>2 DEF Next, CreateSession, DestroySession, Clear, Forget, vars
<1> QED
    BY <1>1, TypeCorrect, AlwaysConsistent, PTL DEF Spec, ReadingOrder
=============================================================================
