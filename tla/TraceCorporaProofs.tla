-------------------------- MODULE TraceCorporaProofs --------------------------
(***************************************************************************)
(* Proofs about the generators of agent traces: the plan of a corpus of    *)
(* any size passes its checks, a document of any template and style keeps  *)
(* to its mode, a long document fits its bounds for any lengths of the     *)
(* blocks its sections are made of, and spans and tagged values stay on    *)
(* their texts however a document is written and shown.                    *)
(***************************************************************************)
EXTENDS TraceCorporaProperties, Recursion, SequenceTheorems, FiniteSetTheorems, TLAPS

(* ---------- The plan of traces-v3 ---------- *)

\* Division leaves a remainder.
LEMMA DivMod ==
  ASSUME NEW x \in Nat, NEW d \in Nat, d >= 1
  PROVE  x \div d \in Nat /\ x % d \in 0 .. d - 1 /\ x = d * (x \div d) + (x % d)
BY SMT

\* A share is its percentage rounded: at most half a document off
\* (build.py, round).
LEMMA ShareRounds ==
  ASSUME NEW n \in Nat, NEW percent \in {20, 31}
  PROVE  /\ Share(n, percent) \in Nat
         /\ 100 * Share(n, percent) >= n * percent - 50
<1> DEFINE x == n * percent
<1>1. x \in Nat
  <2>1. CASE percent = 20
    BY <2>1
  <2>2. CASE percent = 31
    BY <2>2
  <2> QED  BY <2>1, <2>2
<1>2. Share(n, percent) =
        IF x % 100 > 50 \/ (x % 100 = 50 /\ (x \div 100) % 2 = 1)
        THEN x \div 100 + 1 ELSE x \div 100
  BY DEF Share
<1> HIDE DEF x
<1>3. /\ x \div 100 \in Nat /\ x % 100 \in 0 .. 99
      /\ x = 100 * (x \div 100) + (x % 100)
  BY <1>1, DivMod
<1>4. \/ Share(n, percent) = x \div 100 + 1
      \/ Share(n, percent) = x \div 100 /\ x % 100 <= 50
  <2> DEFINE high == x % 100 > 50 \/ (x % 100 = 50 /\ (x \div 100) % 2 = 1)
  <2>1. CASE high
    BY <1>2, <2>1
  <2>2. CASE ~high
    <3>1. Share(n, percent) = x \div 100
      BY <1>2, <2>2
    <3>2. x % 100 <= 50
      <4>1. ~(x % 100 > 50)
        BY <2>2
      <4> QED  BY <4>1, <1>3
    <3> QED  BY <3>1, <3>2
  <2> QED  BY <2>1, <2>2
<1>5. Share(n, percent) \in Nat /\ 100 * Share(n, percent) >= x - 50
  BY <1>1, <1>3, <1>4
<1> QED  BY <1>5 DEF x

\* No template gets more than one document above an even share (allocate).
LEMMA LargestShareBound ==
  ASSUME NEW n \in Nat, NEW t \in Nat, t >= 60, n >= 60
  PROVE  100 * LargestShare(n, t) <= 4 * n
<1> DEFINE q == n \div t
           m == n % t
<1>1. q \in Nat /\ m \in 0 .. t - 1 /\ n = t * q + m
  <2>1. t >= 1
    OBVIOUS
  <2> QED  BY <2>1, DivMod
<1>2. LargestShare(n, t) = q + (IF m = 0 THEN 0 ELSE 1)
  BY DEF LargestShare
<1> HIDE DEF q, m
<1>3. t * q >= 60 * q
  BY <1>1, SMT
<1> QED  BY <1>1, <1>2, <1>3, SMT

\* A corpus of at least sixty documents over at least sixty templates passes
\* its checks as it is planned (build.py:126-150).
LEMMA PlanPasses ==
  ASSUME NEW n \in Nat, NEW t \in Nat, t >= 60, n >= 60
  PROVE  CheckCorpus(n, t)
<1>1. TemplatesUsed(n, t) >= MinTemplates
  BY DEF TemplatesUsed, MinTemplates
<1>2. 100 * LargestShare(n, t) <= 4 * n
  BY LargestShareBound
<1>3. CleanCount(n) \in Nat /\ 100 * CleanCount(n) >= n * 20 - 50
  BY ShareRounds DEF CleanCount
<1>4. NoSecretCount(n) \in Nat /\ 100 * NoSecretCount(n) >= n * 31 - 50
  BY ShareRounds DEF NoSecretCount
<1>5. 100 * (CleanCount(n) + NoSecretCount(n)) >= 40 * n /\ 100 * CleanCount(n) >= 15 * n
  BY <1>3, <1>4
<1> QED  BY <1>1, <1>2, <1>5 DEF CheckCorpus

(* ---------- A document of traces-v3 ---------- *)

Documents == {"begin", "body", "built", "gaveUp"}

(* What a plan knows of its size, and a document of its gold.              *)
V3Inv ==
  /\ phase \in {"start", "planned", "written"} \cup Documents
  /\ phase = "planned" => size \in CorpusSizes
  /\ phase \in {"start", "planned"} => gold = {}
  /\ \A label \in gold : Allowed(mode, label)

LEMMA V3Starts == InitV3 => V3Inv
BY DEF InitV3, V3Inv, Documents

\* Every gold value comes through the gold provider (doc.py).
LEMMA PlacedIsAllowed ==
  ASSUME NEW m, NEW labels, NEW label \in Placed(m, labels)
  PROVE  Allowed(m, label)
BY DEF Placed

\* What a style adds comes through it too (styles.py, headers and nicks).
LEMMA StylesAreAllowed ==
  ASSUME NEW m, NEW style, NEW who,
         NEW label \in HeaderGold(style, m) \cup TurnGold(style, who, m)
  PROVE  Allowed(m, label)
<1>1. label \in DevUser(m)
  BY DEF HeaderGold, TurnGold, Cwd
<1> QED  BY <1>1, PlacedIsAllowed DEF DevUser

LEMMA EmitKeeps ==
  ASSUME NEW who, Emit(who), V3Inv
  PROVE  V3Inv'
<1>1. /\ phase = "body" /\ UNCHANGED <<phase, size, mode>>
      /\ \E some \in SUBSET todo[1].other :
           gold' = gold \cup Placed(mode, todo[1].sure \cup some)
                        \cup TurnGold(Registry[tid].style, who, mode)
  BY DEF Emit
<1>2. \A label \in gold' : Allowed(mode, label)
  BY <1>1, PlacedIsAllowed, StylesAreAllowed DEF V3Inv
<1> QED  BY <1>1, <1>2 DEF V3Inv, Documents, Allowed, SecretOk, GoldOk

\* A document that keeps to its gold provider breaks no mode (build_one).
LEMMA NoBreach == V3Inv => ~BreaksMode
BY DEF V3Inv, BreaksMode, Allowed, SecretOk, GoldOk

LEMMA V3Step == V3Inv /\ [NextV3]_v3vars => V3Inv'
<1> SUFFICES ASSUME V3Inv, [NextV3]_v3vars PROVE V3Inv'
  OBVIOUS
<1> USE DEF Allowed, SecretOk, GoldOk, Documents
<1>1. CASE UNCHANGED v3vars
  BY <1>1 DEF v3vars, V3Inv
<1>2. CASE Allocate
  <2>1. ~(Cardinality(DOMAIN Registry) < MinTemplates)
    BY RegistryAssumption DEF MinTemplates
  <2>2. size' \in CorpusSizes /\ phase' = "planned" /\ UNCHANGED <<mode, gold>>
    BY <1>2, <2>1 DEF Allocate, docvars
  <2> QED  BY <1>2, <2>2 DEF Allocate, V3Inv
<1>3. CASE Check
  <2>1. CheckCorpus(size, Cardinality(DOMAIN Registry))
    BY <1>3, PlanPasses, RegistryAssumption, TracesV3Assumption DEF Check, V3Inv, MinTemplates
  <2>2. phase' = "written" /\ UNCHANGED <<mode, gold>>
    BY <1>3, <2>1 DEF Check, docvars
  <2> QED  BY <2>2 DEF V3Inv
<1>4. CASE Draw
  BY <1>4 DEF Draw, V3Inv, docvars
<1>5. CASE Begin
  <2>1. \A label \in gold' : Allowed(mode, label)
    BY <1>5, StylesAreAllowed DEF Begin
  <2> QED  BY <1>5, <2>1 DEF Begin, V3Inv
<1>6. CASE Choose
  BY <1>6 DEF Choose, V3Inv
<1>7. CASE UserTurn \/ AgentTurn \/ CallTurn \/ ResultTurn
  BY <1>7, EmitKeeps DEF UserTurn, AgentTurn, CallTurn, ResultTurn
<1>8. CASE End
  <2>1. phase' \in {"built", "begin", "gaveUp"} /\ UNCHANGED <<mode, gold>>
    BY <1>8, NoBreach DEF End, docvars
  <2> QED  BY <2>1 DEF V3Inv
<1> QED  BY <1>1, <1>2, <1>3, <1>4, <1>5, <1>6, <1>7, <1>8 DEF NextV3

(* ---------- The gold and the calls of a document of traces-v3 ---------- *)

(* What may come next, with the turns in left to do and then the steps     *)
(* from at on: a result, or nothing but a result.                          *)
ResultMayCome(steps, at, left) ==
  IF left # <<>> THEN IsResult(left[1])
  ELSE at <= Len(steps) /\ \E way \in steps[at] : Answers(way)
OnlyAResult(steps, at, left) ==
  IF left # <<>> THEN IsResult(left[1])
  ELSE at <= Len(steps) => \A way \in steps[at] : Answers(way)

(* The turns left are the last ones of a way of the step begun last.       *)
UnderWay(steps, at, left) ==
  \E way \in steps[at - 1] : \E k \in 1 .. Len(way.turns) :
    left = SubSeq(way.turns, k, Len(way.turns))

(* The first n calls, answered in order.                                   *)
FirstCalls(n) == [i \in 1 .. n |-> i]

(* Every call is answered, or the last one is about to be.                 *)
InPairs(steps, at, left, last, heard) ==
  /\ last \in Nat
  /\ \/ heard = FirstCalls(last) /\ ~ResultMayCome(steps, at, left)
     \/ last >= 1 /\ heard = FirstCalls(last - 1) /\ OnlyAResult(steps, at, left)

(* A step behind that plants whichever way it goes has planted, or still   *)
(* will.                                                                   *)
PlantedBy(script, at, left, m, labels) ==
  \A i \in DOMAIN script.steps : StepPlants(script, i, m) /\ i < at =>
    \/ labels # {}
    \/ i = at - 1 /\ \E j \in DOMAIN left : TurnPlants(script, left[j], m)

BodyOK ==
  /\ place \in Nat \ {0} /\ place <= Len(Registry[tid].steps) + 1
  /\ todo \in Seq(Turns)
  /\ todo # <<>> => place > 1 /\ UnderWay(Registry[tid].steps, place, todo)
  /\ InPairs(Registry[tid].steps, place, todo, callId, named)
  /\ mode # "clean" =>
       /\ Registry[tid].style \in {"cc", "jsonl"} => gold # {}
       /\ PlantedBy(Registry[tid], place, todo, mode, gold)

DocInv ==
  /\ phase \in Documents => tid \in DOMAIN Registry /\ mode \in Modes
  /\ phase = "body" => BodyOK
  /\ phase \in {"built", "gaveUp"} /\ mode # "clean" => gold # {}
  /\ CallsAreAnswered

\* What the templates are assumed to keep to, of one of them.
LEMMA ScriptFacts ==
  ASSUME NEW t \in DOMAIN Registry
  PROVE  /\ Registry[t].steps \in Seq(SUBSET Ways)
         /\ Len(Registry[t].steps) >= 1
         /\ CallsInPairs(Registry[t].steps)
<1>1. Registry[t].steps \in Seq(SUBSET Ways) \ {<<>>} /\ CallsInPairs(Registry[t].steps)
  BY TemplatesAssumption
<1>2. \A s \in Seq(SUBSET Ways) : s # <<>> => Len(s) >= 1
  BY EmptySeq, LenProperties
<1> QED  BY <1>1, <1>2

LEMMA WayFacts ==
  ASSUME NEW steps \in Seq(SUBSET Ways), NEW i \in 1 .. Len(steps), NEW way \in steps[i]
  PROVE  way.turns \in Seq(Turns)
<1>1. steps[i] \in SUBSET Ways
  BY ElementOfSeq
<1> QED  BY <1>1 DEF Ways

\* A way entered is under way, and what could come before it comes after.
LEMMA AfterChoice ==
  ASSUME NEW steps \in Seq(SUBSET Ways), CallsInPairs(steps),
         NEW at \in 1 .. Len(steps), NEW way \in steps[at]
  PROVE  /\ way.turns # <<>> => UnderWay(steps, at + 1, way.turns)
         /\ OnlyAResult(steps, at, <<>>) => OnlyAResult(steps, at + 1, way.turns)
         /\ ~ResultMayCome(steps, at, <<>>) => ~ResultMayCome(steps, at + 1, way.turns)
<1>1. way.turns \in Seq(Turns)
  BY WayFacts
<1>2. ASSUME way.turns # <<>> PROVE UnderWay(steps, at + 1, way.turns)
  <2>1. Len(way.turns) >= 1 /\ Len(way.turns) \in Nat
    BY <1>1, <1>2, EmptySeq, LenProperties
  <2>2. way.turns = SubSeq(way.turns, 1, Len(way.turns))
    BY <1>1, SubSeqFull
  <2>3. \E k \in 1 .. Len(way.turns) : way.turns = SubSeq(way.turns, k, Len(way.turns))
    BY <2>1, <2>2
  <2>4. (at + 1) - 1 = at
    OBVIOUS
  <2> QED  BY <2>3, <2>4 DEF UnderWay
<1>3. ASSUME OnlyAResult(steps, at, <<>>) PROVE OnlyAResult(steps, at + 1, way.turns)
  <2>1. Answers(way)
    BY <1>3 DEF OnlyAResult
  <2> QED  BY <2>1 DEF Answers, OnlyAResult
<1>4. ASSUME ~ResultMayCome(steps, at, <<>>) PROVE ~ResultMayCome(steps, at + 1, way.turns)
  <2>1. \A w \in steps[at] : ~Answers(w)
    BY <1>4 DEF ResultMayCome
  <2>2. CASE way.turns # <<>>
    BY <2>1, <2>2 DEF Answers, ResultMayCome
  <2>3. CASE way.turns = <<>>
    <3>1. ~EndsInCall(way)
      BY <2>3 DEF EndsInCall
    <3>2. ASSUME at + 1 <= Len(steps), NEW w \in steps[at + 1] PROVE ~Answers(w)
      <4>1. at + 1 \in 2 .. Len(steps) /\ (at + 1) - 1 = at /\ Len(steps) \in Nat
        BY <3>2, LenProperties
      <4> QED  BY <3>1, <4>1 DEF CallsInPairs
    <3> QED  BY <2>3, <3>2 DEF ResultMayCome
  <2> QED  BY <2>2, <2>3
<1> QED  BY <1>2, <1>3, <1>4

LEMMA NotEmpty ==
  ASSUME NEW S, NEW s \in Seq(S), Len(s) >= 1
  PROVE  s # <<>>
OBVIOUS

LEMMA FirstOfSubSeq ==
  ASSUME NEW S, NEW s \in Seq(S), NEW m \in 1 .. Len(s), NEW n \in m .. Len(s)
  PROVE  SubSeq(s, m, n)[1] = s[m]
<1>1. m \in Nat /\ n \in Nat /\ 1 \in 1 .. n - m + 1 /\ m + 1 - 1 = m
  BY LenProperties
<1>2. \A i \in 1 .. n - m + 1 : SubSeq(s, m, n)[i] = s[m + i - 1]
  BY <1>1, SubSeqProperties
<1> QED  BY <1>1, <1>2

\* After a call comes a result, and after anything else none.
LEMMA AfterTurn ==
  ASSUME NEW steps \in Seq(SUBSET Ways), CallsInPairs(steps),
         NEW at \in Nat, at > 1, at - 1 <= Len(steps),
         NEW left \in Seq(Turns), left # <<>>, UnderWay(steps, at, left)
  PROVE  /\ Tail(left) \in Seq(Turns)
         /\ Tail(left) # <<>> => UnderWay(steps, at, Tail(left))
         /\ IsCall(left[1]) => OnlyAResult(steps, at, Tail(left))
         /\ ~IsCall(left[1]) => ~ResultMayCome(steps, at, Tail(left))
<1>1. PICK way \in steps[at - 1] : \E k \in 1 .. Len(way.turns) :
        left = SubSeq(way.turns, k, Len(way.turns))
  BY DEF UnderWay
<1>2. PICK k \in 1 .. Len(way.turns) : left = SubSeq(way.turns, k, Len(way.turns))
  BY <1>1
<1>3. at - 1 \in 1 .. Len(steps) /\ Len(steps) \in Nat
  BY LenProperties
<1>4. way.turns \in Seq(Turns)
  BY <1>3, WayFacts
<1> DEFINE n == Len(way.turns)
<1>5. n \in Nat /\ k \in 1 .. n /\ n \in k .. n
  BY <1>4, LenProperties
<1>6. Tail(left) = SubSeq(way.turns, k + 1, n)
  BY <1>2, <1>4, <1>5, HeadTailOfSubSeq
<1>7. left[1] = way.turns[k]
  BY <1>2, <1>4, <1>5, FirstOfSubSeq
<1>8. Tail(left) \in Seq(Turns)
  BY HeadTailProperties
<1>9. CASE k < n
  <2>1. k + 1 \in 1 .. n /\ k + 1 \in 2 .. n /\ (k + 1) - 1 = k /\ n \in k + 1 .. n
    BY <1>5, <1>9
  <2>3. Tail(left) # <<>>
    <3>1. Len(Tail(left)) = Len(left) - 1 /\ Len(left) = n - k + 1
      <4>1. Len(SubSeq(way.turns, k, n)) = n - k + 1
        BY <1>4, <1>5, SubSeqProperties
      <4> QED  BY <1>2, <4>1, HeadTailProperties
    <3>2. Len(Tail(left)) >= 1
      BY <1>5, <1>9, <3>1
    <3> QED  BY <1>8, <3>2, NotEmpty
  <2>4. Tail(left)[1] = way.turns[k + 1]
    <3>1. SubSeq(way.turns, k + 1, Len(way.turns))[1] = way.turns[k + 1]
      BY <1>4, <2>1, FirstOfSubSeq
    <3> QED  BY <1>6, <3>1
  <2>5. UnderWay(steps, at, Tail(left))
    BY <1>6, <2>1 DEF UnderWay
  <2>6. IsResult(way.turns[k + 1]) <=> IsCall(way.turns[k])
    <3>1. at - 1 \in DOMAIN steps
      BY <1>3, LenProperties
    <3>2. \A j \in 2 .. Len(way.turns) : IsResult(way.turns[j]) <=> IsCall(way.turns[j - 1])
      BY <3>1 DEF CallsInPairs
    <3> QED  BY <2>1, <3>2
  <2> QED  BY <1>7, <1>8, <2>3, <2>4, <2>5, <2>6 DEF OnlyAResult, ResultMayCome
<1>10. CASE k = n
  <2>1. Tail(left) = <<>>
    <3>1. SubSeq(way.turns, k + 1, n) = <<>>
      BY <1>4, <1>5, <1>10, SubSeqEmpty
    <3> QED  BY <1>6, <3>1
  <2>2. EndsInCall(way) <=> IsCall(left[1])
    <3>1. way.turns # <<>>
      BY <1>4, <1>5, EmptySeq, LenProperties
    <3> QED  BY <1>7, <1>10, <3>1 DEF EndsInCall
  <2>3. ASSUME at <= Len(steps), NEW w \in steps[at]
        PROVE  Answers(w) <=> EndsInCall(way)
    <3>1. at \in 2 .. Len(steps)
      BY <1>3, <2>3
    <3> QED  BY <3>1 DEF CallsInPairs
  <2> QED  BY <1>8, <2>1, <2>2, <2>3 DEF OnlyAResult, ResultMayCome
<1> QED  BY <1>5, <1>9, <1>10

LEMMA PlantedStays ==
  ASSUME NEW script, NEW at, NEW left \in Seq(Turns), left # <<>>, NEW m,
         NEW labels, NEW more, PlantedBy(script, at, left, m, labels),
         labels \subseteq more, TurnPlants(script, left[1], m) => more # {}
  PROVE  PlantedBy(script, at, Tail(left), m, more)
<1> SUFFICES ASSUME NEW i \in DOMAIN script.steps, StepPlants(script, i, m), i < at, more = {}
             PROVE  i = at - 1 /\ \E j \in DOMAIN Tail(left) : TurnPlants(script, Tail(left)[j], m)
  BY DEF PlantedBy
<1>1. labels = {} /\ ~TurnPlants(script, left[1], m)
  OBVIOUS
<1>2. i = at - 1
  BY <1>1 DEF PlantedBy
<1>3. PICK j \in DOMAIN left : TurnPlants(script, left[j], m)
  BY <1>1 DEF PlantedBy
<1>4. j # 1
  BY <1>1, <1>3
<1>5. j \in 1 .. Len(left) /\ Len(left) \in Nat
  BY LenProperties
<1>6. /\ Tail(left) \in Seq(Turns) /\ Len(Tail(left)) = Len(left) - 1
      /\ \A k \in 1 .. Len(Tail(left)) : Tail(left)[k] = left[k + 1]
  BY HeadTailProperties
<1>7. DOMAIN Tail(left) = 1 .. Len(Tail(left))
  BY <1>6, LenProperties
<1>8. j - 1 \in DOMAIN Tail(left) /\ (j - 1) + 1 = j
  BY <1>4, <1>5, <1>6, <1>7
<1>9. Tail(left)[j - 1] = left[j]
  BY <1>6, <1>7, <1>8
<1> QED  BY <1>2, <1>3, <1>8, <1>9

\* A document with gold opens with some if its style prints the directory.
LEMMA HeaderPlants ==
  ASSUME NEW style \in {"cc", "jsonl"}, NEW m, m # "clean"
  PROVE  HeaderGold(style, m) # {}
BY DEF HeaderGold, Cwd, DevUser, Placed, Allowed, GoldOk, person, secret

\* A turn that surely plants leaves some gold.
LEMMA EmitPlants ==
  ASSUME NEW who, Emit(who), mode # "clean"
  PROVE  /\ gold \subseteq gold'
         /\ TurnPlants(Registry[tid], todo[1], mode) => gold' # {}
<1>1. PICK some \in SUBSET todo[1].other :
        gold' = gold \cup Placed(mode, todo[1].sure \cup some)
                     \cup TurnGold(Registry[tid].style, who, mode)
  BY DEF Emit
<1>2. todo[1].who = who
  BY DEF Emit
<1>3. ASSUME NEW label \in todo[1].sure, label # secret \/ mode = "full"
      PROVE  gold' # {}
  <2>1. label \in Placed(mode, todo[1].sure \cup some)
    BY <1>3 DEF Placed, Allowed, SecretOk, GoldOk
  <2> QED  BY <1>1, <2>1
<1>4. ASSUME Registry[tid].style = "irc", todo[1].who = "user"
      PROVE  gold' # {}
  <2>1. person \in TurnGold(Registry[tid].style, who, mode)
    BY <1>2, <1>4 DEF TurnGold, DevUser, Placed, Allowed, GoldOk, person, secret
  <2> QED  BY <1>1, <2>1
<1> QED  BY <1>1, <1>3, <1>4 DEF TurnPlants

\* What a turn leaves, apart from the calls and their answers.
LEMMA EmitMoves ==
  ASSUME NEW who, Emit(who), DocInv
  PROVE  /\ tid \in DOMAIN Registry /\ mode \in Modes
         /\ phase' = "body" /\ UNCHANGED <<tid, mode, place>>
         /\ place \in Nat \ {0} /\ place <= Len(Registry[tid].steps) + 1
         /\ todo' \in Seq(Turns)
         /\ todo' # <<>> => place > 1 /\ UnderWay(Registry[tid].steps, place, todo')
         /\ IsCall(todo[1]) => OnlyAResult(Registry[tid].steps, place, todo')
         /\ ~IsCall(todo[1]) => ~ResultMayCome(Registry[tid].steps, place, todo')
         /\ mode # "clean" =>
              /\ Registry[tid].style \in {"cc", "jsonl"} => gold' # {}
              /\ PlantedBy(Registry[tid], place, todo', mode, gold')
<1>1. /\ phase = "body" /\ todo # <<>> /\ todo' = Tail(todo)
      /\ UNCHANGED <<phase, tid, mode, place>>
  BY DEF Emit
<1>2. BodyOK /\ tid \in DOMAIN Registry /\ mode \in Modes
  BY <1>1 DEF DocInv, Documents
<1> DEFINE steps == Registry[tid].steps
<1>3. steps \in Seq(SUBSET Ways) /\ CallsInPairs(steps) /\ Len(steps) \in Nat
  BY <1>2, ScriptFacts, LenProperties
<1>4. /\ todo \in Seq(Turns) /\ place > 1 /\ UnderWay(steps, place, todo)
      /\ place \in Nat /\ place - 1 <= Len(steps)
  BY <1>1, <1>2, <1>3 DEF BodyOK
<1>5. /\ Tail(todo) \in Seq(Turns)
      /\ Tail(todo) # <<>> => UnderWay(steps, place, Tail(todo))
      /\ IsCall(todo[1]) => OnlyAResult(steps, place, Tail(todo))
      /\ ~IsCall(todo[1]) => ~ResultMayCome(steps, place, Tail(todo))
  BY <1>1, <1>3, <1>4, AfterTurn
<1>6. ASSUME mode # "clean"
      PROVE  /\ Registry[tid].style \in {"cc", "jsonl"} => gold' # {}
             /\ PlantedBy(Registry[tid], place, Tail(todo), mode, gold')
  <2>1. gold \subseteq gold' /\ (TurnPlants(Registry[tid], todo[1], mode) => gold' # {})
    BY <1>6, EmitPlants
  <2>2. PlantedBy(Registry[tid], place, todo, mode, gold)
    BY <1>2, <1>6 DEF BodyOK
  <2>3. Registry[tid].style \in {"cc", "jsonl"} => gold # {}
    BY <1>2, <1>6 DEF BodyOK
  <2>4. PlantedBy(Registry[tid], place, Tail(todo), mode, gold')
    BY <1>1, <1>4, <2>1, <2>2, PlantedStays
  <2> QED  BY <2>1, <2>3, <2>4
<1>7. place \in Nat \ {0} /\ place <= Len(Registry[tid].steps) + 1
  BY <1>2 DEF BodyOK
<1> HIDE DEF steps
<1>8. todo' # <<>> => place > 1 /\ UnderWay(steps, place, todo')
  BY <1>1, <1>4, <1>5
<1> QED  BY <1>1, <1>2, <1>5, <1>6, <1>7, <1>8 DEF steps

\* As many as there are, each in its place.
LEMMA FirstCallsAre ==
  ASSUME NEW n \in Nat
  PROVE  /\ FirstCalls(n) \in Seq(Nat) /\ Len(FirstCalls(n)) = n
         /\ \A i \in DOMAIN FirstCalls(n) : FirstCalls(n)[i] = i
BY DEF FirstCalls

\* One more output, of the call after them.
LEMMA OneMoreCall ==
  ASSUME NEW n \in Nat
  PROVE  Append(FirstCalls(n), n + 1) = FirstCalls(n + 1)
<1>1. FirstCalls(n) \in Seq(Nat) /\ Len(FirstCalls(n)) = n
  BY FirstCallsAre
<1>2. DOMAIN FirstCalls(n + 1) = 1 .. n + 1
  BY DEF FirstCalls
<1> DEFINE grown == Append(FirstCalls(n), n + 1)
<1>3. grown = [i \in 1 .. n + 1 |-> grown[i]]
  BY <1>1
<1>4. ASSUME NEW i \in 1 .. n + 1 PROVE grown[i] = i
  BY <1>1 DEF FirstCalls
<1> HIDE DEF grown
<1> QED  BY <1>3, <1>4 DEF FirstCalls

\* The number of a call is one more than the last, and its result names it.
LEMMA EmitAnswers ==
  ASSUME DocInv, UserTurn \/ AgentTurn \/ CallTurn \/ ResultTurn
  PROVE  InPairs(Registry[tid].steps, place, todo', callId', named')
<1>1. PICK who \in {"user", "agent", "call", "result"} :
        /\ Emit(who)
        /\ callId' = IF who = "call" THEN CallStyle(callId) ELSE callId
        /\ named' = IF who = "result" THEN Append(named, ResultStyle(callId)) ELSE named
  BY DEF UserTurn, AgentTurn, CallTurn, ResultTurn
<1>2. /\ phase = "body" /\ todo # <<>> /\ todo[1].who = who
  BY <1>1 DEF Emit
<1>3. BodyOK
  BY <1>2 DEF DocInv
<1>4. InPairs(Registry[tid].steps, place, todo, callId, named)
  BY <1>3 DEF BodyOK
<1>5. /\ IsCall(todo[1]) => OnlyAResult(Registry[tid].steps, place, todo')
      /\ ~IsCall(todo[1]) => ~ResultMayCome(Registry[tid].steps, place, todo')
  BY <1>1, EmitMoves
<1>6. /\ who = "call" <=> IsCall(todo[1])
      /\ who = "result" <=> IsResult(todo[1])
  BY <1>2 DEF IsCall, IsResult
<1>7. \/ named = FirstCalls(callId) /\ callId \in Nat /\ ~IsResult(todo[1])
      \/ named = FirstCalls(callId - 1) /\ callId \in Nat /\ callId >= 1 /\ IsResult(todo[1])
  BY <1>2, <1>4 DEF InPairs, ResultMayCome, OnlyAResult
<1>8. CASE who = "call"
  <2>1. callId' = callId + 1 /\ named' = FirstCalls(callId' - 1) /\ callId' \in Nat /\ callId' >= 1
    <3>1. who # "result"
      BY <1>8
    <3>2. callId' = callId + 1 /\ named' = named
      BY <1>1, <1>8, <3>1 DEF CallStyle
    <3>3. ~IsResult(todo[1])
      BY <1>6, <3>1
    <3>4. (callId + 1) - 1 = callId /\ callId + 1 \in Nat /\ callId + 1 >= 1
      BY <1>7
    <3> QED  BY <1>7, <3>2, <3>3, <3>4
  <2> QED  BY <1>5, <1>6, <1>8, <2>1 DEF InPairs
<1>9. CASE who = "result"
  <2>1. callId' = callId /\ named' = Append(named, callId) /\ ~IsCall(todo[1]) /\ IsResult(todo[1])
    BY <1>1, <1>6, <1>9 DEF ResultStyle
  <2>2. named = FirstCalls(callId - 1) /\ callId - 1 \in Nat /\ (callId - 1) + 1 = callId
    BY <1>7, <2>1
  <2>3. named' = FirstCalls(callId') /\ callId' \in Nat
    <3>1. PICK n \in Nat : n = callId - 1
      BY <2>2
    <3>2. named = FirstCalls(n) /\ callId = n + 1
      BY <2>2, <3>1
    <3>3. named' = FirstCalls(n + 1)
      BY <2>1, <3>2, OneMoreCall
    <3> QED  BY <2>1, <3>1, <3>2, <3>3
  <2> QED  BY <1>5, <2>1, <2>3 DEF InPairs
<1>10. CASE who \notin {"call", "result"}
  <2>1. callId' = callId /\ named' = named /\ ~IsCall(todo[1]) /\ ~IsResult(todo[1])
    BY <1>1, <1>6, <1>10
  <2>2. named' = FirstCalls(callId') /\ callId' \in Nat
    BY <1>7, <2>1
  <2> QED  BY <1>5, <2>1, <2>2 DEF InPairs
<1> QED  BY <1>8, <1>9, <1>10

LEMMA DocStarts == InitV3 => DocInv
BY DEF InitV3, DocInv, Documents, CallsAreAnswered

LEMMA ChooseKeeps == DocInv /\ Choose => DocInv'
<1> SUFFICES ASSUME DocInv, Choose PROVE DocInv'
  OBVIOUS
<1> DEFINE steps == Registry[tid].steps
<1>1. /\ phase = "body" /\ todo = <<>> /\ place <= Len(steps) /\ place' = place + 1
      /\ UNCHANGED <<phase, size, tid, mode, tries, gold, callId, named>>
  BY DEF Choose
<1>2. PICK way \in steps[place] : mode \in way.in /\ todo' = way.turns
  BY DEF Choose
<1>3. BodyOK /\ tid \in DOMAIN Registry /\ mode \in Modes
  BY <1>1 DEF DocInv, Documents
<1>4. steps \in Seq(SUBSET Ways) /\ CallsInPairs(steps) /\ Len(steps) \in Nat
  BY <1>3, ScriptFacts, LenProperties
<1>5. place \in 1 .. Len(steps) /\ place \in Nat
  BY <1>1, <1>3, <1>4 DEF BodyOK
<1>6. /\ way.turns # <<>> => UnderWay(steps, place + 1, way.turns)
      /\ OnlyAResult(steps, place, <<>>) => OnlyAResult(steps, place + 1, way.turns)
      /\ ~ResultMayCome(steps, place, <<>>) => ~ResultMayCome(steps, place + 1, way.turns)
  BY <1>4, <1>5, AfterChoice
<1>7. way.turns \in Seq(Turns)
  BY <1>4, <1>5, WayFacts
<1>8. InPairs(steps, place, <<>>, callId, named)
  BY <1>1, <1>3 DEF BodyOK
<1>9. InPairs(steps, place + 1, way.turns, callId, named)
  BY <1>6, <1>8 DEF InPairs
<1>10. ASSUME mode # "clean"
       PROVE  PlantedBy(Registry[tid], place + 1, way.turns, mode, gold)
  <2>1. PlantedBy(Registry[tid], place, <<>>, mode, gold)
    BY <1>1, <1>3, <1>10 DEF BodyOK
  <2> SUFFICES ASSUME NEW i \in DOMAIN steps, StepPlants(Registry[tid], i, mode), i < place + 1
               PROVE  \/ gold # {}
                      \/ /\ i = (place + 1) - 1
                         /\ \E j \in DOMAIN way.turns : TurnPlants(Registry[tid], way.turns[j], mode)
    BY DEF PlantedBy
  <2>2. i \in Nat
    BY <1>4, LenProperties
  <2>3. CASE i < place
    <3>1. \/ gold # {}
          \/ \E j \in DOMAIN <<>> : TurnPlants(Registry[tid], <<>>[j], mode)
      BY <2>1, <2>3 DEF PlantedBy
    <3>2. DOMAIN <<>> = {}
      OBVIOUS
    <3> QED  BY <3>1, <3>2
  <2>4. CASE i = place
    <3>1. \E j \in DOMAIN way.turns : TurnPlants(Registry[tid], way.turns[j], mode)
      BY <1>2, <2>4 DEF StepPlants
    <3> QED  BY <1>5, <2>4, <3>1
  <2> QED  BY <1>5, <2>2, <2>3, <2>4
<1>11. mode # "clean" /\ Registry[tid].style \in {"cc", "jsonl"} => gold # {}
  BY <1>3 DEF BodyOK
<1>12. place + 1 \in Nat \ {0} /\ place + 1 <= Len(steps) + 1 /\ place + 1 > 1
  BY <1>4, <1>5
<1>13. BodyOK'
  BY <1>1, <1>2, <1>6, <1>7, <1>9, <1>10, <1>11, <1>12 DEF BodyOK
<1> QED  BY <1>1, <1>3, <1>13 DEF DocInv, Documents, CallsAreAnswered

LEMMA DocStep == V3Inv /\ DocInv /\ [NextV3]_v3vars => DocInv'
<1> SUFFICES ASSUME V3Inv, DocInv, [NextV3]_v3vars PROVE DocInv'
  OBVIOUS
<1> USE DEF Documents
<1>1. CASE UNCHANGED v3vars
  BY <1>1 DEF v3vars, DocInv, BodyOK, CallsAreAnswered
<1>2. CASE Allocate \/ Check
  <2>1. phase' \notin Documents
    BY <1>2 DEF Allocate, Check
  <2> QED  BY <2>1 DEF DocInv, CallsAreAnswered
<1>3. CASE Draw
  BY <1>3, TracesV3Assumption DEF Draw, DocInv, CallsAreAnswered
<1>4. CASE Begin
  <2>1. /\ phase = "begin" /\ phase' = "body" /\ UNCHANGED <<tid, mode>>
        /\ place' = 1 /\ todo' = <<>> /\ callId' = 0 /\ named' = <<>>
        /\ gold' = HeaderGold(Registry[tid].style, mode)
    BY <1>4 DEF Begin
  <2>2. tid \in DOMAIN Registry /\ mode \in Modes
    BY <2>1 DEF DocInv
  <2>3. /\ Len(Registry[tid].steps) >= 1 /\ CallsInPairs(Registry[tid].steps)
        /\ Len(Registry[tid].steps) \in Nat
    BY <2>2, ScriptFacts, LenProperties
  <2>4. ~ResultMayCome(Registry[tid].steps, 1, <<>>)
    BY <2>3 DEF CallsInPairs, ResultMayCome
  <2>5. InPairs(Registry[tid].steps, 1, <<>>, 0, <<>>)
    <3>1. FirstCalls(0) = <<>>
      BY DEF FirstCalls
    <3> QED  BY <2>4, <3>1 DEF InPairs
  <2>6. <<>> \in Seq(Turns) /\ 1 \in Nat \ {0} /\ 1 <= Len(Registry[tid].steps) + 1
    BY <2>3
  <2>7. mode # "clean" /\ Registry[tid].style \in {"cc", "jsonl"} => gold' # {}
    BY <2>1, HeaderPlants
  <2>8. PlantedBy(Registry[tid], 1, <<>>, mode, gold')
    <3>1. \A i \in DOMAIN Registry[tid].steps : ~(i < 1)
      BY <2>2, ScriptFacts, LenProperties
    <3> QED  BY <3>1 DEF PlantedBy
  <2>9. BodyOK'
    BY <2>1, <2>5, <2>6, <2>7, <2>8 DEF BodyOK
  <2> QED  BY <2>1, <2>2, <2>9 DEF DocInv, CallsAreAnswered
<1>5. CASE Choose
  BY <1>5, ChooseKeeps
<1>6. CASE UserTurn \/ AgentTurn \/ CallTurn \/ ResultTurn
  <2>1. PICK who : Emit(who)
    BY <1>6 DEF UserTurn, AgentTurn, CallTurn, ResultTurn
  <2>2. InPairs(Registry[tid].steps, place, todo', callId', named')
    BY <1>6, EmitAnswers
  <2>3. /\ tid \in DOMAIN Registry /\ mode \in Modes
        /\ phase' = "body" /\ UNCHANGED <<tid, mode, place>>
    BY <2>1, EmitMoves
  <2>4. BodyOK'
    <3>1. /\ place \in Nat \ {0} /\ place <= Len(Registry[tid].steps) + 1
          /\ todo' \in Seq(Turns)
          /\ todo' # <<>> => place > 1 /\ UnderWay(Registry[tid].steps, place, todo')
          /\ mode # "clean" =>
               /\ Registry[tid].style \in {"cc", "jsonl"} => gold' # {}
               /\ PlantedBy(Registry[tid], place, todo', mode, gold')
      BY <2>1, EmitMoves
    <3> QED  BY <2>2, <2>3, <3>1 DEF BodyOK
  <2> QED  BY <2>3, <2>4 DEF DocInv, CallsAreAnswered
<1>7. CASE End
  <2>1. /\ phase = "body" /\ todo = <<>> /\ place > Len(Registry[tid].steps)
        /\ UNCHANGED <<tid, mode, gold, callId, named>>
    BY <1>7 DEF End, docvars
  <2>2. phase' \in {"built", "begin", "gaveUp"}
    BY <1>7, NoBreach DEF End
  <2>3. BodyOK /\ tid \in DOMAIN Registry /\ mode \in Modes
    BY <2>1 DEF DocInv
  <2>4. ASSUME mode # "clean" PROVE gold # {}
    <3>1. SurelyPlants(Registry[tid], mode)
      BY <2>3, <2>4, TemplatesAssumption
    <3>2. CASE Registry[tid].style \in {"cc", "jsonl"}
      BY <2>3, <2>4, <3>2 DEF BodyOK
    <3>3. CASE \E i \in DOMAIN Registry[tid].steps : StepPlants(Registry[tid], i, mode)
      <4>1. PICK i \in DOMAIN Registry[tid].steps : StepPlants(Registry[tid], i, mode)
        BY <3>3
      <4>2. i < place
        <5>1. i \in 1 .. Len(Registry[tid].steps) /\ Len(Registry[tid].steps) \in Nat
          BY <2>3, ScriptFacts, LenProperties
        <5>2. place \in Nat
          BY <2>3 DEF BodyOK
        <5> QED  BY <2>1, <5>1, <5>2
      <4>3. PlantedBy(Registry[tid], place, <<>>, mode, gold)
        BY <2>1, <2>3, <2>4 DEF BodyOK
      <4>4. \/ gold # {}
            \/ \E j \in DOMAIN <<>> : TurnPlants(Registry[tid], <<>>[j], mode)
        BY <4>1, <4>2, <4>3 DEF PlantedBy
      <4>5. DOMAIN <<>> = {}
        OBVIOUS
      <4> QED  BY <4>4, <4>5
    <3> QED  BY <3>1, <3>2, <3>3 DEF SurelyPlants
  <2>5. (\A i \in DOMAIN named : named[i] = i) /\ Len(named) \in {callId - 1, callId}
    <3>1. InPairs(Registry[tid].steps, place, todo, callId, named)
      BY <2>3 DEF BodyOK
    <3>2. PICK n \in {callId - 1, callId} : n \in Nat /\ named = FirstCalls(n)
      BY <3>1 DEF InPairs
    <3> QED  BY <3>2, FirstCallsAre
  <2> QED  BY <2>1, <2>2, <2>3, <2>4, <2>5 DEF DocInv, CallsAreAnswered
<1> QED  BY <1>1, <1>2, <1>3, <1>4, <1>5, <1>6, <1>7 DEF NextV3

(* ---------- The plan of traces-v2 ---------- *)

LEMMA KindsAre ==
  Kinds = {"source_code", "config", "log", "stack_trace", "shell_session",
           "data_export", "markdown", "message"}
BY DEF Kinds, REGISTRY

\* Eight kinds (KINDS).
LEMMA EightKinds == IsFiniteSet(Kinds) /\ Cardinality(Kinds) = 8
<1> DEFINE One == {"source_code"}
           Two == One \cup {"config"}
           Three == Two \cup {"log"}
           Four == Three \cup {"stack_trace"}
           Five == Four \cup {"shell_session"}
           Six == Five \cup {"data_export"}
           Seven == Six \cup {"markdown"}
           Eight == Seven \cup {"message"}
<1>1. IsFiniteSet(One) /\ Cardinality(One) = 1
  BY FS_Singleton
<1>2. IsFiniteSet(Two) /\ Cardinality(Two) = 2
  BY <1>1, FS_AddElement, "config" \notin One
<1>3. IsFiniteSet(Three) /\ Cardinality(Three) = 3
  BY <1>2, FS_AddElement, "log" \notin Two
<1>4. IsFiniteSet(Four) /\ Cardinality(Four) = 4
  BY <1>3, FS_AddElement, "stack_trace" \notin Three
<1>5. IsFiniteSet(Five) /\ Cardinality(Five) = 5
  BY <1>4, FS_AddElement, "shell_session" \notin Four
<1>6. IsFiniteSet(Six) /\ Cardinality(Six) = 6
  BY <1>5, FS_AddElement, "data_export" \notin Five
<1>7. IsFiniteSet(Seven) /\ Cardinality(Seven) = 7
  BY <1>6, FS_AddElement, "markdown" \notin Six
<1>8. IsFiniteSet(Eight) /\ Cardinality(Eight) = 8
  BY <1>7, FS_AddElement, "message" \notin Seven
<1>9. Kinds = Eight
  BY KindsAre
<1> QED  BY <1>8, <1>9

LEMMA UpTo ==
  ASSUME NEW n \in Nat
  PROVE  IsFiniteSet(0 .. n) /\ Cardinality(0 .. n) = n + 1
BY FS_Interval

\* A kind has between six and nine skeletons (REGISTRY).
LEMMA SkeletonsOfAKind ==
  ASSUME NEW k \in Kinds
  PROVE  Len(REGISTRY[k]) \in Nat /\ Len(REGISTRY[k]) >= 6 /\ Len(REGISTRY[k]) <= 9
<1>1. Len(REGISTRY["source_code"]) = 7 /\ Len(REGISTRY["config"]) = 9
  BY DEF REGISTRY
<1>2. Len(REGISTRY["log"]) = 7 /\ Len(REGISTRY["stack_trace"]) = 7
  BY DEF REGISTRY
<1>3. Len(REGISTRY["shell_session"]) = 7 /\ Len(REGISTRY["data_export"]) = 8
  BY DEF REGISTRY
<1>4. Len(REGISTRY["markdown"]) = 6 /\ Len(REGISTRY["message"]) = 6
  BY DEF REGISTRY
<1>5. \/ Len(REGISTRY[k]) = 6 \/ Len(REGISTRY[k]) = 7
      \/ Len(REGISTRY[k]) = 8 \/ Len(REGISTRY[k]) = 9
  <2>1. \/ k = "source_code" \/ k = "config" \/ k = "log" \/ k = "stack_trace"
        \/ k = "shell_session" \/ k = "data_export" \/ k = "markdown" \/ k = "message"
    BY KindsAre
  <2> QED  BY <1>1, <1>2, <1>3, <1>4, <2>1, Zenon
<1> DEFINE n == Len(REGISTRY[k])
<1>6. n = 6 \/ n = 7 \/ n = 8 \/ n = 9
  BY <1>5
<1> HIDE DEF n
<1>7. n \in Nat /\ n >= 6 /\ n <= 9
  BY <1>6
<1> QED  BY <1>7 DEF n

LEMMA PlanNumbers ==
  /\ PerKind = 75 /\ PerKindLong = 7
  /\ NLong % Cardinality(Kinds) = 4
BY EightKinds DEF PerKind, PerKindLong, NDocs, NLong

\* More skeletons than corpus_checks asks for.
LEMMA EnoughSkeletons == SkeletonCount >= MinSkeletons
<1> DEFINE all == UNION {{<<k, i>> : i \in 0 .. Len(REGISTRY[k])} : k \in Kinds}
<1>1. IsFiniteSet(0 .. 6) /\ Cardinality(0 .. 6) = 6 + 1 /\ IsFiniteSet(0 .. 9)
  BY UpTo
<1>2. Cardinality(Kinds \X (0 .. 6)) = 56
  BY <1>1, EightKinds, FS_Product
<1>3. IsFiniteSet(Kinds \X (0 .. 9))
  BY <1>1, EightKinds, FS_Product
<1>4. ASSUME NEW k \in Kinds, NEW i \in 0 .. 6 PROVE <<k, i>> \in all
  <2>1. Len(REGISTRY[k]) \in Nat /\ Len(REGISTRY[k]) >= 6 /\ Len(REGISTRY[k]) <= 9
    BY SkeletonsOfAKind
  <2>2. i \in 0 .. Len(REGISTRY[k])
    BY <2>1
  <2> QED  BY <2>2
<1>5. Kinds \X (0 .. 6) \subseteq all
  BY <1>4
<1>6. ASSUME NEW x \in all PROVE x \in Kinds \X (0 .. 9)
  <2>1. PICK k \in Kinds : \E i \in 0 .. Len(REGISTRY[k]) : x = <<k, i>>
    OBVIOUS
  <2>2. PICK i \in 0 .. Len(REGISTRY[k]) : x = <<k, i>>
    BY <2>1
  <2>3. Len(REGISTRY[k]) \in Nat /\ Len(REGISTRY[k]) >= 6 /\ Len(REGISTRY[k]) <= 9
    BY SkeletonsOfAKind
  <2>4. i \in 0 .. 9
    BY <2>3
  <2> QED  BY <2>2, <2>4
<1>7. IsFiniteSet(all)
  BY <1>3, <1>6, FS_Subset
<1> HIDE DEF all
<1>8. Cardinality(Kinds \X (0 .. 6)) <= Cardinality(all)
  BY <1>5, <1>7, FS_Subset
<1>9. Cardinality(all) \in Nat
  BY <1>7, FS_CardinalityType
<1>10. Cardinality(all) >= 40
  BY <1>2, <1>8, <1>9
<1> QED  BY <1>10 DEF all, SkeletonCount, MinSkeletons

\* Sixty long documents, whichever kinds have one more (plan_slots).
LEMMA SixtyAreLong ==
  ASSUME NEW more \in SUBSET Kinds, Cardinality(more) = 4
  PROVE  Cardinality(LongSlots(more)) = 60
<1> DEFINE even == Kinds \X (0 .. 6)
           odd == more \X {7}
<1>1. \A k : LongOf(k, more) = IF k \in more THEN 8 ELSE 7
  BY PlanNumbers DEF LongOf
<1>2. ASSUME NEW k \in Kinds, NEW j \in 0 .. 74
      PROVE  j < LongOf(k, more) <=> j <= 6 \/ (j = 7 /\ k \in more)
  BY <1>1
<1>3. LongSlots(more) = even \cup odd
  <2>1. LongSlots(more) = {s \in Kinds \X (0 .. 74) : s[2] < LongOf(s[1], more)}
    BY PlanNumbers DEF LongSlots, Slots
  <2>2. ASSUME NEW s \in Kinds \X (0 .. 74)
        PROVE  s[2] < LongOf(s[1], more) <=> s \in even \cup odd
    BY <1>2
  <2>3. even \subseteq Kinds \X (0 .. 74) /\ odd \subseteq Kinds \X (0 .. 74)
    OBVIOUS
  <2> HIDE DEF even, odd
  <2> QED  BY <2>1, <2>2, <2>3
<1>4. IsFiniteSet(0 .. 6) /\ Cardinality(0 .. 6) = 6 + 1
  BY UpTo
<1>5. IsFiniteSet(even) /\ Cardinality(even) = 56
  BY <1>4, EightKinds, FS_Product
<1>6. IsFiniteSet(more)
  BY EightKinds, FS_Subset
<1>7. IsFiniteSet({7}) /\ Cardinality({7}) = 1
  BY FS_Singleton
<1>8. IsFiniteSet(odd) /\ Cardinality(odd) = 4
  BY <1>6, <1>7, FS_Product
<1>9. even \cap odd = {}
  OBVIOUS
<1>10. Cardinality({}) = 0
  BY FS_EmptySet
<1> HIDE DEF even, odd
<1>11. Cardinality(even \cup odd) = Cardinality(even) + Cardinality(odd) - Cardinality(even \cap odd)
  BY <1>5, <1>8, FS_Union
<1> QED  BY <1>3, <1>5, <1>8, <1>9, <1>10, <1>11

\* Whichever kinds have one more long document, the plan passes its checks.
LEMMA PlannedSlotsPass ==
  ASSUME NEW more \in SUBSET Kinds, Cardinality(more) = NLong % Cardinality(Kinds)
  PROVE  CorpusChecks(more)
<1>1. Cardinality(LongSlots(more)) = 60
  BY PlanNumbers, SixtyAreLong
<1>2. Cardinality(Slots) = 600
  <2>1. IsFiniteSet(0 .. 74) /\ Cardinality(0 .. 74) = 74 + 1
    BY UpTo
  <2>2. Cardinality(Kinds \X (0 .. 74)) = 600
    BY <2>1, EightKinds, FS_Product
  <2> QED  BY <2>2, PlanNumbers DEF Slots
<1>3. ASSUME NEW k \in Kinds
      PROVE  Uses(k, more) >= MinUses /\ LongOf(k, more) >= MinUses
  <2>1. LongOf(k, more) \in 7 .. 8
    BY PlanNumbers DEF LongOf
  <2>2. ShortOf(k, more) \in 67 .. 68
    BY <2>1, PlanNumbers DEF ShortOf
  <2> DEFINE x == ShortOf(k, more)
             d == Len(REGISTRY[k])
             q == x \div d
  <2>3. d \in Nat /\ d >= 6 /\ d <= 9
    BY SkeletonsOfAKind
  <2> HIDE DEF d
  <2>4. x \in Nat /\ d \in Nat /\ d >= 1 /\ x >= 67
    BY <2>2, <2>3
  <2> HIDE DEF x
  <2>5. q \in Nat /\ x % d \in 0 .. d - 1 /\ x = d * q + (x % d)
    BY <2>4, DivMod
  <2> HIDE DEF q
  <2>6. q >= 3
    <3> SUFFICES ASSUME q \in 0 .. 2 PROVE FALSE
      BY <2>5
    <3>1. d * q <= 18
      BY <2>3
    <3> QED  BY <2>3, <2>4, <2>5, <3>1
  <2> QED  BY <2>1, <2>6 DEF Uses, MinUses, x, d, q
<1> QED  BY <1>1, <1>2, <1>3, EnoughSkeletons DEF CorpusChecks, NDocs, NClean

(* What a plan knows of its kinds.                                         *)
PlanInv ==
  /\ stage # "failed"
  /\ stage = "plan" =>
       longer \in SUBSET Kinds /\ Cardinality(longer) = NLong % Cardinality(Kinds)

LEMMA PlanStarts == InitV2 => PlanInv
BY DEF InitV2, PlanInv

LEMMA PlanStep == PlanInv /\ [NextV2]_v2vars => PlanInv'
<1> SUFFICES ASSUME PlanInv, [NextV2]_v2vars PROVE PlanInv'
  OBVIOUS
<1>1. CASE UNCHANGED v2vars
  BY <1>1 DEF v2vars, PlanInv
<1>2. CASE PlanSlots
  BY <1>2 DEF PlanSlots, PlanInv
<1>3. CASE FinishCorpus
  <2>1. CorpusChecks(longer)
    BY <1>3, PlannedSlotsPass DEF FinishCorpus, PlanInv
  <2> QED  BY <1>3, <2>1 DEF FinishCorpus, PlanInv
<1>4. CASE TakeSlot \/ DrawDoc \/ Iterate
  BY <1>4 DEF TakeSlot, DrawDoc, Iterate, PlanInv
<1>5. CASE FinishShort \/ Section \/ FinishLong \/ Validate
  BY <1>5 DEF FinishShort, Section, FinishLong, Validate, PlanInv
<1> QED  BY <1>1, <1>2, <1>3, <1>4, <1>5 DEF NextV2

(* ---------- A long document of traces-v2 ---------- *)

(* While sections are added, the text is at most one section past a length *)
(* short of its target; when it is checked, the target is reached.         *)
V2Inv ==
  /\ stage = "loop" => ~slot.long
  /\ slot.long /\ stage \in {"sections", "check"} =>
       /\ goal \in LongTargets
       /\ length \in Nat
       /\ length <= 551 + LongestBlock
       /\ stage = "check" => length >= goal

LEMMA V2Starts == InitV2 => V2Inv
BY DEF InitV2, V2Inv

LEMMA V2Step == LongestBlock \in Nat \ {0} /\ V2Inv /\ [NextV2]_v2vars => V2Inv'
<1> SUFFICES ASSUME LongestBlock \in Nat \ {0}, V2Inv, [NextV2]_v2vars PROVE V2Inv'
  OBVIOUS
<1>1. CASE UNCHANGED v2vars
  BY <1>1 DEF v2vars, V2Inv
<1>2. CASE PlanSlots \/ FinishCorpus \/ TakeSlot
  BY <1>2 DEF PlanSlots, FinishCorpus, TakeSlot, V2Inv
<1>3. CASE DrawDoc
  <2>1. CASE slot.long
    <3>1. stage' = "sections" /\ goal' \in LongTargets /\ length' = 0
      BY <1>3, <2>1 DEF DrawDoc
    <3> QED  BY <3>1 DEF V2Inv
  <2>2. CASE ~slot.long
    BY <1>3, <2>2 DEF DrawDoc, V2Inv
  <2> QED  BY <2>1, <2>2
<1>4. CASE Iterate \/ Validate
  BY <1>4 DEF Iterate, Validate, V2Inv, InBounds
<1>5. CASE FinishShort
  BY <1>5 DEF FinishShort, V2Inv
<1>6. CASE Section
  <2>1. stage = "sections" /\ length < goal /\ UNCHANGED <<stage, slot, goal>>
    BY <1>6 DEF Section
  <2>2. PICK t \in SectionTargets : \E n \in SectionLengths(t) : length' = length + Header + n
    BY <1>6 DEF Section
  <2>3. PICK n \in SectionLengths(t) : length' = length + Header + n
    BY <2>2
  <2>4. n \in Nat /\ n <= 51 + LongestBlock
    BY <2>3 DEF SectionLengths, SectionTargets
  <2> QED  BY <2>1, <2>3, <2>4 DEF V2Inv, LongTargets, Header
<1>7. CASE FinishLong
  BY <1>7 DEF FinishLong, V2Inv
<1> QED  BY <1>1, <1>2, <1>3, <1>4, <1>5, <1>6, <1>7 DEF NextV2

(* ---------- The offsets of traces-v2 ---------- *)

Span == [start : Nat, end : Nat, value : Seq(Chars)]
DocTexts == [text : Seq(Chars), spans : Seq(Span)]

Names(s, text) ==
  /\ s.start < s.end /\ s.end <= Len(text)
  /\ SubSeq(text, s.start + 1, s.end) = s.value

\* A span names its text however the text goes on.
LEMMA SpanStays ==
  ASSUME NEW s \in Span, NEW t \in Seq(Chars), NEW u \in Seq(Chars), Names(s, t)
  PROVE  Names(s, t \o u)
<1>1. s.start \in Nat /\ s.end \in Nat /\ Len(t) \in Nat /\ Len(u) \in Nat
  BY LenProperties DEF Span
<1>2. s.start < s.end /\ s.end <= Len(t) /\ SubSeq(t, s.start + 1, s.end) = s.value
  BY DEF Names
<1>3. Len(t \o u) = Len(t) + Len(u)
  BY ConcatProperties
<1>4. SubSeq(t \o u, s.start + 1, s.end) = SubSeq(t, s.start + 1, s.end)
  <2>1. s.start + 1 \in 1 .. Len(t) /\ s.end \in 1 .. Len(t)
    BY <1>1, <1>2
  <2> QED  BY <2>1, SubSeqOfConcat1
<1>5. s.end <= Len(t \o u)
  BY <1>1, <1>2, <1>3
<1> QED  BY <1>2, <1>4, <1>5 DEF Names

\* Moved by what stands before it, it names the same text.
LEMMA SpanMoves ==
  ASSUME NEW s \in Span, NEW t \in Seq(Chars), NEW u \in Seq(Chars), Names(s, u)
  PROVE  /\ MovedSpan(s, Len(t)) \in Span
         /\ Names(MovedSpan(s, Len(t)), t \o u)
<1> DEFINE m == MovedSpan(s, Len(t))
<1>1. s.start \in Nat /\ s.end \in Nat /\ Len(t) \in Nat /\ Len(u) \in Nat
  BY LenProperties DEF Span
<1>2. m \in Span /\ m.start = s.start + Len(t) /\ m.end = s.end + Len(t) /\ m.value = s.value
  BY <1>1 DEF Span, MovedSpan
<1>3. s.start < s.end /\ s.end <= Len(u) /\ SubSeq(u, s.start + 1, s.end) = s.value
  BY DEF Names
<1>4. Len(t \o u) = Len(t) + Len(u)
  BY ConcatProperties
<1> HIDE DEF m
<1> DEFINE a == m.start + 1
           b == m.end
<1>5. a \in Len(t) + 1 .. Len(t) + Len(u) /\ b \in Len(t) + 1 .. Len(t) + Len(u)
  <2>1. a = s.start + Len(t) + 1 /\ b = s.end + Len(t)
    BY <1>1, <1>2
  <2>2. s.start < s.end /\ s.end <= Len(u)
    BY <1>3
  <2> HIDE DEF a, b
  <2>3. PICK x \in Nat, y \in Nat, n \in Nat, k \in Nat :
          x = s.start /\ y = s.end /\ n = Len(t) /\ k = Len(u)
    BY <1>1
  <2>4. a = x + n + 1 /\ b = y + n /\ x < y /\ y <= k
    BY <2>1, <2>2, <2>3
  <2>5. a \in n + 1 .. n + k /\ b \in n + 1 .. n + k
    BY <2>4
  <2> QED  BY <2>3, <2>5
<1>6. a - Len(t) = s.start + 1 /\ b - Len(t) = s.end
  BY <1>1, <1>2
<1> HIDE DEF a, b
<1>7. SubSeq(t \o u, a, b) = SubSeq(u, a - Len(t), b - Len(t))
  BY <1>5, SubSeqOfConcat2
<1>8. SubSeq(t \o u, m.start + 1, m.end) = m.value
  BY <1>2, <1>3, <1>6, <1>7 DEF a, b
<1>9. m.start < m.end /\ m.end <= Len(t \o u)
  BY <1>1, <1>2, <1>3, <1>4
<1>10. Names(m, t \o u)
  BY <1>8, <1>9 DEF Names
<1> QED  BY <1>2, <1>10 DEF m

(* The spans of a text name it, in order and apart.                        *)
ExactIn(spans, text) ==
  /\ \A i \in DOMAIN spans : Names(spans[i], text)
  /\ \A i, j \in DOMAIN spans : i < j => spans[i].end <= spans[j].start

LEMMA ExactMeans ==
  ASSUME NEW d PROVE Exact(d) <=> ExactIn(d.spans, d.text)
BY DEF Exact, ExactIn, Names

\* Spans of a text followed by spans of what is added to it.
LEMMA ExactJoins ==
  ASSUME NEW t \in Seq(Chars), NEW u \in Seq(Chars),
         NEW before \in Seq(Span), NEW after \in Seq(Span),
         ExactIn(before, t),
         ExactIn(after, t \o u),
         \A j \in DOMAIN after : after[j].start >= Len(t)
  PROVE  ExactIn(before \o after, t \o u)
<1> DEFINE all == before \o after
           p == Len(before)
           q == Len(after)
<1>1. p \in Nat /\ q \in Nat /\ Len(t) \in Nat
  BY LenProperties
<1>2. DOMAIN before = 1 .. p /\ DOMAIN after = 1 .. q
  BY LenProperties
<1>3. /\ all \in Seq(Span) /\ Len(all) = p + q
      /\ \A i \in 1 .. p + q : all[i] = IF i <= p THEN before[i] ELSE after[i - p]
  BY ConcatProperties
<1>4. DOMAIN all = 1 .. p + q
  BY <1>3, LenProperties
<1> HIDE DEF p, q, all
<1>5. ASSUME NEW i \in 1 .. p + q
      PROVE  \/ i <= p /\ i \in DOMAIN before /\ all[i] = before[i] /\ before[i] \in Span
             \/ i > p /\ i - p \in DOMAIN after /\ all[i] = after[i - p] /\ after[i - p] \in Span
  <2>1. CASE i <= p
    <3>1. i \in 1 .. p
      BY <1>1, <2>1
    <3>2. before[i] \in Span
      BY <1>2, <3>1, LenProperties
    <3> QED  BY <1>2, <1>3, <2>1, <3>1, <3>2
  <2>2. CASE i > p
    <3>1. i - p \in 1 .. q
      BY <1>1, <2>2
    <3>2. after[i - p] \in Span
      BY <1>2, <3>1, LenProperties
    <3>3. ~(i <= p)
      BY <1>1, <2>2
    <3> QED  BY <1>2, <1>3, <2>2, <3>1, <3>2, <3>3
  <2> QED  BY <1>1, <2>1, <2>2
<1>6. ASSUME NEW i \in DOMAIN before PROVE Names(before[i], t \o u) /\ before[i].end <= Len(t)
  <2>1. Names(before[i], t) /\ before[i] \in Span
    BY LenProperties DEF ExactIn
  <2> QED  BY <2>1, SpanStays DEF Names
<1>7. ASSUME NEW i \in 1 .. p + q PROVE Names(all[i], t \o u)
  BY <1>5, <1>6 DEF ExactIn
<1>8. ASSUME NEW i \in 1 .. p + q, NEW j \in 1 .. p + q, i < j
      PROVE  all[i].end <= all[j].start
  <2>1. CASE j <= p
    <3>1. i <= p
      BY <1>1, <1>8, <2>1
    <3>2. i \in DOMAIN before /\ j \in DOMAIN before /\ all[i] = before[i] /\ all[j] = before[j]
      BY <1>1, <1>5, <2>1, <3>1
    <3> QED  BY <1>8, <3>2 DEF ExactIn
  <2>2. CASE i <= p /\ j > p
    <3>0. ~(i > p) /\ ~(j <= p)
      BY <1>1, <2>2
    <3>1. i \in DOMAIN before /\ all[i] = before[i] /\ before[i] \in Span
      BY <1>5, <3>0
    <3>2. j - p \in DOMAIN after /\ all[j] = after[j - p] /\ after[j - p] \in Span
      BY <1>5, <3>0
    <3>3. before[i].end <= Len(t) /\ after[j - p].start >= Len(t)
      BY <1>6, <3>1, <3>2
    <3>4. before[i].end \in Nat /\ after[j - p].start \in Nat
      BY <3>1, <3>2 DEF Span
    <3> QED  BY <1>1, <3>1, <3>2, <3>3, <3>4
  <2>3. CASE i > p
    <3>1. j > p /\ i - p < j - p
      BY <1>1, <1>8, <2>3
    <3>2. i - p \in DOMAIN after /\ all[i] = after[i - p]
      BY <1>1, <1>5, <2>3
    <3>3. j - p \in DOMAIN after /\ all[j] = after[j - p]
      BY <1>1, <1>5, <3>1
    <3> QED  BY <3>1, <3>2, <3>3 DEF ExactIn
  <2> QED  BY <1>1, <2>1, <2>2, <2>3
<1> QED  BY <1>4, <1>7, <1>8 DEF ExactIn, all

LEMMA ConcatText ==
  ASSUME NEW t \in Seq(Chars), NEW u \in Seq(Chars)
  PROVE  t \o u \in Seq(Chars)
BY ConcatProperties

\* Doc.t keeps a document exact.
LEMMA AppendTextKeeps ==
  ASSUME NEW d \in DocTexts, NEW s \in Seq(Chars), Exact(d)
  PROVE  AppendText(d, s) \in DocTexts /\ Exact(AppendText(d, s))
<1>1. /\ AppendText(d, s).text = d.text \o s /\ AppendText(d, s).spans = d.spans
      /\ AppendText(d, s) = [text |-> d.text \o s, spans |-> d.spans]
      /\ d.text \in Seq(Chars) /\ d.spans \in Seq(Span)
  BY DEF AppendText, DocTexts
<1>2. d.text \o s \in Seq(Chars)
  BY <1>1, ConcatText
<1>3. ExactIn(d.spans, d.text)
  BY ExactMeans
<1>4. ASSUME NEW i \in DOMAIN d.spans PROVE Names(d.spans[i], d.text \o s)
  <2>1. d.spans[i] \in Span /\ Names(d.spans[i], d.text)
    BY <1>1, <1>3, LenProperties DEF ExactIn
  <2> QED  BY <1>1, <2>1, SpanStays
<1>5. ExactIn(d.spans, d.text \o s)
  BY <1>3, <1>4 DEF ExactIn
<1>6. Exact(AppendText(d, s))
  BY <1>1, <1>5, ExactMeans
<1> QED  BY <1>1, <1>2, <1>6 DEF DocTexts

\* Doc.v records a span of what it writes.
LEMMA AppendValueKeeps ==
  ASSUME NEW d \in DocTexts, NEW v \in Seq(Chars) \ {<<>>}, Exact(d)
  PROVE  AppendValue(d, v) \in DocTexts /\ Exact(AppendValue(d, v))
<1> DEFINE n == Len(d.text)
           s == [start |-> n, end |-> n + Len(v), value |-> v]
           new == AppendValue(d, v)
<1>1. d.text \in Seq(Chars) /\ d.spans \in Seq(Span)
  BY DEF DocTexts
<1>2. n \in Nat /\ Len(v) \in Nat /\ Len(v) >= 1
  <2>1. Len(v) \in Nat \ {0}
    BY EmptySeq
  <2> QED  BY <1>1, <2>1, LenProperties
<1>3. new.text = d.text \o v /\ new.spans = Append(d.spans, s)
      /\ new = [text |-> d.text \o v, spans |-> Append(d.spans, s)]
  BY DEF AppendValue
<1>4. s \in Span
  BY <1>2 DEF Span
<1>5. Append(d.spans, s) = d.spans \o <<s>> /\ <<s>> \in Seq(Span)
  BY <1>1, <1>4, AppendIsConcat
<1>6. Names(s, d.text \o v)
  <2>1. Len(d.text \o v) = n + Len(v)
    BY <1>1, ConcatProperties
  <2>2. n + 1 \in n + 1 .. n + Len(v) /\ n + Len(v) \in n + 1 .. n + Len(v)
    BY <1>2
  <2>3. SubSeq(d.text \o v, n + 1, n + Len(v)) = SubSeq(v, (n + 1) - n, (n + Len(v)) - n)
    BY <1>1, <2>2, SubSeqOfConcat2
  <2>4. (n + 1) - n = 1 /\ (n + Len(v)) - n = Len(v)
    BY <1>2
  <2>5. SubSeq(v, 1, Len(v)) = v
    BY SubSeqFull
  <2>6. s.start = n /\ s.end = n + Len(v) /\ s.value = v
    OBVIOUS
  <2>7. s.start < s.end /\ s.end <= Len(d.text \o v)
    BY <1>2, <2>1, <2>6
  <2>8. SubSeq(d.text \o v, s.start + 1, s.end) = s.value
    BY <2>3, <2>4, <2>5, <2>6
  <2> QED  BY <2>7, <2>8 DEF Names
<1> HIDE DEF s, new
<1>7. ExactIn(d.spans, d.text)
  BY ExactMeans
<1>8. ExactIn(<<s>>, d.text \o v)
  BY <1>6 DEF ExactIn
<1>9. \A j \in DOMAIN <<s>> : <<s>>[j].start >= n
  <2>1. s.start >= n
    BY <1>2 DEF s
  <2> QED  BY <2>1
<1>10. ExactIn(d.spans \o <<s>>, d.text \o v)
  BY <1>1, <1>5, <1>7, <1>8, <1>9, ExactJoins
<1>11. Exact(new)
  BY <1>3, <1>5, <1>10, ExactMeans
<1>12. d.spans \o <<s>> \in Seq(Span) /\ d.text \o v \in Seq(Chars)
  BY <1>1, <1>5, ConcatProperties
<1>13. new \in DocTexts
  BY <1>3, <1>5, <1>12 DEF DocTexts
<1> QED  BY <1>11, <1>13 DEF new

\* Doc.extend takes another document's spans over with its text.
LEMMA ExtendedKeeps ==
  ASSUME NEW d \in DocTexts, NEW other \in DocTexts, Exact(d), Exact(other)
  PROVE  Extended(d, other) \in DocTexts /\ Exact(Extended(d, other))
<1> DEFINE t == d.text
           u == other.text
           moved == Moved(other.spans, Len(t))
           new == Extended(d, other)
<1>1. t \in Seq(Chars) /\ u \in Seq(Chars) /\ d.spans \in Seq(Span) /\ other.spans \in Seq(Span)
  BY DEF DocTexts
<1>2. Len(t) \in Nat /\ DOMAIN other.spans = 1 .. Len(other.spans) /\ Len(other.spans) \in Nat
  BY <1>1, LenProperties
<1>3. ExactIn(d.spans, t) /\ ExactIn(other.spans, u)
  BY ExactMeans
<1>4. /\ DOMAIN moved = DOMAIN other.spans
      /\ \A i \in DOMAIN moved :
           moved[i] = MovedSpan(other.spans[i], Len(t))
  BY DEF Moved
<1>5. new.text = t \o u /\ new.spans = d.spans \o moved
      /\ new = [text |-> t \o u, spans |-> d.spans \o moved]
  BY DEF Extended
<1> HIDE DEF t, u, moved, new
<1>6. ASSUME NEW i \in DOMAIN moved
      PROVE  /\ moved[i] \in Span /\ Names(moved[i], t \o u)
             /\ moved[i].start = other.spans[i].start + Len(t)
             /\ moved[i].end = other.spans[i].end + Len(t)
             /\ other.spans[i] \in Span
  <2>1. other.spans[i] \in Span
    BY <1>1, <1>2, <1>4, ElementOfSeq
  <2>2. Names(other.spans[i], u)
    BY <1>3, <1>4 DEF ExactIn
  <2>3. moved[i] = MovedSpan(other.spans[i], Len(t))
    BY <1>4
  <2>4. moved[i] \in Span /\ Names(moved[i], t \o u)
    BY <1>1, <2>1, <2>2, <2>3, SpanMoves
  <2>5. moved[i].start = other.spans[i].start + Len(t) /\ moved[i].end = other.spans[i].end + Len(t)
    BY <2>3 DEF MovedSpan
  <2> QED  BY <2>1, <2>4, <2>5
<1>7. moved \in Seq(Span)
  <2>1. moved \in [1 .. Len(other.spans) -> Span]
    BY <1>2, <1>4, <1>6 DEF moved, Moved
  <2> QED  BY <1>2, <2>1
<1>8. ASSUME NEW i \in DOMAIN moved, NEW j \in DOMAIN moved, i < j
      PROVE  moved[i].end <= moved[j].start
  <2>1. other.spans[i].end <= other.spans[j].start
    BY <1>3, <1>4, <1>8 DEF ExactIn
  <2>2. other.spans[i].end \in Nat /\ other.spans[j].start \in Nat
    BY <1>6 DEF Span
  <2> QED  BY <1>2, <1>6, <2>1, <2>2
<1>9. ExactIn(moved, t \o u)
  BY <1>6, <1>8 DEF ExactIn
<1>10. ASSUME NEW j \in DOMAIN moved PROVE moved[j].start >= Len(t)
  <2>1. other.spans[j].start \in Nat
    BY <1>6 DEF Span
  <2> QED  BY <1>2, <1>6, <2>1
<1>11. ExactIn(d.spans \o moved, t \o u)
  BY <1>1, <1>3, <1>7, <1>9, <1>10, ExactJoins
<1>12. Exact(new)
  BY <1>5, <1>11, ExactMeans
<1>13. d.spans \o moved \in Seq(Span) /\ t \o u \in Seq(Chars)
  BY <1>1, <1>7, ConcatProperties
<1>14. new \in DocTexts
  BY <1>5, <1>13 DEF DocTexts
<1> QED  BY <1>12, <1>14 DEF new

TextInv == doc \in DocTexts /\ part \in DocTexts /\ Exact(doc) /\ Exact(part)

LEMMA EmptyIsExact == EmptyDoc \in DocTexts /\ Exact(EmptyDoc)
BY DEF EmptyDoc, DocTexts, Exact

LEMMA TextStep == TextInv /\ [NextDoc \/ NextFrag]_textvars => TextInv'
<1> SUFFICES ASSUME TextInv, [NextDoc \/ NextFrag]_textvars PROVE TextInv'
  OBVIOUS
<1>1. CASE UNCHANGED textvars
  BY <1>1 DEF textvars, TextInv, Exact
<1>2. CASE WriteText
  <2>1. PICK s \in Plain : \/ doc' = AppendText(doc, s) /\ UNCHANGED part
                           \/ part' = AppendText(part, s) /\ UNCHANGED doc
    BY <1>2 DEF WriteText
  <2>2. s \in Seq(Chars)
    BY TraceTextAssumption
  <2>3. AppendText(doc, s) \in DocTexts /\ Exact(AppendText(doc, s))
    BY <2>2, AppendTextKeeps DEF TextInv
  <2>4. AppendText(part, s) \in DocTexts /\ Exact(AppendText(part, s))
    BY <2>2, AppendTextKeeps DEF TextInv
  <2> QED  BY <2>1, <2>3, <2>4 DEF TextInv, Exact
<1>3. CASE WriteValue
  <2>1. PICK v \in Values : \/ doc' = AppendValue(doc, v) /\ UNCHANGED part
                            \/ part' = AppendValue(part, v) /\ UNCHANGED doc
    BY <1>3 DEF WriteValue
  <2>2. v \in Seq(Chars) \ {<<>>}
    BY TraceTextAssumption
  <2>3. AppendValue(doc, v) \in DocTexts /\ Exact(AppendValue(doc, v))
    BY <2>2, AppendValueKeeps DEF TextInv
  <2>4. AppendValue(part, v) \in DocTexts /\ Exact(AppendValue(part, v))
    BY <2>2, AppendValueKeeps DEF TextInv
  <2> QED  BY <2>1, <2>3, <2>4 DEF TextInv, Exact
<1>4. CASE TakeOver
  <2>1. doc' = Extended(doc, part) /\ part' = EmptyDoc
    BY <1>4 DEF TakeOver
  <2>2. Extended(doc, part) \in DocTexts /\ Exact(Extended(doc, part))
    BY ExtendedKeeps DEF TextInv
  <2> QED  BY <2>1, <2>2, EmptyIsExact DEF TextInv, Exact
<1>5. CASE Lay \/ Show
  BY <1>5 DEF Lay, Show, TextInv, Exact
<1> QED  BY <1>1, <1>2, <1>3, <1>4, <1>5 DEF NextDoc, NextFrag

(* ---------- Documents put together from segments ---------- *)

Segments == {g \in [text : Seq(Chars), tagged : BOOLEAN] : g.tagged => g.text # <<>>}
Fragments == Seq(Segments)
ExactDocs == {d \in DocTexts : Exact(d)}

PlaceSeg(d, g) == IF g.tagged THEN AppendValue(d, g.text) ELSE AppendText(d, g.text)

LEMMA PlaceSegKeeps ==
  ASSUME NEW d \in ExactDocs, NEW g \in Segments
  PROVE  PlaceSeg(d, g) \in ExactDocs
<1>1. d \in DocTexts /\ Exact(d) /\ g.text \in Seq(Chars) /\ (g.tagged => g.text # <<>>)
  BY DEF ExactDocs, Segments
<1>2. CASE g.tagged
  BY <1>1, <1>2, AppendValueKeeps DEF PlaceSeg, ExactDocs
<1>3. CASE ~g.tagged
  BY <1>1, <1>3, AppendTextKeeps DEF PlaceSeg, ExactDocs
<1> QED  BY <1>2, <1>3

LEMMA AssembleIsExact ==
  ASSUME NEW frag \in Fragments
  PROVE  Assemble(frag) \in ExactDocs
<1> DEFINE N == Len(frag)
           Laid(g) == g = [n \in 0 .. N |-> IF n = 0 THEN EmptyDoc
                                            ELSE PlaceSeg(g[n - 1], frag[n])]
           step == [n \in 1 .. N |-> [d \in ExactDocs |-> PlaceSeg(d, frag[n])]]
<1>1. N \in Nat /\ \A n \in 1 .. N : frag[n] \in Segments
  BY LenProperties, ElementOfSeq DEF Fragments
<1>2. EmptyDoc \in ExactDocs
  BY EmptyIsExact DEF ExactDocs
<1>3. step \in [1 .. N -> [ExactDocs -> ExactDocs]]
  BY <1>1, PlaceSegKeeps
<1>4. \A d \in ExactDocs, n \in 1 .. N : step[n][d] = PlaceSeg(d, frag[n])
  OBVIOUS
<1> HIDE DEF N, step
<1>5. PICK f \in Iterations(ExactDocs, EmptyDoc, N, step) : TRUE
  <2> HIDE DEF Laid
  <2>1. N \in Nat
    BY <1>1
  <2> QED  BY <2>1, <1>2, <1>3, Iterates
<1>6. /\ f \in [0 .. N -> ExactDocs]
      /\ f[0] = EmptyDoc /\ \A n \in 1 .. N : f[n] = step[n][f[n - 1]]
  <2> HIDE DEF Laid
  <2> QED  BY <1>5 DEF Iterations
<1>7. Laid(f)
  <2>1. \A n \in 1 .. N : f[n] = PlaceSeg(f[n - 1], frag[n])
    <3> SUFFICES ASSUME NEW n \in 1 .. N PROVE f[n] = PlaceSeg(f[n - 1], frag[n])
      OBVIOUS
    <3>1. n - 1 \in 0 .. N
      BY <1>1
    <3> QED  BY <1>4, <1>6, <3>1
  <2> QED  BY <1>1, <1>6, <2>1
<1> DEFINE h == CHOOSE g : Laid(g)
<1>8. Laid(h)
  <2> HIDE DEF Laid
  <2> QED  BY <1>7
<1>9. Assemble(frag) = h[N]
  BY DEF Assemble, PlaceSeg, N
<1> HIDE DEF h
<1>10. h[0] = EmptyDoc /\ \A n \in 1 .. N : h[n] = PlaceSeg(h[n - 1], frag[n])
  BY <1>1, <1>8
<1> HIDE DEF Laid
<1> DEFINE S == {n \in 0 .. N : h[n] \in ExactDocs}
<1>11. \A n \in 1 .. N : n - 1 \in S => n \in S
  BY <1>1, <1>10, PlaceSegKeeps
<1>12. 0 \in S
  BY <1>1, <1>2, <1>10
<1> HIDE DEF S
<1>13. N \in S
  <2>1. \A n \in 0 .. N : n \in S
    BY <1>1, <1>11, <1>12, InductionUpTo
  <2> QED  BY <1>1, <2>1
<1> QED  BY <1>9, <1>13 DEF S

(* ---------- What a style makes of a text ---------- *)

Unlettered == {u \in Seq(Chars) : \A i \in DOMAIN u : u[i] # Letter}

Carries(s, t) == Within(s, t) /\ (OneLine(s) => t = s)

LEMMA CarriesItself ==
  ASSUME NEW s \in Seq(Chars)
  PROVE  Carries(s, s)
<1> DEFINE at == [i \in DOMAIN s |-> i]
<1>1. at \in [DOMAIN s -> DOMAIN s] /\ Grows(at) /\ \A i \in DOMAIN s : at[i] = i
  BY DEF Grows
<1> HIDE DEF at
<1>2. Within(s, s)
  BY <1>1 DEF Within
<1> QED  BY <1>2 DEF Carries

LEMMA CarriesOn ==
  ASSUME NEW s \in Seq(Chars), NEW t \in Seq(Chars), NEW u \in Seq(Chars),
         Carries(s, t), Carries(t, u)
  PROVE  Carries(s, u)
<1>1. PICK f \in [DOMAIN s -> DOMAIN t] :
        /\ Grows(f) /\ \A i \in DOMAIN s : t[f[i]] = s[i]
        /\ \A j \in DOMAIN t : t[j] = Letter => \E i \in DOMAIN s : f[i] = j
  BY DEF Carries, Within
<1>2. PICK g \in [DOMAIN t -> DOMAIN u] :
        /\ Grows(g) /\ \A i \in DOMAIN t : u[g[i]] = t[i]
        /\ \A j \in DOMAIN u : u[j] = Letter => \E i \in DOMAIN t : g[i] = j
  BY DEF Carries, Within
<1> DEFINE h == [i \in DOMAIN s |-> g[f[i]]]
<1>3. h \in [DOMAIN s -> DOMAIN u] /\ \A i \in DOMAIN s : h[i] = g[f[i]]
  BY <1>1, <1>2
<1> HIDE DEF h
<1>4. Grows(h)
  <2> SUFFICES ASSUME NEW i \in DOMAIN s, NEW j \in DOMAIN s, i < j PROVE h[i] < h[j]
    BY <1>3 DEF Grows
  <2>1. f[i] \in DOMAIN t /\ f[j] \in DOMAIN t /\ f[i] < f[j]
    BY <1>1 DEF Grows
  <2> QED  BY <1>2, <1>3, <2>1 DEF Grows
<1>5. \A i \in DOMAIN s : u[h[i]] = s[i]
  BY <1>1, <1>2, <1>3
<1>6. ASSUME NEW j \in DOMAIN u, u[j] = Letter PROVE \E i \in DOMAIN s : h[i] = j
  <2>1. PICK k \in DOMAIN t : g[k] = j
    BY <1>2, <1>6
  <2>2. t[k] = Letter
    BY <1>2, <1>6, <2>1
  <2>3. PICK i \in DOMAIN s : f[i] = k
    BY <1>1, <2>2
  <2> QED  BY <1>3, <2>1, <2>3
<1>7. Within(s, u)
  BY <1>3, <1>4, <1>5, <1>6 DEF Within
<1> QED  BY <1>7 DEF Carries

LEMMA ConcatChar ==
  ASSUME NEW t \in Seq(Chars), NEW u \in Seq(Chars), NEW c \in Chars
  PROVE  /\ t \o u \o <<c>> \in Seq(Chars)
         /\ Len(t \o u \o <<c>>) = Len(t) + Len(u) + 1
         /\ \A i \in 1 .. Len(t) : (t \o u \o <<c>>)[i] = t[i]
         /\ \A i \in 1 .. Len(u) : (t \o u \o <<c>>)[Len(t) + i] = u[i]
         /\ (t \o u \o <<c>>)[Len(t) + Len(u) + 1] = c
<1>1. /\ t \o u \in Seq(Chars) /\ Len(t \o u) = Len(t) + Len(u)
      /\ \A i \in 1 .. Len(t) : (t \o u)[i] = t[i]
      /\ \A i \in 1 .. Len(u) : (t \o u)[Len(t) + i] = u[i]
      /\ Len(t) \in Nat /\ Len(u) \in Nat
  BY LenProperties, ConcatProperties
<1> DEFINE tu == t \o u
<1> HIDE DEF tu
<1>2. tu \o <<c>> = Append(tu, c)
  BY <1>1, AppendIsConcat DEF tu
<1>3. /\ Append(tu, c) \in Seq(Chars) /\ Len(Append(tu, c)) = Len(tu) + 1
      /\ \A i \in 1 .. Len(tu) : Append(tu, c)[i] = tu[i]
      /\ Append(tu, c)[Len(tu) + 1] = c
  BY <1>1, AppendProperties DEF tu
<1> DEFINE v == Append(tu, c)
<1> HIDE DEF v
<1>4. \A i \in 1 .. Len(t) : v[i] = t[i]
  BY <1>1, <1>3 DEF tu, v
<1>5. \A i \in 1 .. Len(u) : v[Len(t) + i] = u[i]
  <2> SUFFICES ASSUME NEW i \in 1 .. Len(u) PROVE v[Len(t) + i] = u[i]
    OBVIOUS
  <2>1. Len(t) + i \in 1 .. Len(tu)
    BY <1>1 DEF tu
  <2> QED  BY <1>1, <1>3, <2>1 DEF tu, v
<1> QED  BY <1>1, <1>2, <1>3, <1>4, <1>5 DEF tu, v

LEMMA AppendChar ==
  ASSUME NEW s \in Seq(Chars), NEW c \in Chars
  PROVE  /\ Append(s, c) \in Seq(Chars) /\ Len(s) \in Nat
         /\ DOMAIN s = 1 .. Len(s) /\ DOMAIN Append(s, c) = 1 .. Len(s) + 1
         /\ \A i \in 1 .. Len(s) : Append(s, c)[i] = s[i]
         /\ Append(s, c)[Len(s) + 1] = c
BY LenProperties, AppendProperties

LEMMA WithinGrows ==
  ASSUME NEW s \in Seq(Chars), NEW t \in Seq(Chars), NEW u \in Unlettered, NEW c \in Chars,
         Within(s, t)
  PROVE  Within(Append(s, c), t \o u \o <<c>>)
<1> DEFINE sc == Append(s, c)
           w == t \o u \o <<c>>
           last == Len(t) + Len(u) + 1
<1>1. /\ sc \in Seq(Chars) /\ Len(s) \in Nat
      /\ DOMAIN s = 1 .. Len(s) /\ DOMAIN sc = 1 .. Len(s) + 1
      /\ \A i \in 1 .. Len(s) : sc[i] = s[i]
      /\ sc[Len(s) + 1] = c
  BY AppendChar
<1>2. u \in Seq(Chars) /\ \A i \in 1 .. Len(u) : u[i] # Letter
  BY LenProperties DEF Unlettered
<1>3. /\ w \in Seq(Chars) /\ Len(w) = last
      /\ \A i \in 1 .. Len(t) : w[i] = t[i]
      /\ \A i \in 1 .. Len(u) : w[Len(t) + i] = u[i]
      /\ w[last] = c
  BY <1>2, ConcatChar
<1>4. DOMAIN t = 1 .. Len(t) /\ DOMAIN w = 1 .. last /\ Len(t) \in Nat /\ Len(u) \in Nat
  BY <1>2, <1>3, LenProperties
<1>5. PICK f \in [DOMAIN s -> DOMAIN t] :
        /\ Grows(f) /\ \A i \in DOMAIN s : t[f[i]] = s[i]
        /\ \A j \in DOMAIN t : t[j] = Letter => \E i \in DOMAIN s : f[i] = j
  BY DEF Within
<1> HIDE DEF sc, w
<1> DEFINE g == [i \in 1 .. Len(s) + 1 |-> IF i = Len(s) + 1 THEN last ELSE f[i]]
<1>6. /\ DOMAIN g = 1 .. Len(s) + 1 /\ g[Len(s) + 1] = last
      /\ \A i \in 1 .. Len(s) : g[i] = f[i] /\ f[i] \in 1 .. Len(t)
  BY <1>1, <1>4, <1>5
<1>7. g \in [DOMAIN sc -> DOMAIN w]
  BY <1>1, <1>4, <1>5
<1> HIDE DEF g
<1>8. Grows(g)
  <2> SUFFICES ASSUME NEW i \in 1 .. Len(s) + 1, NEW j \in 1 .. Len(s) + 1, i < j
               PROVE  g[i] < g[j]
    BY <1>6 DEF Grows
  <2>1. i \in 1 .. Len(s)
    BY <1>1
  <2>2. CASE j = Len(s) + 1
    BY <1>4, <1>6, <2>1, <2>2
  <2>3. CASE j # Len(s) + 1
    <3>1. j \in 1 .. Len(s)
      BY <1>1, <2>3
    <3> QED  BY <1>1, <1>5, <1>6, <2>1, <3>1 DEF Grows
  <2> QED  BY <2>2, <2>3
<1>9. ASSUME NEW i \in DOMAIN sc PROVE w[g[i]] = sc[i]
  <2>1. CASE i = Len(s) + 1
    BY <1>1, <1>3, <1>6, <2>1
  <2>2. CASE i # Len(s) + 1
    <3>1. i \in 1 .. Len(s)
      BY <1>1, <1>9, <2>2
    <3> QED  BY <1>1, <1>3, <1>5, <1>6, <3>1
  <2> QED  BY <2>1, <2>2
<1>10. ASSUME NEW j \in DOMAIN w, w[j] = Letter PROVE \E i \in DOMAIN sc : g[i] = j
  <2>1. j \in 1 .. last
    BY <1>4
  <2>2. CASE j = last
    BY <1>1, <1>6, <2>2
  <2>3. CASE j \in 1 .. Len(t)
    <3>1. t[j] = Letter
      BY <1>3, <1>10, <2>3
    <3>2. j \in DOMAIN t
      BY <1>4, <2>3
    <3>3. PICK i \in DOMAIN s : f[i] = j
      BY <1>5, <3>1, <3>2
    <3>4. i \in 1 .. Len(s) /\ i \in DOMAIN sc
      BY <1>1
    <3>5. g[i] = f[i]
      BY <1>6, <3>4
    <3> QED  BY <3>3, <3>4, <3>5
  <2>4. CASE j # last /\ j \notin 1 .. Len(t)
    <3> DEFINE k == j - Len(t)
               before == Len(t)
               added == Len(u)
    <3>1. k \in 1 .. Len(u) /\ j = Len(t) + k
      <4>1. /\ before \in Nat /\ added \in Nat /\ k = j - before
            /\ j \in 1 .. before + added + 1 /\ j # before + added + 1 /\ j \notin 1 .. before
        BY <1>4, <2>1, <2>4
      <4> HIDE DEF k, before, added
      <4>2. k \in 1 .. added /\ j = before + k
        BY <4>1
      <4> QED  BY <4>2 DEF before, added
    <3> HIDE DEF k
    <3>2. w[j] = u[k]
      BY <1>3, <3>1
    <3> QED  BY <1>2, <1>10, <3>1, <3>2
  <2> QED  BY <2>2, <2>3, <2>4
<1>11. Within(sc, w)
  BY <1>7, <1>8, <1>9, <1>10 DEF Within
<1> QED  BY <1>11 DEF sc, w


LEMMA OneMore ==
  ASSUME NEW S, NEW s \in Seq(S), NEW n \in 1 .. Len(s)
  PROVE  /\ SubSeq(s, 1, n - 1) \in Seq(S) /\ Len(SubSeq(s, 1, n - 1)) = n - 1
         /\ s[n] \in S
         /\ SubSeq(s, 1, n) = Append(SubSeq(s, 1, n - 1), s[n])
<1>1. n \in Nat /\ Len(s) \in Nat /\ 1 \in 1 .. Len(s) /\ n \in 1 .. Len(s)
  BY LenProperties
<1>2. \A i \in 1 .. Len(s) : s[i] \in S
  BY ElementOfSeq
<1>3. SubSeq(s, 1, n - 1) \in Seq(S) /\ Len(SubSeq(s, 1, n - 1)) = n - 1
  <2>1. n - 1 \in Int /\ 1 \in Int /\ \A i \in 1 .. n - 1 : s[i] \in S
    BY <1>1, <1>2
  <2>2. Len(SubSeq(s, 1, n - 1)) = IF 1 <= n - 1 THEN (n - 1) - 1 + 1 ELSE 0
    BY <2>1, SubSeqProperties
  <2>3. SubSeq(s, 1, n - 1) \in Seq(S)
    BY <2>1, SubSeqProperties
  <2> QED  BY <1>1, <2>2, <2>3
<1>4. SubSeq(s, 1, n) = SubSeq(s, 1, n - 1) \o <<s[n]>>
  BY <1>1, SubSeqRecursiveSecond
<1> QED  BY <1>2, <1>3, <1>4, AppendIsConcat

LEMMA OneMoreChar ==
  ASSUME NEW s \in Seq(Chars), NEW c \in Chars, OneLine(Append(s, c))
  PROVE  OneLine(s) /\ c # NL
BY AppendChar DEF OneLine

LEMMA NothingYet == ASSUME NEW s PROVE SubSeq(s, 1, 0) = <<>>
BY SubSeqEmpty

EscChar(t, c) == t \o (IF c = NL THEN <<Escape>> ELSE <<>>) \o <<c>>

LEMMA EscCharCarries ==
  ASSUME NEW s \in Seq(Chars), NEW t \in Seq(Chars), NEW c \in Chars
  PROVE  /\ EscChar(t, c) \in Seq(Chars)
         /\ Carries(s, t) => Carries(Append(s, c), EscChar(t, c))
<1> DEFINE u == IF c = NL THEN <<Escape>> ELSE <<>>
<1>1. u \in Unlettered
  BY DEF Unlettered, Chars, Escape, Letter, NL
<1>2. u \in Seq(Chars)
  BY <1>1 DEF Unlettered
<1>3. c # NL => u = <<>>
  OBVIOUS
<1>4. EscChar(t, c) = t \o u \o <<c>>
  BY DEF EscChar
<1> HIDE DEF u
<1>5. EscChar(t, c) \in Seq(Chars)
  BY <1>2, <1>4, ConcatChar
<1>6. ASSUME Carries(s, t) PROVE Within(Append(s, c), EscChar(t, c))
  <2>1. Within(s, t)
    BY <1>6 DEF Carries
  <2> QED  BY <1>1, <1>4, <2>1, WithinGrows
<1>7. ASSUME Carries(s, t), OneLine(Append(s, c)) PROVE EscChar(t, c) = Append(s, c)
  <2>1. OneLine(s) /\ c # NL
    BY <1>7, OneMoreChar
  <2>2. t = s /\ u = <<>>
    BY <1>3, <1>7, <2>1 DEF Carries
  <2>3. t \o u = t
    BY <2>2, ConcatEmptySeq
  <2> QED  BY <1>4, <2>2, <2>3, AppendIsConcat
<1> QED  BY <1>5, <1>6, <1>7 DEF Carries

\* json_escape adds escapes only.
LEMMA EscTextCarries ==
  ASSUME NEW s \in Seq(Chars)
  PROVE  EscText(s) \in Seq(Chars) /\ Carries(s, EscText(s))
<1> DEFINE N == Len(s)
           T == Seq(Chars)
           Run(g) == g = [n \in 0 .. N |-> IF n = 0 THEN <<>> ELSE EscChar(g[n - 1], s[n])]
           step == [n \in 1 .. N |-> [t \in T |-> EscChar(t, s[n])]]
<1>1. N \in Nat /\ \A n \in 1 .. N : s[n] \in Chars
  BY LenProperties, ElementOfSeq
<1>2. <<>> \in T
  BY EmptySeq
<1>3. \A t \in T, n \in 1 .. N : EscChar(t, s[n]) \in T
  BY <1>1, EscCharCarries
<1> HIDE DEF T
<1>4. step \in [1 .. N -> [T -> T]]
  BY <1>3
<1>5. \A t \in T, n \in 1 .. N : step[n][t] = EscChar(t, s[n])
  OBVIOUS
<1> HIDE DEF N, step
<1>6. PICK f \in Iterations(T, <<>>, N, step) : TRUE
  <2> HIDE DEF Run
  <2>1. N \in Nat
    BY <1>1
  <2> QED  BY <2>1, <1>2, <1>4, Iterates
<1>7. /\ f \in [0 .. N -> T]
      /\ f[0] = <<>> /\ \A n \in 1 .. N : f[n] = step[n][f[n - 1]]
  <2> HIDE DEF Run
  <2> QED  BY <1>6 DEF Iterations
<1>8. Run(f)
  <2>1. ASSUME NEW n \in 1 .. N PROVE f[n] = EscChar(f[n - 1], s[n])
    <3> HIDE DEF Run
    <3>1. n - 1 \in 0 .. N /\ f[n - 1] \in T
      BY <1>1, <1>7
    <3>2. f[n] = step[n][f[n - 1]]
      BY <1>7
    <3> QED  BY <1>5, <3>1, <3>2
  <2> QED  BY <1>1, <1>7, <2>1
<1> DEFINE h == CHOOSE g : Run(g)
<1>9. Run(h)
  <2> HIDE DEF Run
  <2> QED  BY <1>8
<1>10. EscText(s) = h[N]
  BY DEF EscText, EscChar, N
<1> HIDE DEF h
<1>11. h[0] = <<>> /\ \A n \in 1 .. N : h[n] = EscChar(h[n - 1], s[n])
  BY <1>1, <1>9
<1> HIDE DEF Run
<1> DEFINE Good(n) == h[n] \in T /\ Carries(SubSeq(s, 1, n), h[n])
           S == {n \in 0 .. N : Good(n)}
<1>12. 0 \in S
  <2>1. SubSeq(s, 1, 0) = <<>> /\ Carries(<<>>, <<>>)
    BY <1>2, NothingYet, CarriesItself DEF T
  <2>2. Good(0)
    BY <1>2, <1>11, <2>1
  <2> HIDE DEF Good
  <2> QED  BY <1>1, <2>2
<1>13. ASSUME NEW n \in 1 .. N, n - 1 \in S PROVE n \in S
  <2>1. n \in 1 .. Len(s) /\ n \in 0 .. N
    BY <1>1 DEF N
  <2>2. /\ SubSeq(s, 1, n - 1) \in Seq(Chars) /\ s[n] \in Chars
        /\ SubSeq(s, 1, n) = Append(SubSeq(s, 1, n - 1), s[n])
    BY <2>1, OneMore
  <2>3. h[n - 1] \in Seq(Chars) /\ Carries(SubSeq(s, 1, n - 1), h[n - 1])
    BY <1>13 DEF T
  <2>4. /\ EscChar(h[n - 1], s[n]) \in Seq(Chars)
        /\ Carries(SubSeq(s, 1, n), EscChar(h[n - 1], s[n]))
    BY <2>2, <2>3, EscCharCarries
  <2> QED  BY <1>11, <2>1, <2>4 DEF T
<1> HIDE DEF S
<1>14. N \in S
  <2>1. \A n \in 1 .. N : n - 1 \in S => n \in S
    BY <1>13
  <2>2. \A n \in 0 .. N : n \in S
    BY <1>1, <1>12, <2>1, InductionUpTo
  <2> QED  BY <1>1, <2>2
<1>15. SubSeq(s, 1, N) = s
  BY SubSeqFull DEF N
<1> QED  BY <1>10, <1>14, <1>15 DEF S, T


LEMMA GreatestPlace ==
  ASSUME NEW N \in Nat, NEW T \in SUBSET (1 .. N)
  PROVE  /\ Max({0} \cup T) \in {0} \cup T
         /\ \A m \in T : m <= Max({0} \cup T)
<1> DEFINE U == {0} \cup T
           Top(x) == \A y \in U : x >= y
<1>1. U \in SUBSET (0 .. N) /\ U # {}
  OBVIOUS
<1>2. \E x \in U : Top(x)
  <2> HIDE DEF U, Top
  <2>1. PICK n \in U : \A m \in U : m <= n
    BY <1>1, GreatestUpTo
  <2>2. Top(n)
    BY <1>1, <2>1 DEF Top
  <2> QED  BY <2>2
<1>3. Max(U) = CHOOSE x \in U : Top(x)
  BY DEF Max
<1> HIDE DEF Top, U
<1>4. Max(U) \in U /\ Top(Max(U))
  BY <1>2, <1>3
<1>5. \A m \in T : m \in U
  BY DEF U
<1>6. \A m \in T : m <= Max(U)
  BY <1>1, <1>4, <1>5 DEF Top
<1> QED  BY <1>4, <1>6 DEF U

LEMMA LeastPlace ==
  ASSUME NEW N \in Nat, NEW T \in SUBSET (1 .. N)
  PROVE  /\ Min({N + 1} \cup T) \in {N + 1} \cup T
         /\ \A m \in T : Min({N + 1} \cup T) <= m
<1> DEFINE U == {N + 1} \cup T
           Bottom(x) == \A y \in U : x =< y
<1>1. U \in SUBSET Nat /\ U # {}
  OBVIOUS
<1>2. \E x \in U : Bottom(x)
  <2> HIDE DEF U, Bottom
  <2>1. PICK n \in U : \A m \in U : n <= m
    BY <1>1, LeastNatural
  <2>2. Bottom(n)
    BY <1>1, <2>1 DEF Bottom
  <2> QED  BY <2>2
<1>3. Min(U) = CHOOSE x \in U : Bottom(x)
  BY DEF Min
<1> HIDE DEF Bottom, U
<1>4. Min(U) \in U /\ Bottom(Min(U))
  BY <1>2, <1>3
<1>5. \A m \in T : m \in U
  BY DEF U
<1>6. \A m \in T : Min(U) <= m
  BY <1>1, <1>4, <1>5 DEF Bottom
<1> QED  BY <1>4, <1>6 DEF U

LEMMA SubText ==
  ASSUME NEW s \in Seq(Chars), NEW a \in 1 .. Len(s) + 1, NEW b \in 0 .. Len(s)
  PROVE  /\ SubSeq(s, a, b) \in Seq(Chars)
         /\ s \in Unlettered => SubSeq(s, a, b) \in Unlettered
<1> DEFINE t == SubSeq(s, a, b)
<1>1. /\ Len(s) \in Nat /\ a \in Int /\ b \in Int /\ DOMAIN s = 1 .. Len(s)
      /\ \A i \in a .. b : i \in 1 .. Len(s) /\ s[i] \in Chars
  BY LenProperties, ElementOfSeq
<1>2. t \in Seq(Chars) /\ Len(t) = IF a <= b THEN b - a + 1 ELSE 0
  BY <1>1, SubSeqProperties
<1>3. \A i \in 1 .. b - a + 1 : t[i] = s[a + i - 1]
  BY <1>1, SubSeqProperties
<1> HIDE DEF t
<1>4. ASSUME s \in Unlettered, NEW i \in DOMAIN t PROVE t[i] # Letter
  <2>1. i \in 1 .. b - a + 1
    BY <1>1, <1>2, LenProperties
  <2>2. a + i - 1 \in 1 .. Len(s)
    BY <1>1, <2>1
  <2> QED  BY <1>1, <1>3, <1>4, <2>1, <2>2 DEF Unlettered
<1> QED  BY <1>2, <1>4 DEF t, Unlettered

LEMMA RStripKeeps ==
  ASSUME NEW s \in Seq(Chars)
  PROVE  RStrip(s) \in Seq(Chars) /\ (s \in Unlettered => RStrip(s) \in Unlettered)
<1> DEFINE T == {i \in DOMAIN s : ~IsBlank(s[i])}
           k == Max({0} \cup T)
<1>1. Len(s) \in Nat /\ T \in SUBSET (1 .. Len(s))
  BY LenProperties
<1> HIDE DEF T
<1>2. k \in 0 .. Len(s)
  <2>1. k \in {0} \cup T
    BY <1>1, GreatestPlace
  <2> HIDE DEF k
  <2> QED  BY <1>1, <2>1
<1>3. RStrip(s) = SubSeq(s, 1, k)
  BY DEF RStrip, T
<1> HIDE DEF k
<1>4. 1 \in 1 .. Len(s) + 1
  BY <1>1
<1> QED  BY <1>2, <1>3, <1>4, SubText

LEMMA LStripKeeps ==
  ASSUME NEW s \in Seq(Chars)
  PROVE  LStripNL(s) \in Seq(Chars)
<1> DEFINE T == {i \in DOMAIN s : s[i] # NL}
           k == Min({Len(s) + 1} \cup T)
<1>1. Len(s) \in Nat /\ T \in SUBSET (1 .. Len(s))
  BY LenProperties
<1> HIDE DEF T
<1>2. k \in 1 .. Len(s) + 1 /\ Len(s) \in 0 .. Len(s)
  <2>1. k \in {Len(s) + 1} \cup T
    BY <1>1, LeastPlace
  <2> HIDE DEF k
  <2> QED  BY <1>1, <2>1
<1>3. LStripNL(s) = SubSeq(s, k, Len(s))
  BY DEF LStripNL, T
<1> HIDE DEF k
<1> QED  BY <1>2, <1>3, SubText

Walks == [text : Seq(Chars), bol : BOOLEAN, line : Nat]

(* What a walk along s, from within a line, shows of it.                   *)
Shows(at, s) == Within(s, at.text) /\ (OneLine(s) => at.text = s /\ ~at.bol)

LEMMA PrefixOfUnlettered ==
  ASSUME NEW at, NEW c, NEW first \in Unlettered, NEW rest \in Unlettered
  PROVE  PrefixOf(at, c, first, rest) \in Unlettered
<1> DEFINE p == IF at.line = 0 THEN first ELSE rest
<1>1. p \in Unlettered /\ p \in Seq(Chars)
  BY DEF Unlettered
<1>2. PrefixOf(at, c, first, rest) = IF c = NL THEN RStrip(p) ELSE p
  BY DEF PrefixOf
<1> HIDE DEF p
<1> QED  BY <1>1, <1>2, RStripKeeps

LEMMA PrefixCharShows ==
  ASSUME NEW at \in Walks, NEW c \in Chars,
         NEW first \in Unlettered, NEW rest \in Unlettered, NEW s \in Seq(Chars)
  PROVE  /\ PrefixChar(at, c, first, rest) \in Walks
         /\ Shows(at, s) => Shows(PrefixChar(at, c, first, rest), Append(s, c))
<1> DEFINE new == PrefixChar(at, c, first, rest)
           p == PrefixOf(at, c, first, rest)
           u == IF at.bol THEN p ELSE <<>>
<1>1. at.text \in Seq(Chars) /\ at.bol \in BOOLEAN /\ at.line \in Nat
  BY DEF Walks
<1>2. p \in Unlettered
  BY PrefixOfUnlettered
<1>3. new = [text |-> at.text \o u \o <<c>>, bol |-> c = NL,
             line |-> IF at.bol THEN 1 ELSE at.line]
  BY DEF PrefixChar
<1> HIDE DEF p
<1>4. u \in Unlettered /\ u \in Seq(Chars) /\ (~at.bol => u = <<>>)
  <2>1. <<>> \in Unlettered
    BY EmptySeq DEF Unlettered
  <2> QED  BY <1>2, <2>1 DEF Unlettered
<1> HIDE DEF u, new
<1>5. new.text = at.text \o u \o <<c>> /\ new.bol = (c = NL) /\ new.text \in Seq(Chars)
  BY <1>1, <1>3, <1>4, ConcatChar
<1>6. new \in Walks
  BY <1>1, <1>3, <1>5 DEF Walks
<1>7. ASSUME Shows(at, s) PROVE Within(Append(s, c), new.text)
  <2>1. Within(s, at.text)
    BY <1>7 DEF Shows
  <2> QED  BY <1>1, <1>4, <1>5, <2>1, WithinGrows
<1>8. ASSUME Shows(at, s), OneLine(Append(s, c))
      PROVE  new.text = Append(s, c) /\ ~new.bol
  <2>1. OneLine(s) /\ c # NL
    BY <1>8, OneMoreChar
  <2>2. at.text = s /\ u = <<>>
    BY <1>4, <1>8, <2>1 DEF Shows
  <2>3. at.text \o u = s
    BY <2>2, ConcatEmptySeq
  <2> QED  BY <1>5, <2>1, <2>3, AppendIsConcat
<1> QED  BY <1>6, <1>7, <1>8 DEF Shows, new


\* A walk along a whole text shows all of it.
LEMMA PrefixTextShows ==
  ASSUME NEW from \in Walks, NEW s \in Seq(Chars),
         NEW first \in Unlettered, NEW rest \in Unlettered
  PROVE  /\ PrefixText(from, s, first, rest) \in Walks
         /\ from.text = <<>> /\ ~from.bol => Shows(PrefixText(from, s, first, rest), s)
<1> DEFINE N == Len(s)
           Next1(at, n) == PrefixChar(at, s[n], first, rest)
           Run(g) == g = [n \in 0 .. N |-> IF n = 0 THEN from ELSE Next1(g[n - 1], n)]
           step == [n \in 1 .. N |-> [at \in Walks |-> Next1(at, n)]]
           h == CHOOSE g : Run(g)
<1>1. N \in Nat /\ \A n \in 1 .. N : s[n] \in Chars
  BY LenProperties, ElementOfSeq
<1>2. \A at \in Walks, n \in 1 .. N : Next1(at, n) \in Walks
  <2> SUFFICES ASSUME NEW at \in Walks, NEW n \in 1 .. N PROVE Next1(at, n) \in Walks
    OBVIOUS
  <2>1. s[n] \in Chars
    BY <1>1
  <2> QED  BY <2>1, PrefixCharShows
<1>3. PrefixText(from, s, first, rest) = h[N]
  BY DEF PrefixText
<1> HIDE DEF h, Next1
<1>4. step \in [1 .. N -> [Walks -> Walks]]
  BY <1>2
<1>5. \A at \in Walks, n \in 1 .. N : step[n][at] = Next1(at, n)
  OBVIOUS
<1> HIDE DEF N, step, Run
<1>6. PICK f \in Iterations(Walks, from, N, step) : TRUE
  <2>1. N \in Nat
    BY <1>1
  <2> QED  BY <2>1, <1>4, Iterates
<1>7. /\ f \in [0 .. N -> Walks]
      /\ f[0] = from /\ \A n \in 1 .. N : f[n] = step[n][f[n - 1]]
  BY <1>6 DEF Iterations
<1>8. Run(f)
  <2>1. ASSUME NEW n \in 1 .. N PROVE f[n] = Next1(f[n - 1], n)
    <3>1. n - 1 \in 0 .. N /\ f[n - 1] \in Walks
      BY <1>1, <1>7
    <3>2. f[n] = step[n][f[n - 1]]
      BY <1>7
    <3> QED  BY <1>5, <3>1, <3>2
  <2> QED  BY <1>1, <1>7, <2>1 DEF Run
<1>9. Run(h)
  BY <1>8 DEF h
<1>10. h[0] = from /\ \A n \in 1 .. N : h[n] = Next1(h[n - 1], n)
  BY <1>1, <1>9 DEF Run
<1> DEFINE Good(n) ==
             h[n] \in Walks /\ (from.text = <<>> /\ ~from.bol => Shows(h[n], SubSeq(s, 1, n)))
           S == {n \in 0 .. N : Good(n)}
<1>11. Good(0)
  <2>1. SubSeq(s, 1, 0) = <<>> /\ Carries(<<>>, <<>>)
    BY NothingYet, CarriesItself, EmptySeq
  <2> QED  BY <1>10, <2>1 DEF Carries, Shows
<1>12. ASSUME NEW n \in 1 .. N, Good(n - 1) PROVE Good(n)
  <2>1. n \in 1 .. Len(s)
    BY DEF N
  <2>2. /\ SubSeq(s, 1, n - 1) \in Seq(Chars) /\ s[n] \in Chars
        /\ SubSeq(s, 1, n) = Append(SubSeq(s, 1, n - 1), s[n])
    BY <2>1, OneMore
  <2> DEFINE at == h[n - 1]
             before == SubSeq(s, 1, n - 1)
  <2>3. at \in Walks /\ (from.text = <<>> /\ ~from.bol => Shows(at, before))
    BY <1>12
  <2>4. h[n] = PrefixChar(at, s[n], first, rest)
    BY <1>10 DEF Next1
  <2> HIDE DEF at, before
  <2>5. /\ PrefixChar(at, s[n], first, rest) \in Walks
        /\ Shows(at, before) => Shows(PrefixChar(at, s[n], first, rest), Append(before, s[n]))
    BY <2>2, <2>3, PrefixCharShows DEF before
  <2> QED  BY <2>2, <2>3, <2>4, <2>5 DEF before
<1> HIDE DEF Good
<1>13. Good(N)
  <2>1. \A n \in 1 .. N : n - 1 \in S => n \in S
    BY <1>1, <1>12
  <2>2. 0 \in S
    BY <1>1, <1>11
  <2> HIDE DEF S
  <2>3. \A n \in 0 .. N : n \in S
    BY <1>1, <2>1, <2>2, InductionUpTo
  <2>4. N \in S
    BY <1>1, <2>3
  <2> QED  BY <2>4 DEF S
<1>14. SubSeq(s, 1, N) = s
  BY SubSeqFull DEF N
<1> QED  BY <1>3, <1>13, <1>14 DEF Good

(* ---------- Tagged segments ---------- *)

SurviveBy(to, a, b) ==
  /\ to \in [TaggedIn(a) -> TaggedIn(b)] /\ Grows(to)
  /\ \A j \in TaggedIn(b) : \E i \in TaggedIn(a) : to[i] = j
  /\ \A i \in TaggedIn(a) : Carries(a[i].text, b[to[i]].text)

LEMMA SurviveMeans ==
  ASSUME NEW a, NEW b
  PROVE  Survive(a, b) <=> \E to : SurviveBy(to, a, b)
<1>1. Survive(a, b) => \E to : SurviveBy(to, a, b)
  BY DEF Survive, SurviveBy, Carries
<1>2. ASSUME NEW to, SurviveBy(to, a, b) PROVE Survive(a, b)
  BY <1>2 DEF Survive, SurviveBy, Carries
<1> QED  BY <1>1, <1>2

LEMMA SegmentAt ==
  ASSUME NEW a \in Fragments, NEW i \in DOMAIN a
  PROVE  /\ a[i].text \in Seq(Chars) /\ a[i].tagged \in BOOLEAN
         /\ a[i].tagged => a[i].text # <<>>
         /\ i \in 1 .. Len(a) /\ i \in Nat
<1>1. i \in 1 .. Len(a)
  BY LenProperties DEF Fragments
<1>2. a[i] \in Segments
  BY <1>1, ElementOfSeq DEF Fragments
<1> QED  BY <1>1, <1>2 DEF Segments

\* What survives one change and then another survives both.
LEMMA SurviveOn ==
  ASSUME NEW a \in Fragments, NEW b \in Fragments, NEW c \in Fragments,
         Survive(a, b), Survive(b, c)
  PROVE  Survive(a, c)
<1>1. PICK f : SurviveBy(f, a, b)
  BY SurviveMeans
<1>2. PICK g : SurviveBy(g, b, c)
  BY SurviveMeans
<1> DEFINE to == [i \in TaggedIn(a) |-> g[f[i]]]
<1>3. to \in [TaggedIn(a) -> TaggedIn(c)] /\ \A i \in TaggedIn(a) : to[i] = g[f[i]]
  BY <1>1, <1>2 DEF SurviveBy
<1> HIDE DEF to
<1>4. Grows(to)
  <2> SUFFICES ASSUME NEW i \in TaggedIn(a), NEW j \in TaggedIn(a), i < j PROVE to[i] < to[j]
    BY <1>3 DEF Grows
  <2>1. f[i] \in TaggedIn(b) /\ f[j] \in TaggedIn(b) /\ f[i] < f[j]
    BY <1>1 DEF SurviveBy, Grows
  <2> QED  BY <1>2, <1>3, <2>1 DEF SurviveBy, Grows
<1>5. ASSUME NEW k \in TaggedIn(c) PROVE \E i \in TaggedIn(a) : to[i] = k
  <2>1. PICK j \in TaggedIn(b) : g[j] = k
    BY <1>2 DEF SurviveBy
  <2>2. PICK i \in TaggedIn(a) : f[i] = j
    BY <1>1 DEF SurviveBy
  <2> QED  BY <1>3, <2>1, <2>2
<1>6. ASSUME NEW i \in TaggedIn(a) PROVE Carries(a[i].text, c[to[i]].text)
  <2>1. f[i] \in TaggedIn(b) /\ to[i] \in TaggedIn(c) /\ to[i] = g[f[i]]
    BY <1>1, <1>3 DEF SurviveBy
  <2>2. Carries(a[i].text, b[f[i]].text) /\ Carries(b[f[i]].text, c[to[i]].text)
    BY <1>1, <1>2, <2>1 DEF SurviveBy
  <2>3. i \in DOMAIN a /\ f[i] \in DOMAIN b /\ to[i] \in DOMAIN c
    BY <2>1 DEF TaggedIn
  <2>4. /\ a[i].text \in Seq(Chars) /\ b[f[i]].text \in Seq(Chars)
        /\ c[to[i]].text \in Seq(Chars)
    BY <2>3, SegmentAt
  <2> QED  BY <2>2, <2>4, CarriesOn
<1>7. SurviveBy(to, a, c)
  BY <1>3, <1>4, <1>5, <1>6 DEF SurviveBy
<1> QED  BY <1>7, SurviveMeans

\* Tagged segments that all move by the same number of places survive.
LEMMA ShiftSurvives ==
  ASSUME NEW a \in Fragments, NEW b \in Fragments, NEW d \in Nat,
         \A i \in TaggedIn(a) : i - d \in TaggedIn(b) /\ Carries(a[i].text, b[i - d].text),
         \A j \in TaggedIn(b) : j + d \in TaggedIn(a)
  PROVE  Survive(a, b)
<1> DEFINE to == [i \in TaggedIn(a) |-> i - d]
<1>1. \A i \in TaggedIn(a) : i \in Nat
  BY SegmentAt DEF TaggedIn
<1>2. \A j \in TaggedIn(b) : j \in Nat
  BY SegmentAt DEF TaggedIn
<1>3. to \in [TaggedIn(a) -> TaggedIn(b)] /\ \A i \in TaggedIn(a) : to[i] = i - d
  OBVIOUS
<1> HIDE DEF to
<1>4. Grows(to)
  BY <1>1, <1>3 DEF Grows
<1>5. ASSUME NEW j \in TaggedIn(b) PROVE \E i \in TaggedIn(a) : to[i] = j
  <2>1. j + d \in TaggedIn(a) /\ j \in Nat
    BY <1>2
  <2>2. (j + d) - d = j
    BY <2>1
  <2> QED  BY <1>3, <2>1, <2>2
<1>6. SurviveBy(to, a, b)
  BY <1>3, <1>4, <1>5 DEF SurviveBy
<1> QED  BY <1>6, SurviveMeans


LEMMA SubFragment ==
  ASSUME NEW a \in Fragments, NEW m \in 1 .. Len(a) + 1, NEW n \in 0 .. Len(a)
  PROVE  /\ SubSeq(a, m, n) \in Fragments
         /\ Len(SubSeq(a, m, n)) = IF m <= n THEN n - m + 1 ELSE 0
         /\ \A i \in 1 .. n - m + 1 : SubSeq(a, m, n)[i] = a[m + i - 1]
<1>1. Len(a) \in Nat /\ \A i \in 1 .. Len(a) : a[i] \in Segments
  BY LenProperties, ElementOfSeq DEF Fragments
<1>2. m \in Int /\ n \in Int /\ \A i \in m .. n : a[i] \in Segments
  BY <1>1
<1> QED  BY <1>2, SubSeqProperties DEF Fragments

LEMMA TaggedPlaces ==
  ASSUME NEW a \in Fragments
  PROVE  /\ Len(a) \in Nat /\ DOMAIN a = 1 .. Len(a)
         /\ TaggedIn(a) = {i \in 1 .. Len(a) : a[i].tagged}
BY LenProperties DEF Fragments, TaggedIn

LEMMA PlainSeg ==
  ASSUME NEW s \in Seq(Chars)
  PROVE  Seg(s, FALSE) \in Segments /\ ~Seg(s, FALSE).tagged /\ Seg(s, FALSE).text = s
BY DEF Seg, Segments

\* rstrip_nl touches no tagged segment.
LEMMA RStripNlKeeps ==
  ASSUME NEW a \in Fragments
  PROVE  RStripNl(a) \in Fragments /\ Survive(a, RStripNl(a))
<1> DEFINE N == Len(a)
           T == {i \in DOMAIN a : a[i].tagged \/ RStrip(a[i].text) # <<>>}
           k == Max({0} \cup T)
           b == RStripNl(a)
<1>1. N \in Nat /\ DOMAIN a = 1 .. N /\ TaggedIn(a) = {i \in 1 .. N : a[i].tagged}
  BY TaggedPlaces
<1>2. T \in SUBSET (1 .. N) /\ TaggedIn(a) \subseteq T
  BY <1>1
<1>3. b = IF k = 0 THEN <<>> ELSE IF a[k].tagged THEN SubSeq(a, 1, k)
          ELSE Append(SubSeq(a, 1, k - 1), Seg(RStrip(a[k].text), FALSE))
  BY DEF RStripNl
<1> HIDE DEF T, b
<1>4. k \in {0} \cup T /\ \A m \in T : m <= k
  BY <1>1, <1>2, GreatestPlace
<1> HIDE DEF k, N
<1>5. ASSUME NEW i \in TaggedIn(a)
      PROVE  i \in 1 .. k /\ Carries(a[i].text, a[i].text)
  BY <1>1, <1>2, <1>4, SegmentAt, CarriesItself
<1>6. CASE k = 0
  <2>1. b = <<>> /\ TaggedIn(a) = {}
    BY <1>3, <1>5, <1>6
  <2>2. b \in Fragments /\ TaggedIn(b) = {}
    BY <2>1, EmptySeq DEF Fragments, TaggedIn
  <2>3. Survive(a, b)
    BY <2>1, <2>2, ShiftSurvives
  <2> QED  BY <2>2, <2>3 DEF b
<1>7. CASE k # 0
  <2>1. k \in 1 .. N /\ k \in 0 .. N /\ k - 1 \in 0 .. N /\ 1 \in 1 .. N + 1
    BY <1>1, <1>2, <1>4, <1>7
  <2>2. b \in Fragments /\ Len(b) = k /\ (\A i \in 1 .. k - 1 : b[i] = a[i])
        /\ b[k].tagged = a[k].tagged /\ (a[k].tagged => b[k] = a[k])
    <3>1. CASE a[k].tagged
      <4> DEFINE c == SubSeq(a, 1, k)
      <4>1. /\ c \in Fragments /\ Len(c) = IF 1 <= k THEN k - 1 + 1 ELSE 0
            /\ \A i \in 1 .. k - 1 + 1 : c[i] = a[1 + i - 1]
        BY <2>1, SubFragment DEF N
      <4>2. b = c
        BY <1>3, <1>7, <3>1
      <4> HIDE DEF c
      <4>3. Len(c) = k /\ \A i \in 1 .. k : c[i] = a[i]
        BY <1>1, <2>1, <4>1
      <4>4. k \in 1 .. k /\ \A i \in 1 .. k - 1 : i \in 1 .. k
        BY <1>1, <2>1
      <4> QED  BY <4>1, <4>2, <4>3, <4>4
    <3>2. CASE ~a[k].tagged
      <4> DEFINE c == SubSeq(a, 1, k - 1)
                 g == Seg(RStrip(a[k].text), FALSE)
      <4>1. /\ c \in Fragments /\ Len(c) = IF 1 <= k - 1 THEN k - 1 - 1 + 1 ELSE 0
            /\ \A i \in 1 .. k - 1 - 1 + 1 : c[i] = a[1 + i - 1]
        BY <2>1, SubFragment DEF N
      <4>2. Len(c) = k - 1 /\ \A i \in 1 .. k - 1 : c[i] = a[i]
        BY <2>1, <4>1
      <4>3. g \in Segments /\ ~g.tagged
        BY <1>1, <2>1, SegmentAt, RStripKeeps, PlainSeg
      <4>4. b = Append(c, g)
        BY <1>3, <1>7, <3>2
      <4>5. a[k].tagged = FALSE
        BY <1>1, <2>1, <3>2, SegmentAt
      <4>6. g.tagged = FALSE
        BY DEF Seg
      <4> HIDE DEF c, g
      <4>7. /\ Append(c, g) \in Fragments /\ Len(Append(c, g)) = Len(c) + 1
            /\ \A i \in 1 .. Len(c) : Append(c, g)[i] = c[i]
            /\ Append(c, g)[Len(c) + 1] = g
        BY <4>1, <4>3, AppendProperties DEF Fragments
      <4>8. Len(c) + 1 = k
        BY <2>1, <4>2
      <4> QED  BY <3>2, <4>2, <4>4, <4>5, <4>6, <4>7, <4>8
    <3> QED  BY <3>1, <3>2
  <2>3. TaggedIn(b) = {i \in 1 .. k : b[i].tagged}
    BY <2>2, TaggedPlaces
  <2>4. \A i \in 1 .. k : (i \in 1 .. k - 1 \/ i = k) /\ i - 0 = i /\ i + 0 = i /\ i \in 1 .. N
    BY <1>1, <2>1
  <2>5. ASSUME NEW i \in TaggedIn(a)
        PROVE  i - 0 \in TaggedIn(b) /\ Carries(a[i].text, b[i - 0].text)
    <3>1. i \in 1 .. k /\ Carries(a[i].text, a[i].text) /\ a[i].tagged
      BY <1>1, <1>5
    <3>2. b[i] = a[i]
      BY <2>2, <2>4, <3>1
    <3> QED  BY <2>3, <2>4, <3>1, <3>2
  <2>6. ASSUME NEW j \in TaggedIn(b) PROVE j + 0 \in TaggedIn(a)
    <3>1. j \in 1 .. k /\ b[j].tagged
      BY <2>3
    <3>2. a[j].tagged
      BY <2>2, <2>4, <3>1
    <3> QED  BY <1>1, <2>4, <3>1, <3>2
  <2>7. Survive(a, b)
    BY <2>2, <2>5, <2>6, ShiftSurvives
  <2> QED  BY <2>2, <2>7 DEF b
<1> QED  BY <1>6, <1>7

\* lstrip_nl touches no tagged segment.
LEMMA LStripNlKeeps ==
  ASSUME NEW a \in Fragments
  PROVE  LStripNl(a) \in Fragments /\ Survive(a, LStripNl(a))
<1> DEFINE N == Len(a)
           T == {i \in DOMAIN a : a[i].tagged \/ LStripNL(a[i].text) # <<>>}
           k == Min({N + 1} \cup T)
           b == LStripNl(a)
<1>1. N \in Nat /\ DOMAIN a = 1 .. N /\ TaggedIn(a) = {i \in 1 .. N : a[i].tagged}
  BY TaggedPlaces
<1>2. T \in SUBSET (1 .. N) /\ TaggedIn(a) \subseteq T
  BY <1>1
<1>3. b = IF k = N + 1 THEN <<>> ELSE IF a[k].tagged THEN SubSeq(a, k, N)
          ELSE <<Seg(LStripNL(a[k].text), FALSE)>> \o SubSeq(a, k + 1, N)
  BY DEF LStripNl
<1> HIDE DEF T, b
<1>4. k \in {N + 1} \cup T /\ \A m \in T : k <= m
  BY <1>1, <1>2, LeastPlace
<1> HIDE DEF k, N
<1>5. ASSUME NEW i \in TaggedIn(a)
      PROVE  i \in k .. N /\ Carries(a[i].text, a[i].text)
  <2>1. i \in 1 .. N /\ i \in T
    BY <1>1, <1>2
  <2>2. k \in Nat /\ k <= i
    BY <1>1, <1>2, <1>4, <2>1
  <2> QED  BY <1>1, <2>1, <2>2, SegmentAt, CarriesItself
<1>6. CASE k = N + 1
  <2>1. b = <<>> /\ TaggedIn(a) = {}
    BY <1>1, <1>3, <1>5, <1>6
  <2>2. b \in Fragments /\ TaggedIn(b) = {}
    BY <2>1, EmptySeq DEF Fragments, TaggedIn
  <2>3. Survive(a, b)
    BY <2>1, <2>2, ShiftSurvives
  <2> QED  BY <2>2, <2>3 DEF b
<1>7. CASE k # N + 1
  <2> DEFINE d == k - 1
             n == N - d
  <2>1. k \in 1 .. N /\ k \in 1 .. N + 1 /\ k + 1 \in 1 .. N + 1 /\ N \in 0 .. N
        /\ d \in Nat /\ n \in Nat /\ n >= 1
    BY <1>1, <1>2, <1>4, <1>7
  <2>2. b \in Fragments /\ Len(b) = n /\ (\A i \in 2 .. n : b[i] = a[d + i])
        /\ b[1].tagged = a[k].tagged /\ (a[k].tagged => b[1] = a[k])
    <3>1. CASE a[k].tagged
      <4>1. /\ SubSeq(a, k, N) \in Fragments
            /\ Len(SubSeq(a, k, N)) = IF k <= N THEN N - k + 1 ELSE 0
            /\ \A i \in 1 .. N - k + 1 : SubSeq(a, k, N)[i] = a[k + i - 1]
        BY <2>1, SubFragment DEF N
      <4>2. k <= N /\ N - k + 1 = n /\ \A i \in 1 .. n : k + i - 1 = d + i
        BY <1>1, <2>1
      <4>3. 1 \in 1 .. n /\ d + 1 = k
        BY <2>1
      <4> HIDE DEF d, n
      <4> DEFINE c == SubSeq(a, k, N)
      <4>4. b = c
        BY <1>3, <1>7, <3>1
      <4>5. c \in Fragments /\ Len(c) = n /\ \A i \in 1 .. n : c[i] = a[d + i]
        BY <4>1, <4>2
      <4> HIDE DEF c
      <4>6. \A i \in 2 .. n : i \in 1 .. n
        BY <2>1
      <4> QED  BY <4>3, <4>4, <4>5, <4>6
    <3>2. CASE ~a[k].tagged
      <4> DEFINE c == SubSeq(a, k + 1, N)
                 g == Seg(LStripNL(a[k].text), FALSE)
      <4>1. /\ c \in Fragments /\ Len(c) = IF k + 1 <= N THEN N - (k + 1) + 1 ELSE 0
            /\ \A i \in 1 .. N - (k + 1) + 1 : c[i] = a[k + 1 + i - 1]
        BY <2>1, SubFragment DEF N
      <4>2. Len(c) = n - 1 /\ \A i \in 1 .. n - 1 : c[i] = a[k + i]
        BY <1>1, <2>1, <4>1
      <4>3. g \in Segments /\ g.tagged = FALSE
        BY <1>1, <2>1, SegmentAt, LStripKeeps, PlainSeg DEF Seg
      <4>4. b = <<g>> \o c
        BY <1>3, <1>7, <3>2
      <4>5. a[k].tagged = FALSE
        BY <1>1, <2>1, <3>2, SegmentAt
      <4> HIDE DEF c, g
      <4>6. <<g>> \in Seq(Segments) /\ Len(<<g>>) = 1 /\ <<g>>[1] = g /\ c \in Seq(Segments)
        BY <4>1, <4>3 DEF Fragments
      <4> DEFINE e == <<g>>
      <4> HIDE DEF e
      <4>7. /\ e \o c \in Seq(Segments) /\ Len(e \o c) = Len(e) + Len(c)
            /\ \A i \in 1 .. Len(e) : (e \o c)[i] = e[i]
            /\ \A i \in 1 .. Len(c) : (e \o c)[Len(e) + i] = c[i]
        BY <4>6, ConcatProperties DEF e
      <4>8. Len(e) = 1 /\ e[1] = g /\ b = e \o c
        BY <4>4, <4>6 DEF e
      <4>9. b \in Fragments /\ Len(b) = n /\ b[1] = g
        BY <2>1, <4>2, <4>7, <4>8 DEF Fragments
      <4>10. ASSUME NEW i \in 2 .. n PROVE b[i] = a[d + i]
        <5> DEFINE m == i - 1
        <5>1. m \in 1 .. n - 1 /\ i = 1 + m /\ d + i = k + m
          BY <1>1, <2>1
        <5> HIDE DEF m, d, n
        <5> QED  BY <4>2, <4>7, <4>8, <5>1
      <4> QED  BY <3>2, <4>3, <4>5, <4>9, <4>10
    <3> QED  BY <3>1, <3>2
  <2>3. TaggedIn(b) = {i \in 1 .. n : b[i].tagged}
    BY <2>2, TaggedPlaces
  <2>4. ASSUME NEW i \in 1 .. n
        PROVE  i + d \in k .. N /\ i + d \in 1 .. N /\ (i \in 2 .. n \/ (i = 1 /\ i + d = k))
               /\ d + i = i + d
    BY <1>1, <2>1
  <2>5. ASSUME NEW i \in TaggedIn(a)
        PROVE  i - d \in TaggedIn(b) /\ Carries(a[i].text, b[i - d].text)
    <3> DEFINE j == i - d
    <3>1. i \in k .. N /\ Carries(a[i].text, a[i].text) /\ a[i].tagged
      BY <1>1, <1>5
    <3>2. j \in 1 .. n /\ j + d = i
      BY <1>1, <2>1, <3>1
    <3> HIDE DEF d, n, j
    <3>3. b[j] = a[i]
      BY <2>2, <2>4, <3>1, <3>2
    <3> QED  BY <2>3, <3>1, <3>2, <3>3 DEF j
  <2> HIDE DEF d, n
  <2>6. ASSUME NEW j \in TaggedIn(b) PROVE j + d \in TaggedIn(a)
    <3>1. j \in 1 .. n /\ b[j].tagged
      BY <2>3
    <3>2. a[j + d].tagged
      BY <2>2, <2>4, <3>1
    <3> QED  BY <1>1, <2>4, <3>1, <3>2
  <2>7. Survive(a, b)
    BY <2>1, <2>2, <2>5, <2>6, ShiftSurvives
  <2> QED  BY <2>2, <2>7 DEF b
<1> QED  BY <1>6, <1>7

LEMMA BodyKeeps ==
  ASSUME NEW a \in Fragments
  PROVE  Body(a) \in Fragments /\ Survive(a, Body(a))
<1>1. LStripNl(a) \in Fragments /\ Survive(a, LStripNl(a))
  BY LStripNlKeeps
<1>2. RStripNl(LStripNl(a)) \in Fragments /\ Survive(LStripNl(a), RStripNl(LStripNl(a)))
  BY <1>1, RStripNlKeeps
<1> QED  BY <1>1, <1>2, SurviveOn DEF Body


LEMMA CarriesSomething ==
  ASSUME NEW s \in Seq(Chars), NEW t \in Seq(Chars), Carries(s, t), s # <<>>
  PROVE  t # <<>>
<1>1. 1 \in DOMAIN s
  BY EmptySeq, LenProperties
<1>2. PICK at \in [DOMAIN s -> DOMAIN t] : TRUE
  BY DEF Carries, Within
<1>3. at[1] \in DOMAIN t
  BY <1>1, <1>2
<1> QED  BY <1>3

\* esc_json escapes each segment where it stands.
LEMMA EscJsonKeeps ==
  ASSUME NEW a \in Fragments
  PROVE  EscJson(a) \in Fragments /\ Survive(a, EscJson(a))
<1> DEFINE b == EscJson(a)
<1>1. Len(a) \in Nat /\ DOMAIN a = 1 .. Len(a)
  BY TaggedPlaces
<1>2. DOMAIN b = 1 .. Len(a) /\ \A i \in 1 .. Len(a) : b[i] = Seg(EscText(a[i].text), a[i].tagged)
  BY <1>1 DEF EscJson
<1>3. ASSUME NEW i \in 1 .. Len(a)
      PROVE  b[i] \in Segments /\ b[i].tagged = a[i].tagged /\ Carries(a[i].text, b[i].text)
  <2>1. /\ a[i].text \in Seq(Chars) /\ a[i].tagged \in BOOLEAN
        /\ a[i].tagged => a[i].text # <<>>
    BY <1>1, SegmentAt
  <2>2. EscText(a[i].text) \in Seq(Chars) /\ Carries(a[i].text, EscText(a[i].text))
    BY <2>1, EscTextCarries
  <2>3. a[i].tagged => EscText(a[i].text) # <<>>
    BY <2>1, <2>2, CarriesSomething
  <2>4. b[i] = [text |-> EscText(a[i].text), tagged |-> a[i].tagged]
    BY <1>2 DEF Seg
  <2> QED  BY <2>1, <2>2, <2>3, <2>4 DEF Segments
<1>4. b = [i \in 1 .. Len(a) |-> b[i]]
  BY <1>1 DEF EscJson
<1> HIDE DEF b
<1>5. b \in Fragments
  BY <1>1, <1>3, <1>4 DEF Fragments
<1>6. \A i \in Nat : i - 0 = i /\ i + 0 = i
  OBVIOUS
<1>7. \A i \in TaggedIn(a) : i \in 1 .. Len(a) /\ i \in Nat /\ a[i].tagged
  BY <1>1 DEF TaggedIn
<1>8. \A i \in TaggedIn(b) : i \in 1 .. Len(a) /\ i \in Nat /\ b[i].tagged
  BY <1>1, <1>2 DEF TaggedIn
<1>9. ASSUME NEW i \in TaggedIn(a)
      PROVE  i - 0 \in TaggedIn(b) /\ Carries(a[i].text, b[i - 0].text)
  BY <1>2, <1>3, <1>6, <1>7 DEF TaggedIn
<1>10. ASSUME NEW j \in TaggedIn(b) PROVE j + 0 \in TaggedIn(a)
  BY <1>1, <1>3, <1>6, <1>8 DEF TaggedIn
<1>11. Survive(a, b)
  BY <1>5, <1>9, <1>10, ShiftSurvives
<1> QED  BY <1>5, <1>11 DEF b

LEMMA AppendSegment ==
  ASSUME NEW a \in Fragments, NEW g \in Segments
  PROVE  /\ Append(a, g) \in Fragments /\ Len(Append(a, g)) = Len(a) + 1
         /\ \A i \in 1 .. Len(a) : Append(a, g)[i] = a[i]
         /\ Append(a, g)[Len(a) + 1] = g
BY AppendProperties DEF Fragments

LEMMA AppendTags ==
  ASSUME NEW a \in Fragments, NEW g \in Segments
  PROVE  /\ TaggedIn(a) \subseteq 1 .. Len(a)
         /\ g.tagged => TaggedIn(Append(a, g)) = TaggedIn(a) \cup {Len(a) + 1}
         /\ ~g.tagged => TaggedIn(Append(a, g)) = TaggedIn(a)
<1> DEFINE b == Append(a, g)
<1>1. /\ b \in Fragments /\ Len(b) = Len(a) + 1
      /\ \A i \in 1 .. Len(a) : b[i] = a[i]
      /\ b[Len(a) + 1] = g
  BY AppendSegment
<1>2. Len(a) \in Nat /\ TaggedIn(a) = {i \in 1 .. Len(a) : a[i].tagged}
  BY TaggedPlaces
<1> HIDE DEF b
<1>3. TaggedIn(b) = {i \in 1 .. Len(a) + 1 : b[i].tagged}
  BY <1>1, TaggedPlaces
<1>4. 1 .. Len(a) + 1 = (1 .. Len(a)) \cup {Len(a) + 1} /\ Len(a) + 1 \notin 1 .. Len(a)
  BY <1>2
<1>5. \A i \in 1 .. Len(a) : b[i].tagged <=> a[i].tagged
  BY <1>1
<1>6. b[Len(a) + 1].tagged <=> g.tagged
  BY <1>1
<1>7. g.tagged => TaggedIn(b) = TaggedIn(a) \cup {Len(a) + 1}
  BY <1>2, <1>3, <1>4, <1>5, <1>6
<1>8. ~g.tagged => TaggedIn(b) = TaggedIn(a)
  BY <1>2, <1>3, <1>4, <1>5, <1>6
<1> QED  BY <1>2, <1>7, <1>8 DEF b

LEMMA PlainAddsNothing ==
  ASSUME NEW a \in Fragments, NEW b \in Fragments, NEW h \in Segments,
         ~h.tagged, Survive(a, b)
  PROVE  Survive(a, Append(b, h))
<1>1. TaggedIn(Append(b, h)) = TaggedIn(b) /\ TaggedIn(b) \subseteq 1 .. Len(b)
  BY AppendTags
<1>2. \A i \in 1 .. Len(b) : Append(b, h)[i] = b[i]
  BY AppendSegment
<1>3. PICK to : SurviveBy(to, a, b)
  BY SurviveMeans
<1>4. SurviveBy(to, a, Append(b, h))
  <2>1. ASSUME NEW i \in TaggedIn(a) PROVE Append(b, h)[to[i]] = b[to[i]]
    <3>1. to[i] \in 1 .. Len(b)
      BY <1>1, <1>3 DEF SurviveBy
    <3> QED  BY <1>2, <3>1
  <2> QED  BY <1>1, <1>3, <2>1 DEF SurviveBy
<1> QED  BY <1>4, SurviveMeans

LEMMA BothGrow ==
  ASSUME NEW a \in Fragments, NEW b \in Fragments, NEW g \in Segments, NEW h \in Segments,
         h.tagged = g.tagged, g.tagged => Carries(g.text, h.text), Survive(a, b)
  PROVE  Survive(Append(a, g), Append(b, h))
<1> DEFINE a1 == Append(a, g)
           b1 == Append(b, h)
           m == Len(a) + 1
           n == Len(b) + 1
<1>1. /\ Len(a) \in Nat /\ \A i \in 1 .. Len(a) : a1[i] = a[i]
      /\ a1[m] = g /\ TaggedIn(a) \subseteq 1 .. Len(a)
      /\ g.tagged => TaggedIn(a1) = TaggedIn(a) \cup {m}
      /\ ~g.tagged => TaggedIn(a1) = TaggedIn(a)
  BY AppendSegment, AppendTags, TaggedPlaces
<1>2. /\ Len(b) \in Nat /\ \A i \in 1 .. Len(b) : b1[i] = b[i]
      /\ b1[n] = h /\ TaggedIn(b) \subseteq 1 .. Len(b)
      /\ g.tagged => TaggedIn(b1) = TaggedIn(b) \cup {n}
      /\ ~g.tagged => TaggedIn(b1) = TaggedIn(b)
  BY AppendSegment, AppendTags, TaggedPlaces
<1>3. PICK f : SurviveBy(f, a, b)
  BY SurviveMeans
<1>4. \A i \in TaggedIn(a) : f[i] \in TaggedIn(b) /\ i \in 1 .. Len(a) /\ f[i] \in 1 .. Len(b)
  BY <1>1, <1>2, <1>3 DEF SurviveBy
<1> HIDE DEF a1, b1
<1> DEFINE to == [i \in TaggedIn(a1) |-> IF i = m THEN n ELSE f[i]]
<1>5. \A i \in TaggedIn(a) : i \in TaggedIn(a1) /\ to[i] = f[i] /\ i < m /\ f[i] < n
  BY <1>1, <1>2, <1>4
<1>6. \A i \in TaggedIn(a1) : i \in TaggedIn(a) \/ (i = m /\ g.tagged /\ to[i] = n)
  BY <1>1
<1>7. to \in [TaggedIn(a1) -> TaggedIn(b1)] /\ DOMAIN to = TaggedIn(a1)
  <2>1. ASSUME NEW i \in TaggedIn(a1) PROVE to[i] \in TaggedIn(b1)
    BY <1>2, <1>4, <1>5, <1>6
  <2> QED  BY <2>1
<1> HIDE DEF to
<1>8. Grows(to)
  <2> SUFFICES ASSUME NEW i \in TaggedIn(a1), NEW j \in TaggedIn(a1), i < j
               PROVE  to[i] < to[j]
    BY <1>7 DEF Grows
  <2>1. i \in TaggedIn(a)
    <3>1. CASE i = m
      <4>1. j = m \/ j < m
        BY <1>5, <1>6
      <4> QED  BY <1>1, <3>1, <4>1
    <3>2. CASE i # m
      BY <1>6, <3>2
    <3> QED  BY <3>1, <3>2
  <2>2. CASE j \in TaggedIn(a)
    BY <1>3, <1>5, <2>1, <2>2 DEF SurviveBy, Grows
  <2>3. CASE j \notin TaggedIn(a)
    BY <1>5, <1>6, <2>1, <2>3
  <2> QED  BY <2>2, <2>3
<1>9. ASSUME NEW j \in TaggedIn(b1) PROVE \E i \in TaggedIn(a1) : to[i] = j
  <2>1. CASE j \in TaggedIn(b)
    <3>1. PICK i \in TaggedIn(a) : f[i] = j
      BY <1>3, <2>1 DEF SurviveBy
    <3> QED  BY <1>5, <3>1
  <2>2. CASE j \notin TaggedIn(b)
    <3>1. g.tagged /\ j = n
      BY <1>2, <2>2
    <3>2. m \in TaggedIn(a1) /\ m \notin TaggedIn(a)
      BY <1>1, <3>1
    <3> QED  BY <1>6, <3>1, <3>2
  <2> QED  BY <2>1, <2>2
<1>10. ASSUME NEW i \in TaggedIn(a1) PROVE Carries(a1[i].text, b1[to[i]].text)
  <2>1. CASE i \in TaggedIn(a)
    <3>1. a1[i] = a[i] /\ to[i] = f[i] /\ b1[f[i]] = b[f[i]]
      BY <1>1, <1>2, <1>4, <1>5, <2>1
    <3> QED  BY <1>3, <2>1, <3>1 DEF SurviveBy
  <2>2. CASE i \notin TaggedIn(a)
    BY <1>1, <1>2, <1>6, <2>2
  <2> QED  BY <2>1, <2>2
<1>11. SurviveBy(to, a1, b1)
  BY <1>7, <1>8, <1>9, <1>10 DEF SurviveBy
<1> QED  BY <1>11, SurviveMeans DEF a1, b1

LEMMA EnsureNlKeeps ==
  ASSUME NEW a \in Fragments
  PROVE  EnsureNl(a) \in Fragments /\ Survive(a, EnsureNl(a))
<1>1. RStripNl(a) \in Fragments /\ Survive(a, RStripNl(a))
  BY RStripNlKeeps
<1>2. <<NL>> \in Seq(Chars)
  BY DEF Chars
<1>3. Seg(<<NL>>, FALSE) \in Segments /\ ~Seg(<<NL>>, FALSE).tagged
  BY <1>2, PlainSeg
<1>4. EnsureNl(a) = Append(RStripNl(a), Seg(<<NL>>, FALSE))
  BY DEF EnsureNl
<1> QED  BY <1>1, <1>3, <1>4, PlainAddsNothing, AppendSegment


Lined == [out : Fragments, bol : BOOLEAN, line : Nat]

\* prefix_lines adds the lines of a segment to those before it.
LEMMA PrefixSegKeeps ==
  ASSUME NEW at \in Lined, NEW a \in Fragments, NEW g \in Segments,
         NEW first \in Unlettered, NEW rest \in Unlettered
  PROVE  /\ PrefixSeg(at, g, first, rest) \in Lined
         /\ Survive(a, at.out) => Survive(Append(a, g), PrefixSeg(at, g, first, rest).out)
<1> DEFINE lead == IF g.tagged /\ at.bol THEN PrefixOf(at, Letter, first, rest) ELSE <<>>
           from == [text |-> <<>>, bol |-> at.bol /\ ~g.tagged,
                    line |-> IF at.bol /\ g.tagged THEN 1 ELSE at.line]
           done == PrefixText(from, g.text, first, rest)
           h == Seg(done.text, g.tagged)
           before == at.out \o (IF lead = <<>> THEN <<>> ELSE <<Seg(lead, FALSE)>>)
           new == PrefixSeg(at, g, first, rest)
<1>1. at.out \in Fragments /\ at.bol \in BOOLEAN /\ at.line \in Nat
  BY DEF Lined
<1>2. g.text \in Seq(Chars) /\ g.tagged \in BOOLEAN /\ (g.tagged => g.text # <<>>)
  BY DEF Segments
<1>3. new = [out |-> before \o <<h>>, bol |-> done.bol, line |-> done.line]
  BY DEF PrefixSeg
<1>4. lead \in Seq(Chars)
  <2>1. PrefixOf(at, Letter, first, rest) \in Unlettered
    BY PrefixOfUnlettered
  <2>2. PrefixOf(at, Letter, first, rest) \in Seq(Chars)
    BY <2>1 DEF Unlettered
  <2> QED  BY <2>2, EmptySeq
<1>5. from \in Walks /\ from.text = <<>> /\ (g.tagged => ~from.bol)
  BY <1>1, <1>2, EmptySeq DEF Walks
<1> HIDE DEF lead, from
<1>6. done \in Walks /\ (g.tagged => Shows(done, g.text))
  BY <1>2, <1>5, PrefixTextShows
<1>7. done.text \in Seq(Chars) /\ done.bol \in BOOLEAN /\ done.line \in Nat
  BY <1>6 DEF Walks
<1> HIDE DEF done
<1>8. g.tagged => Carries(g.text, done.text)
  BY <1>6 DEF Shows, Carries
<1>9. g.tagged => done.text # <<>>
  BY <1>2, <1>7, <1>8, CarriesSomething
<1>10. h \in Segments /\ h.tagged = g.tagged /\ h.text = done.text
  BY <1>2, <1>7, <1>9 DEF Seg, Segments
<1> HIDE DEF h
<1>11. before \in Fragments /\ (Survive(a, at.out) => Survive(a, before))
  <2>1. CASE lead = <<>>
    <3>1. before = at.out
      BY <1>1, <2>1, ConcatEmptySeq DEF Fragments
    <3> QED  BY <1>1, <3>1
  <2>2. CASE lead # <<>>
    <3> DEFINE p == Seg(lead, FALSE)
    <3>1. p \in Segments /\ ~p.tagged
      BY <1>4, PlainSeg
    <3>2. before = at.out \o <<p>>
      BY <2>2
    <3> HIDE DEF p, before
    <3>3. before = Append(at.out, p)
      BY <1>1, <3>1, <3>2, AppendIsConcat DEF Fragments
    <3> QED  BY <1>1, <3>1, <3>3, AppendSegment, PlainAddsNothing
  <2> QED  BY <2>1, <2>2
<1> HIDE DEF before, new
<1>12. before \o <<h>> = Append(before, h)
  BY <1>10, <1>11, AppendIsConcat DEF Fragments
<1>13. new \in Lined
  <2>1. Append(before, h) \in Fragments
    BY <1>10, <1>11, AppendSegment
  <2> QED  BY <1>3, <1>7, <1>12, <2>1 DEF Lined
<1>14. ASSUME Survive(a, at.out) PROVE Survive(Append(a, g), new.out)
  <2>1. new.out = Append(before, h)
    BY <1>3, <1>12
  <2>2. Survive(Append(a, g), Append(before, h))
    BY <1>8, <1>10, <1>11, <1>14, BothGrow
  <2> QED  BY <2>1, <2>2
<1> QED  BY <1>13, <1>14 DEF new

\* prefix_lines as a whole.
LEMMA PrefixLinesKeeps ==
  ASSUME NEW a \in Fragments, NEW first \in Unlettered, NEW rest \in Unlettered
  PROVE  PrefixLines(a, first, rest) \in Fragments /\ Survive(a, PrefixLines(a, first, rest))
<1> DEFINE N == Len(a)
           from == [out |-> <<>>, bol |-> TRUE, line |-> 0]
           More1(at, n) == PrefixSeg(at, a[n], first, rest)
           Run(g) == g = [n \in 0 .. N |-> IF n = 0 THEN from ELSE More1(g[n - 1], n)]
           step == [n \in 1 .. N |-> [at \in Lined |-> More1(at, n)]]
           h == CHOOSE g : Run(g)
<1>1. N \in Nat /\ \A n \in 1 .. N : a[n] \in Segments
  BY LenProperties, ElementOfSeq DEF Fragments
<1>2. \A at \in Lined, n \in 1 .. N : More1(at, n) \in Lined
  <2> SUFFICES ASSUME NEW at \in Lined, NEW n \in 1 .. N PROVE More1(at, n) \in Lined
    OBVIOUS
  <2>1. a[n] \in Segments
    BY <1>1
  <2> QED  BY <2>1, PrefixSegKeeps
<1>3. PrefixLines(a, first, rest) = h[N].out
  BY DEF PrefixLines
<1>4. from \in Lined /\ from.out = <<>> /\ Survive(<<>>, <<>>)
  <2>1. <<>> \in Fragments
    BY EmptySeq DEF Fragments
  <2>2. TaggedIn(<<>>) = {}
    BY <2>1 DEF TaggedIn
  <2>3. Survive(<<>>, <<>>)
    BY <2>1, <2>2, ShiftSurvives
  <2> QED  BY <2>1, <2>3 DEF Lined
<1> HIDE DEF h, More1, from
<1>5. step \in [1 .. N -> [Lined -> Lined]]
  BY <1>2
<1>6. \A at \in Lined, n \in 1 .. N : step[n][at] = More1(at, n)
  OBVIOUS
<1> HIDE DEF N, step, Run
<1>7. PICK f \in Iterations(Lined, from, N, step) : TRUE
  <2>1. N \in Nat
    BY <1>1
  <2> QED  BY <2>1, <1>4, <1>5, Iterates
<1>8. /\ f \in [0 .. N -> Lined]
      /\ f[0] = from /\ \A n \in 1 .. N : f[n] = step[n][f[n - 1]]
  BY <1>7 DEF Iterations
<1>9. Run(f)
  <2>1. ASSUME NEW n \in 1 .. N PROVE f[n] = More1(f[n - 1], n)
    <3>1. n - 1 \in 0 .. N /\ f[n - 1] \in Lined
      BY <1>1, <1>8
    <3>2. f[n] = step[n][f[n - 1]]
      BY <1>8
    <3> QED  BY <1>6, <3>1, <3>2
  <2> QED  BY <1>1, <1>8, <2>1 DEF Run
<1>10. Run(h)
  BY <1>9 DEF h
<1>11. h[0] = from /\ \A n \in 1 .. N : h[n] = More1(h[n - 1], n)
  BY <1>1, <1>10 DEF Run
<1> DEFINE Good(n) == h[n] \in Lined /\ Survive(SubSeq(a, 1, n), h[n].out)
           S == {n \in 0 .. N : Good(n)}
<1>12. Good(0)
  BY <1>4, <1>11, NothingYet
<1>13. ASSUME NEW n \in 1 .. N, Good(n - 1) PROVE Good(n)
  <2> DEFINE at == h[n - 1]
             before == SubSeq(a, 1, n - 1)
  <2>1. n \in 1 .. Len(a)
    BY DEF N
  <2>2. before \in Fragments /\ a[n] \in Segments /\ SubSeq(a, 1, n) = Append(before, a[n])
    BY <2>1, OneMore DEF Fragments
  <2>3. at \in Lined /\ Survive(before, at.out)
    BY <1>13
  <2>4. h[n] = PrefixSeg(at, a[n], first, rest)
    BY <1>11 DEF More1
  <2> HIDE DEF at, before
  <2>5. /\ PrefixSeg(at, a[n], first, rest) \in Lined
        /\ Survive(Append(before, a[n]), PrefixSeg(at, a[n], first, rest).out)
    BY <2>2, <2>3, PrefixSegKeeps
  <2> QED  BY <2>2, <2>4, <2>5
<1> HIDE DEF Good
<1>14. Good(N)
  <2>1. \A n \in 1 .. N : n - 1 \in S => n \in S
    BY <1>1, <1>13
  <2>2. 0 \in S
    BY <1>1, <1>12
  <2> HIDE DEF S
  <2>3. \A n \in 0 .. N : n \in S
    BY <1>1, <2>1, <2>2, InductionUpTo
  <2>4. N \in S
    BY <1>1, <2>3
  <2> QED  BY <2>4 DEF S
<1>15. SubSeq(a, 1, N) = a
  BY SubSeqFull DEF N, Fragments
<1> QED  BY <1>3, <1>14, <1>15 DEF Good, Lined

(* ---------- Styles ---------- *)

LEMMA PrefixesHaveNoLetters ==
  ASSUME NEW r \in Renderings
  PROVE  /\ r.how \in {"asis", "escaped", "closed", "lines"}
         /\ r.first \in Unlettered /\ r.rest \in Unlettered
<1> DEFINE P == {<<>>, Marked, Indent}
<1>1. P \subseteq Unlettered
  <2>1. <<>> \in Unlettered
    BY EmptySeq DEF Unlettered
  <2>2. Marked \in Unlettered
    BY DEF Marked, Unlettered, Chars, Mark, Blank, Letter
  <2>3. Indent \in Unlettered
    BY DEF Indent, Unlettered, Chars, Blank, Letter
  <2> QED  BY <2>1, <2>2, <2>3
<1>2. r \in {AsIs, Escaped, Closed} \/ \E first, rest \in P : r = Lines(first, rest)
  BY DEF Renderings, CCStyle, XmlStyle, MdStyle, ColonStyle, JsonlStyle, TsLogStyle, BoxStyle,
         HumanAIStyle, IrcStyle, ReactStyle, StepsStyle, AiderStyle, PlainChatStyle
<1> HIDE DEF P
<1>3. CASE r \in {AsIs, Escaped, Closed}
  <2>1. r.how \in {"asis", "escaped", "closed"} /\ r.first = <<>> /\ r.rest = <<>>
    BY <1>3 DEF AsIs, Escaped, Closed
  <2> QED  BY <1>1, <2>1 DEF P
<1>4. CASE \E first, rest \in P : r = Lines(first, rest)
  BY <1>1, <1>4 DEF Lines
<1> QED  BY <1>2, <1>3, <1>4

\* Whatever the style, what it emits has the tagged segments it was given.
LEMMA RenderedKeeps ==
  ASSUME NEW r \in Renderings, NEW a \in Fragments
  PROVE  Rendered(r, a) \in Fragments /\ Survive(a, Rendered(r, a))
<1>1. Body(a) \in Fragments /\ Survive(a, Body(a))
  BY BodyKeeps
<1>2. CASE r.how = "asis"
  BY <1>1, <1>2 DEF Rendered
<1>3. CASE r.how = "escaped"
  <2>1. Rendered(r, a) = EscJson(Body(a))
    BY <1>3 DEF Rendered
  <2>2. EscJson(Body(a)) \in Fragments /\ Survive(Body(a), EscJson(Body(a)))
    BY <1>1, EscJsonKeeps
  <2> QED  BY <1>1, <2>1, <2>2, SurviveOn
<1>4. CASE r.how = "closed"
  <2>1. Rendered(r, a) = EnsureNl(Body(a))
    BY <1>4 DEF Rendered
  <2>2. EnsureNl(Body(a)) \in Fragments /\ Survive(Body(a), EnsureNl(Body(a)))
    BY <1>1, EnsureNlKeeps
  <2> QED  BY <1>1, <2>1, <2>2, SurviveOn
<1>5. CASE r.how = "lines"
  <2> DEFINE b == PrefixLines(Body(a), r.first, r.rest)
  <2>1. Rendered(r, a) = b
    BY <1>5 DEF Rendered
  <2>2. r.first \in Unlettered /\ r.rest \in Unlettered
    BY PrefixesHaveNoLetters
  <2>3. b \in Fragments /\ Survive(Body(a), b)
    BY <1>1, <2>2, PrefixLinesKeeps
  <2> HIDE DEF b
  <2> QED  BY <1>1, <2>1, <2>3, SurviveOn
<1> QED  BY <1>2, <1>3, <1>4, <1>5, PrefixesHaveNoLetters

FragInv == body \in Fragments /\ shown \in Fragments /\ TagsSurvive

LEMMA LaidSegments == Segs \subseteq Segments
<1>1. ASSUME NEW s \in Plain PROVE Seg(s, FALSE) \in Segments
  BY TraceTextAssumption, PlainSeg
<1>2. ASSUME NEW s \in Values PROVE Seg(s, TRUE) \in Segments
  <2>1. s \in Seq(Chars) /\ s # <<>>
    BY TraceTextAssumption
  <2> QED  BY <2>1 DEF Seg, Segments
<1> QED  BY <1>1, <1>2 DEF Segs

LEMMA FragStep == FragInv /\ [NextDoc \/ NextFrag]_textvars => FragInv'
<1> SUFFICES ASSUME FragInv, [NextDoc \/ NextFrag]_textvars PROVE FragInv'
  OBVIOUS
<1>1. CASE UNCHANGED <<body, shown>>
  BY <1>1 DEF FragInv, TagsSurvive
<1>2. CASE Lay
  <2>1. PICK g \in Segs : body' = Append(body, g)
    BY <1>2 DEF Lay
  <2>2. body' \in Fragments
    BY <2>1, LaidSegments, AppendSegment DEF FragInv
  <2> QED  BY <1>2, <2>2 DEF Lay, FragInv, TagsSurvive
<1>3. CASE Show
  <2>1. PICK r \in Renderings : shown' = Rendered(r, body)
    BY <1>3 DEF Show
  <2>2. Rendered(r, body) \in Fragments /\ Survive(body, Rendered(r, body))
    BY RenderedKeeps DEF FragInv
  <2>3. body' = body
    BY <1>3 DEF Show
  <2> QED  BY <2>1, <2>2, <2>3 DEF FragInv, TagsSurvive
<1> QED  BY <1>1, <1>2, <1>3
         DEF NextDoc, NextFrag, textvars, WriteText, WriteValue, TakeOver

(* ---------- Theorems ---------- *)

\* What a corpus of traces-v3 of any size knows of its plan and its gold.
THEOREM V3Always == Spec => []V3Inv
<1>1. Init => V3Inv
  BY V3Starts DEF Init
<1>2. V3Inv /\ [Next]_corporavars => V3Inv'
  <2> SUFFICES ASSUME V3Inv, [Next]_corporavars PROVE V3Inv'
    OBVIOUS
  <2>1. [NextV3]_v3vars
    BY DEF Next, RunV3, RunV2, RunDoc, RunFrag, corporavars
  <2> QED  BY <2>1, V3Step
<1> QED  BY <1>1, <1>2, PTL DEF Spec

\* A corpus of any size that check_corpus may accept is never planned in
\* vain (build.py:56-69, 83-101, 126-150).
THEOREM PlansNeverRaise == Spec => [](phase # "raised")
<1>1. V3Inv => phase # "raised"
  BY DEF V3Inv, Documents
<1> QED  BY <1>1, V3Always, PTL

\* No template, whatever it asks for, places gold in a clean document or a
\* secret in one without secrets: build_one never stops on a breach
\* (doc.py:36-95, build.py).
THEOREM GoldKeepsToItsMode == Spec => [](~BreaksMode /\ phase # "broken")
<1>1. V3Inv => ~BreaksMode /\ phase # "broken"
  BY NoBreach DEF V3Inv, Documents
<1> QED  BY <1>1, V3Always, PTL

LEMMA DocAlways == Spec => [](V3Inv /\ DocInv)
<1>1. Init => DocInv
  BY DocStarts DEF Init
<1>2. V3Inv /\ DocInv /\ [Next]_corporavars => DocInv'
  <2> SUFFICES ASSUME V3Inv, DocInv, [Next]_corporavars PROVE DocInv'
    OBVIOUS
  <2>1. [NextV3]_v3vars
    BY DEF Next, RunV3, RunV2, RunDoc, RunFrag, corporavars
  <2> QED  BY <2>1, DocStep
<1> QED  BY <1>1, <1>2, V3Always, PTL DEF Spec

\* A document holds gold exactly when its mode is not clean, and no secret
\* unless its mode is full, whatever way it went through its template
\* (doc.py:36-95, build.py).
THEOREM GoldFollowsItsMode == Spec => []GoldFollowsMode
<1>1. V3Inv /\ DocInv => GoldFollowsMode
  <2> SUFFICES ASSUME V3Inv, DocInv, phase \in {"built", "broken", "gaveUp"}
               PROVE  (gold = {} <=> mode = "clean") /\ (secret \in gold => mode = "full")
    BY DEF GoldFollowsMode
  <2>1. phase \in {"built", "gaveUp"}
    BY DEF V3Inv, Documents
  <2>2. mode = "clean" => gold = {}
    BY DEF V3Inv, Allowed, GoldOk, SecretOk
  <2>3. mode # "clean" => gold # {}
    BY <2>1 DEF DocInv
  <2>4. secret \in gold => mode = "full"
    BY DEF V3Inv, Allowed, SecretOk
  <2> QED  BY <2>2, <2>3, <2>4
<1> QED  BY <1>1, DocAlways, PTL

\* The results of a finished document name its calls one for one, none
\* skipped and none invented (styles.py, JsonlStyle.call and result).
THEOREM ResultsNameTheirCalls == Spec => []CallsAreAnswered
<1>1. DocInv => CallsAreAnswered
  BY DEF DocInv
<1> QED  BY <1>1, DocAlways, PTL

\* No plan is built in vain: what assign_modes and allocate plan for a
\* corpus of any size, check_corpus accepts, and what plan_slots plans,
\* whichever kinds have one more long document, corpus_checks accepts
\* (build.py:56-69, 83-101, 126-150; traces_v2_gen.py:4278-4351).
THEOREM PlansAreAccepted == Spec => []PlansPassTheirChecks
<1>1. Init => PlanInv
  BY PlanStarts DEF Init
<1>2. PlanInv /\ [Next]_corporavars => PlanInv'
  <2> SUFFICES ASSUME PlanInv, [Next]_corporavars PROVE PlanInv'
    OBVIOUS
  <2>1. [NextV2]_v2vars
    BY DEF Next, RunV3, RunV2, RunDoc, RunFrag, corporavars
  <2> QED  BY <2>1, PlanStep
<1>3. PlanInv /\ phase # "raised" => PlansPassTheirChecks
  BY DEF PlanInv, PlansPassTheirChecks
<1> QED  BY <1>1, <1>2, <1>3, PlansNeverRaise, PTL DEF Spec

\* A long document fits its bounds whatever its sections, as long as no
\* skeleton writes more than 4900 characters at once
\* (traces_v2_gen.py, build_long).
THEOREM LongDocumentsFit == LongestBlock <= 49 => (Spec => []LongDocumentFits)
<1> SUFFICES ASSUME LongestBlock <= 49 PROVE Spec => []LongDocumentFits
  OBVIOUS
<1>1. LongestBlock \in Nat \ {0}
  BY TracesV2Assumption
<1>2. Init => V2Inv
  BY V2Starts DEF Init
<1>3. V2Inv /\ [Next]_corporavars => V2Inv'
  <2> SUFFICES ASSUME V2Inv, [Next]_corporavars PROVE V2Inv'
    OBVIOUS
  <2>1. [NextV2]_v2vars
    BY DEF Next, RunV3, RunV2, RunDoc, RunFrag, corporavars
  <2> QED  BY <1>1, <2>1, V2Step
<1>4. V2Inv => LongDocumentFits
  BY <1>1 DEF V2Inv, LongDocumentFits, InBounds, LongBounds, LongTargets
<1> QED  BY <1>2, <1>3, <1>4, PTL DEF Spec

LEMMA TextAlways == Spec => [](TextInv /\ FragInv)
<1>1. Init => TextInv /\ FragInv
  <2>1. <<>> \in Fragments
    BY EmptySeq DEF Fragments
  <2> QED  BY <2>1, EmptyIsExact DEF Init, InitText, TextInv, FragInv, TagsSurvive, Exact
<1>2. (TextInv /\ FragInv) /\ [Next]_corporavars => (TextInv /\ FragInv)'
  <2> SUFFICES ASSUME TextInv, FragInv, [Next]_corporavars PROVE TextInv' /\ FragInv'
    OBVIOUS
  <2>1. [NextDoc \/ NextFrag]_textvars
    BY DEF Next, RunV3, RunV2, RunDoc, RunFrag, corporavars
  <2> QED  BY <2>1, TextStep, FragStep
<1> QED  BY <1>1, <1>2, PTL DEF Spec

\* Every span names the text that was planted, in order and without overlap:
\* of a document and of the section being written for it
\* (traces_v2_gen.py:888-943, Doc.v and Doc.extend), and of a document put
\* together from what a style emitted (core.py, assemble).
THEOREM SpansStayExact == Spec => []SpansNameTheirText
<1>1. TextInv /\ FragInv => SpansNameTheirText
  <2> SUFFICES ASSUME TextInv, FragInv PROVE SpansNameTheirText
    OBVIOUS
  <2>1. Exact(Assemble(shown))
    BY AssembleIsExact DEF FragInv, ExactDocs
  <2> QED  BY <2>1 DEF TextInv, SpansNameTheirText
<1> QED  BY <1>1, TextAlways, PTL

\* No style loses, merges, reorders or invents a tagged value, for texts of
\* any length and any number of segments (core.py:142-253, styles.py).
THEOREM TaggedValuesSurvive == Spec => []TagsSurvive
<1>1. TextInv /\ FragInv => TagsSurvive
  BY DEF FragInv
<1> QED  BY <1>1, TextAlways, PTL

\* What a document is put together from stays in its place: spans, tagged
\* values, and the calls with their outputs.
THEOREM DocumentsStayTogether == Spec => []DocumentsHoldTogether
<1>1. SpansNameTheirText /\ TagsSurvive /\ CallsAreAnswered => DocumentsHoldTogether
  BY DEF DocumentsHoldTogether
<1> QED  BY <1>1, SpansStayExact, TaggedValuesSurvive, ResultsNameTheirCalls, PTL
===============================================================================
