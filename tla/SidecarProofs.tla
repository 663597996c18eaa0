---------------------------- MODULE SidecarProofs ----------------------------
(***************************************************************************)
(* Proofs of the sidecar's safety properties, for any number of callers,   *)
(* sessions, requests, values, policies and changes.                       *)
(*                                                                         *)
(* The inductive invariant has four parts: what the tables hold, what each *)
(* request that runs has done, what the last answer shows, and the phases  *)
(* of the process.  Each action is proved to keep each part.               *)
(***************************************************************************)
EXTENDS SidecarProperties, SequenceTheorems, TLAPS

\* The tables: sessions, their owners, what their vaults and caches hold.
Stores(t, o, k, c, sub) ==
    /\ DOMAIN t \subseteq Keys
    /\ \A i \in DOMAIN t : t[i] \in [vault : VaultIds, idle : 0..Ttl]
    /\ DOMAIN o \subseteq VaultIds
    /\ \A v \in DOMAIN o : o[v] \in Callers
    /\ VaultsOf(t) \subseteq DOMAIN o
    /\ DOMAIN k = VaultsOf(t)
    /\ \A v \in DOMAIN k : k[v] \in SUBSET Values /\ k[v] \subseteq sub[o[v]]
    /\ \A i, j \in DOMAIN t : t[i].vault = t[j].vault => i = j
    /\ DOMAIN c = VaultsOf(t)
    /\ \A v \in DOMAIN c : c[v] \in Seq(Answer)

\* A cached answer hides what its version detects.
Hides(a) == \A leaf \in a.text : Detected(leaf, a.version, a.version) \subseteq a.masked[leaf]

Truthful(c) == \A v \in DOMAIN c : \A i \in DOMAIN c[v] : Hides(c[v][i])

\* A request that runs, against the tables, the policy and its generation.
Sound(f, o, k, sub, p, g) ==
    /\ f.vault \in DOMAIN o /\ o[f.vault] = f.caller
    /\ AllOf(f.text) \subseteq sub[f.caller]
    /\ ~f.replied => f.text \in Texts
    /\ f.named \in {NoVersion, f.version}
    /\ p \in f.seen
    /\ f.generation <= g
    /\ f.generation = g => f.seen = {f.version}
    /\ DOMAIN f.masked \subseteq DOMAIN f.begun
    /\ DOMAIN f.begun \subseteq f.text
    /\ \A l \in DOMAIN f.begun : f.begun[l] \in f.seen
    /\ \A l \in DOMAIN f.masked : \A v \in l.found :
          (\A q \in f.seen : LabelOf[v] \in q) => v \in f.masked[l]
    /\ f.vault \in DOMAIN k => f.knew \subseteq k[f.vault]
    /\ \A l \in DOMAIN f.masked : All(l) \cap f.knew \subseteq f.masked[l]

StoresOK == Stores(table, opener, known, cache, submitted) /\ Truthful(cache)

FlightsOK ==
    /\ flight \in [Slots -> Flight \cup {Idle}]
    /\ \A s \in Slots : flight[s] # Idle =>
          Sound(flight[s], opener, known, submitted, policy, generation)

ReplyOK ==
    /\ NamedPolicyHolds
    /\ HiddenByAllIsHidden
    /\ RunsHideTheKnown
    /\ reply.kind = "restored" =>
          /\ reply.caller \in Callers
          /\ reply.values \subseteq submitted[reply.caller]

PhasesOK ==
    /\ policy \in Policies
    /\ generation \in Nat
    /\ startup \in {"downloading", "loading", "ready", "failed"}
    /\ stage \in {"up", "closing", "stopping", "down"}
    /\ submitted \in [Callers -> SUBSET Values]
    /\ ShutdownLosesNothing

\* The inductive invariant.
IInv == StoresOK /\ FlightsOK /\ ReplyOK /\ PhasesOK

(***************************************************************************)
(* Facts about the operators                                               *)
(***************************************************************************)
\* A session the sweep leaves is the one that was there, with a fresh idle
\* time at most.
LEMMA SweptFacts ==
    ASSUME \A i \in DOMAIN table : table[i] \in [vault : VaultIds, idle : 0..Ttl]
    PROVE  /\ DOMAIN Swept = Kept /\ Kept \subseteq DOMAIN table
           /\ \A i \in Kept : Swept[i] = table[i]
BY DEF Swept, Kept

LEMMA TouchedFacts ==
    ASSUME \A i \in DOMAIN table : table[i] \in [vault : VaultIds, idle : 0..Ttl],
           NEW key \in Kept
    PROVE  /\ DOMAIN Touched(key) = Kept /\ Kept \subseteq DOMAIN table
           /\ \A i \in Kept : /\ Touched(key)[i] \in [vault : VaultIds, idle : 0..Ttl]
                              /\ Touched(key)[i].vault = table[i].vault
BY SidecarAssumption DEF Touched, Swept, Kept

\* Part of the sessions of a table, the vaults they had.
Within(t) ==
    /\ DOMAIN t \subseteq DOMAIN table
    /\ \A i \in DOMAIN t : /\ t[i] \in [vault : VaultIds, idle : 0..Ttl]
                           /\ t[i].vault = table[i].vault

LEMMA SweptWithin == ASSUME StoresOK PROVE Within(Swept) /\ VaultsOf(Swept) \subseteq VaultsOf(table)
BY SweptFacts DEF StoresOK, Stores, Within, VaultsOf

LEMMA TouchedWithin ==
    ASSUME StoresOK, NEW key \in Kept
    PROVE  Within(Touched(key)) /\ VaultsOf(Touched(key)) = VaultsOf(Swept)
<1>1. \A i \in DOMAIN table : table[i] \in [vault : VaultIds, idle : 0..Ttl]
  BY DEF StoresOK, Stores
<1> QED
  BY <1>1, TouchedFacts, SweptFacts DEF Within, VaultsOf

\* The tables that keep part of the sessions are in order.
LEMMA RetainKeeps ==
    ASSUME StoresOK, NEW t, Within(t), Retain(t), opener' = opener,
           submitted' = submitted
    PROVE  StoresOK'
<1>1. VaultsOf(t) \subseteq VaultsOf(table)
  BY DEF Within, VaultsOf
<1>2. table' = t /\ DOMAIN known' = VaultsOf(t) /\ DOMAIN cache' = VaultsOf(t)
  BY DEF Retain
<1>3. \A v \in VaultsOf(t) : known'[v] = known[v] /\ cache'[v] = cache[v]
  BY DEF Retain
<1>4. Stores(t, opener, known', cache', submitted)
  BY <1>1, <1>2, <1>3 DEF StoresOK, Stores, Within
<1>5. Truthful(cache')
  BY <1>1, <1>2, <1>3 DEF StoresOK, Stores, Truthful
<1> QED
  BY <1>2, <1>4, <1>5 DEF StoresOK, Truthful, Hides

\* What a request may count on while others move: owners stay, what was
\* sent stays sent, and a vault that is still there has only grown.
Grows ==
    /\ \A v \in DOMAIN opener : v \in DOMAIN opener' /\ opener'[v] = opener[v]
    /\ \A c \in Callers : submitted[c] \subseteq submitted'[c]
    /\ \A v \in DOMAIN known' \cap DOMAIN opener :
          v \in DOMAIN known /\ known[v] \subseteq known'[v]

LEMMA SoundStays ==
    ASSUME NEW f \in Flight, Sound(f, opener, known, submitted, policy, generation), Grows
    PROVE  Sound(f, opener', known', submitted', policy, generation)
BY DEF Sound, Grows, Flight

LEMMA FlightsStay ==
    ASSUME FlightsOK, Grows, UNCHANGED <<flight, policy, generation>>
    PROVE  FlightsOK'
<1> SUFFICES ASSUME NEW s \in Slots, flight[s] # Idle
             PROVE  Sound(flight[s], opener', known', submitted', policy, generation)
  BY DEF FlightsOK
<1>1. flight[s] \in Flight /\ Sound(flight[s], opener, known, submitted, policy, generation)
  BY DEF FlightsOK
<1> QED
  BY <1>1, SoundStays

\* A slot that is freed, or holds a request that is in order.
LEMMA FlightsMove ==
    ASSUME FlightsOK, Grows, UNCHANGED <<policy, generation>>, NEW slot \in Slots, NEW g,
           \/ g = Idle
           \/ g \in Flight /\ Sound(g, opener', known', submitted', policy, generation),
           flight' = [flight EXCEPT ![slot] = g]
    PROVE  FlightsOK'
<1>1. flight' \in [Slots -> Flight \cup {Idle}]
  BY DEF FlightsOK
<1>2. ASSUME NEW s \in Slots, flight'[s] # Idle
      PROVE  Sound(flight'[s], opener', known', submitted', policy, generation)
  <2>1. CASE s = slot
    BY <2>1, <1>2 DEF FlightsOK
  <2>2. CASE s # slot
    <3>1. flight'[s] = flight[s]
      BY <2>2 DEF FlightsOK
    <3>2. flight[s] \in Flight /\ Sound(flight[s], opener, known, submitted, policy, generation)
      BY <3>1, <1>2 DEF FlightsOK
    <3> QED
      BY <3>1, <3>2, SoundStays
  <2> QED
    BY <2>1, <2>2
<1> QED
  BY <1>1, <1>2 DEF FlightsOK

LEMMA RetainGrows ==
    ASSUME StoresOK, NEW t, Within(t), Retain(t), UNCHANGED <<opener, submitted>>
    PROVE  Grows
<1>1. VaultsOf(t) \subseteq VaultsOf(table)
  BY DEF Within, VaultsOf
<1> QED
  BY <1>1 DEF StoresOK, Stores, Retain, Grows

LEMMA PartsDown == ASSUME NEW d \in Parts, NEW e, e \subseteq d PROVE e \in Parts
BY DEF Parts

LEMMA LeavesTyped ==
    ASSUME NEW d \in Parts, NEW leaf \in d
    PROVE  leaf \in Leaf /\ leaf.found \subseteq Values /\ All(leaf) \subseteq Values
BY SidecarAssumption DEF Parts, Leaf, All

LEMMA WithoutFacts ==
    ASSUME NEW S, NEW s \in Seq(S), NEW i \in 1..Len(s)
    PROVE  /\ Without(s, i) \in Seq(S)
           /\ \A j \in DOMAIN Without(s, i) : \E k \in DOMAIN s : Without(s, i)[j] = s[k]
<1> DEFINE a == SubSeq(s, 1, i - 1)
           b == SubSeq(s, i + 1, Len(s))
<1>1. /\ a \in Seq(S) /\ Len(a) = i - 1
      /\ \A j \in 1..(i - 1) : a[j] = s[j]
  BY SubSeqProperties
<1>2. /\ b \in Seq(S) /\ Len(b) = Len(s) - i
      /\ \A j \in 1..(Len(s) - i) : b[j] = s[i + j]
  BY SubSeqProperties
<1> HIDE DEF a, b
<1>3. /\ a \o b \in Seq(S) /\ Len(a \o b) = Len(s) - 1
      /\ \A j \in 1..(Len(s) - 1) : (a \o b)[j] = IF j <= i - 1 THEN a[j] ELSE b[j - (i - 1)]
  <2>1. /\ a \o b \in Seq(S) /\ Len(a \o b) = Len(a) + Len(b)
        /\ \A j \in 1..(Len(a) + Len(b)) :
              (a \o b)[j] = IF j <= Len(a) THEN a[j] ELSE b[j - Len(a)]
    BY <1>1, <1>2, ConcatProperties
  <2>2. Len(a) + Len(b) = Len(s) - 1
    BY <1>1, <1>2
  <2> QED
    BY <1>1, <2>1, <2>2
<1>4. ASSUME NEW j \in 1..(Len(s) - 1)
      PROVE  \E k \in DOMAIN s : (a \o b)[j] = s[k]
  <2> DOMAIN s = 1..Len(s) /\ Len(s) \in Nat /\ i \in 1..Len(s)
    OBVIOUS
  <2>1. CASE j <= i - 1
    <3>1. j \in 1..(i - 1) /\ j \in DOMAIN s
      BY <2>1
    <3> QED
      BY <2>1, <3>1, <1>1, <1>3
  <2>2. CASE ~(j <= i - 1)
    <3>1. j - (i - 1) \in 1..(Len(s) - i) /\ j + 1 \in DOMAIN s /\ i + (j - (i - 1)) = j + 1
      BY <2>2
    <3>2. b[j - (i - 1)] = s[j + 1]
      BY <3>1, <1>2
    <3>3. (a \o b)[j] = b[j - (i - 1)]
      BY <2>2, <1>3
    <3> QED
      BY <3>1, <3>2, <3>3
  <2> QED
    BY <2>1, <2>2
<1>5. DOMAIN (a \o b) = 1..(Len(s) - 1)
  BY <1>3
<1> QED
  BY <1>3, <1>4, <1>5 DEF Without, a, b

\* What set leaves in the cache is the new answer and old ones.
LEMMA RememberedFacts ==
    ASSUME NEW S, NEW old \in Seq(S), NEW entry \in S
    PROVE  /\ Remembered(old, entry) \in Seq(S)
           /\ \A j \in DOMAIN Remembered(old, entry) :
                 \/ Remembered(old, entry)[j] = entry
                 \/ \E k \in DOMAIN old : Remembered(old, entry)[j] = old[k]
<1> DEFINE same == {i \in DOMAIN old :
                      old[i].version = entry.version /\ old[i].text = entry.text}
           rest == IF same = {} THEN old ELSE Without(old, CHOOSE i \in same : TRUE)
           all == Append(rest, entry)
<1>1. /\ rest \in Seq(S)
      /\ \A j \in DOMAIN rest : \E k \in DOMAIN old : rest[j] = old[k]
  <2>1. CASE same = {}
    BY <2>1
  <2>2. CASE same # {}
    <3> DEFINE i == CHOOSE i \in same : TRUE
    <3>1. i \in same
      BY <2>2
    <3>2. i \in 1..Len(old)
      BY <3>1
    <3>3. rest = Without(old, i)
      BY <2>2
    <3> HIDE DEF i, rest
    <3> QED
      BY <3>2, <3>3, WithoutFacts
  <2> QED
    BY <2>1, <2>2
<1> HIDE DEF rest
<1>2. /\ all \in Seq(S) /\ Len(all) = Len(rest) + 1
      /\ \A j \in DOMAIN all : all[j] = entry \/ \E k \in DOMAIN old : all[j] = old[k]
  BY <1>1
<1> HIDE DEF all
<1>3. /\ Tail(all) \in Seq(S) /\ Len(Tail(all)) = Len(all) - 1
      /\ \A j \in 1..(Len(all) - 1) : Tail(all)[j] = all[j + 1]
  BY <1>2
<1>4. \A j \in DOMAIN Tail(all) : j + 1 \in DOMAIN all /\ Tail(all)[j] = all[j + 1]
  BY <1>2, <1>3
<1>5. Remembered(old, entry) = IF Len(all) > CacheMax THEN Tail(all) ELSE all
  BY DEF Remembered, all, rest
<1>6. CASE Len(all) > CacheMax
  BY <1>6, <1>5, <1>3, <1>4, <1>2
<1>7. CASE ~(Len(all) > CacheMax)
  BY <1>7, <1>5, <1>2
<1> QED
  BY <1>6, <1>7

(***************************************************************************)
(* A leaf that begins or ends keeps its request in order                   *)
(***************************************************************************)
WithBegun(f, leaf) ==
    [f EXCEPT !.begun = [l \in DOMAIN f.begun \cup {leaf} |->
                            IF l = leaf THEN policy ELSE f.begun[l]]]

LEMMA BegunSound ==
    ASSUME PhasesOK, NEW f \in Flight, NEW leaf \in f.text \ DOMAIN f.begun, NEW g,
           Sound(f, opener, known, submitted, policy, generation), g = WithBegun(f, leaf)
    PROVE  g \in Flight /\ Sound(g, opener, known, submitted, policy, generation)
<1> DEFINE b == [l \in DOMAIN f.begun \cup {leaf} |-> IF l = leaf THEN policy ELSE f.begun[l]]
<1>1. DOMAIN b \in Parts /\ DOMAIN b \subseteq f.text
  BY PartsDown DEF Sound, Flight
<1>2. \A l \in DOMAIN f.begun : f.begun[l] \in Policies
  BY DEF Flight
<1>3. b \in [DOMAIN b -> Policies]
  BY <1>2 DEF PhasesOK
<1>4. \A l \in DOMAIN b : b[l] \in f.seen
  BY DEF Sound
<1>5. DOMAIN f.masked \subseteq DOMAIN b
  BY DEF Sound
<1> HIDE DEF b
<1>6. g = [f EXCEPT !.begun = b]
  BY DEF b, WithBegun
<1>7. g \in Flight
  BY <1>1, <1>3, <1>6 DEF Flight
<1> QED
  BY <1>1, <1>4, <1>5, <1>6, <1>7 DEF Sound, Flight

\* What a leaf hides when it ends.
Ends(f, leaf) ==
    /\ Hidden(f, leaf) \subseteq Values
    /\ Hidden(f, leaf) \subseteq submitted[f.caller]
    /\ All(leaf) \cap f.knew \subseteq Hidden(f, leaf)
    /\ \A v \in leaf.found : (\A q \in f.seen : LabelOf[v] \in q) => v \in Hidden(f, leaf)

LEMMA HiddenFacts ==
    ASSUME NEW f \in Flight, NEW leaf, Running(f, leaf), f.vault \in DOMAIN known,
           Sound(f, opener, known, submitted, policy, generation)
    PROVE  Ends(f, leaf)
<1>1. leaf \in f.text /\ leaf \in DOMAIN f.begun /\ f.text \in Parts
  BY DEF Running, Sound, Flight
<1>2. All(leaf) \subseteq Values /\ leaf.found \subseteq All(leaf)
  BY <1>1, LeavesTyped DEF All
<1>3. Hidden(f, leaf) \subseteq All(leaf)
  BY DEF Hidden, Detected, All
<1>4. All(leaf) \subseteq submitted[f.caller]
  BY <1>1 DEF Sound, AllOf
<1>5. All(leaf) \cap f.knew \subseteq Hidden(f, leaf)
  BY DEF Sound, Hidden, VaultOf
<1>6. f.begun[leaf] \in f.seen /\ policy \in f.seen
  BY <1>1 DEF Sound
<1>7. \A v \in leaf.found : (\A q \in f.seen : LabelOf[v] \in q) => v \in Hidden(f, leaf)
  BY <1>6 DEF Hidden, Detected
<1> QED
  BY <1>2, <1>3, <1>4, <1>5, <1>7 DEF Ends

LEMMA MaskedSound ==
    ASSUME NEW f \in Flight, NEW leaf, Running(f, leaf), f.vault \in DOMAIN known,
           Sound(f, opener, known, submitted, policy, generation), NEW g,
           g = WithMasked(f, leaf)
    PROVE  g \in Flight /\ Sound(g, opener, known, submitted, policy, generation)
<1> DEFINE m == [l \in DOMAIN f.masked \cup {leaf} |->
                    IF l = leaf THEN Hidden(f, leaf) ELSE f.masked[l]]
<1>1. Ends(f, leaf)
  BY HiddenFacts
<1>2. DOMAIN m \in Parts /\ DOMAIN m \subseteq DOMAIN f.begun
  BY PartsDown DEF Sound, Flight, Running
<1>3. \A l \in DOMAIN f.masked : f.masked[l] \subseteq Values
  BY DEF Flight, Maskings
<1>4. m \in [DOMAIN m -> SUBSET Values]
  BY <1>1, <1>3 DEF Ends
<1>5. \A l \in DOMAIN m : \A v \in l.found : (\A q \in f.seen : LabelOf[v] \in q) => v \in m[l]
  BY <1>1 DEF Ends, Sound
<1>6. \A l \in DOMAIN m : All(l) \cap f.knew \subseteq m[l]
  BY <1>1 DEF Ends, Sound
<1>7. g = [f EXCEPT !.masked = m]
  BY DEF WithMasked
<1> HIDE DEF m
<1>8. g \in Flight
  BY <1>2, <1>4, <1>7 DEF Flight, Maskings
<1> QED
  BY <1>2, <1>5, <1>6, <1>7, <1>8 DEF Sound, Flight

(***************************************************************************)
(* The actions                                                             *)
(***************************************************************************)
LEMMA OtherReply ==
    ASSUME reply'.kind \notin {"masked", "restored"}
    PROVE  ReplyOK'
BY DEF ReplyOK, NamedPolicyHolds, HiddenByAllIsHidden, RunsHideTheKnown

LEMMA SameReply ==
    ASSUME ReplyOK, Grows, reply' = reply
    PROVE  ReplyOK'
<1>1. NamedPolicyHolds' /\ HiddenByAllIsHidden' /\ RunsHideTheKnown'
  BY DEF ReplyOK, NamedPolicyHolds, HiddenByAllIsHidden, RunsHideTheKnown
<1> QED
  BY <1>1 DEF ReplyOK, Grows

LEMMA SamePhases ==
    ASSUME PhasesOK, DOMAIN table' \subseteq DOMAIN table,
           UNCHANGED <<opener, policy, generation, startup, stage, submitted>>
    PROVE  PhasesOK'
BY DEF PhasesOK, ShutdownLosesNothing

\* Every handler that only drops or touches sessions.
LEMMA Retaining ==
    ASSUME IInv, NEW t, Within(t), Retain(t),
           UNCHANGED <<opener, policy, generation, startup, stage, flight, submitted>>
    PROVE  StoresOK' /\ FlightsOK' /\ PhasesOK' /\ Grows
<1>1. StoresOK'
  BY RetainKeeps DEF IInv
<1>2. Grows
  BY RetainGrows DEF IInv
<1>3. FlightsOK'
  BY <1>2, FlightsStay DEF IInv
<1>4. DOMAIN table' \subseteq DOMAIN table
  BY DEF Retain, Within
<1> QED
  BY <1>1, <1>2, <1>3, <1>4, SamePhases DEF IInv

LEMMA OpenNewKeeps ==
    ASSUME IInv, NEW caller \in Callers, NEW key \in Keys, NEW vault \in VaultIds,
           OpenNew(caller, key, vault)
    PROVE  IInv'
<1>1. /\ vault \notin DOMAIN opener
      /\ table' = [k \in Kept \cup {key} |->
                     IF k = key THEN [vault |-> vault, idle |-> 0] ELSE table[k]]
      /\ key \notin Kept
  <2>1. DOMAIN Swept = Kept /\ \A k \in Kept : Swept[k] = table[k]
    BY DEF Swept
  <2>2. table' = [k \in DOMAIN Swept \cup {key} |->
                     IF k = key THEN [vault |-> vault, idle |-> 0] ELSE Swept[k]]
    BY DEF OpenNew, Room
  <2> QED
    BY <2>1, <2>2 DEF OpenNew
<1>2. /\ DOMAIN table' = Kept \cup {key} /\ Kept \subseteq DOMAIN table
      /\ table'[key] = [vault |-> vault, idle |-> 0]
      /\ \A k \in Kept : table'[k] = table[k]
  BY <1>1 DEF Kept
<1>3. /\ VaultsOf(table') \subseteq VaultsOf(table) \cup {vault}
      /\ vault \in VaultsOf(table')
  BY <1>2 DEF VaultsOf
<1>4. /\ DOMAIN opener' = DOMAIN opener \cup {vault} /\ opener'[vault] = caller
      /\ \A v \in DOMAIN opener : opener'[v] = opener[v]
  BY <1>1 DEF OpenNew
<1>5. /\ DOMAIN known' = VaultsOf(table') /\ known'[vault] = {}
      /\ \A v \in VaultsOf(table') \ {vault} : known'[v] = known[v]
  BY <1>3 DEF OpenNew
<1>6. /\ DOMAIN cache' = VaultsOf(table') /\ cache'[vault] = << >>
      /\ \A v \in VaultsOf(table') \ {vault} : cache'[v] = cache[v]
  BY <1>3 DEF OpenNew
<1>7. UNCHANGED <<policy, generation, startup, stage, flight, submitted>> /\ stage = "up"
  BY DEF OpenNew, MayOpen
<1>8. StoresOK'
  <2>1. DOMAIN table' \subseteq Keys /\ VaultsOf(table') \subseteq DOMAIN opener'
    BY <1>2, <1>3, <1>4 DEF IInv, StoresOK, Stores
  <2>2. \A i \in DOMAIN table' : table'[i] \in [vault : VaultIds, idle : 0..Ttl]
    BY <1>2, SidecarAssumption DEF IInv, StoresOK, Stores
  <2>3. \A v \in DOMAIN known' : known'[v] \in SUBSET Values /\ known'[v] \subseteq submitted[opener'[v]]
    BY <1>3, <1>4, <1>5 DEF IInv, StoresOK, Stores
  <2>4. \A i \in Kept : table[i].vault # vault
    BY <1>1, <1>2 DEF IInv, StoresOK, Stores, VaultsOf
  <2>5. \A i, j \in DOMAIN table' : table'[i].vault = table'[j].vault => i = j
    BY <1>2, <2>4 DEF IInv, StoresOK, Stores
  <2>6. \A v \in DOMAIN cache' : cache'[v] \in Seq(Answer)
    <3> SUFFICES ASSUME NEW v \in DOMAIN cache' PROVE cache'[v] \in Seq(Answer)
      OBVIOUS
    <3>1. CASE v = vault
      BY <3>1, <1>6
    <3>2. CASE v # vault
      BY <3>2, <1>3, <1>6 DEF IInv, StoresOK, Stores
    <3> QED
      BY <3>1, <3>2
  <2>7. DOMAIN opener' \subseteq VaultIds /\ \A v \in DOMAIN opener' : opener'[v] \in Callers
    BY <1>4 DEF IInv, StoresOK, Stores
  <2>8. Truthful(cache')
    <3> SUFFICES ASSUME NEW v \in DOMAIN cache', NEW i \in DOMAIN cache'[v]
                 PROVE  Hides(cache'[v][i])
      BY DEF Truthful
    <3>1. v # vault
      BY <1>6
    <3>2. v \in DOMAIN cache /\ cache'[v] = cache[v]
      BY <3>1, <1>3, <1>6 DEF IInv, StoresOK, Stores
    <3> QED
      BY <3>2 DEF IInv, StoresOK, Truthful
  <2>9. Stores(table', opener', known', cache', submitted')
    BY <1>5, <1>6, <1>7, <2>1, <2>2, <2>3, <2>5, <2>6, <2>7 DEF Stores
  <2> QED
    BY <2>8, <2>9 DEF StoresOK, Truthful, Hides
<1>9. Grows
  <2>1. \A v \in DOMAIN known' \cap DOMAIN opener : v \in DOMAIN known /\ known'[v] = known[v]
    BY <1>1, <1>3, <1>5 DEF IInv, StoresOK, Stores
  <2> QED
    BY <1>4, <1>7, <2>1 DEF Grows
<1>10. FlightsOK'
  BY <1>7, <1>9, FlightsStay DEF IInv
<1>11. ReplyOK'
  BY OtherReply DEF OpenNew
<1>12. PhasesOK'
  BY <1>7 DEF IInv, PhasesOK, ShutdownLosesNothing
<1> QED
  BY <1>8, <1>10, <1>11, <1>12 DEF IInv

LEMMA OpenOwnKeeps ==
    ASSUME IInv, NEW caller, NEW key, NEW secret, OpenOwn(caller, key, secret)
    PROVE  IInv'
<1>1. Within(Touched(key)) /\ Retain(Touched(key))
  BY TouchedWithin DEF OpenOwn, Usable, IInv
<1> QED
  BY <1>1, Retaining, OtherReply DEF OpenOwn, IInv

LEMMA NoneDropped ==
    ASSUME StoresOK, UNCHANGED <<opener, known, submitted>>
    PROVE  Grows
BY DEF Grows, StoresOK, Stores

LEMMA OpenRefusedKeeps ==
    ASSUME IInv, NEW caller, NEW key, NEW secret, OpenRefused(caller, key, secret)
    PROVE  IInv'
<1>1. ReplyOK'
  BY OtherReply DEF OpenRefused
<1>2. UNCHANGED <<opener, policy, generation, startup, stage, flight, submitted>>
  BY DEF OpenRefused
<1>3. CASE UNCHANGED <<table, known, cache>>
  <2>1. StoresOK' /\ Grows
    BY <1>2, <1>3 DEF IInv, StoresOK, Stores, Grows, Truthful, Hides
  <2>2. FlightsOK'
    BY <1>2, <2>1, FlightsStay DEF IInv
  <2> QED
    BY <1>1, <1>2, <1>3, <2>1, <2>2, SamePhases DEF IInv
<1>4. CASE Retain(Swept)
  <2>1. Within(Swept)
    BY SweptWithin DEF IInv
  <2> QED
    BY <1>1, <1>2, <1>4, <2>1, Retaining DEF IInv
<1> QED
  BY <1>3, <1>4 DEF OpenRefused

LEMMA CloseKeeps ==
    ASSUME IInv, NEW caller, NEW key, NEW secret, Close(caller, key, secret)
    PROVE  IInv'
<1> DEFINE t == [k \in DOMAIN table \ {key} |-> table[k]]
<1>1. Within(t)
  BY DEF Within, IInv, StoresOK, Stores
<1>2. Retain(t)
  BY DEF Close
<1> HIDE DEF t
<1> QED
  BY <1>1, <1>2, Retaining, OtherReply DEF Close, IInv

LEMMA SweepKeeps == ASSUME IInv, Sweep PROVE IInv'
<1>1. Within(Swept)
  BY SweptWithin DEF IInv
<1>2. StoresOK' /\ FlightsOK' /\ PhasesOK' /\ Grows
  BY <1>1, Retaining DEF Sweep
<1>3. ReplyOK'
  BY <1>2, SameReply DEF IInv, Sweep
<1> QED
  BY <1>2, <1>3 DEF IInv

LEMMA TickKeeps == ASSUME IInv, Tick PROVE IInv'
<1>1. /\ DOMAIN table' = DOMAIN table
      /\ \A k \in DOMAIN table : /\ table'[k] \in [vault : VaultIds, idle : 0..Ttl]
                                 /\ table'[k].vault = table[k].vault
  BY SidecarAssumption DEF Tick, IInv, StoresOK, Stores
<1>2. UNCHANGED <<opener, known, cache, policy, generation, startup, stage, flight, reply, submitted>>
  BY DEF Tick
<1>3. VaultsOf(table') = VaultsOf(table)
  BY <1>1 DEF VaultsOf
<1>4. Stores(table', opener, known, cache, submitted)
  BY <1>1, <1>3 DEF IInv, StoresOK, Stores
<1>5. StoresOK'
  BY <1>2, <1>4 DEF IInv, StoresOK, Truthful, Hides
<1>6. Grows
  BY <1>2, NoneDropped DEF IInv
<1>7. FlightsOK' /\ ReplyOK' /\ PhasesOK'
  BY <1>1, <1>2, <1>6, FlightsStay, SameReply, SamePhases DEF IInv
<1> QED
  BY <1>5, <1>7 DEF IInv

LEMMA UseRefusedKeeps ==
    ASSUME IInv, NEW caller, NEW key, NEW secret, UseRefused(caller, key, secret)
    PROVE  IInv'
<1>1. Within(Swept)
  BY SweptWithin DEF IInv
<1> QED
  BY <1>1, Retaining, OtherReply DEF UseRefused, IInv

LEMMA UseStaleKeeps ==
    ASSUME IInv, NEW caller, NEW key, NEW secret, NEW named,
           UseStale(caller, key, secret, named)
    PROVE  IInv'
<1>1. Within(Touched(key)) /\ Retain(Touched(key))
  BY TouchedWithin DEF UseStale, Usable, IInv
<1> QED
  BY <1>1, Retaining, OtherReply DEF UseStale, IInv

\* A policy in effect, named or not, that the hit or the request goes by.
LEMMA NotStale == ASSUME NEW named, ~Stale(named), named # NoVersion PROVE named = policy
BY DEF Stale

LEMMA SentFacts ==
    ASSUME PhasesOK, NEW caller \in Callers, NEW text \in Texts,
           submitted' = Sent(caller, text)
    PROVE  /\ submitted' \in [Callers -> SUBSET Values]
           /\ \A c \in Callers : submitted[c] \subseteq submitted'[c]
           /\ AllOf(text) \subseteq submitted'[caller]
<1>1. AllOf(text) \subseteq Values
  BY LeavesTyped DEF AllOf, Parts
<1> QED
  BY <1>1 DEF PhasesOK, Sent

\* More was sent: what is in order stays so.
LEMMA SentStores ==
    ASSUME NEW t, NEW o, NEW k, NEW c, NEW s1, NEW s2, Stores(t, o, k, c, s1),
           \A w \in Callers : s1[w] \subseteq s2[w]
    PROVE  Stores(t, o, k, c, s2)
<1>1. \A v \in DOMAIN k : v \in DOMAIN o /\ o[v] \in Callers
  BY DEF Stores
<1>2. \A v \in DOMAIN k : k[v] \in SUBSET Values /\ k[v] \subseteq s2[o[v]]
  BY <1>1 DEF Stores
<1> QED
  BY <1>2 DEF Stores

\* The tables of a handler that touched its session and changed nothing
\* else of them.
LEMMA TouchedStores ==
    ASSUME StoresOK, NEW key \in Kept, NEW k, NEW c,
           k = [v \in VaultsOf(Swept) |-> known[v]],
           c = [v \in VaultsOf(Swept) |-> cache[v]]
    PROVE  Stores(Touched(key), opener, k, c, submitted) /\ Truthful(c)
<1>1. /\ Within(Touched(key)) /\ VaultsOf(Touched(key)) = VaultsOf(Swept)
      /\ VaultsOf(Swept) \subseteq VaultsOf(table)
  BY TouchedWithin, SweptWithin
<1>2. DOMAIN k = VaultsOf(Swept) /\ \A v \in VaultsOf(Swept) : k[v] = known[v]
  OBVIOUS
<1>3. DOMAIN c = VaultsOf(Swept) /\ \A v \in VaultsOf(Swept) : c[v] = cache[v]
  OBVIOUS
<1>4. Stores(Touched(key), opener, k, c, submitted)
  BY <1>1, <1>2, <1>3 DEF StoresOK, Stores, Within
<1>5. Truthful(c)
  BY <1>1, <1>3 DEF StoresOK, Stores, Truthful
<1> QED
  BY <1>4, <1>5

LEMMA SanitizeHitKeeps ==
    ASSUME IInv, NEW caller \in Callers, NEW key, NEW secret, NEW text \in Texts,
           NEW named, SanitizeHit(caller, key, secret, text, named)
    PROVE  IInv'
<1> DEFINE vault == table[key].vault
           k == [v \in VaultsOf(Swept) |-> known[v]]
           c == [v \in VaultsOf(Swept) |-> cache[v]]
<1>1. key \in Kept /\ key \in DOMAIN table /\ ~Stale(named)
  BY DEF SanitizeHit, Usable, Owns
<1>2. PICK i \in Hits(vault, text) :
         /\ cache' = [v \in VaultsOf(Swept) |->
                         IF v = vault THEN Append(Without(cache[vault], i), cache[vault][i])
                         ELSE cache[v]]
         /\ reply' = Masked(caller, key, text, named, cache[vault][i].masked,
                            {policy}, known[vault], TRUE)
  BY DEF SanitizeHit
<1> DEFINE hit == cache[vault][i]
<1>3. /\ table' = Touched(key) /\ known' = k /\ submitted' = Sent(caller, text)
      /\ UNCHANGED <<opener, policy, generation, startup, stage, flight>>
  BY DEF SanitizeHit
<1>4. Stores(Touched(key), opener, k, c, submitted) /\ Truthful(c)
  BY <1>1, TouchedStores DEF IInv
<1>5. vault \in VaultsOf(table) /\ vault \in VaultsOf(Swept)
  BY <1>1 DEF VaultsOf, Swept, Kept
<1>6. /\ cache[vault] \in Seq(Answer) /\ i \in 1..Len(cache[vault])
      /\ hit \in Answer /\ Hides(hit) /\ hit.version = policy /\ hit.text = text
  <2>1. cache[vault] \in Seq(Answer) /\ vault \in DOMAIN cache
    BY <1>5 DEF IInv, StoresOK, Stores
  <2>2. i \in DOMAIN cache[vault] /\ hit.version = policy /\ hit.text = text
    BY DEF Hits
  <2> QED
    BY <2>1, <2>2 DEF IInv, StoresOK, Truthful
<1> DEFINE new == Append(Without(cache[vault], i), hit)
<1>7. new \in Seq(Answer) /\ \A j \in DOMAIN new : Hides(new[j])
  <2> DEFINE rest == Without(cache[vault], i)
  <2>1. /\ rest \in Seq(Answer)
        /\ \A j \in DOMAIN rest : \E m \in DOMAIN cache[vault] : rest[j] = cache[vault][m]
    BY <1>6, WithoutFacts
  <2>2. \A m \in DOMAIN cache[vault] : Hides(cache[vault][m])
    BY <1>5 DEF IInv, StoresOK, Stores, Truthful
  <2> HIDE DEF rest, hit
  <2>3. \A j \in DOMAIN rest : Hides(rest[j])
    BY <2>1, <2>2
  <2>4. /\ Append(rest, hit) \in Seq(Answer)
        /\ \A j \in DOMAIN Append(rest, hit) :
              \/ Append(rest, hit)[j] = hit
              \/ j \in DOMAIN rest /\ Append(rest, hit)[j] = rest[j]
    BY <1>6, <2>1
  <2>5. new = Append(rest, hit) /\ Hides(hit)
    BY <1>6 DEF rest, hit
  <2> HIDE DEF new
  <2> QED
    BY <2>3, <2>4, <2>5
<1>8. /\ DOMAIN cache' = VaultsOf(Swept) /\ cache'[vault] = new
      /\ \A v \in VaultsOf(Swept) \ {vault} : cache'[v] = c[v]
  BY <1>2, <1>5
<1> HIDE DEF new, hit, k
<1>9. Stores(Touched(key), opener, k, cache', submitted)
  BY <1>4, <1>7, <1>8 DEF Stores
<1>10. Truthful(cache')
  BY <1>4, <1>7, <1>8 DEF Truthful
<1>11. /\ submitted' \in [Callers -> SUBSET Values]
       /\ \A w \in Callers : submitted[w] \subseteq submitted'[w]
  BY <1>3, SentFacts DEF IInv
<1>12. Stores(Touched(key), opener, k, cache', submitted')
  BY <1>9, <1>11, SentStores
<1>13. StoresOK'
  BY <1>3, <1>10, <1>12 DEF StoresOK, Truthful, Hides
<1>14. Grows
  BY <1>3, <1>11, SweptWithin DEF Grows, k, IInv, StoresOK, Stores
<1>15. FlightsOK'
  BY <1>3, <1>14, FlightsStay DEF IInv
<1>16. PhasesOK'
  <2>1. DOMAIN table' \subseteq DOMAIN table
    BY <1>3, <1>1, TouchedFacts DEF IInv, StoresOK, Stores
  <2> QED
    BY <1>3, <1>11, <2>1 DEF IInv, PhasesOK, ShutdownLosesNothing
<1>17. ReplyOK'
  <2>1. /\ reply'.kind = "masked" /\ reply'.text = text /\ reply'.named = named
        /\ reply'.masked = hit.masked /\ reply'.seen = {policy} /\ reply'.hit = TRUE
    BY <1>2 DEF Masked, hit
  <2>2. \A leaf \in text : Detected(leaf, policy, policy) \subseteq hit.masked[leaf]
    BY <1>6 DEF Hides
  <2>3. NamedPolicyHolds'
    BY <1>1, <2>1, <2>2, NotStale DEF NamedPolicyHolds, Detected
  <2>4. HiddenByAllIsHidden'
    BY <2>1, <2>2 DEF HiddenByAllIsHidden, Detected
  <2> QED
    BY <2>1, <2>3, <2>4 DEF ReplyOK, RunsHideTheKnown
<1> QED
  BY <1>13, <1>15, <1>16, <1>17 DEF IInv

LEMMA SanitizeStartKeeps ==
    ASSUME IInv, NEW caller \in Callers, NEW key \in Keys, NEW secret \in Held(caller),
           NEW text \in Texts, NEW named \in Version, NEW slot \in Slots,
           SanitizeStart(caller, key, secret, text, named, slot)
    PROVE  IInv'
<1> DEFINE vault == table[key].vault
           k == [v \in VaultsOf(Swept) |-> known[v]]
           c == [v \in VaultsOf(Swept) |-> cache[v]]
           f == [caller |-> caller, key |-> key, vault |-> vault, text |-> text,
                 named |-> named, version |-> policy, generation |-> generation,
                 begun |-> << >>, masked |-> << >>, replied |-> FALSE,
                 seen |-> {policy}, knew |-> known[vault]]
<1>1. key \in Kept /\ key \in DOMAIN table /\ vault = secret /\ ~Stale(named)
  BY DEF SanitizeStart, Usable, Owns
<1>2. /\ table' = Touched(key) /\ submitted' = Sent(caller, text)
      /\ UNCHANGED <<opener, policy, generation, startup, stage, reply>>
      /\ flight' = [flight EXCEPT ![slot] = f]
  BY DEF SanitizeStart, Retain
<1>3. known' = k /\ cache' = c
  BY <1>1, TouchedWithin DEF SanitizeStart, Retain, IInv
<1>4. Stores(Touched(key), opener, k, c, submitted) /\ Truthful(c)
  BY <1>1, TouchedStores DEF IInv
<1>5. vault \in VaultsOf(table) /\ vault \in VaultsOf(Swept)
  BY <1>1 DEF VaultsOf, Swept, Kept
<1>6. /\ submitted' \in [Callers -> SUBSET Values]
      /\ \A w \in Callers : submitted[w] \subseteq submitted'[w]
      /\ AllOf(text) \subseteq submitted'[caller]
  BY <1>2, SentFacts DEF IInv
<1>7. StoresOK'
  <2>1. Stores(Touched(key), opener, k, c, submitted')
    BY <1>4, <1>6, SentStores
  <2> HIDE DEF k, c
  <2> QED
    BY <1>2, <1>3, <1>4, <2>1 DEF StoresOK, Truthful, Hides
<1>8. Grows
  BY <1>2, <1>3, <1>6, SweptWithin DEF Grows, IInv, StoresOK, Stores
<1>9. f \in Flight
  <2>1. vault \in VaultIds /\ known[vault] \subseteq Values
    BY <1>5 DEF IInv, StoresOK, Stores
  <2>2. {} \in Parts /\ text \in Parts
    BY DEF Parts
  <2>3. << >> \in [{} -> Policies] /\ << >> \in [{} -> SUBSET Values]
    OBVIOUS
  <2>4. << >> \in UNION {[d -> Policies] : d \in Parts} /\ << >> \in Maskings
    BY <2>2, <2>3 DEF Maskings
  <2>5. policy \in Policies /\ generation \in Nat
    BY DEF IInv, PhasesOK
  <2> QED
    BY <2>1, <2>2, <2>4, <2>5 DEF Flight
<1>10. Sound(f, opener', known', submitted', policy, generation)
  <2>1. vault \in DOMAIN opener /\ opener[vault] = caller
    <3>1. vault \in DOMAIN opener /\ vault \in VaultIds
      BY <1>5 DEF IInv, StoresOK, Stores
    <3> QED
      BY <1>1, <3>1, SidecarAssumption DEF Held
  <2>2. generation \in Nat
    BY DEF IInv, PhasesOK
  <2>3. DOMAIN << >> = {}
    OBVIOUS
  <2>4. known'[vault] = known[vault]
    BY <1>3, <1>5
  <2>5. named \in {NoVersion, policy}
    BY <1>1, NotStale
  <2> QED
    BY <1>2, <1>6, <2>1, <2>2, <2>3, <2>4, <2>5 DEF Sound
<1>11. FlightsOK'
  <2> HIDE DEF f
  <2> QED
    BY <1>2, <1>8, <1>9, <1>10, FlightsMove DEF IInv
<1>12. ReplyOK'
  BY <1>2, <1>8, SameReply DEF IInv
<1>13. PhasesOK'
  <2>1. DOMAIN table' \subseteq DOMAIN table
    BY <1>2, <1>1, TouchedFacts DEF IInv, StoresOK, Stores
  <2> QED
    BY <1>2, <1>6, <2>1 DEF IInv, PhasesOK, ShutdownLosesNothing
<1> QED
  BY <1>7, <1>11, <1>12, <1>13 DEF IInv

LEMMA RestoreKeeps ==
    ASSUME IInv, NEW caller \in Callers, NEW key, NEW secret \in Held(caller),
           NEW tool, NEW named, Restore(caller, key, secret, tool, named)
    PROVE  IInv'
<1>1. key \in Kept /\ key \in DOMAIN table /\ table[key].vault = secret
  BY DEF Restore, Usable, Owns
<1>2. Within(Touched(key)) /\ Retain(Touched(key))
  BY <1>1, TouchedWithin DEF Restore, IInv
<1>3. StoresOK' /\ FlightsOK' /\ PhasesOK'
  BY <1>2, Retaining DEF Restore
<1>4. ReplyOK'
  <2> DEFINE vault == table[key].vault
  <2>1. /\ reply'.kind = "restored" /\ reply'.caller = caller
        /\ reply'.values = IF tool = "restored" THEN known[vault] ELSE {}
        /\ submitted' = submitted
    BY DEF Restore
  <2>2. vault \in VaultsOf(table)
    BY <1>1 DEF VaultsOf
  <2>3. vault \in DOMAIN opener /\ vault \in VaultIds /\ known[vault] \subseteq submitted[opener[vault]]
    BY <2>2 DEF IInv, StoresOK, Stores
  <2>4. opener[vault] = caller
    BY <1>1, <2>3, SidecarAssumption DEF Held
  <2>5. reply'.values \subseteq submitted'[reply'.caller]
    BY <2>1, <2>3, <2>4
  <2> QED
    BY <2>1, <2>5 DEF ReplyOK, NamedPolicyHolds, HiddenByAllIsHidden, RunsHideTheKnown
<1> QED
  BY <1>3, <1>4 DEF IInv

LEMMA PolicyStaleKeeps ==
    ASSUME IInv, NEW caller, NEW named, PolicyStale(caller, named)
    PROVE  IInv'
<1>1. UNCHANGED <<table, opener, known, cache, policy, generation, startup, stage,
                  flight, submitted>>
  BY DEF PolicyStale
<1>2. Stores(table', opener', known', cache', submitted') /\ Truthful(cache')
  BY <1>1 DEF IInv, StoresOK
<1>3. StoresOK'
  BY <1>2 DEF StoresOK, Truthful, Hides
<1>4. Grows
  BY <1>1, NoneDropped DEF IInv
<1> QED
  BY <1>1, <1>3, <1>4, FlightsStay, OtherReply, SamePhases DEF PolicyStale, IInv

\* A change crosses every request that runs: its policy is one they read,
\* and none of them has the generation of the cache any more.
LEMMA PutPolicyKeeps ==
    ASSUME IInv, NEW caller, NEW named, NEW new \in Policies, PutPolicy(caller, named, new)
    PROVE  IInv'
<1>1. /\ policy' = new /\ generation' = generation + 1 /\ generation \in Nat
      /\ cache' = [v \in DOMAIN cache |-> << >>]
      /\ UNCHANGED <<table, opener, known, startup, stage, submitted>>
  BY DEF PutPolicy, IInv, PhasesOK
<1>2. StoresOK'
  <2>1. \A v \in DOMAIN cache' : cache'[v] \in Seq(Answer) /\ DOMAIN cache'[v] = {}
    BY <1>1
  <2>2. DOMAIN cache' = DOMAIN cache
    BY <1>1
  <2>3. Truthful(cache')
    BY <2>1 DEF Truthful
  <2>4. Stores(table, opener, known, cache', submitted)
    BY <2>1, <2>2 DEF IInv, StoresOK, Stores
  <2> QED
    BY <1>1, <2>3, <2>4 DEF StoresOK, Truthful, Hides
<1>3. FlightsOK'
  <2>1. \A s \in Slots : flight'[s] = IF flight[s] = Idle THEN Idle
                                      ELSE [flight[s] EXCEPT !.seen = @ \cup {new}]
    BY DEF PutPolicy
  <2>2. ASSUME NEW f \in Flight, NEW g, g = [f EXCEPT !.seen = @ \cup {new}],
               Sound(f, opener, known, submitted, policy, generation)
        PROVE  g \in Flight /\ Sound(g, opener, known, submitted, new, generation + 1)
    <3>1. g \in Flight
      BY <2>2 DEF Flight
    <3>2. f.generation \in Nat /\ f.generation <= generation /\ f.generation # generation + 1
      BY <1>1, <2>2 DEF Flight, Sound
    <3>3. /\ g.seen = f.seen \cup {new} /\ g.masked = f.masked /\ g.begun = f.begun
          /\ g.text = f.text /\ g.vault = f.vault /\ g.caller = f.caller
          /\ g.replied = f.replied /\ g.named = f.named /\ g.version = f.version
          /\ g.generation = f.generation /\ g.knew = f.knew
      BY <2>2 DEF Flight
    <3>4. \A l \in DOMAIN g.begun : g.begun[l] \in g.seen
      BY <2>2, <3>3 DEF Sound
    <3>5. \A l \in DOMAIN g.masked : \A v \in l.found :
             (\A q \in g.seen : LabelOf[v] \in q) => v \in g.masked[l]
      BY <2>2, <3>3 DEF Sound
    <3>6. g.generation <= generation + 1 /\ g.generation # generation + 1
      BY <1>1, <3>2, <3>3
    <3> QED
      BY <2>2, <3>1, <3>3, <3>4, <3>5, <3>6 DEF Sound
  <2>3. ASSUME NEW s \in Slots, flight[s] # Idle
        PROVE  flight'[s] \in Flight /\ Sound(flight'[s], opener, known, submitted, new, generation + 1)
    BY <2>1, <2>2, <2>3 DEF IInv, FlightsOK
  <2>4. flight' \in [Slots -> Flight \cup {Idle}]
    BY <2>1, <2>3 DEF PutPolicy
  <2> QED
    BY <1>1, <2>1, <2>3, <2>4 DEF FlightsOK
<1>4. ReplyOK'
  BY OtherReply DEF PutPolicy
<1>5. PhasesOK'
  BY <1>1 DEF IInv, PhasesOK, ShutdownLosesNothing
<1> QED
  BY <1>2, <1>3, <1>4, <1>5 DEF IInv

\* A request that moves alone, the tables and the answer as they were.
LEMMA FlightAlone ==
    ASSUME IInv, NEW slot \in Slots, NEW g,
           \/ g = Idle
           \/ g \in Flight /\ Sound(g, opener, known, submitted, policy, generation),
           flight' = [flight EXCEPT ![slot] = g],
           UNCHANGED <<table, opener, known, cache, policy, generation, startup,
                       stage, submitted>>
    PROVE  StoresOK' /\ FlightsOK' /\ PhasesOK' /\ Grows
<1>1. Stores(table', opener', known', cache', submitted') /\ Truthful(cache')
  BY DEF IInv, StoresOK
<1>2. StoresOK'
  BY <1>1 DEF StoresOK, Truthful, Hides
<1>3. Grows
  BY NoneDropped DEF IInv
<1>4. FlightsOK'
  BY <1>3, FlightsMove DEF IInv
<1> QED
  BY <1>2, <1>3, <1>4, SamePhases DEF IInv

LEMMA BeginLeafKeeps ==
    ASSUME IInv, NEW slot \in Slots, NEW leaf, BeginLeaf(slot, leaf)
    PROVE  IInv'
<1> DEFINE f == flight[slot]
           g == WithBegun(f, leaf)
<1>1. f \in Flight /\ Sound(f, opener, known, submitted, policy, generation)
  BY DEF IInv, FlightsOK, BeginLeaf
<1>2. leaf \in f.text \ DOMAIN f.begun
  BY DEF BeginLeaf
<1>3. flight' = [flight EXCEPT ![slot] = g]
  <2>1. flight \in [Slots -> Flight \cup {Idle}]
    BY DEF IInv, FlightsOK
  <2> QED
    BY <1>1, <2>1 DEF BeginLeaf, Flight, WithBegun
<1>4. g \in Flight /\ Sound(g, opener, known, submitted, policy, generation)
  <2> HIDE DEF f
  <2> QED
    BY <1>1, <1>2, BegunSound DEF IInv
<1> HIDE DEF g
<1>5. StoresOK' /\ FlightsOK' /\ PhasesOK' /\ Grows
  BY <1>3, <1>4, FlightAlone DEF BeginLeaf
<1> QED
  BY <1>5, SameReply DEF BeginLeaf, IInv

LEMMA FailLeafKeeps ==
    ASSUME IInv, NEW slot \in Slots, NEW leaf, FailLeaf(slot, leaf)
    PROVE  IInv'
<1> DEFINE f == flight[slot]
           b == [l \in DOMAIN f.begun \ {leaf} |-> f.begun[l]]
           left == [f EXCEPT !.text = @ \ {leaf}, !.replied = TRUE, !.begun = b]
           g == IF left.text = DOMAIN f.masked THEN Idle ELSE left
<1>1. f \in Flight /\ Sound(f, opener, known, submitted, policy, generation)
  BY DEF IInv, FlightsOK, FailLeaf
<1>2. flight' = [flight EXCEPT ![slot] = g]
  BY DEF FailLeaf
<1>3. left \in Flight /\ Sound(left, opener, known, submitted, policy, generation)
  <2>1. f.text \ {leaf} \in Parts /\ DOMAIN b \in Parts
    BY <1>1, PartsDown DEF Flight, Sound
  <2>2. \A l \in DOMAIN f.begun : f.begun[l] \in Policies
    BY <1>1 DEF Flight
  <2>3. b \in [DOMAIN b -> Policies]
    BY <2>2
  <2>4. \A l \in DOMAIN b : b[l] \in f.seen
    BY <1>1 DEF Sound
  <2>5. DOMAIN f.masked \subseteq DOMAIN b /\ DOMAIN b \subseteq f.text \ {leaf}
    BY <1>1 DEF Sound, FailLeaf, Running
  <2>6. AllOf(f.text \ {leaf}) \subseteq AllOf(f.text)
    BY DEF AllOf
  <2> HIDE DEF b, f
  <2>7. left \in Flight
    BY <1>1, <2>1, <2>3 DEF Flight
  <2>8. /\ left.text = f.text \ {leaf} /\ left.replied = TRUE /\ left.begun = b
        /\ left.seen = f.seen /\ left.masked = f.masked /\ left.vault = f.vault
        /\ left.caller = f.caller /\ left.named = f.named /\ left.version = f.version
        /\ left.generation = f.generation /\ left.knew = f.knew
    BY <1>1 DEF Flight
  <2> QED
    BY <1>1, <2>4, <2>5, <2>6, <2>7, <2>8 DEF Sound
<1>4. \/ g = Idle
      \/ g \in Flight /\ Sound(g, opener, known, submitted, policy, generation)
  <2> HIDE DEF left
  <2> QED
    BY <1>3
<1> HIDE DEF g
<1>5. StoresOK' /\ FlightsOK' /\ PhasesOK' /\ Grows
  BY <1>2, <1>4, FlightAlone DEF FailLeaf
<1>6. CASE reply' = reply
  BY <1>5, <1>6, SameReply DEF IInv
<1>7. CASE reply'.kind = "failed"
  BY <1>5, <1>7, OtherReply DEF IInv
<1> QED
  BY <1>6, <1>7 DEF FailLeaf

LEMMA AbandonKeeps ==
    ASSUME IInv, NEW slot \in Slots, Abandon(slot)
    PROVE  IInv'
<1>1. flight' = [flight EXCEPT ![slot] = Idle]
  BY DEF Abandon
<1>2. StoresOK' /\ FlightsOK' /\ PhasesOK' /\ Grows
  BY <1>1, FlightAlone DEF Abandon
<1> QED
  BY <1>2, SameReply DEF Abandon, IInv

\* What a leaf taught its vault keeps the tables in order, and the vaults
\* only grow.
LEMMA LearnsKeeps ==
    ASSUME StoresOK, NEW f, NEW leaf, Learns(f, leaf), Ends(f, leaf), f.vault \in DOMAIN known,
           f.vault \in DOMAIN opener /\ opener[f.vault] = f.caller,
           UNCHANGED <<table, opener, submitted>>
    PROVE  /\ Stores(table, opener, known', cache, submitted)
           /\ Grows
<1>1. /\ DOMAIN known' = DOMAIN known
      /\ known'[f.vault] = known[f.vault] \cup Hidden(f, leaf)
      /\ \A v \in DOMAIN known \ {f.vault} : known'[v] = known[v]
  BY DEF Learns, VaultOf
<1>2. \A v \in DOMAIN known' : known'[v] \in SUBSET Values /\ known'[v] \subseteq submitted[opener[v]]
  BY <1>1 DEF StoresOK, Stores, Ends
<1>3. Stores(table, opener, known', cache, submitted)
  BY <1>1, <1>2 DEF StoresOK, Stores
<1>4. Grows
  BY <1>1 DEF StoresOK, Stores, Grows
<1> QED
  BY <1>3, <1>4

LEMMA EndLeafKeeps ==
    ASSUME IInv, NEW slot \in Slots, NEW leaf, EndLeaf(slot, leaf)
    PROVE  IInv'
<1> DEFINE f == flight[slot]
           g == WithMasked(f, leaf)
<1>1. /\ f \in Flight /\ Sound(f, opener, known, submitted, policy, generation)
      /\ Running(f, leaf) /\ f.vault \in DOMAIN known /\ Learns(f, leaf)
  BY DEF IInv, FlightsOK, EndLeaf, VaultOf
<1>2. UNCHANGED <<table, opener, cache, policy, generation, startup, stage, reply, submitted>>
  BY DEF EndLeaf
<1>3. \/ flight' = [flight EXCEPT ![slot] = g]
      \/ flight' = [flight EXCEPT ![slot] = Idle]
  BY DEF EndLeaf
<1> HIDE DEF f
<1>4. Ends(f, leaf)
  BY <1>1, HiddenFacts
<1>5. Stores(table, opener, known', cache, submitted) /\ Grows
  BY <1>1, <1>2, <1>4, LearnsKeeps DEF IInv, Sound
<1>6. StoresOK'
  BY <1>2, <1>5 DEF IInv, StoresOK, Truthful, Hides
<1>7. g \in Flight /\ Sound(g, opener, known, submitted, policy, generation)
  BY <1>1, MaskedSound
<1> HIDE DEF g
<1>8. Sound(g, opener', known', submitted', policy, generation)
  BY <1>5, <1>7, SoundStays
<1>9. FlightsOK'
  BY <1>2, <1>3, <1>5, <1>7, <1>8, FlightsMove DEF IInv
<1> QED
  BY <1>2, <1>5, <1>6, <1>9, SameReply, SamePhases DEF IInv

LEMMA AnswerSanitizeKeeps ==
    ASSUME IInv, NEW slot \in Slots, NEW leaf, AnswerSanitize(slot, leaf)
    PROVE  IInv'
<1> DEFINE f == flight[slot]
           g == WithMasked(f, leaf)
           whole == g.masked
           entry == CacheEntry(f, whole)
<1>1. /\ f \in Flight /\ Sound(f, opener, known, submitted, policy, generation)
      /\ Running(f, leaf) /\ f.vault \in DOMAIN known /\ Learns(f, leaf)
      /\ ~f.replied /\ f.text = DOMAIN f.masked \cup {leaf}
  BY DEF IInv, FlightsOK, AnswerSanitize, VaultOf
<1>2. UNCHANGED <<table, opener, policy, generation, startup, stage, submitted>>
  BY DEF AnswerSanitize
<1>3. flight' = [flight EXCEPT ![slot] = Idle]
  BY DEF AnswerSanitize
<1>4. \/ reply'.kind \in {"policy_changed", "too_large"} /\ cache' = cache
      \/ /\ ~(Changed(f) /\ f.named # NoVersion)
         /\ reply' = Masked(f.caller, f.key, f.text, f.named, whole, f.seen, f.knew, FALSE)
         /\ \/ Keeps(f) /\ cache' = [cache EXCEPT ![f.vault] = Remembered(@, entry)]
            \/ cache' = cache
  <2>1. CASE Changed(f) /\ f.named # NoVersion
    <3>1. /\ reply' = [kind |-> "policy_changed", caller |-> f.caller, key |-> f.key]
          /\ cache' = cache
      BY <2>1 DEF AnswerSanitize
    <3>2. reply'.kind = "policy_changed"
      BY <3>1
    <3> QED
      BY <3>1, <3>2
  <2>2. CASE ~(Changed(f) /\ f.named # NoVersion) /\ f.text \in Oversized
    <3>1. /\ reply' = [kind |-> "too_large", caller |-> f.caller, key |-> f.key]
          /\ cache' = cache
      BY <2>2 DEF AnswerSanitize
    <3>2. reply'.kind = "too_large"
      BY <3>1
    <3> QED
      BY <3>1, <3>2
  <2>3. CASE ~(Changed(f) /\ f.named # NoVersion) /\ f.text \notin Oversized
    <3>1. /\ reply' = Masked(f.caller, f.key, f.text, f.named, whole, f.seen, f.knew, FALSE)
          /\ cache' = IF Keeps(f) THEN [cache EXCEPT ![f.vault] = Remembered(@, entry)]
                      ELSE cache
      BY <2>3 DEF AnswerSanitize, VaultOf
    <3> QED
      BY <2>3, <3>1
  <2> QED
    BY <2>1, <2>2, <2>3
<1> HIDE DEF f
<1>5. Ends(f, leaf)
  BY <1>1, HiddenFacts
<1>6. Stores(table, opener, known', cache, submitted) /\ Grows
  BY <1>1, <1>2, <1>5, LearnsKeeps DEF IInv, Sound
<1>7. g \in Flight /\ Sound(g, opener, known, submitted, policy, generation)
  BY <1>1, MaskedSound
<1>8. DOMAIN whole = f.text
  BY <1>1 DEF WithMasked, Flight
<1>9. f.text \in Texts
  BY <1>1 DEF Sound
<1>10. /\ g.text = f.text /\ g.seen = f.seen /\ g.knew = f.knew /\ g.version = f.version
       /\ g.named = f.named
  BY <1>1 DEF WithMasked, Flight
<1> HIDE DEF g
<1>11. \A l \in f.text : \A v \in l.found : (\A q \in f.seen : LabelOf[v] \in q) => v \in whole[l]
  BY <1>7, <1>8, <1>10 DEF Sound
<1>12. \A l \in f.text : All(l) \cap f.knew \subseteq whole[l]
  BY <1>7, <1>8, <1>10 DEF Sound
<1>13. ~Changed(f) => \A l \in f.text : Detected(l, f.version, f.version) \subseteq whole[l]
  BY <1>1, <1>11 DEF Changed, Sound, Detected
<1>14. FlightsOK'
  BY <1>2, <1>3, <1>6, FlightsMove DEF IInv
<1>15. PhasesOK'
  BY <1>2, SamePhases DEF IInv
<1>16. StoresOK'
  <2>1. CASE cache' = cache
    BY <1>2, <1>6, <2>1 DEF IInv, StoresOK, Truthful, Hides
  <2>2. CASE Keeps(f) /\ cache' = [cache EXCEPT ![f.vault] = Remembered(@, entry)]
    <3>1. entry \in Answer
      <4>1. whole \in Maskings /\ f.version \in Policies
        BY <1>1, <1>7 DEF Flight
      <4> HIDE DEF whole
      <4> QED
        BY <1>9, <4>1 DEF Answer, CacheEntry
    <3>2. Hides(entry)
      BY <1>13, <2>2 DEF Hides, Keeps, CacheEntry
    <3>3. f.vault \in DOMAIN cache /\ cache[f.vault] \in Seq(Answer)
      BY <1>1 DEF IInv, StoresOK, Stores
    <3> DEFINE new == Remembered(cache[f.vault], entry)
    <3>4. /\ DOMAIN cache' = DOMAIN cache /\ cache'[f.vault] = new
          /\ \A v \in DOMAIN cache \ {f.vault} : cache'[v] = cache[v]
      BY <2>2, <3>3
    <3> HIDE DEF entry
    <3>5. /\ new \in Seq(Answer)
          /\ \A j \in DOMAIN new : \/ new[j] = entry
                                   \/ \E i \in DOMAIN cache[f.vault] : new[j] = cache[f.vault][i]
      BY <3>1, <3>3, RememberedFacts
    <3> HIDE DEF new
    <3>6. \A i \in DOMAIN cache[f.vault] : Hides(cache[f.vault][i])
      BY <3>3 DEF IInv, StoresOK, Truthful
    <3>7. \A j \in DOMAIN new : Hides(new[j])
      BY <3>2, <3>5, <3>6
    <3>8. Truthful(cache')
      BY <3>4, <3>7 DEF IInv, StoresOK, Truthful
    <3>9. Stores(table, opener, known', cache', submitted)
      BY <1>6, <3>4, <3>5 DEF Stores
    <3> QED
      BY <1>2, <3>8, <3>9 DEF StoresOK, Truthful, Hides
  <2> QED
    BY <1>4, <2>1, <2>2
<1>17. ReplyOK'
  <2>1. CASE reply'.kind \in {"policy_changed", "too_large"}
    BY <2>1, OtherReply
  <2>2. CASE /\ ~(Changed(f) /\ f.named # NoVersion)
             /\ reply' = Masked(f.caller, f.key, f.text, f.named, whole, f.seen, f.knew, FALSE)
    <3>1. /\ reply'.kind = "masked" /\ reply'.text = f.text /\ reply'.named = f.named
          /\ reply'.masked = whole /\ reply'.seen = f.seen /\ reply'.knew = f.knew
      BY <2>2 DEF Masked
    <3>2. f.named # NoVersion => f.named = f.version
      BY <1>1 DEF Sound
    <3> HIDE DEF whole
    <3>3. NamedPolicyHolds'
      BY <1>13, <2>2, <3>1, <3>2 DEF NamedPolicyHolds, Detected
    <3>4. HiddenByAllIsHidden'
      BY <1>11, <3>1 DEF HiddenByAllIsHidden
    <3>5. RunsHideTheKnown'
      BY <1>12, <3>1 DEF RunsHideTheKnown, All
    <3> QED
      BY <3>1, <3>3, <3>4, <3>5 DEF ReplyOK
  <2> QED
    BY <1>4, <2>1, <2>2
<1> QED
  BY <1>14, <1>15, <1>16, <1>17 DEF IInv

\* Steps that move no session, request or answer, only the phases.
LEMMA PhaseAlone ==
    ASSUME IInv, UNCHANGED <<table, opener, known, cache, policy, generation, flight,
                             reply, submitted>>
    PROVE  StoresOK' /\ FlightsOK' /\ ReplyOK'
<1>1. Stores(table', opener', known', cache', submitted') /\ Truthful(cache')
  BY DEF IInv, StoresOK
<1>2. StoresOK'
  BY <1>1 DEF StoresOK, Truthful, Hides
<1>3. Grows
  BY NoneDropped DEF IInv
<1> QED
  BY <1>2, <1>3, FlightsStay, SameReply DEF IInv

LEMMA WarmupKeeps == ASSUME IInv, Warmup PROVE IInv'
<1>1. UNCHANGED <<table, opener, known, cache, policy, generation, flight, reply, submitted>>
  BY DEF Warmup
<1>2. PhasesOK'
  BY DEF IInv, PhasesOK, ShutdownLosesNothing, Warmup, Loading, Ready, WarmupFails
<1> QED
  BY <1>1, <1>2, PhaseAlone DEF IInv

LEMMA SignalKeeps == ASSUME IInv, Signal PROVE IInv'
<1>1. UNCHANGED <<table, opener, known, cache, policy, generation, flight, reply, submitted>>
  BY DEF Signal
<1>2. PhasesOK'
  BY DEF IInv, PhasesOK, ShutdownLosesNothing, Signal
<1> QED
  BY <1>1, <1>2, PhaseAlone DEF IInv

LEMMA ShutdownKeeps == ASSUME IInv, NEW caller, Shutdown(caller) PROVE IInv'
<1>1. Within(Swept) /\ Retain(Swept)
  BY SweptWithin DEF IInv, Shutdown
<1>2. UNCHANGED <<opener, policy, generation, startup, flight, submitted>>
  BY DEF Shutdown
<1>3. StoresOK' /\ Grows
  BY <1>1, <1>2, RetainKeeps, RetainGrows DEF IInv
<1>4. FlightsOK'
  BY <1>2, <1>3, FlightsStay DEF IInv
<1>5. ReplyOK'
  BY OtherReply DEF Shutdown
<1>6. DOMAIN table' = Kept /\ Kept \subseteq DOMAIN table
  BY <1>1 DEF Retain, Swept, Kept
<1>7. PhasesOK'
  <2>1. CASE stage = "closing" /\ stage' = "closing"
    BY <1>2, <1>6, <2>1 DEF IInv, PhasesOK, ShutdownLosesNothing
  <2>2. CASE NotRefused /\ stage' = "closing"
    BY <1>2, <1>6, <2>2 DEF IInv, PhasesOK, ShutdownLosesNothing, NotRefused
  <2>3. CASE stage = "up" /\ stage' = stage
    BY <1>2, <1>6, <2>3 DEF IInv, PhasesOK, ShutdownLosesNothing
  <2> QED
    BY <2>1, <2>2, <2>3 DEF Shutdown
<1> QED
  BY <1>3, <1>4, <1>5, <1>7 DEF IInv

LEMMA StopKeeps == ASSUME IInv, Stop PROVE IInv'
<1>1. Within(<< >>) /\ Retain(<< >>)
  BY DEF Within, Stop
<1>2. UNCHANGED <<opener, policy, generation, startup, reply, submitted>> /\ stage' = "down"
  BY DEF Stop
<1>3. StoresOK' /\ Grows
  BY <1>1, <1>2, RetainKeeps, RetainGrows DEF IInv
<1>4. FlightsOK'
  BY DEF Stop, FlightsOK
<1>5. PhasesOK'
  BY <1>2 DEF IInv, PhasesOK, ShutdownLosesNothing
<1> QED
  BY <1>2, <1>3, <1>4, <1>5, SameReply DEF IInv

(***************************************************************************)
(* The invariant                                                           *)
(***************************************************************************)
LEMMA InitHolds == Init => IInv
<1> SUFFICES ASSUME Init PROVE IInv
  OBVIOUS
<1>1. StoresOK
  BY DEF Init, StoresOK, Stores, VaultsOf, Truthful
<1>2. FlightsOK
  BY DEF Init, FlightsOK
<1>3. ReplyOK
  BY DEF Init, ReplyOK, NamedPolicyHolds, HiddenByAllIsHidden, RunsHideTheKnown
<1>4. PhasesOK
  BY SidecarAssumption DEF Init, PhasesOK, ShutdownLosesNothing
<1> QED
  BY <1>1, <1>2, <1>3, <1>4 DEF IInv

LEMMA StuttersKeep == ASSUME IInv, UNCHANGED vars PROVE IInv'
<1>1. UNCHANGED <<table, opener, known, cache, policy, generation, flight, reply, submitted>>
  BY DEF vars
<1>2. PhasesOK'
  BY DEF IInv, PhasesOK, ShutdownLosesNothing, vars
<1> QED
  BY <1>1, <1>2, PhaseAlone DEF IInv

LEMMA SessionStepKeeps ==
    ASSUME IInv, NEW caller \in Callers, NEW key \in Keys, NEW secret \in Held(caller),
           SessionStep(caller, key, secret)
    PROVE  IInv'
<1>1. CASE \E vault \in VaultIds : OpenNew(caller, key, vault)
  BY <1>1, OpenNewKeeps
<1>2. CASE OpenOwn(caller, key, secret)
  BY <1>2, OpenOwnKeeps
<1>3. CASE OpenRefused(caller, key, secret)
  BY <1>3, OpenRefusedKeeps
<1>4. CASE Close(caller, key, secret)
  BY <1>4, CloseKeeps
<1>5. CASE UseRefused(caller, key, secret)
  BY <1>5, UseRefusedKeeps
<1>6. ASSUME NEW named \in Version, UseStale(caller, key, secret, named) PROVE IInv'
  BY <1>6, UseStaleKeeps
<1>7. ASSUME NEW named \in Version, NEW tool \in Tools, Restore(caller, key, secret, tool, named)
      PROVE  IInv'
  BY <1>7, RestoreKeeps
<1>8. ASSUME NEW named \in Version, NEW text \in Texts,
             SanitizeHit(caller, key, secret, text, named)
      PROVE  IInv'
  BY <1>8, SanitizeHitKeeps
<1>9. ASSUME NEW named \in Version, NEW text \in Texts, NEW slot \in Slots,
             SanitizeStart(caller, key, secret, text, named, slot)
      PROVE  IInv'
  BY <1>9, SanitizeStartKeeps
<1> QED
  BY <1>1, <1>2, <1>3, <1>4, <1>5, <1>6, <1>7, <1>8, <1>9 DEF SessionStep

LEMMA FlightStepKeeps ==
    ASSUME IInv, NEW slot \in Slots, FlightStep(slot)
    PROVE  IInv'
<1>1. ASSUME NEW leaf, \/ BeginLeaf(slot, leaf)
                       \/ EndLeaf(slot, leaf)
                       \/ AnswerSanitize(slot, leaf)
                       \/ FailLeaf(slot, leaf)
      PROVE  IInv'
  BY <1>1, BeginLeafKeeps, EndLeafKeeps, AnswerSanitizeKeeps, FailLeafKeeps
<1> QED
  BY <1>1, AbandonKeeps DEF FlightStep

LEMMA StepKeeps == IInv /\ [Next]_vars => IInv'
<1> SUFFICES ASSUME IInv, [Next]_vars PROVE IInv'
  OBVIOUS
<1>1. CASE UNCHANGED vars
  BY <1>1, StuttersKeep
<1>2. CASE Next
  <2>1. CASE \E caller \in Callers, key \in Keys : \E secret \in Held(caller) :
                SessionStep(caller, key, secret)
    BY <2>1, SessionStepKeeps
  <2>2. CASE \E slot \in Slots : FlightStep(slot)
    BY <2>2, FlightStepKeeps
  <2>3. ASSUME NEW caller \in Callers, Shutdown(caller) PROVE IInv'
    BY <2>3, ShutdownKeeps
  <2>4. ASSUME NEW caller \in Callers, NEW named \in Version, PolicyStale(caller, named)
        PROVE  IInv'
    BY <2>4, PolicyStaleKeeps
  <2>5. ASSUME NEW caller \in Callers, NEW named \in Version, NEW new \in Policies,
               PutPolicy(caller, named, new)
        PROVE  IInv'
    BY <2>5, PutPolicyKeeps
  <2> QED
    BY <1>2, <2>1, <2>2, <2>3, <2>4, <2>5, SweepKeeps, TickKeeps, WarmupKeeps,
       SignalKeeps, StopKeeps DEF Next
<1> QED
  BY <1>1, <1>2

LEMMA Invariant == Spec => []IInv
BY InitHolds, StepKeeps, PTL DEF Spec

(***************************************************************************)
(* The theorems                                                            *)
(***************************************************************************)
\* Every variable keeps its type.
THEOREM TypeCorrect == Spec => []TypeOK
<1>1. IInv => TypeOK
  BY DEF IInv, StoresOK, Stores, FlightsOK, PhasesOK, TypeOK
<1> QED
  BY <1>1, Invariant, PTL

\* There is a vault in memory for each session, and for nothing else
\* (sidecar-sessions.ts, drop).
THEOREM NoVaultOutlivesItsSession == Spec => []VaultsFollowSessions
<1>1. IInv => VaultsFollowSessions
  BY DEF IInv, StoresOK, Stores, VaultsFollowSessions
<1> QED
  BY <1>1, Invariant, PTL

\* A caller that named a policy gets an answer that hides all that policy
\* detects, from the cache or not, whatever changed meanwhile
\* (routes/sidecar.ts:411-437).
THEOREM NamedPolicyIsKept == Spec => []NamedPolicyHolds
<1>1. IInv => NamedPolicyHolds
  BY DEF IInv, ReplyOK
<1> QED
  BY <1>1, Invariant, PTL

\* A change of the policy never shows a value that every policy in effect
\* while the request ran hides (nullpii.ts, detectWithModel, finalSpans).
THEOREM ChangesShowNothing == Spec => []HiddenByAllIsHidden
<1>1. IInv => HiddenByAllIsHidden
  BY DEF IInv, ReplyOK
<1> QED
  BY <1>1, Invariant, PTL

\* A request that runs masks all its session had masked when it came
\* (vault.ts, knownValueSpans).
THEOREM KnownIsHiddenByRuns == Spec => []RunsHideTheKnown
<1>1. IInv => RunsHideTheKnown
  BY DEF IInv, ReplyOK
<1> QED
  BY <1>1, Invariant, PTL

\* No caller reads a value another one sent: not with the token, not over a
\* key that changed hands while a request ran (sidecar-sessions.ts, use).
THEOREM NoOneReadsAnothers == Spec => []OwnValuesOnly
<1>1. IInv => OwnValuesOnly
  BY DEF IInv, StoresOK, Stores, ReplyOK, OwnValuesOnly
<1> QED
  BY <1>1, Invariant, PTL

\* What carries the proofs is an invariant too.
THEOREM AnswersAlwaysMatchPolicy == Spec => []AnswersMatchPolicy
<1>1. ASSUME IInv PROVE AnswersMatchPolicy
  <2>1. \A s \in Slots : flight[s] # Idle =>
           Sound(flight[s], opener, known, submitted, policy, generation)
    BY <1>1 DEF IInv, FlightsOK
  <2>2. \A v \in DOMAIN cache : \A i \in DOMAIN cache[v] : Hides(cache[v][i])
    BY <1>1 DEF IInv, StoresOK, Truthful
  <2> QED
    BY <2>1, <2>2 DEF Sound, Hides, AnswersMatchPolicy
<1> QED
  BY <1>1, Invariant, PTL

\* A shutdown is accepted when no session is open and none is waited for,
\* and none opens after it (routes/sidecar.ts, shutdownRefusal).
THEOREM NothingIsLostToShutdown == Spec => []ShutdownLosesNothing
<1>1. IInv => ShutdownLosesNothing
  BY DEF IInv, PhasesOK
<1> QED
  BY <1>1, Invariant, PTL

(***************************************************************************)
(* What a step does to the session table                                   *)
(***************************************************************************)
\* A key that has no live session gets a new one, with a vault of its own.
Opens(key, vault) ==
    /\ vault \notin DOMAIN opener
    /\ DOMAIN table' = Kept \cup {key}
    /\ table'[key].vault = vault
    /\ \A k \in Kept \ {key} : table'[k] = table[k]
    /\ key \notin Kept

Closes(key) ==
    /\ key \in DOMAIN table
    /\ table' = [k \in DOMAIN table \ {key} |-> table[k]]
    /\ reply'.kind = "closed" /\ reply'.key = key
    /\ reply'.caller = opener[table[key].vault]

Ages ==
    /\ DOMAIN table' = DOMAIN table
    /\ \A k \in DOMAIN table : /\ table'[k].vault = table[k].vault
                               /\ table'[k].idle >= table[k].idle

TableMoves ==
    \/ table' = table
    \/ table' = Swept
    \/ \E key \in Kept : table' = Touched(key)
    \/ \E key \in Keys, vault \in VaultIds : Opens(key, vault)
    \/ \E key \in Keys : Closes(key)
    \/ Ages
    \/ stage' = "down" /\ table' = << >>

LEMMA OpenNewMoves ==
    ASSUME StoresOK, NEW caller, NEW key \in Keys, NEW vault \in VaultIds,
           OpenNew(caller, key, vault)
    PROVE  Opens(key, vault)
<1>1. \A i \in DOMAIN table : table[i] \in [vault : VaultIds, idle : 0..Ttl]
  BY DEF StoresOK, Stores
<1>2. table' = [k \in DOMAIN Swept \cup {key} |->
                   IF k = key THEN [vault |-> vault, idle |-> 0] ELSE Swept[k]]
  BY DEF OpenNew, Room
<1>3. DOMAIN Swept = Kept /\ \A k \in Kept : Swept[k] = table[k]
  BY <1>1, SweptFacts
<1> QED
  BY <1>2, <1>3 DEF Opens, OpenNew

\* Only the owner closes a session: its secret is what it shows.
LEMMA CloseMoves ==
    ASSUME StoresOK, NEW caller, NEW key \in Keys, NEW secret \in Held(caller),
           Close(caller, key, secret)
    PROVE  Closes(key)
<1>1. key \in DOMAIN table /\ table[key].vault = secret /\ secret \in VaultIds
  BY DEF Close, Owns, StoresOK, Stores
<1>2. opener[secret] = caller
  BY <1>1, SidecarAssumption DEF Held
<1>3. table' = [k \in DOMAIN table \ {key} |-> table[k]]
  BY DEF Close, Retain
<1>4. reply' = [kind |-> "closed", caller |-> caller, key |-> key]
  BY DEF Close
<1> QED
  BY <1>1, <1>2, <1>3, <1>4 DEF Closes

LEMMA TickMoves == ASSUME StoresOK, Tick PROVE Ages
<1>1. \A i \in DOMAIN table : table[i] \in [vault : VaultIds, idle : 0..Ttl]
  BY DEF StoresOK, Stores
<1>2. table' = [k \in DOMAIN table |->
                   [table[k] EXCEPT !.idle = IF @ < Ttl THEN @ + 1 ELSE @]]
  BY DEF Tick
<1> QED
  BY <1>1, <1>2, SidecarAssumption DEF Ages

LEMMA SessionStepMoves ==
    ASSUME StoresOK, NEW caller \in Callers, NEW key \in Keys, NEW secret \in Held(caller),
           SessionStep(caller, key, secret)
    PROVE  TableMoves
<1>1. ASSUME NEW vault \in VaultIds, OpenNew(caller, key, vault) PROVE TableMoves
  BY <1>1, OpenNewMoves DEF TableMoves
<1>2. CASE OpenOwn(caller, key, secret)
  BY <1>2 DEF OpenOwn, Usable, Retain, TableMoves
<1>3. CASE OpenRefused(caller, key, secret)
  BY <1>3 DEF OpenRefused, Retain, TableMoves
<1>4. CASE Close(caller, key, secret)
  BY <1>4, CloseMoves DEF TableMoves
<1>5. CASE UseRefused(caller, key, secret)
  BY <1>5 DEF UseRefused, Retain, TableMoves
<1>6. ASSUME NEW named \in Version, UseStale(caller, key, secret, named) PROVE TableMoves
  BY <1>6 DEF UseStale, Usable, Retain, TableMoves
<1>7. ASSUME NEW named \in Version, NEW tool \in Tools, Restore(caller, key, secret, tool, named)
      PROVE  TableMoves
  BY <1>7 DEF Restore, Usable, Retain, TableMoves
<1>8. ASSUME NEW named \in Version, NEW text \in Texts,
             SanitizeHit(caller, key, secret, text, named)
      PROVE  TableMoves
  BY <1>8 DEF SanitizeHit, Usable, TableMoves
<1>9. ASSUME NEW named \in Version, NEW text \in Texts, NEW slot \in Slots,
             SanitizeStart(caller, key, secret, text, named, slot)
      PROVE  TableMoves
  BY <1>9 DEF SanitizeStart, Usable, Retain, TableMoves
<1> QED
  BY <1>1, <1>2, <1>3, <1>4, <1>5, <1>6, <1>7, <1>8, <1>9 DEF SessionStep

LEMMA FlightStepMoves == ASSUME NEW slot \in Slots, FlightStep(slot) PROVE table' = table
<1>1. CASE Abandon(slot)
  BY <1>1 DEF Abandon
<1>2. ASSUME NEW leaf, \/ BeginLeaf(slot, leaf)
                       \/ EndLeaf(slot, leaf)
                       \/ AnswerSanitize(slot, leaf)
                       \/ FailLeaf(slot, leaf)
      PROVE  table' = table
  BY <1>2 DEF BeginLeaf, EndLeaf, AnswerSanitize, FailLeaf
<1> QED
  BY <1>1, <1>2 DEF FlightStep

LEMMA StepMoves == IInv /\ [Next]_vars => TableMoves
<1> SUFFICES ASSUME IInv, [Next]_vars PROVE TableMoves
  OBVIOUS
<1>1. StoresOK
  BY DEF IInv
<1>2. CASE UNCHANGED vars
  BY <1>2 DEF vars, TableMoves
<1>3. CASE Next
  <2>1. CASE \E caller \in Callers, key \in Keys : \E secret \in Held(caller) :
                SessionStep(caller, key, secret)
    BY <1>1, <2>1, SessionStepMoves
  <2>2. CASE \E slot \in Slots : FlightStep(slot)
    BY <2>2, FlightStepMoves DEF TableMoves
  <2>3. ASSUME NEW caller \in Callers, Shutdown(caller) PROVE TableMoves
    BY <2>3 DEF Shutdown, Retain, TableMoves
  <2>4. ASSUME NEW caller \in Callers, NEW named \in Version,
               \/ PolicyStale(caller, named)
               \/ \E new \in Policies : PutPolicy(caller, named, new)
        PROVE  TableMoves
    BY <2>4 DEF PolicyStale, PutPolicy, TableMoves
  <2>5. CASE Sweep
    BY <2>5 DEF Sweep, Retain, TableMoves
  <2>6. CASE Tick
    BY <1>1, <2>6, TickMoves DEF TableMoves
  <2>7. CASE Warmup \/ Signal
    BY <2>7 DEF Warmup, Signal, TableMoves
  <2>8. CASE Stop
    BY <2>8 DEF Stop, Retain, TableMoves
  <2> QED
    BY <1>3, <2>1, <2>2, <2>3, <2>4, <2>5, <2>6, <2>7, <2>8 DEF Next
<1> QED
  BY <1>2, <1>3

\* A session that was idle for its TTL never comes back, whatever is asked
\* of it before the sweeper runs (sidecar-sessions.ts, use, open).
THEOREM NoOneRevivesTheExpired == Spec => ExpiredStayExpired
<1>1. ASSUME IInv, [Next]_vars, NEW k \in DOMAIN table \cap DOMAIN table'
      PROVE  StaysExpired(k)
  <2>1. TableMoves
    BY <1>1, StepMoves
  <2>2. \A i \in DOMAIN table : table[i] \in [vault : VaultIds, idle : 0..Ttl]
    BY <1>1 DEF IInv, StoresOK, Stores
  <2>3. table[k].vault \in DOMAIN opener
    BY <1>1 DEF IInv, StoresOK, Stores, VaultsOf
  <2> SUFFICES ASSUME table[k].idle >= Ttl, table'[k].vault = table[k].vault
               PROVE  table'[k].idle >= Ttl
    BY DEF StaysExpired
  <2>4. k \notin Kept
    BY <2>2, SidecarAssumption DEF Kept
  <2>5. CASE table' = table
    BY <2>5
  <2>6. CASE table' = Swept
    BY <1>1, <2>2, <2>4, <2>6, SweptFacts
  <2>7. ASSUME NEW key \in Kept, table' = Touched(key) PROVE FALSE
    BY <1>1, <2>2, <2>4, <2>7, TouchedFacts
  <2>8. ASSUME NEW key \in Keys, NEW vault \in VaultIds, Opens(key, vault) PROVE FALSE
    BY <1>1, <2>3, <2>4, <2>8 DEF Opens
  <2>9. ASSUME NEW key \in Keys, Closes(key) PROVE table'[k] = table[k]
    BY <1>1, <2>9 DEF Closes
  <2>10. ASSUME Ages PROVE table'[k].idle >= Ttl
    <3>1. table'[k].idle >= table[k].idle /\ table[k].idle = Ttl
      BY <1>1, <2>2, <2>10, SidecarAssumption DEF Ages
    <3> QED
      BY <3>1
  <2>11. CASE table' = << >>
    BY <1>1, <2>11
  <2> QED
    BY <2>1, <2>5, <2>6, <2>7, <2>8, <2>9, <2>10, <2>11 DEF TableMoves
<1>2. IInv /\ [Next]_vars
      => [\A k \in DOMAIN table \cap DOMAIN table' : StaysExpired(k)]_vars
  BY <1>1
<1> QED
  BY <1>2, Invariant, PTL DEF Spec, ExpiredStayExpired

\* A session that is not idle is its owner's until the owner closes it: a
\* full table evicts none, and another caller closes none
\* (sidecar-sessions.ts, open and close).
THEOREM NoOneLosesASession == Spec => NeverEvicted
<1>1. ASSUME IInv, [Next]_vars, NEW k \in DOMAIN table
      PROVE  StaysOpen(k)
  <2>1. TableMoves
    BY <1>1, StepMoves
  <2>2. \A i \in DOMAIN table : table[i] \in [vault : VaultIds, idle : 0..Ttl]
    BY <1>1 DEF IInv, StoresOK, Stores
  <2> SUFFICES ASSUME table[k].idle < Ttl, table[k].vault \notin VaultsOf(table'),
                      stage' # "down"
               PROVE  /\ reply'.kind = "closed" /\ reply'.key = k
                      /\ reply'.caller = opener[table[k].vault]
    BY DEF StaysOpen
  <2>3. k \in Kept
    BY DEF Kept
  <2>4. \A t : k \in DOMAIN t /\ t[k].vault = table[k].vault => table[k].vault \in VaultsOf(t)
    BY DEF VaultsOf
  <2>5. ~(k \in DOMAIN table' /\ table'[k].vault = table[k].vault)
    BY <2>4
  <2>6. table' # table
    BY <2>5
  <2>7. table' # Swept
    BY <2>2, <2>3, <2>5, SweptFacts
  <2>8. \A key \in Kept : table' # Touched(key)
    BY <2>2, <2>3, <2>5, TouchedFacts
  <2>9. \A key \in Keys, vault \in VaultIds : ~Opens(key, vault)
    BY <2>3, <2>5 DEF Opens
  <2>10. ~Ages
    BY <2>5 DEF Ages
  <2>11. PICK key \in Keys : Closes(key)
    BY <2>1, <2>6, <2>7, <2>8, <2>9, <2>10 DEF TableMoves
  <2>12. key = k
    BY <2>5, <2>11 DEF Closes
  <2> QED
    BY <2>11, <2>12 DEF Closes
<1>2. IInv /\ [Next]_vars => [\A k \in DOMAIN table : StaysOpen(k)]_vars
  BY <1>1
<1> QED
  BY <1>2, Invariant, PTL DEF Spec, NeverEvicted
=============================================================================
