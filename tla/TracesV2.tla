------------------------------- MODULE TracesV2 -------------------------------
(***************************************************************************)
(* The traces-v2 generator (packages/eval/scripts/r2/traces_v2_gen.py):    *)
(* the slots of a corpus, a short document written by one skeleton, a long *)
(* one written section by section, and the checks that make it drawn again.*)
(* Lengths are in hundreds of characters, rounded up.                      *)
(***************************************************************************)
EXTENDS TraceSkeletons, Sequences, FiniteSets

CONSTANTS
  Blocks,     \* the lengths of what a skeleton writes at once
  LongestBlock,
  MaxDraws    \* bound: MAX_ATTEMPTS, 60 there

ASSUME TracesV2Assumption ==
  /\ Blocks \subseteq Nat \ {0}
  /\ LongestBlock \in Blocks /\ \A b \in Blocks : b <= LongestBlock
  /\ MaxDraws \in Nat \ {0}

VARIABLES
  stage,     \* where the generator stands
  longer,    \* plan_slots: the kinds with one more long document
  slot,      \* the slot being built
  draws,     \* attempts begun on it
  goal,      \* the target length
  length,    \* len(d)
  planted,   \* d.spans is not empty
  rounds     \* iterations of g.loop begun, 0 or 1 (more count as 1)

v2vars == <<stage, longer, slot, draws, goal, length, planted, rounds>>

(* ---------- Parameters of the generator ---------- *)

NDocs == 600
NLong == 60
NClean == 60
ShortBounds == [min |-> 3, max |-> 60]
LongBounds == [min |-> 200, max |-> 600]
ShortTargets == {4, 48}      \* the ends of SHORT_TARGET_LO .. SHORT_TARGET_HI
\* Mutant: a target may be the upper bound itself.
LongTargetsToTheBound == {210, 600}
LongTargets == {210, 500}    \* the ends of LONG_TARGET_LO .. LONG_TARGET_HI
SectionTargets == {15, 52}   \* the ends of LONG_SECTION_LO .. LONG_SECTION_HI
Header == 1
MinSkeletons == 40
MinUses == 3

(* ---------- The plan (plan_slots, corpus_checks) ---------- *)

PerKindLong == NLong \div Cardinality(Kinds)
PerKind == NDocs \div Cardinality(Kinds)
\* Mutant: only the kinds drawn for one more get any.
LongOfDrawn(kind, more) == IF kind \in more THEN PerKindLong + 1 ELSE 0
LongOf(kind, more) ==
  PerKindLong + (IF kind \in more THEN 1 ELSE 0)
ShortOf(kind, more) == PerKind - LongOf(kind, more)

(* j % len(order): the least used skeleton of a kind. *)
Uses(kind, more) == ShortOf(kind, more) \div Len(REGISTRY[kind])

SkeletonCount ==
  Cardinality(UNION {{<<k, i>> : i \in 0 .. Len(REGISTRY[k])} : k \in Kinds})

(* The slots of a plan, and those whose document is long. *)
Slots == Kinds \X (0 .. PerKind - 1)
LongSlots(more) == {s \in Slots : s[2] < LongOf(s[1], more)}

(* corpus_checks, of what the plan settles: documents, skeletons and their *)
(* uses, the shares of long documents and of those without a span.         *)
CorpusChecks(more) ==
  LET sumLong == Cardinality(LongSlots(more)) IN
  /\ Cardinality(Slots) = NDocs
  /\ SkeletonCount >= MinSkeletons
  /\ \A k \in Kinds : Uses(k, more) >= MinUses /\ LongOf(k, more) >= MinUses
  /\ 8 * NDocs <= 100 * sumLong /\ 100 * sumLong <= 12 * NDocs
  /\ 7 * NDocs <= 100 * NClean /\ 100 * NClean <= 13 * NDocs
  /\ NClean <= NDocs - sumLong

(* ---------- What a section can come to ---------- *)

(* The categories a skeleton may have planted: those it always plants and, *)
(* of the others, at most one (a bound).  Only a bare one may plant none.  *)
(* Gen._pii: in a clean document a placeholder takes the value's place.    *)
Plants(skeleton, clean) ==
  LET more == {{}} \cup {{label} : label \in skeleton.other}
      all == {skeleton.sure \cup labels : labels \in more}
  IN IF clean THEN {{}} ELSE IF skeleton.bare THEN all ELSE all \ {{}}

(* Gen.loop: the block is written while it has run too few times or the    *)
(* text is short of its target.                                            *)
LoopGoesOn(skeleton, n, len, target) == n < skeleton.minIter \/ len < target

(* What a whole section may measure: the loop ends within a block of its   *)
(* target.                                                                 *)
SectionLengths(target) == {target, target + LongestBlock - 1}

(* ---------- The generator ---------- *)

NoSlot == [kind |-> "none", long |-> FALSE, clean |-> FALSE, tpl |-> 0]

InitV2 ==
  /\ stage = "start" /\ longer = {} /\ slot = NoSlot /\ draws = 0
  /\ goal = 0 /\ length = 0 /\ planted = FALSE /\ rounds = 0

PlanSlots ==
  /\ stage = "start"
  /\ stage' = "plan"
  /\ \E more \in SUBSET Kinds :
       /\ Cardinality(more) = NLong % Cardinality(Kinds)
       /\ longer' = more
  /\ UNCHANGED <<slot, draws, goal, length, planted, rounds>>

(* The checks of the whole corpus, its documents built as their slots say. *)
FinishCorpus ==
  /\ stage = "plan"
  /\ stage' = IF CorpusChecks(longer) THEN "written" ELSE "failed"
  /\ UNCHANGED <<longer, slot, draws, goal, length, planted, rounds>>

(* A slot of the plan; only short documents are clean. *)
TakeSlot ==
  /\ stage = "plan"
  /\ stage' = "draw"
  /\ longer' = {}
  /\ \E k \in Kinds :
       \/ slot' = [kind |-> k, long |-> TRUE, clean |-> FALSE, tpl |-> 0]
       \/ \E i \in 1 .. Len(REGISTRY[k]), c \in BOOLEAN :
            slot' = [kind |-> k, long |-> FALSE, clean |-> c, tpl |-> i]
  /\ UNCHANGED <<draws, goal, length, planted, rounds>>

(* One more attempt begun. *)
Attempt(n) == n + 1

(* build_doc: a new Doc and its target; a short document begins with the   *)
(* head of its skeleton.                                                   *)
DrawDoc ==
  /\ stage = "draw"
  /\ stage' = IF slot.long THEN "sections" ELSE "loop"
  /\ draws' = Attempt(draws)
  /\ rounds' = 0
  /\ goal' \in IF slot.long THEN LongTargets ELSE ShortTargets
  /\ length' \in IF slot.long THEN {0} ELSE Blocks
  /\ planted' = FALSE
  /\ UNCHANGED <<longer, slot>>

(* One iteration of the skeleton's loop. *)
Iterate ==
  /\ stage = "loop"
  /\ LoopGoesOn(REGISTRY[slot.kind][slot.tpl], rounds, length, goal)
  /\ rounds' = 1
  /\ \E b \in Blocks : length' = length + b
  /\ UNCHANGED <<stage, longer, slot, draws, goal, planted>>

(* The loop is over: the skeleton has planted what it plants. *)
FinishShort ==
  /\ stage = "loop"
  /\ ~LoopGoesOn(REGISTRY[slot.kind][slot.tpl], rounds, length, goal)
  /\ stage' = "check"
  /\ \E labels \in Plants(REGISTRY[slot.kind][slot.tpl], slot.clean) :
       planted' = (labels # {})
  /\ UNCHANGED <<longer, slot, draws, goal, length, rounds>>

(* build_long: a section of a drawn skeleton, under its header. *)
Section ==
  /\ stage = "sections"
  /\ length < goal
  /\ \E i \in 1 .. Len(REGISTRY[slot.kind]), t \in SectionTargets :
       /\ \E n \in SectionLengths(t) : length' = length + Header + n
       /\ \E labels \in Plants(REGISTRY[slot.kind][i], slot.clean) :
            planted' = (planted \/ labels # {})
  /\ UNCHANGED <<stage, longer, slot, draws, goal, rounds>>

FinishLong ==
  /\ stage = "sections"
  /\ length >= goal
  /\ stage' = "check"
  /\ UNCHANGED <<longer, slot, draws, goal, length, planted, rounds>>

(* validate_doc: a document out of its bounds, with the spans its slot     *)
(* does not ask for, or with a planted value repeated outside its span, is *)
(* drawn again; after the last draw the run stops.                         *)
InBounds ==
  LET b == IF slot.long THEN LongBounds ELSE ShortBounds IN
  b.min <= length /\ length <= b.max

Validate ==
  /\ stage = "check"
  /\ \E repeats \in BOOLEAN :
       stage' = CASE InBounds /\ planted = ~slot.clean /\ ~repeats -> "done"
                  [] ~(InBounds /\ planted = ~slot.clean /\ ~repeats)
                     /\ draws < MaxDraws -> "draw"
                  [] OTHER -> "gaveUp"
  /\ UNCHANGED <<longer, slot, draws, goal, length, planted, rounds>>

NextV2 ==
  \/ PlanSlots \/ FinishCorpus \/ TakeSlot \/ DrawDoc \/ Iterate
  \/ FinishShort \/ Section \/ FinishLong \/ Validate
=============================================================================
