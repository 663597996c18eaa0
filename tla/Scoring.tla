-------------------------------- MODULE Scoring --------------------------------
(***************************************************************************)
(* How the bench scores one document: evaluate of metrics.py, whose counts *)
(* make the F1 of matrix.json, and _confusion of bench_full.py, whose      *)
(* counts make confusion.json.  Both take the predictions in the tool's    *)
(* order and give each a gold span of its label still free; they differ in *)
(* which.                                                                  *)
(***************************************************************************)
EXTENDS Integers, FiniteSets, SequencesExt

CONSTANTS
  Span,     \* spans [label, start, end]
  MaxSpans  \* bound: the spans of a side

ASSUME ScoringAssumption ==
  /\ MaxSpans \in Nat
  /\ \A s \in Span : s.start \in Int /\ s.end \in Int

VARIABLES
  truth,    \* the gold spans
  pred,     \* the predicted ones
  scored,   \* predictions scored so far
  free,     \* evaluate: the gold spans unmatched, in order
  open      \* _confusion: truths_remaining

scorevars == <<truth, pred, scored, free, open>>

Lower(m, n) == IF m < n THEN m ELSE n
Upper(m, n) == IF m > n THEN m ELSE n

(* Intersection and union of two spans, whose quotient is their IoU. *)
Inter(x, y) ==
  LET from == Upper(x.start, y.start)
      to == Lower(x.end, y.end)
  IN IF to > from THEN to - from ELSE 0
Union(x, y) == (x.end - x.start) + (y.end - y.start) - Inter(x, y)

(* Same label and IoU at least a half; spans apart have none. *)
Match(x, y) ==
  /\ x.label = y.label
  /\ Inter(x, y) > 0 /\ 2 * Inter(x, y) >= Union(x, y)
Matches(p, list) == {i \in DOMAIN list : Match(p, list[i])}

(* The IoU of p with y is at least its IoU with z. *)
AtLeast(p, y, z) == Inter(p, y) * Union(p, z) >= Inter(p, z) * Union(p, y)

(* _find_match: the best of those that match, the last one among equals.   *)
\* Mutant: an IoU of exactly one half does not match.
FindMatchStrict(p, list) ==
  LET hits == {i \in Matches(p, list) : 2 * Inter(p, list[i]) > Union(p, list[i])}
  IN IF hits = {} THEN 0
     ELSE CHOOSE i \in hits :
            \A j \in hits : /\ AtLeast(p, list[i], list[j])
                            /\ j > i => ~AtLeast(p, list[j], list[i])
FindMatch(p, list) ==
  LET hits == Matches(p, list)
  IN IF hits = {} THEN 0
     ELSE CHOOSE i \in hits :
            \A j \in hits : /\ AtLeast(p, list[i], list[j])
                            /\ j > i => ~AtLeast(p, list[j], list[i])
(* _confusion: the first that matches. *)
FirstMatch(p, list) ==
  LET hits == Matches(p, list)
  IN IF hits = {} THEN 0 ELSE CHOOSE i \in hits : \A j \in hits : i <= j

Without(list, i) == IF i = 0 THEN list ELSE RemoveAt(list, i)

Lists == UNION {[1 .. n -> Span] : n \in 0 .. MaxSpans}

InitScoring ==
  /\ truth = <<>> /\ pred = <<>> /\ scored = 0 /\ free = <<>> /\ open = <<>>

(* One document: gold spans and predictions as they come.  Those of one    *)
(* side may overlap: an analyzer maps several of its types to one label    *)
(* and reports them all, and datasets hold nested entities.                *)
Take ==
  /\ truth = <<>> /\ pred = <<>>
  /\ truth' \in Lists /\ pred' \in Lists
  /\ free' = truth' /\ open' = truth'
  /\ UNCHANGED scored
Score ==
  /\ scored < Len(pred)
  /\ scored' = scored + 1
  /\ free' = Without(free, FindMatch(pred[scored + 1], free))
  /\ open' = Without(open, FirstMatch(pred[scored + 1], open))
  /\ UNCHANGED <<truth, pred>>

NextScoring == Take \/ Score
=============================================================================
