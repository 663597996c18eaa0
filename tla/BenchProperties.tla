---------------------------- MODULE BenchProperties ----------------------------
(***************************************************************************)
(* What a reader of the bench's results relies on: each behaviour runs the *)
(* bench, or scores one document.                                          *)
(***************************************************************************)
EXTENDS BenchRun, Scoring

VARIABLE machine   \* "bench" or "score": the one that runs

allvars == <<machine, benchvars, scorevars>>

Init ==
  /\ machine \in {"bench", "score"} /\ InitBench /\ InitScoring
  /\ machine = "score" => published = CHOOSE any \in Publications : TRUE

RunBench == machine = "bench" /\ NextBench /\ UNCHANGED <<machine, scorevars>>
RunScore == machine = "score" /\ NextScoring /\ UNCHANGED <<machine, benchvars>>
Next == RunBench \/ RunScore

(* A run goes on until it ends or is killed; nobody need start one. *)
GoesOn ==
  machine = "bench" /\ (\E r \in Runs : Work(r)) /\ UNCHANGED <<machine, published, scorevars>>

Spec == Init /\ [][Next]_allvars /\ WF_allvars(GoesOn)

(* Loaders agree when no cap changes the samples that come first: those of *)
(* two caps are the same as far as both go.                                *)
Agree(samples) ==
  /\ samples \in [Caps -> Seq(Nat)]
  /\ \A m, n \in Caps : \A i \in (DOMAIN samples[m]) \cap (DOMAIN samples[n]) :
       samples[m][i] = samples[n][i]
LoadersAgree == \A samples \in Publications : Agree(samples)

(* Sets of one file, or read as a whole, by any loader but the report's,   *)
(* which alone draws its strides by the cap.                               *)
SteadySets ==
  \A set \in Sets :
    /\ set[1] \in (DOMAIN DatasetConfigs \cup DOMAIN PublicDatasets) \ {Report}
    /\ set[2] \in Seq(Seq(Kinds))
    /\ Len(set[2]) = 1 \/ LoaderOf(set[1]).fetch = Every

\* A cell that reads OK, in memory or in matrix.json, was scored on every
\* sample of a cap, each with the prediction made for it, whatever runs were
\* killed or failed before it under whatever cap: run_combo matches rows to
\* samples by position (bench_full.py:745-819), and so relies on loaders
\* that give the same first samples for every cap.
OkMeansScored ==
  \A m \in {mem[r] : r \in Runs} \cup ({matrix} \ {Torn}) : \A t \in Tools :
    LET cell == m.cells[t] IN
    cell.status = "OK" =>
      \E n \in Caps : cell.n = Len(published[n]) /\ cell.scored = published[n]

\* When a run has recorded an OK cell its checkpoint holds one row for each
\* sample, in order: what load_predictions and dataset_arrays of
\* ab/char_metrics.py read afterwards are the predictions behind that cell.
CheckpointMatchesCell ==
  \A r \in Runs, t \in Tools :
    stand[r] \in {"on", "writing"} /\ worker[r][t].pc = "recorded" /\ loaded[r] # <<>>
      /\ mem[r].cells[t].status = "OK"
    => rows[t] = loaded[r]

\* A run that is not killed ends, however its predictors fail and whatever
\* checkpoints it found.
RunsEnd == lock # None ~> lock = None

\* The pairs of gold spans and predictions that could be matched, and the
\* most of them that use no span twice.
Pairings ==
  {ps \in SUBSET {x \in (DOMAIN pred) \X (DOMAIN truth) : Match(pred[x[1]], truth[x[2]])} :
     \A a, b \in ps : a # b => a[1] # b[1] /\ a[2] # b[2]}

\* Predictions that match several gold spans: greedy gives each one of them,
\* evaluate the last of the best, _confusion the first.
Ties ==
  {i \in DOMAIN pred : \E j, k \in DOMAIN truth :
     j # k /\ Match(pred[i], truth[j]) /\ Match(pred[i], truth[k])}

ApartByLabel(list) ==
  \A i, j \in DOMAIN list : i # j /\ list[i].label = list[j].label =>
    list[i].end <= list[j].start \/ list[j].end <= list[i].start

\* Whatever spans overlap, the true positives behind the F1 and those of
\* confusion.json (metrics.py:47-94, bench_full.py:717-742) are the pairs of a
\* real pairing; a better one has at most twice as many, and at most one more
\* for each prediction that matched several gold spans, so that the two counts
\* differ by no more than that either.  Where spans of one label are apart on
\* both sides, neither greedy choice loses anything.
GreedyLosesOnlyTies ==
  machine = "score" /\ scored = Len(pred) =>
    \A left \in {free, open} :
      LET taken == Len(truth) - Len(left)
      IN /\ \E ps \in Pairings : Cardinality(ps) = taken
         /\ \A ps \in Pairings :
              /\ Cardinality(ps) <= 2 * taken
              /\ Cardinality(ps) <= taken + Cardinality(Ties)
              /\ ApartByLabel(truth) /\ ApartByLabel(pred) => Cardinality(ps) <= taken
=============================================================================
