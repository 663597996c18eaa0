----------------------------- MODULE BenchLoaders -----------------------------
(***************************************************************************)
(* The samples a loader gives for a cap                                    *)
(* (nullpii_eval/public_datasets.py and the registry of bench_full.py).    *)
(*                                                                         *)
(* A published row is its kind: what a loader may stumble on in it, or     *)
(* "good".  A sample is the row it was made from and, where values are     *)
(* planted with the seeded generator, how many rows drew from it before:   *)
(* equal samples have equal texts and equal gold.                          *)
(***************************************************************************)
EXTENDS Integers, Sequences, SequencesExt

CONSTANTS
  LeastFetch,     \* the rows a loader fetches at least; 500 to 5000 there
  ReportExcluded  \* _REPORT_AI4_EXCLUDED, by row

ASSUME LoadersAssumption ==
  LeastFetch \in Nat \ {0} /\ ReportExcluded \subseteq Nat

(* No text; too short; no blank to plant at; no code in it; of another     *)
(* language, task or split; not as the schema has it; a label that is in   *)
(* no list of the loader.                                                  *)
Kinds ==
  {"good", "empty", "short", "flat", "chat", "foreign", "unparsable", "unlisted"}

Every == 0   \* fetch: every row

(* fetch: so many rows for each sample asked for, least at least. *)
Loader(fetch, least, skips, raises) ==
  [fetch |-> fetch, least |-> least, skips |-> skips, raises |-> raises,
   draws |-> {}, whole |-> FALSE]
(* Every row is read, and the samples cut to the cap. *)
Whole(loader) == [loader EXCEPT !.whole = TRUE]
(* _plant_pii: a row with no blank to plant at has drawn its count before  *)
(* it is left out.                                                         *)
Planted(fetch, undrawn) ==
  [Loader(fetch, LeastFetch, undrawn \cup {"flat"}, {}) EXCEPT !.draws = Kinds \ undrawn]

(* ---------- The loaders ---------- *)

\* The label maps that raise on a label they do not list; the others drop it.
Ai4privacyLabels == {"unlisted"}
IsotonicLabels == {"unlisted"}
RizzoLabels == {"unlisted"}
PiimbLabels == {"unlisted"}
IsoLanguage == {"foreign"}

Wikiann == Loader(Every, 0, {"empty"}, {})
Ai4privacy(fetch) ==
  Loader(fetch, 0, {}, Ai4privacyLabels \cup IsoLanguage \cup {"unparsable"})
Ai4privacy400k == Loader(1, 0, {}, Ai4privacyLabels \cup {"unparsable"})
PresidioSynthetic == Loader(Every, 0, {}, {"empty", "unparsable"})
Isotonic ==
  Loader(10, LeastFetch, {"foreign"}, IsotonicLabels \cup {"empty", "unparsable"})
BigcodePii == Loader(1, 0, {"empty"}, {"unparsable"})
DevPrompts == [Loader(Every, 0, {}, {}) EXCEPT !.draws = Kinds]
EnronPlanted == Planted(2, {"empty", "short"})
StackoverflowPlanted == Planted(2, {"empty", "short"})
ThestackPlanted == Planted(3, {"empty", "short"})
LmsysDevPlanted == Planted(50, {"empty", "short", "chat"})
OasstDevPlanted == Planted(Every, {"empty", "short", "chat"})
ArgillaPii == Loader(Every, 0, {"empty"}, IsotonicLabels \cup {"unparsable"})
NemotronPii == Loader(1, 0, {"unparsable"}, {})
RizzoCleanVal == Loader(1, 0, {}, RizzoLabels \cup {"empty", "unparsable"})
PiimbTask ==
  Whole(Loader(Every, 0, {"empty", "foreign"}, PiimbLabels \cup {"unparsable"}))
NullpiiBench == Loader(Every, 0, {}, {"empty", "unparsable"})
TabEchr == Loader(Every, 0, {}, {"empty", "unparsable"})
Charspan == Loader(Every, 0, {"empty"}, {"unparsable"})
FrozenRows == Whole(Loader(Every, 0, {"empty"}, {"unparsable"}))
Ab1Rows == Whole(Loader(Every, 0, {"empty", "foreign"}, {"unparsable"}))

(* ---------- Loading ---------- *)

Fewer(a, b) == IF a < b THEN a ELSE b
More(a, b) == IF a > b THEN a ELSE b

(* One row, unless there are samples enough. *)
Read(loader, n, acc, at, kind) ==
  IF acc.raised \/ (~loader.whole /\ Len(acc.samples) >= n) THEN acc
  ELSE [samples |-> IF kind \in loader.skips \cup loader.raises THEN acc.samples
                    ELSE Append(acc.samples, at \o <<acc.drawn>>),
        drawn |-> IF kind \in loader.draws THEN acc.drawn + 1 ELSE acc.drawn,
        raised |-> kind \in loader.raises]

(* A file of the set, as far as it is fetched: the generator and the       *)
(* samples go on from the file before.                                     *)
ReadFile(loader, n, acc, file, kinds) ==
  LET want == More(loader.fetch * (n - Len(acc.samples)), loader.least)
      fetched == IF loader.fetch = Every THEN Len(kinds) ELSE Fewer(want, Len(kinds))
      upto[i \in 0 .. fetched] ==
        IF i = 0 THEN acc ELSE Read(loader, n, upto[i - 1], <<file, i>>, kinds[i])
  IN upto[fetched]

ReadFiles(loader, files, n) ==
  LET upto[f \in 0 .. Len(files)] ==
        IF f = 0 THEN [samples |-> <<>>, drawn |-> 0, raised |-> FALSE]
        ELSE ReadFile(loader, n, upto[f - 1], f, files[f])
  IN upto[Len(files)]

(* <<>> when it raises or finds nothing: either way the set has no samples. *)
Load(loader, files, n) ==
  LET all == ReadFiles(loader, files, n)
  IN IF all.raised THEN <<>> ELSE SubSeq(all.samples, 1, Fewer(n, Len(all.samples)))

(* n rows of the whole set at equal strides, the excluded slices aside. *)
Ai4privacyReport(files, n) ==
  LET every == Load(Whole(Ai4privacy(Every)), files, Len(files[1]))
      allowed == SelectSeq([i \in DOMAIN every |-> i], LAMBDA i : i \notin ReportExcluded)
  IN IF allowed = <<>> THEN <<>>
     ELSE [k \in 1 .. n |-> every[allowed[(((k - 1) * Len(allowed)) \div n) + 1]]]

(* ---------- The registries ---------- *)

\* DATASET_CONFIGS: what bench_full scores, ai4privacy_300k_report aside.
DatasetConfigs ==
  [nullpii_bench |-> NullpiiBench, tab_echr |-> TabEchr, presidio_synthetic |-> Charspan,
   ai4privacy_400k |-> Ai4privacy400k, ai4privacy_300k |-> Ai4privacy(1),
   isotonic |-> Isotonic, argilla_pii |-> ArgillaPii, nemotron_pii_test |-> NemotronPii,
   rizzo_clean_val |-> RizzoCleanVal, claude_code_traces |-> Charspan,
   piimb |-> PiimbTask, traces_v2 |-> FrozenRows, r3 |-> FrozenRows, ab1 |-> Ab1Rows]

\* load(): the rest of what the package can load by name.
PublicDatasets ==
  [wikiann |-> Wikiann, presidio |-> PresidioSynthetic, bigcode |-> BigcodePii,
   dev_prompts |-> DevPrompts, enron |-> EnronPlanted, stackoverflow |-> StackoverflowPlanted,
   thestack |-> ThestackPlanted, lmsys |-> LmsysDevPlanted, oasst |-> OasstDevPlanted]

Report == "ai4privacy_300k_report"
LoaderOf(key) ==
  IF key \in DOMAIN DatasetConfigs THEN DatasetConfigs[key] ELSE PublicDatasets[key]
LoadSet(key, files, n) ==
  IF key = Report THEN Ai4privacyReport(files, n) ELSE Load(LoaderOf(key), files, n)
=============================================================================
