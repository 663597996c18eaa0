------------------------------- MODULE BenchRun -------------------------------
(***************************************************************************)
(* The comparison bench (packages/eval/scripts/bench_full.py) on one       *)
(* dataset: runs that resume one another's checkpoints, one worker for     *)
(* each tool, and what is on disk when a run is killed.                    *)
(*                                                                         *)
(* A prediction is the sample it was made for.  A run may be               *)
(* killed between any two steps; what a buffered file then holds is any    *)
(* part of what was written to it, and a file being rewritten is torn.     *)
(***************************************************************************)
EXTENDS BenchLoaders, FiniteSetsExt

CONSTANTS
  Sets,        \* the sets, each with the key of its loader and its files
  Runs,        \* processes that run the bench
  Tools,
  BatchOf,     \* the samples a tool is given at once: 32 or 1 there
  FlushEvery,  \* 100 there
  Caps,        \* the numbers of samples a run may be asked for
  None, Torn,  \* no run; a file cut in the middle
  MaxStarts,   \* bound: runs started
  MaxKills     \* bound: runs killed

ASSUME BenchAssumption ==
  /\ BatchOf \in [Tools -> Nat \ {0}]
  /\ FlushEvery \in Nat \ {0}
  /\ Caps \subseteq Nat \ {0}
  /\ None \notin Runs

VARIABLES
  published, \* the samples the dataset gives for each cap
  lock,     \* the run that holds .lock
  rows,     \* {tool}-{dataset}.jsonl, by tool
  state,    \* {tool}-{dataset}.state as it reads, -1 when absent or torn
  matrix,   \* matrix.json
  stand,    \* where each run stands
  mem,      \* its matrix in memory
  loaded,   \* the samples it loaded
  worker,   \* its workers, by tool
  starts, kills

benchvars == <<published, lock, rows, state, matrix, stand, mem, loaded, worker, starts, kills>>

TornRow == -1     \* a last line cut in the middle
NoCell == [status |-> "none", n |-> 0, scored |-> <<>>]
Empty == [cells |-> [t \in Tools |-> NoCell], loadError |-> FALSE]

(* ---------- Checkpoints ---------- *)

(* _resume_rows: the rows .state vouches for; the others are cut from the  *)
(* file.                                                                   *)
Vouched(file, mark) == SubSeq(file, 1, Fewer(mark + 1, Len(file)))
\* Mutant: the rows are not cut from the file.
CutUncut(file, mark) == file
Cut(file, mark) == Vouched(file, mark)

(* The samples of the next batch, and whether its end is a place to flush. *)
BatchEnd(t, next, n) == Fewer(next + BatchOf[t], n)
FlushDue(next, end, n) == end \div FlushEvery > next \div FlushEvery \/ end = n

(* Prefixes of a list. *)
PrefixesOf(s) == {SubSeq(s, 1, k) : k \in 0 .. Len(s)}

(* ---------- Workers (run_combo) ---------- *)

Worker(pc, preds, next, buffer, mark, then) ==
  [pc |-> pc, preds |-> preds, next |-> next, buffer |-> buffer, mark |-> mark,
   then |-> then]
Fresh == Worker("todo", <<>>, 0, <<>>, -1, "predict")
Off == [t \in Tools |-> Fresh]

(* The samples by number, the first of their places under any cap: which   *)
(* are the same is all a run can tell.                                     *)
Place(n, i) == n * n + i
PlacesOf(s, of) ==
  UNION {{Place(n, i) : i \in {j \in DOMAIN of[n] : of[n][j] = s}} : n \in Caps}
Numbered(of) == [n \in Caps |-> [i \in DOMAIN of[n] |-> Min(PlacesOf(of[n][i], of))]]
Publications ==
  {Numbered([n \in Caps |-> LoadSet(set[1], set[2], n)]) : set \in Sets}

InitBench ==
  /\ published \in Publications
  /\ lock = None
  /\ rows = [t \in Tools |-> <<>>] /\ state = [t \in Tools |-> -1]
  /\ matrix = Empty
  /\ stand = [r \in Runs |-> "off"] /\ mem = [r \in Runs |-> Empty]
  /\ loaded = [r \in Runs |-> <<>>] /\ worker = [r \in Runs |-> Off]
  /\ starts = 0 /\ kills = 0

(* The rows that are kept, and the predictions read back from them. *)
Resume(r, t) ==
  /\ stand[r] \in {"on", "writing"} /\ worker[r][t].pc = "todo"
  /\ rows' = [rows EXCEPT ![t] = Cut(@, state[t])]
  /\ worker' = [worker EXCEPT ![r][t] =
                  LET kept == Vouched(rows[t], state[t])
                  IN Worker("predict", kept, Len(kept), <<>>, -1, "predict")]
  /\ UNCHANGED <<lock, state, matrix, stand, mem, loaded, starts, kills>>

(* A batch is predicted and its rows are written to the buffered file. *)
Predict(r, t) ==
  LET w == worker[r][t]
      end == BatchEnd(t, w.next, Len(loaded[r]))
      new == SubSeq(loaded[r], w.next + 1, end)
      after == IF FlushDue(w.next, end, Len(loaded[r])) THEN "flush" ELSE "predict"
  IN /\ w.pc = "predict" /\ w.next < Len(loaded[r])
     /\ worker' = [worker EXCEPT ![r][t] =
          Worker(after, w.preds \o new, end, w.buffer \o new, end - 1, "predict")]
     /\ UNCHANGED <<lock, rows, state, matrix, stand, mem, loaded, starts, kills>>

(* The predictor raises: the rows before the batch are flushed and marked. *)
PredictRaises(r, t) ==
  LET w == worker[r][t] IN
  /\ w.pc = "predict" /\ w.next < Len(loaded[r])
  /\ worker' = [worker EXCEPT ![r][t] =
       Worker("flush", w.preds, w.next, w.buffer, w.next - 1, "failed")]
  /\ UNCHANGED <<lock, rows, state, matrix, stand, mem, loaded, starts, kills>>

(* A row of the batch cannot be written (_checkpoint_spans raises): the    *)
(* file is closed with what came before it, and nothing is marked.         *)
RowRaises(r, t) ==
  LET w == worker[r][t]
      end == BatchEnd(t, w.next, Len(loaded[r]))
  IN /\ w.pc = "predict" /\ w.next < Len(loaded[r])
     /\ \E new \in PrefixesOf(SubSeq(loaded[r], w.next + 1, end - 1)) :
          rows' = [rows EXCEPT ![t] = @ \o w.buffer \o new]
     /\ worker' = [worker EXCEPT ![r][t] = Worker("failed", <<>>, 0, <<>>, -1, "failed")]
     /\ UNCHANGED <<lock, state, matrix, stand, mem, loaded, starts, kills>>

Flush(r, t) ==
  LET w == worker[r][t] IN
  /\ w.pc = "flush"
  /\ rows' = [rows EXCEPT ![t] = @ \o w.buffer]
  /\ worker' = [worker EXCEPT ![r][t].pc = "mark", ![r][t].buffer = <<>>]
  /\ UNCHANGED <<lock, state, matrix, stand, mem, loaded, starts, kills>>

(* .state is written; the last time, the predictions are scored against    *)
(* the samples: evaluate raises unless there is one for each.              *)
Scored(preds, n) == IF Len(preds) = n THEN "scored" ELSE "failed"

Mark(r, t) ==
  LET w == worker[r][t] IN
  /\ w.pc = "mark"
  /\ state' = [state EXCEPT ![t] = w.mark]
  /\ worker' = [worker EXCEPT ![r][t].pc =
                  IF w.then = "score" THEN Scored(w.preds, Len(loaded[r])) ELSE w.then]
  /\ UNCHANGED <<lock, rows, matrix, stand, mem, loaded, starts, kills>>

(* Every batch is done; nothing is buffered any more.  The rows kept may    *)
(* be more than the samples loaded.                                        *)
\* Mutant: a file with more rows than samples is never done.
AllDoneExactly(next, n) == next = n
AllDone(next, n) == next >= n
Complete(r, t) ==
  LET w == worker[r][t] IN
  /\ w.pc = "predict" /\ AllDone(w.next, Len(loaded[r]))
  /\ worker' = [worker EXCEPT ![r][t].pc = "mark", ![r][t].mark = Len(loaded[r]) - 1,
                              ![r][t].then = "score"]
  /\ UNCHANGED <<lock, rows, state, matrix, stand, mem, loaded, starts, kills>>

(* ---------- A run (main) ---------- *)

(* The lock, then matrix.json: a torn one stops the run at once. *)
\* Mutant: the lock is not asked for.
MayStartAnyway(r) == TRUE
MayStart(r) == lock = None

Start(r) ==
  /\ stand[r] = "off" /\ starts < MaxStarts
  /\ MayStart(r)
  /\ starts' = starts + 1
  /\ IF matrix = Torn
     THEN UNCHANGED <<lock, stand, mem>>
     ELSE /\ lock' = r
          /\ stand' = [stand EXCEPT ![r] = "loading"]
          /\ mem' = [mem EXCEPT ![r] = matrix]
  /\ UNCHANGED <<rows, state, matrix, loaded, worker, kills>>

(* The samples for the cap asked for; without any, or when the loader      *)
(* raises, the dataset has its error recorded and no cell of this run.     *)
LoadDataset(r) ==
  /\ stand[r] = "loading"
  /\ \E n \in {n \in Caps : published[n] # <<>>} :
       /\ loaded' = [loaded EXCEPT ![r] = published[n]]
       /\ worker' = [worker EXCEPT ![r] = Off]
       /\ mem' = [mem EXCEPT ![r].loadError = FALSE]
       /\ stand' = [stand EXCEPT ![r] = "on"]
  /\ UNCHANGED <<lock, rows, state, matrix, starts, kills>>
LoadFails(r) ==
  /\ stand[r] = "loading"
  /\ loaded' = [loaded EXCEPT ![r] = <<>>]
  /\ worker' = [worker EXCEPT ![r] = [t \in Tools |-> [Fresh EXCEPT !.pc = "recorded"]]]
  /\ mem' = [mem EXCEPT ![r].loadError = TRUE]
  /\ stand' = [stand EXCEPT ![r] = "writing"]
  /\ matrix' = Torn
  /\ UNCHANGED <<lock, rows, state, starts, kills>>

(* _record, in the main thread: the cell, then matrix.json rewritten from  *)
(* its beginning.                                                          *)
Cell(w, n) ==
  IF w.pc = "scored" THEN [status |-> "OK", n |-> n, scored |-> w.preds]
  ELSE [status |-> "CRASHED", n |-> 0, scored |-> <<>>]

Record(r, t) ==
  /\ stand[r] = "on"
  /\ worker[r][t].pc \in {"scored", "failed"}
  /\ mem' = [mem EXCEPT ![r].cells[t] = Cell(worker[r][t], Len(loaded[r]))]
  /\ worker' = [worker EXCEPT ![r][t] = [Fresh EXCEPT !.pc = "recorded"]]
  /\ stand' = [stand EXCEPT ![r] = "writing"]
  /\ matrix' = Torn
  /\ UNCHANGED <<lock, rows, state, loaded, starts, kills>>
WriteMatrix(r) ==
  /\ stand[r] = "writing"
  /\ matrix' = mem[r]
  /\ stand' = [stand EXCEPT ![r] = "on"]
  /\ UNCHANGED <<lock, rows, state, mem, loaded, worker, starts, kills>>

(* The summary: a run with a failed cell, of this run or left by an        *)
(* earlier one on its tools, ends with an error.                           *)
Failures(m) == m.loadError \/ \E t \in Tools : m.cells[t].status = "CRASHED"

Exit(r) ==
  /\ stand[r] = "on"
  /\ \A t \in Tools : worker[r][t].pc = "recorded"
  /\ stand' = [stand EXCEPT ![r] = IF Failures(mem[r]) THEN "failed" ELSE "succeeded"]
  /\ lock' = IF lock = r THEN None ELSE lock
  /\ UNCHANGED <<rows, state, matrix, mem, loaded, worker, starts, kills>>

Forget(r) ==
  /\ stand[r] \in {"failed", "succeeded"}
  /\ stand' = [stand EXCEPT ![r] = "off"]
  /\ mem' = [mem EXCEPT ![r] = Empty]
  /\ loaded' = [loaded EXCEPT ![r] = <<>>]
  /\ worker' = [worker EXCEPT ![r] = Off]
  /\ UNCHANGED <<lock, rows, state, matrix, starts, kills>>

(* The process is killed.  Of each buffer some lines are on disk, the last *)
(* one perhaps cut; a .state being written may be empty.                   *)
Landed(buffer) ==
  PrefixesOf(buffer) \cup
  {Append(part, TornRow) : part \in PrefixesOf(buffer) \ {buffer}}

Kill(r) ==
  /\ stand[r] \in {"loading", "on", "writing"} /\ kills < MaxKills
  /\ kills' = kills + 1
  /\ \E landed \in [Tools -> UNION {Landed(worker[r][t].buffer) : t \in Tools}] :
       /\ \A t \in Tools : landed[t] \in Landed(worker[r][t].buffer)
       /\ rows' = [t \in Tools |-> rows[t] \o landed[t]]
  /\ \E marked \in SUBSET {t \in Tools : worker[r][t].pc = "mark"} :
       state' = [t \in Tools |-> IF t \in marked THEN -1 ELSE state[t]]
  /\ stand' = [stand EXCEPT ![r] = "off"]
  /\ mem' = [mem EXCEPT ![r] = Empty]
  /\ loaded' = [loaded EXCEPT ![r] = <<>>]
  /\ worker' = [worker EXCEPT ![r] = Off]
  /\ lock' = IF lock = r THEN None ELSE lock
  /\ UNCHANGED <<matrix, starts>>

Work(r) ==
  \/ \E t \in Tools :
       \/ Resume(r, t) \/ Predict(r, t) \/ PredictRaises(r, t) \/ RowRaises(r, t)
       \/ Flush(r, t) \/ Mark(r, t) \/ Complete(r, t) \/ Record(r, t)
  \/ LoadDataset(r) \/ LoadFails(r) \/ WriteMatrix(r) \/ Exit(r)

NextBench ==
  /\ \E r \in Runs : Work(r) \/ Start(r) \/ Forget(r) \/ Kill(r)
  /\ UNCHANGED published
=============================================================================
