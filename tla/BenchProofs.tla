------------------------------ MODULE BenchProofs ------------------------------
(***************************************************************************)
(* The results of the bench: whatever runs were killed or failed before,   *)
(* and under whatever caps, a cell that reads OK was scored on the samples *)
(* of a cap and its checkpoint holds their rows.  All of it rests on       *)
(* loaders that agree; those of the registries do, on sets of one file or  *)
(* fetched as a whole.                                                     *)
(***************************************************************************)
EXTENDS BenchProperties, SequenceTheorems, FiniteSetTheorems, Recursion, TLAPS

(* ---------- What holds of the lists ---------- *)

\* x is the sample at i, of whatever cap.
Sound(p, i, x) == \E m \in Caps : i <= Len(p[m]) /\ x = p[m][i]
Right(p, s) == \A i \in 1 .. Len(s) : Sound(p, i, s[i])

\* .state vouches for no row that is not there, nor for a wrong one.
FileFine(p, file, mark) ==
  /\ mark >= -1 /\ mark + 1 <= Len(file)
  /\ \A i \in 1 .. mark + 1 : Sound(p, i, file[i])

Busy == {"predict", "flush", "mark"}

\* What a worker knows of its file and of the samples its run was given.
WorkerFine(p, w, file, given) ==
  /\ w.pc # "recorded" => \E n \in Caps : given = p[n]
  /\ w.pc \in Busy =>
       /\ file \o w.buffer = w.preds /\ w.next = Len(w.preds) /\ Right(p, w.preds)
       /\ w.pc # "predict" => w.mark >= -1 /\ w.mark + 1 <= Len(w.preds)
       /\ w.pc = "mark" => w.buffer = <<>>
       /\ w.pc = "predict" /\ w.next >= Len(given) => w.buffer = <<>>
  /\ w.pc = "scored" => w.preds = given /\ file = given

CellFine(p, cell) ==
  cell.status = "OK" => \E n \in Caps : cell.n = Len(p[n]) /\ cell.scored = p[n]

LEMMA SequenceIs ==
  ASSUME NEW S, NEW s \in Seq(S)
  PROVE  Len(s) \in Nat /\ DOMAIN s = 1 .. Len(s) /\ \A i \in 1 .. Len(s) : s[i] \in S
OBVIOUS

LEMMA Regroup ==
  ASSUME NEW a \in Seq(Int), NEW b \in Seq(Nat), NEW c \in Seq(Nat)
  PROVE  (a \o b) \o c = a \o (b \o c)
<1>1. b \in Seq(Int) /\ c \in Seq(Int)
  BY SequenceIs
<1> QED
  BY <1>1, ConcatAssociative

LEMMA SoundIsOne ==
  ASSUME NEW p, Agree(p), NEW i \in Nat \ {0}, NEW x, NEW y, Sound(p, i, x), Sound(p, i, y)
  PROVE  x = y /\ x \in Nat
<1>1. PICK m \in Caps : i <= Len(p[m]) /\ x = p[m][i]
  BY DEF Sound
<1>2. PICK n \in Caps : i <= Len(p[n]) /\ y = p[n][i]
  BY DEF Sound
<1>3. p[m] \in Seq(Nat) /\ p[n] \in Seq(Nat)
  BY DEF Agree
<1>4. i \in DOMAIN p[m] /\ i \in DOMAIN p[n] /\ p[m][i] \in Nat
  BY <1>1, <1>2, <1>3, SequenceIs
<1> QED
  BY <1>1, <1>2, <1>4 DEF Agree

(* Two lists of right samples of one length are the same. *)
LEMMA RightIsOne ==
  ASSUME NEW p, Agree(p), NEW s \in Seq(Nat), NEW u \in Seq(Nat),
         Right(p, s), Right(p, u), Len(s) = Len(u)
  PROVE  s = u
<1>1. \A i \in 1 .. Len(s) : s[i] = u[i]
  <2> TAKE i \in 1 .. Len(s)
  <2>1. i \in Nat \ {0}
    BY SequenceIs
  <2> QED
    BY <2>1, SoundIsOne DEF Right
<1> QED
  BY <1>1, SeqEqual

LEMMA PublishedIsRight ==
  ASSUME NEW p, Agree(p), NEW n \in Caps
  PROVE  p[n] \in Seq(Nat) /\ Right(p, p[n])
<1>1. p[n] \in Seq(Nat)
  BY DEF Agree
<1> QED
  BY <1>1, SequenceIs DEF Right, Sound

(* What .state vouches for is right, and vouched for still when the rest   *)
(* is cut or more is written.                                              *)
LEMMA VouchedIsRight ==
  ASSUME NEW p, Agree(p), NEW file \in Seq(Int), NEW mark \in Int, FileFine(p, file, mark)
  PROVE  /\ Vouched(file, mark) \in Seq(Nat) /\ Len(Vouched(file, mark)) = mark + 1
         /\ Right(p, Vouched(file, mark))
         /\ FileFine(p, Vouched(file, mark), mark)
<1>1. Len(file) \in Nat /\ mark >= -1 /\ mark + 1 <= Len(file)
  BY SequenceIs DEF FileFine
<1>2. Fewer(mark + 1, Len(file)) = mark + 1
  BY <1>1 DEF Fewer
<1>3. Vouched(file, mark) = SubSeq(file, 1, mark + 1)
  BY <1>2 DEF Vouched
<1>4. \A i \in 1 .. mark + 1 : Sound(p, i, file[i]) /\ file[i] \in Nat
  <2> TAKE i \in 1 .. mark + 1
  <2>1. i \in Nat \ {0} /\ Sound(p, i, file[i])
    BY <1>1 DEF FileFine
  <2> QED
    BY <2>1, SoundIsOne
<1> DEFINE kept == SubSeq(file, 1, mark + 1)
<1>5. /\ kept \in Seq(Nat)
      /\ Len(kept) = IF 1 <= mark + 1 THEN mark + 1 - 1 + 1 ELSE 0
      /\ \A i \in 1 .. mark + 1 - 1 + 1 : kept[i] = file[1 + i - 1]
  <2>1. 1 \in Int /\ mark + 1 \in Int /\ \A i \in 1 .. mark + 1 : file[i] \in Nat
    BY <1>1, <1>4
  <2> QED
    BY <2>1, SubSeqProperties
<1> HIDE DEF kept
<1>6. Len(kept) = mark + 1 /\ \A i \in 1 .. mark + 1 : kept[i] = file[i]
  <2>1. Len(kept) = mark + 1
    BY <1>1, <1>5
  <2>2. ASSUME NEW i \in 1 .. mark + 1 PROVE kept[i] = file[i]
    <3>1. i \in 1 .. mark + 1 - 1 + 1 /\ 1 + i - 1 = i
      BY <1>1
    <3> QED
      BY <1>5, <3>1
  <2> QED
    BY <2>1, <2>2
<1>7. Right(p, kept) /\ FileFine(p, kept, mark)
  BY <1>1, <1>4, <1>6 DEF Right, FileFine
<1> QED
  BY <1>3, <1>5, <1>6, <1>7 DEF kept

LEMMA FileGrows ==
  ASSUME NEW p, NEW file \in Seq(Int), NEW more \in Seq(Int), NEW mark \in Int,
         FileFine(p, file, mark)
  PROVE  file \o more \in Seq(Int) /\ FileFine(p, file \o more, mark)
<1> DEFINE all == file \o more
<1>1. Len(file) \in Nat /\ Len(more) \in Nat
  BY SequenceIs
<1>2. /\ all \in Seq(Int) /\ Len(all) = Len(file) + Len(more)
      /\ \A i \in 1 .. Len(file) + Len(more) :
           all[i] = IF i <= Len(file) THEN file[i] ELSE more[i - Len(file)]
  BY ConcatProperties
<1> HIDE DEF all
<1>3. \A i \in 1 .. mark + 1 : all[i] = file[i]
  BY <1>1, <1>2 DEF FileFine
<1>4. FileFine(p, all, mark)
  BY <1>1, <1>2, <1>3 DEF FileFine
<1> QED
  BY <1>2, <1>4 DEF all

LEMMA RightIsFine ==
  ASSUME NEW p, NEW file \in Seq(Nat), NEW mark \in Int, Right(p, file),
         mark >= -1, mark + 1 <= Len(file)
  PROVE  FileFine(p, file, mark)
BY SequenceIs DEF Right, FileFine

(* The samples behind the predictions go on rightly. *)
LEMMA NextAreRight ==
  ASSUME NEW p, Agree(p), NEW n \in Caps, NEW preds \in Seq(Nat), Right(p, preds),
         NEW end \in Nat, Len(preds) <= end, end <= Len(p[n])
  PROVE  LET new == SubSeq(p[n], Len(preds) + 1, end)
         IN  /\ new \in Seq(Nat) /\ preds \o new \in Seq(Nat)
             /\ Len(preds \o new) = end /\ Right(p, preds \o new)
<1> DEFINE given == p[n]
           k == Len(preds)
           new == SubSeq(given, k + 1, end)
           all == preds \o new
<1>1. given \in Seq(Nat) /\ Right(p, given)
  BY PublishedIsRight
<1>2. k \in Nat /\ Len(given) \in Nat /\ k <= end /\ end <= Len(given)
      /\ \A i \in 1 .. Len(given) : given[i] \in Nat
  BY <1>1, SequenceIs
<1>3. Right(p, preds)
  OBVIOUS
<1> HIDE DEF given, k
<1>4. /\ new \in Seq(Nat)
      /\ Len(new) = IF k + 1 <= end THEN end - (k + 1) + 1 ELSE 0
      /\ \A i \in 1 .. end - (k + 1) + 1 : new[i] = given[k + 1 + i - 1]
  <2>1. k + 1 \in Int /\ end \in Int /\ \A i \in k + 1 .. end : given[i] \in Nat
    BY <1>2
  <2> QED
    BY <2>1, SubSeqProperties
<1> HIDE DEF new
<1>5. Len(new) = end - k
  BY <1>2, <1>4
<1>6. /\ all \in Seq(Nat) /\ Len(all) = Len(preds) + Len(new)
      /\ \A i \in 1 .. Len(preds) + Len(new) :
           all[i] = IF i <= Len(preds) THEN preds[i] ELSE new[i - Len(preds)]
  BY <1>4, ConcatProperties
<1> HIDE DEF all
<1>7. Len(all) = end
  BY <1>2, <1>5, <1>6 DEF k
<1>8. ASSUME NEW i \in 1 .. end PROVE Sound(p, i, all[i])
  <2>1. CASE i <= k
    <3>1. all[i] = preds[i] /\ i \in 1 .. Len(preds)
      BY <1>2, <1>5, <1>6, <2>1 DEF k
    <3> QED
      BY <1>3, <3>1 DEF Right
  <2>2. CASE i > k
    <3>1. all[i] = new[i - k]
      BY <1>2, <1>5, <1>6, <2>2 DEF k
    <3>2. i - k \in 1 .. end - (k + 1) + 1 /\ k + 1 + (i - k) - 1 = i
      BY <1>2, <2>2
    <3>3. new[i - k] = given[k + 1 + (i - k) - 1]
      BY <1>4, <3>2
    <3>4. new[i - k] = given[i] /\ i \in 1 .. Len(given)
      BY <1>2, <3>2, <3>3
    <3> QED
      BY <1>1, <3>1, <3>4 DEF Right
  <2> QED
    BY <1>2, <2>1, <2>2
<1>9. Right(p, all)
  BY <1>7, <1>8 DEF Right
<1> QED
  BY <1>4, <1>6, <1>7, <1>9 DEF all, new, k, given

(* ---------- The invariant ---------- *)

Active == {"loading", "on", "writing"}
Loaded == {"on", "writing"}

WorkerType ==
  [pc : Busy \cup {"todo", "scored", "failed", "recorded"}, preds : Seq(Nat), next : Nat,
   buffer : Seq(Nat), mark : Int, then : {"predict", "failed", "score"}]
CellType == [status : {"none", "OK", "CRASHED"}, n : Nat, scored : Seq(Nat)]
MatrixType == [cells : [Tools -> CellType], loadError : BOOLEAN]

TypesBench ==
  /\ rows \in [Tools -> Seq(Int)] /\ state \in [Tools -> Int]
  /\ stand \in [Runs -> Active \cup {"off", "failed", "succeeded"}]
  /\ mem \in [Runs -> MatrixType] /\ loaded \in [Runs -> Seq(Nat)]
  /\ worker \in [Runs -> [Tools -> WorkerType]]
  /\ matrix # Torn => matrix \in MatrixType

\* A run that is active holds the lock, and no worker is busy outside one.
Owned ==
  /\ \A r \in Runs : stand[r] \in Active => lock = r
  /\ \A r \in Runs, t \in Tools :
       worker[r][t].pc \in Busy \cup {"scored"} => stand[r] \in Loaded

Files == \A t \in Tools : FileFine(published, rows[t], state[t])

Workers ==
  \A r \in Runs, t \in Tools : stand[r] \in Loaded =>
    /\ WorkerFine(published, worker[r][t], rows[t], loaded[r])
    /\ worker[r][t].pc = "recorded" /\ loaded[r] # <<>> /\ mem[r].cells[t].status = "OK"
       => rows[t] = loaded[r]

Cells ==
  /\ \A r \in Runs, t \in Tools : CellFine(published, mem[r].cells[t])
  /\ matrix # Torn => \A t \in Tools : CellFine(published, matrix.cells[t])

InvBench == Agree(published) /\ TypesBench /\ Owned /\ Files /\ Workers /\ Cells

LEMMA FreshIs ==
  /\ Fresh \in WorkerType /\ Fresh.pc = "todo" /\ Off \in [Tools -> WorkerType]
  /\ \A t \in Tools : Off[t] = Fresh
  /\ \A w \in WorkerType, pc \in {"recorded"} :
       [w EXCEPT !.pc = pc] \in WorkerType /\ [w EXCEPT !.pc = pc].pc = pc
<1>1. <<>> \in Seq(Nat)
  BY EmptySeq
<1>2. Fresh \in WorkerType /\ Fresh.pc = "todo"
  BY <1>1 DEF Fresh, Worker, WorkerType
<1>3. ASSUME NEW w \in WorkerType, NEW pc \in {"recorded"}
      PROVE  [w EXCEPT !.pc = pc] \in WorkerType /\ [w EXCEPT !.pc = pc].pc = pc
  BY DEF WorkerType
<1> QED
  BY <1>2, <1>3 DEF Off

LEMMA EmptyIs ==
  Empty \in MatrixType /\ \A t \in Tools : Empty.cells[t].status = "none"
<1>1. <<>> \in Seq(Nat)
  BY EmptySeq
<1>2. NoCell \in CellType /\ NoCell.status = "none"
  BY <1>1 DEF NoCell, CellType
<1> QED
  BY <1>2 DEF Empty, MatrixType

LEMMA BenchBegins ==
  ASSUME LoadersAgree, InitBench
  PROVE  InvBench
<1>1. /\ published \in Publications
      /\ rows = [t \in Tools |-> <<>>] /\ state = [t \in Tools |-> -1]
      /\ matrix = Empty
      /\ stand = [r \in Runs |-> "off"] /\ mem = [r \in Runs |-> Empty]
      /\ loaded = [r \in Runs |-> <<>>] /\ worker = [r \in Runs |-> Off]
  BY DEF InitBench
<1>2. Agree(published)
  BY <1>1 DEF LoadersAgree
<1>3. <<>> \in Seq(Int) /\ <<>> \in Seq(Nat) /\ Len(<<>>) = 0
  BY EmptySeq
<1>4. TypesBench
  <2>1. rows \in [Tools -> Seq(Int)] /\ state \in [Tools -> Int]
    BY <1>1, <1>3
  <2>2. loaded \in [Runs -> Seq(Nat)]
    BY <1>1, <1>3
  <2>3. mem \in [Runs -> MatrixType] /\ matrix \in MatrixType
    BY <1>1, EmptyIs
  <2>4. worker \in [Runs -> [Tools -> WorkerType]]
    BY <1>1, FreshIs
  <2>5. stand \in [Runs -> Active \cup {"off", "failed", "succeeded"}]
    BY <1>1
  <2> QED
    BY <2>1, <2>2, <2>3, <2>4, <2>5 DEF TypesBench
<1>5. \A r \in Runs : stand[r] \notin Active /\ stand[r] \notin Loaded
  BY <1>1 DEF Active, Loaded
<1>6. \A r \in Runs, t \in Tools : worker[r][t].pc \notin Busy \cup {"scored"}
  BY <1>1, FreshIs DEF Busy
<1>7. Files
  BY <1>1, <1>3 DEF Files, FileFine
<1>8. Cells
  BY <1>1, EmptyIs DEF Cells, CellFine
<1> QED
  BY <1>2, <1>4, <1>5, <1>6, <1>7, <1>8 DEF InvBench, Owned, Workers

(* ---------- A step of one worker ---------- *)

LEMMA SetWorker ==
  ASSUME NEW S, NEW f \in [Runs -> [Tools -> S]], NEW r \in Runs, NEW t \in Tools, NEW w \in S
  PROVE  LET g == [f EXCEPT ![r][t] = w]
         IN  /\ g \in [Runs -> [Tools -> S]] /\ g[r][t] = w
             /\ \A q \in Runs, u \in Tools : q # r \/ u # t => g[q][u] = f[q][u]
OBVIOUS

\* The worker of r for t goes on; the other tools and runs rest.
Steps(r, t, w, file, mark) ==
  /\ rows' = [rows EXCEPT ![t] = file] /\ state' = [state EXCEPT ![t] = mark]
  /\ worker' = [worker EXCEPT ![r][t] = w]
  /\ UNCHANGED <<published, lock, matrix, stand, mem, loaded>>

LEMMA WorkerSteps ==
  ASSUME InvBench, NEW r \in Runs, NEW t \in Tools, stand[r] \in Loaded,
         NEW w \in WorkerType, NEW file \in Seq(Int), NEW mark \in Int,
         Steps(r, t, w, file, mark),
         FileFine(published, file, mark), WorkerFine(published, w, file, loaded[r]),
         w.pc # "recorded"
  PROVE  InvBench'
<1>1. /\ Agree(published) /\ TypesBench /\ Owned /\ Files /\ Workers /\ Cells
  BY DEF InvBench
<1>2. /\ rows' = [rows EXCEPT ![t] = file] /\ state' = [state EXCEPT ![t] = mark]
      /\ worker' = [worker EXCEPT ![r][t] = w]
      /\ published' = published /\ lock' = lock /\ matrix' = matrix /\ stand' = stand
      /\ mem' = mem /\ loaded' = loaded
  BY DEF Steps
<1>3. /\ worker' \in [Runs -> [Tools -> WorkerType]] /\ worker'[r][t] = w
      /\ \A q \in Runs, u \in Tools : q # r \/ u # t => worker'[q][u] = worker[q][u]
  BY <1>1, <1>2, SetWorker DEF TypesBench
<1>4. /\ rows' \in [Tools -> Seq(Int)] /\ rows'[t] = file
      /\ state' \in [Tools -> Int] /\ state'[t] = mark
      /\ \A u \in Tools : u # t => rows'[u] = rows[u] /\ state'[u] = state[u]
  BY <1>1, <1>2 DEF TypesBench
<1>5. \A q \in Runs : stand[q] \in Loaded => q = r
  BY <1>1 DEF Owned, Active, Loaded
<1>6. TypesBench'
  BY <1>1, <1>2, <1>3, <1>4 DEF TypesBench
<1>7. Owned'
  BY <1>1, <1>2, <1>3 DEF Owned
<1>8. Files'
  BY <1>1, <1>2, <1>4 DEF Files
<1>9. Workers'
  <2> SUFFICES ASSUME NEW u \in Tools
               PROVE  /\ WorkerFine(published, worker'[r][u], rows'[u], loaded[r])
                      /\ worker'[r][u].pc = "recorded" /\ loaded[r] # <<>>
                         /\ mem[r].cells[u].status = "OK" => rows'[u] = loaded[r]
    BY <1>2, <1>5 DEF Workers
  <2>1. CASE u = t
    BY <1>3, <1>4, <2>1
  <2>2. CASE u # t
    BY <1>1, <1>3, <1>4, <2>2 DEF Workers
  <2> QED
    BY <2>1, <2>2
<1>10. Cells'
  BY <1>1, <1>2 DEF Cells
<1> QED
  BY <1>1, <1>2, <1>6, <1>7, <1>8, <1>9, <1>10 DEF InvBench

LEMMA WorkerKnown ==
  ASSUME InvBench, NEW r \in Runs, NEW t \in Tools
  PROVE  LET w == worker[r][t]
         IN  /\ w \in WorkerType
             /\ w.preds \in Seq(Nat) /\ w.next \in Nat /\ w.buffer \in Seq(Nat) /\ w.mark \in Int
             /\ rows[t] \in Seq(Int) /\ state[t] \in Int /\ loaded[r] \in Seq(Nat)
             /\ Agree(published) /\ FileFine(published, rows[t], state[t])
             /\ w.pc \in Busy \cup {"scored"} => stand[r] \in Loaded
             /\ stand[r] \in Loaded => WorkerFine(published, w, rows[t], loaded[r])
             /\ rows = [rows EXCEPT ![t] = rows[t]] /\ state = [state EXCEPT ![t] = state[t]]
<1>1. /\ TypesBench /\ Owned /\ Files /\ Workers /\ Agree(published)
  BY DEF InvBench
<1>2. worker[r][t] \in WorkerType
  BY <1>1 DEF TypesBench
<1>3. /\ rows[t] \in Seq(Int) /\ state[t] \in Int /\ loaded[r] \in Seq(Nat)
      /\ rows = [rows EXCEPT ![t] = rows[t]] /\ state = [state EXCEPT ![t] = state[t]]
  BY <1>1 DEF TypesBench
<1>4. /\ worker[r][t].preds \in Seq(Nat) /\ worker[r][t].next \in Nat
      /\ worker[r][t].buffer \in Seq(Nat) /\ worker[r][t].mark \in Int
  BY <1>2 DEF WorkerType
<1>5. /\ FileFine(published, rows[t], state[t])
      /\ worker[r][t].pc \in Busy \cup {"scored"} => stand[r] \in Loaded
      /\ stand[r] \in Loaded => WorkerFine(published, worker[r][t], rows[t], loaded[r])
  BY <1>1 DEF Owned, Files, Workers
<1> QED
  BY <1>1, <1>2, <1>3, <1>4, <1>5

LEMMA WorkerIs ==
  ASSUME NEW pc \in Busy \cup {"todo", "scored", "failed", "recorded"}, NEW preds \in Seq(Nat),
         NEW next \in Nat, NEW buffer \in Seq(Nat), NEW mark \in Int,
         NEW then \in {"predict", "failed", "score"}
  PROVE  LET w == Worker(pc, preds, next, buffer, mark, then)
         IN  /\ w \in WorkerType /\ w.pc = pc /\ w.preds = preds /\ w.next = next
             /\ w.buffer = buffer /\ w.mark = mark /\ w.then = then
BY DEF Worker, WorkerType

\* What a worker may come to stand at: no more than its file and its
\* predictions bear out.
LEMMA StandsFine ==
  ASSUME NEW p, NEW w \in WorkerType, NEW file, NEW given, NEW n \in Caps, given = p[n],
         w.pc \in Busy =>
           /\ file \o w.buffer = w.preds /\ w.next = Len(w.preds) /\ Right(p, w.preds)
           /\ w.pc # "predict" => w.mark >= -1 /\ w.mark + 1 <= Len(w.preds)
           /\ w.pc = "mark" => w.buffer = <<>>
           /\ w.pc = "predict" /\ w.next >= Len(given) => w.buffer = <<>>,
         w.pc = "scored" => w.preds = given /\ file = given
  PROVE  WorkerFine(p, w, file, given)
BY DEF WorkerFine

LEMMA ResumeKeeps ==
  ASSUME InvBench, NEW r \in Runs, NEW t \in Tools, Resume(r, t), UNCHANGED published
  PROVE  InvBench'
<1> DEFINE kept == Vouched(rows[t], state[t])
           w == Worker("predict", kept, Len(kept), <<>>, -1, "predict")
<1>1. /\ stand[r] \in Loaded /\ worker[r][t].pc = "todo"
      /\ rows' = [rows EXCEPT ![t] = kept]
      /\ worker' = [worker EXCEPT ![r][t] = w]
      /\ UNCHANGED <<lock, state, matrix, stand, mem, loaded>>
  BY DEF Resume, Cut, Loaded
<1>2. /\ Agree(published) /\ rows[t] \in Seq(Int) /\ state[t] \in Int
      /\ FileFine(published, rows[t], state[t])
      /\ WorkerFine(published, worker[r][t], rows[t], loaded[r])
      /\ state = [state EXCEPT ![t] = state[t]]
  BY <1>1, WorkerKnown
<1>3. /\ kept \in Seq(Nat) /\ Right(published, kept)
      /\ FileFine(published, kept, state[t])
  BY <1>2, VouchedIsRight
<1> HIDE DEF kept
<1>4. Len(kept) \in Nat /\ kept \in Seq(Int) /\ kept \o <<>> = kept /\ <<>> \in Seq(Nat)
  BY <1>3, SequenceIs, ConcatEmptySeq, EmptySeq
<1>5. /\ w \in WorkerType /\ w.pc = "predict" /\ w.preds = kept /\ w.next = Len(kept)
      /\ w.buffer = <<>>
  BY <1>3, <1>4 DEF Worker, WorkerType, Busy
<1> HIDE DEF w
<1>6. PICK n \in Caps : loaded[r] = published[n]
  BY <1>1, <1>2 DEF WorkerFine
<1>7. WorkerFine(published, w, kept, loaded[r])
  BY <1>3, <1>4, <1>5, <1>6, StandsFine
<1>8. Steps(r, t, w, kept, state[t])
  BY <1>1, <1>2 DEF Steps
<1> QED
  BY <1>1, <1>2, <1>3, <1>4, <1>5, <1>7, <1>8, WorkerSteps

LEMMA PredictKeeps ==
  ASSUME InvBench, NEW r \in Runs, NEW t \in Tools, Predict(r, t), UNCHANGED published
  PROVE  InvBench'
<1> DEFINE w == worker[r][t]
           end == BatchEnd(t, w.next, Len(loaded[r]))
           new == SubSeq(loaded[r], w.next + 1, end)
           after == IF FlushDue(w.next, end, Len(loaded[r])) THEN "flush" ELSE "predict"
           v == Worker(after, w.preds \o new, end, w.buffer \o new, end - 1, "predict")
<1>1. /\ w.pc = "predict" /\ w.next < Len(loaded[r])
      /\ worker' = [worker EXCEPT ![r][t] = v]
      /\ UNCHANGED <<lock, rows, state, matrix, stand, mem, loaded>>
  BY DEF Predict
<1>2. /\ w \in WorkerType /\ w.preds \in Seq(Nat) /\ w.next \in Nat /\ w.buffer \in Seq(Nat)
      /\ rows[t] \in Seq(Int) /\ state[t] \in Int /\ loaded[r] \in Seq(Nat)
      /\ Agree(published) /\ FileFine(published, rows[t], state[t])
      /\ rows = [rows EXCEPT ![t] = rows[t]] /\ state = [state EXCEPT ![t] = state[t]]
  BY WorkerKnown
<1>3. stand[r] \in Loaded /\ WorkerFine(published, w, rows[t], loaded[r])
  BY <1>1, WorkerKnown DEF Busy
<1> HIDE DEF w
<1>4. /\ rows[t] \o w.buffer = w.preds /\ w.next = Len(w.preds) /\ Right(published, w.preds)
  BY <1>1, <1>3 DEF WorkerFine, Busy
<1>5. PICK n \in Caps : loaded[r] = published[n]
  BY <1>1, <1>3 DEF WorkerFine
<1>6. Len(loaded[r]) \in Nat /\ Len(w.preds) \in Nat
  BY <1>2, SequenceIs
<1>7. end \in Nat /\ Len(w.preds) <= end /\ end <= Len(loaded[r])
  <2>1. BatchOf[t] \in Nat
    BY BenchAssumption
  <2> QED
    BY <1>1, <1>2, <1>4, <1>6, <2>1 DEF BatchEnd, Fewer
<1>8. after = "flush" \/ (after = "predict" /\ end # Len(loaded[r]))
  <2> HIDE DEF end
  <2>1. end = Len(loaded[r]) => FlushDue(w.next, end, Len(loaded[r]))
    BY Zenon DEF FlushDue
  <2>2. CASE FlushDue(w.next, end, Len(loaded[r]))
    <3>1. after = "flush"
      BY Zenon, <2>2
    <3> HIDE DEF after
    <3> QED
      BY <3>1
  <2>3. CASE ~FlushDue(w.next, end, Len(loaded[r]))
    <3>1. after = "predict"
      BY Zenon, <2>3
    <3> QED
      BY Zenon, <2>1, <2>3, <3>1
  <2> QED
    BY <2>2, <2>3
<1> HIDE DEF end, after
<1>9. /\ new \in Seq(Nat) /\ w.preds \o new \in Seq(Nat)
      /\ Len(w.preds \o new) = end /\ Right(published, w.preds \o new)
  <2> DEFINE preds == w.preds
  <2>1. /\ preds \in Seq(Nat) /\ Right(published, preds) /\ Agree(published)
        /\ Len(preds) <= end /\ end <= Len(published[n]) /\ end \in Nat
    BY <1>2, <1>4, <1>5, <1>7
  <2>2. new = SubSeq(published[n], Len(preds) + 1, end)
    BY <1>4, <1>5
  <2> HIDE DEF preds, new
  <2> DEFINE next == SubSeq(published[n], Len(preds) + 1, end)
  <2>3. /\ next \in Seq(Nat) /\ preds \o next \in Seq(Nat)
        /\ Len(preds \o next) = end /\ Right(published, preds \o next)
    BY <2>1, NextAreRight
  <2> QED
    BY <2>2, <2>3 DEF preds
<1> HIDE DEF new
<1>10. w.buffer \o new \in Seq(Nat) /\ rows[t] \o (w.buffer \o new) = w.preds \o new
  <2>1. w.buffer \o new \in Seq(Nat)
    BY <1>2, <1>9, ConcatProperties
  <2>2. rows[t] \in Seq(Int) /\ w.buffer \in Seq(Nat) /\ new \in Seq(Nat)
    BY <1>2, <1>9
  <2>3. (rows[t] \o w.buffer) \o new = rows[t] \o (w.buffer \o new)
    BY <2>2, Regroup
  <2> QED
    BY <1>4, <2>1, <2>3
<1> DEFINE preds == w.preds \o new
           buffer == w.buffer \o new
<1>11. /\ v \in WorkerType /\ v.pc = after /\ v.preds = preds /\ v.next = end
       /\ v.buffer = buffer /\ v.mark = end - 1
  <2>1. v = Worker(after, preds, end, buffer, end - 1, "predict")
    OBVIOUS
  <2>2. preds \in Seq(Nat) /\ buffer \in Seq(Nat) /\ end - 1 \in Int
        /\ after \in Busy \cup {"todo", "scored", "failed", "recorded"}
    BY <1>7, <1>8, <1>9, <1>10 DEF Busy
  <2> HIDE DEF v, preds, buffer
  <2> QED
    BY <1>7, <2>1, <2>2 DEF Worker, WorkerType
<1>12. /\ rows[t] \o buffer = preds /\ Len(preds) = end /\ Right(published, preds)
  BY <1>9, <1>10
<1> HIDE DEF v, preds, buffer
<1>13. WorkerFine(published, v, rows[t], loaded[r])
  <2>1. v.pc = "predict" => ~(v.next >= Len(loaded[r]))
    BY <1>6, <1>7, <1>8, <1>11
  <2>2. v.mark >= -1 /\ v.mark + 1 <= Len(v.preds)
    BY <1>7, <1>11, <1>12
  <2>3. v.pc # "mark" /\ v.pc # "scored"
    BY <1>8, <1>11
  <2> QED
    BY <1>5, <1>11, <1>12, <2>1, <2>2, <2>3, StandsFine
<1>14. Steps(r, t, v, rows[t], state[t])
  BY <1>1, <1>2 DEF Steps
<1>15. v.pc # "recorded"
  BY <1>8, <1>11
<1> QED
  BY <1>2, <1>3, <1>11, <1>13, <1>14, <1>15, WorkerSteps

LEMMA PredictRaisesKeeps ==
  ASSUME InvBench, NEW r \in Runs, NEW t \in Tools, PredictRaises(r, t), UNCHANGED published
  PROVE  InvBench'
<1> DEFINE w == worker[r][t]
           v == Worker("flush", w.preds, w.next, w.buffer, w.next - 1, "failed")
<1>1. /\ w.pc = "predict" /\ worker' = [worker EXCEPT ![r][t] = v]
      /\ UNCHANGED <<lock, rows, state, matrix, stand, mem, loaded>>
  BY DEF PredictRaises
<1>2. /\ w \in WorkerType /\ w.preds \in Seq(Nat) /\ w.next \in Nat /\ w.buffer \in Seq(Nat)
      /\ rows[t] \in Seq(Int) /\ state[t] \in Int /\ loaded[r] \in Seq(Nat)
      /\ Agree(published) /\ FileFine(published, rows[t], state[t])
      /\ rows = [rows EXCEPT ![t] = rows[t]] /\ state = [state EXCEPT ![t] = state[t]]
  BY WorkerKnown
<1>3. stand[r] \in Loaded /\ WorkerFine(published, w, rows[t], loaded[r])
  BY <1>1, WorkerKnown DEF Busy
<1> HIDE DEF w
<1>4. /\ rows[t] \o w.buffer = w.preds /\ w.next = Len(w.preds) /\ Right(published, w.preds)
  BY <1>1, <1>3 DEF WorkerFine, Busy
<1>5. PICK n \in Caps : loaded[r] = published[n]
  BY <1>1, <1>3 DEF WorkerFine
<1>6. /\ v \in WorkerType /\ v.pc = "flush" /\ v.preds = w.preds /\ v.next = w.next
      /\ v.buffer = w.buffer /\ v.mark = w.next - 1
  <2>1. w.next - 1 \in Int /\ "flush" \in Busy \cup {"todo", "scored", "failed", "recorded"}
    BY <1>2 DEF Busy
  <2> QED
    BY <1>2, <2>1, WorkerIs
<1> HIDE DEF v
<1>7. WorkerFine(published, v, rows[t], loaded[r])
  <2>1. v.mark >= -1 /\ v.mark + 1 <= Len(v.preds)
    BY <1>2, <1>4, <1>6
  <2> QED
    BY <1>4, <1>5, <1>6, <2>1, StandsFine
<1>8. Steps(r, t, v, rows[t], state[t])
  BY <1>1, <1>2 DEF Steps
<1> QED
  BY <1>2, <1>3, <1>6, <1>7, <1>8, WorkerSteps

LEMMA RowRaisesKeeps ==
  ASSUME InvBench, NEW r \in Runs, NEW t \in Tools, RowRaises(r, t), UNCHANGED published
  PROVE  InvBench'
<1> DEFINE w == worker[r][t]
           end == BatchEnd(t, w.next, Len(loaded[r]))
           v == Worker("failed", <<>>, 0, <<>>, -1, "failed")
<1>1. /\ w.pc = "predict" /\ w.next < Len(loaded[r])
      /\ worker' = [worker EXCEPT ![r][t] = v]
      /\ UNCHANGED <<lock, state, matrix, stand, mem, loaded>>
  BY DEF RowRaises
<1>2. PICK new \in PrefixesOf(SubSeq(loaded[r], w.next + 1, end - 1)) :
        rows' = [rows EXCEPT ![t] = rows[t] \o w.buffer \o new]
  BY DEF RowRaises
<1>3. /\ w.next \in Nat /\ w.buffer \in Seq(Nat)
      /\ rows[t] \in Seq(Int) /\ state[t] \in Int /\ loaded[r] \in Seq(Nat)
      /\ Agree(published) /\ FileFine(published, rows[t], state[t])
      /\ state = [state EXCEPT ![t] = state[t]]
  BY WorkerKnown
<1>4. stand[r] \in Loaded /\ WorkerFine(published, w, rows[t], loaded[r])
  BY <1>1, WorkerKnown DEF Busy
<1> HIDE DEF w
<1>5. PICK n \in Caps : loaded[r] = published[n]
  BY <1>1, <1>4 DEF WorkerFine
<1>6. end \in Nat /\ end <= Len(loaded[r]) /\ Len(loaded[r]) \in Nat
  <2>1. BatchOf[t] \in Nat /\ Len(loaded[r]) \in Nat
    BY <1>3, BenchAssumption, SequenceIs
  <2> QED
    BY <1>3, <2>1 DEF BatchEnd, Fewer
<1> HIDE DEF end
<1>7. new \in Seq(Int)
  <2> DEFINE part == SubSeq(loaded[r], w.next + 1, end - 1)
  <2>1. part \in Seq(Nat)
    <3> DEFINE given == loaded[r]
               from == w.next + 1
               to == end - 1
    <3>1. given \in Seq(Nat) /\ from \in Nat \ {0} /\ to \in Int /\ to <= Len(given)
      BY <1>3, <1>6
    <3> HIDE DEF given, from, to
    <3>2. \A i \in from .. to : given[i] \in Nat
      BY <3>1, SequenceIs
    <3>3. SubSeq(given, from, to) \in Seq(Nat)
      BY <3>1, <3>2, SubSeqProperties
    <3> QED
      BY <3>3 DEF given, from, to
  <2> HIDE DEF part
  <2>2. PICK k \in 0 .. Len(part) : new = SubSeq(part, 1, k)
    BY DEF PrefixesOf, part
  <2>3. 1 \in Int /\ k \in Int /\ \A i \in 1 .. k : part[i] \in Int
    BY <2>1, SequenceIs
  <2> QED
    BY <2>2, <2>3, SubSeqProperties
<1> DEFINE file == rows[t] \o w.buffer \o new
<1>8. file \in Seq(Int) /\ FileFine(published, file, state[t])
  <2>1. w.buffer \in Seq(Int)
    BY <1>3, SequenceIs
  <2>2. rows[t] \o w.buffer \in Seq(Int) /\ FileFine(published, rows[t] \o w.buffer, state[t])
    BY <1>3, <2>1, FileGrows
  <2> QED
    BY <1>3, <1>7, <2>2, FileGrows
<1> HIDE DEF file
<1>9. v \in WorkerType /\ v.pc = "failed"
  <2>1. <<>> \in Seq(Nat) /\ "failed" \in Busy \cup {"todo", "scored", "failed", "recorded"}
    BY EmptySeq
  <2> QED
    BY <2>1 DEF Worker, WorkerType
<1> HIDE DEF v
<1>10. WorkerFine(published, v, file, loaded[r])
  BY <1>5, <1>9, StandsFine DEF Busy
<1>11. Steps(r, t, v, file, state[t])
  BY <1>1, <1>2, <1>3 DEF Steps, file
<1> QED
  BY <1>3, <1>4, <1>8, <1>9, <1>10, <1>11, WorkerSteps

LEMMA FlushKeeps ==
  ASSUME InvBench, NEW r \in Runs, NEW t \in Tools, Flush(r, t), UNCHANGED published
  PROVE  InvBench'
<1> DEFINE w == worker[r][t]
           v == [w EXCEPT !.pc = "mark", !.buffer = <<>>]
<1>1. /\ w.pc = "flush"
      /\ rows' = [rows EXCEPT ![t] = rows[t] \o w.buffer]
      /\ UNCHANGED <<lock, state, matrix, stand, mem, loaded>>
  BY DEF Flush
<1>2. /\ w \in WorkerType /\ w.preds \in Seq(Nat) /\ w.buffer \in Seq(Nat)
      /\ rows[t] \in Seq(Int) /\ state[t] \in Int
      /\ Agree(published) /\ FileFine(published, rows[t], state[t])
      /\ state = [state EXCEPT ![t] = state[t]]
  BY WorkerKnown
<1>3. stand[r] \in Loaded /\ WorkerFine(published, w, rows[t], loaded[r])
  BY <1>1, WorkerKnown DEF Busy
<1>a. worker' = [worker EXCEPT ![r][t] = v]
  <2>1. worker \in [Runs -> [Tools -> WorkerType]]
    BY DEF InvBench, TypesBench
  <2> QED
    BY <2>1 DEF Flush, WorkerType
<1>4. /\ v \in WorkerType /\ v.pc = "mark" /\ v.preds = w.preds /\ v.next = w.next
      /\ v.buffer = <<>> /\ v.mark = w.mark
  <2>1. <<>> \in Seq(Nat)
    BY EmptySeq
  <2> HIDE DEF w
  <2> QED
    BY <1>2, <2>1 DEF WorkerType, Busy
<1> HIDE DEF w, v
<1>5. /\ rows[t] \o w.buffer = w.preds /\ w.next = Len(w.preds) /\ Right(published, w.preds)
      /\ w.mark >= -1 /\ w.mark + 1 <= Len(w.preds)
  BY <1>1, <1>3 DEF WorkerFine, Busy
<1>6. PICK n \in Caps : loaded[r] = published[n]
  BY <1>1, <1>3 DEF WorkerFine
<1>7. w.preds \in Seq(Int) /\ FileFine(published, w.preds, state[t])
  <2>1. w.buffer \in Seq(Int)
    BY <1>2, SequenceIs
  <2>2. /\ rows[t] \o w.buffer \in Seq(Int)
        /\ FileFine(published, rows[t] \o w.buffer, state[t])
    BY <1>2, <2>1, FileGrows
  <2> QED
    BY <1>5, <2>2
<1>8. WorkerFine(published, v, w.preds, loaded[r])
  <2>1. w.preds \o <<>> = w.preds
    BY <1>2, ConcatEmptySeq
  <2> QED
    BY <1>4, <1>5, <1>6, <2>1, StandsFine
<1>9. Steps(r, t, v, w.preds, state[t])
  BY <1>1, <1>2, <1>5, <1>a DEF Steps
<1> QED
  BY <1>2, <1>3, <1>4, <1>7, <1>8, <1>9, WorkerSteps

LEMMA MarkKeeps ==
  ASSUME InvBench, NEW r \in Runs, NEW t \in Tools, Mark(r, t), UNCHANGED published
  PROVE  InvBench'
<1> DEFINE w == worker[r][t]
           pc == IF w.then = "score" THEN Scored(w.preds, Len(loaded[r])) ELSE w.then
           v == [w EXCEPT !.pc = pc]
<1>1. /\ w.pc = "mark" /\ state' = [state EXCEPT ![t] = w.mark]
      /\ UNCHANGED <<lock, rows, matrix, stand, mem, loaded>>
  BY DEF Mark
<1>2. /\ w \in WorkerType /\ w.preds \in Seq(Nat) /\ w.mark \in Int
      /\ rows[t] \in Seq(Int) /\ state[t] \in Int /\ loaded[r] \in Seq(Nat)
      /\ Agree(published)
      /\ rows = [rows EXCEPT ![t] = rows[t]]
  BY WorkerKnown
<1>3. stand[r] \in Loaded /\ WorkerFine(published, w, rows[t], loaded[r])
  BY <1>1, WorkerKnown DEF Busy
<1>a. worker' = [worker EXCEPT ![r][t] = v]
  <2>1. worker \in [Runs -> [Tools -> WorkerType]]
    BY DEF InvBench, TypesBench
  <2> QED
    BY <2>1 DEF Mark, WorkerType
<1>4. /\ w.then \in {"predict", "failed", "score"}
      /\ pc \in {"predict", "failed", "scored"}
      /\ pc = "scored" => Len(w.preds) = Len(loaded[r])
  <2>1. w.then \in {"predict", "failed", "score"}
    BY <1>2 DEF WorkerType
  <2> HIDE DEF w
  <2> QED
    BY <2>1 DEF Scored
<1> HIDE DEF pc
<1>5. /\ v \in WorkerType /\ v.pc = pc /\ v.preds = w.preds /\ v.next = w.next
      /\ v.buffer = w.buffer /\ v.mark = w.mark
  <2> HIDE DEF w
  <2> QED
    BY <1>2, <1>4 DEF WorkerType, Busy
<1> HIDE DEF w, v
<1>6. /\ rows[t] \o w.buffer = w.preds /\ w.buffer = <<>> /\ w.next = Len(w.preds)
      /\ Right(published, w.preds) /\ w.mark >= -1 /\ w.mark + 1 <= Len(w.preds)
  BY <1>1, <1>3 DEF WorkerFine, Busy
<1>7. rows[t] = w.preds
  BY <1>2, <1>6, ConcatEmptySeq
<1>8. PICK n \in Caps : loaded[r] = published[n]
  BY <1>1, <1>3 DEF WorkerFine
<1>9. FileFine(published, rows[t], w.mark)
  BY <1>2, <1>6, <1>7, RightIsFine
<1>10. pc = "scored" => w.preds = loaded[r]
  <2>1. Right(published, loaded[r])
    BY <1>2, <1>8, PublishedIsRight
  <2> QED
    BY <1>2, <1>4, <1>6, <2>1, RightIsOne
<1>11. WorkerFine(published, v, rows[t], loaded[r])
  BY <1>4, <1>5, <1>6, <1>7, <1>8, <1>10, StandsFine
<1>12. Steps(r, t, v, rows[t], w.mark)
  BY <1>1, <1>2, <1>a DEF Steps
<1>13. v.pc # "recorded"
  BY <1>4, <1>5
<1> QED
  BY <1>2, <1>3, <1>5, <1>9, <1>11, <1>12, <1>13, WorkerSteps

LEMMA CompleteKeeps ==
  ASSUME InvBench, NEW r \in Runs, NEW t \in Tools, Complete(r, t), UNCHANGED published
  PROVE  InvBench'
<1> DEFINE w == worker[r][t]
           mark == Len(loaded[r]) - 1
           v == [w EXCEPT !.pc = "mark", !.mark = mark, !.then = "score"]
<1>1. /\ w.pc = "predict" /\ w.next >= Len(loaded[r])
      /\ UNCHANGED <<lock, rows, state, matrix, stand, mem, loaded>>
  BY DEF Complete, AllDone
<1>2. /\ w \in WorkerType /\ w.preds \in Seq(Nat) /\ loaded[r] \in Seq(Nat)
      /\ rows[t] \in Seq(Int) /\ state[t] \in Int
      /\ FileFine(published, rows[t], state[t])
      /\ rows = [rows EXCEPT ![t] = rows[t]] /\ state = [state EXCEPT ![t] = state[t]]
  BY WorkerKnown
<1>3. stand[r] \in Loaded /\ WorkerFine(published, w, rows[t], loaded[r])
  BY <1>1, WorkerKnown DEF Busy
<1>a. worker' = [worker EXCEPT ![r][t] = v]
  <2>1. worker \in [Runs -> [Tools -> WorkerType]]
    BY DEF InvBench, TypesBench
  <2> QED
    BY <2>1 DEF Complete, WorkerType
<1>4. mark \in Int /\ mark >= -1 /\ mark + 1 = Len(loaded[r])
  BY <1>2, SequenceIs
<1> HIDE DEF mark
<1>5. /\ v \in WorkerType /\ v.pc = "mark" /\ v.preds = w.preds /\ v.next = w.next
      /\ v.buffer = w.buffer /\ v.mark = mark
  <2> HIDE DEF w
  <2> QED
    BY <1>2, <1>4 DEF WorkerType, Busy
<1> HIDE DEF w, v
<1>6. /\ rows[t] \o w.buffer = w.preds /\ w.next = Len(w.preds) /\ Right(published, w.preds)
      /\ w.buffer = <<>>
  BY <1>1, <1>3 DEF WorkerFine, Busy
<1>7. PICK n \in Caps : loaded[r] = published[n]
  BY <1>1, <1>3 DEF WorkerFine
<1>8. WorkerFine(published, v, rows[t], loaded[r])
  <2>1. mark + 1 <= Len(w.preds)
    BY <1>1, <1>4, <1>6
  <2> QED
    BY <1>4, <1>5, <1>6, <1>7, <2>1, StandsFine
<1>9. Steps(r, t, v, rows[t], state[t])
  BY <1>1, <1>2, <1>a DEF Steps
<1> QED
  BY <1>2, <1>3, <1>5, <1>8, <1>9, WorkerSteps

(* ---------- A step of a run ---------- *)

LEMMA Holds ==
  ASSUME InvBench
  PROVE  /\ Agree(published) /\ TypesBench /\ Owned /\ Files /\ Workers /\ Cells
         /\ \A q, r \in Runs : stand[q] \in Active /\ stand[r] \in Active => q = r
         /\ Loaded \subseteq Active
BY DEF InvBench, Owned, Loaded, Active

LEMMA RecordKeeps ==
  ASSUME InvBench, NEW r \in Runs, NEW t \in Tools, Record(r, t), UNCHANGED published
  PROVE  InvBench'
<1> DEFINE w == worker[r][t]
           v == [Fresh EXCEPT !.pc = "recorded"]
           cell == Cell(w, Len(loaded[r]))
<1>1. /\ stand[r] = "on" /\ w.pc \in {"scored", "failed"}
      /\ mem' = [mem EXCEPT ![r].cells[t] = cell]
      /\ worker' = [worker EXCEPT ![r][t] = v]
      /\ stand' = [stand EXCEPT ![r] = "writing"]
      /\ matrix' = Torn
      /\ UNCHANGED <<lock, rows, state, loaded>>
  BY DEF Record
<1>2. /\ Agree(published) /\ TypesBench /\ Owned /\ Files /\ Workers /\ Cells
      /\ \A q \in Runs : stand[q] \in Active => q = r
      /\ Loaded \subseteq Active /\ stand[r] \in Active /\ stand[r] \in Loaded
  BY <1>1, Holds DEF Active, Loaded
<1>3. /\ w \in WorkerType /\ w.preds \in Seq(Nat) /\ loaded[r] \in Seq(Nat)
      /\ WorkerFine(published, w, rows[t], loaded[r])
  BY <1>2, WorkerKnown
<1> HIDE DEF w
<1>4. v \in WorkerType /\ v.pc = "recorded"
  BY FreshIs
<1> HIDE DEF v
<1>5. PICK n \in Caps : loaded[r] = published[n]
  BY <1>1, <1>3 DEF WorkerFine
<1>6. /\ cell \in CellType /\ CellFine(published, cell)
      /\ cell.status = "OK" => rows[t] = loaded[r]
  <2>1. <<>> \in Seq(Nat) /\ Len(loaded[r]) \in Nat
    BY <1>3, EmptySeq, SequenceIs
  <2>2. CASE w.pc = "scored"
    <3>1. cell = [status |-> "OK", n |-> Len(loaded[r]), scored |-> w.preds]
      BY <2>2 DEF Cell
    <3>2. w.preds = loaded[r] /\ rows[t] = loaded[r]
      BY <1>3, <2>2 DEF WorkerFine
    <3> HIDE DEF cell
    <3>3. cell \in CellType /\ cell.n = Len(loaded[r]) /\ cell.scored = loaded[r]
      BY <1>3, <2>1, <3>1, <3>2 DEF CellType
    <3> QED
      BY <1>5, <3>2, <3>3 DEF CellFine
  <2>3. CASE w.pc = "failed"
    <3>1. cell = [status |-> "CRASHED", n |-> 0, scored |-> <<>>]
      BY <2>3 DEF Cell
    <3> HIDE DEF cell
    <3> QED
      BY <2>1, <3>1 DEF CellType, CellFine
  <2> QED
    BY <1>1, <2>2, <2>3
<1> HIDE DEF cell
<1>7. /\ mem' \in [Runs -> MatrixType] /\ mem'[r].cells[t] = cell
      /\ \A q \in Runs, u \in Tools : q # r \/ u # t => mem'[q].cells[u] = mem[q].cells[u]
  BY <1>1, <1>2, <1>6 DEF TypesBench, MatrixType
<1>8. /\ worker' \in [Runs -> [Tools -> WorkerType]] /\ worker'[r][t] = v
      /\ \A q \in Runs, u \in Tools : q # r \/ u # t => worker'[q][u] = worker[q][u]
  BY <1>1, <1>2, <1>4, SetWorker DEF TypesBench
<1>9. /\ stand' \in [Runs -> Active \cup {"off", "failed", "succeeded"}]
      /\ stand'[r] = "writing" /\ \A q \in Runs : q # r => stand'[q] = stand[q]
  BY <1>1, <1>2 DEF TypesBench, Active
<1>10. TypesBench'
  BY <1>1, <1>2, <1>7, <1>8, <1>9 DEF TypesBench
<1>11. Owned'
  BY <1>1, <1>2, <1>4, <1>8, <1>9 DEF Owned, Busy, Loaded
<1>12. Workers'
  <2> SUFFICES ASSUME NEW u \in Tools
               PROVE  /\ WorkerFine(published, worker'[r][u], rows[u], loaded[r])
                      /\ worker'[r][u].pc = "recorded" /\ loaded[r] # <<>>
                         /\ mem'[r].cells[u].status = "OK" => rows[u] = loaded[r]
    BY <1>1, <1>2, <1>9 DEF Workers
  <2>1. CASE u = t
    BY <1>4, <1>6, <1>7, <1>8, <2>1 DEF WorkerFine, Busy
  <2>2. CASE u # t
    BY <1>2, <1>7, <1>8, <2>2 DEF Workers
  <2> QED
    BY <2>1, <2>2
<1>13. Cells'
  BY <1>1, <1>2, <1>6, <1>7 DEF Cells
<1>14. Files'
  BY <1>1, <1>2 DEF Files
<1> QED
  BY <1>2, <1>10, <1>11, <1>12, <1>13, <1>14 DEF InvBench

\* The run takes its samples, or none: its workers begin anew or are done.
LEMMA RunLoads ==
  ASSUME InvBench, NEW r \in Runs, stand[r] = "loading", UNCHANGED <<published, lock, rows, state>>,
         NEW given \in Seq(Nat), NEW v \in WorkerType, NEW e \in BOOLEAN,
         NEW s \in Loaded,
         \/ v.pc = "todo" /\ \E n \in Caps : given = published[n]
         \/ v.pc = "recorded" /\ given = <<>>,
         loaded' = [loaded EXCEPT ![r] = given],
         worker' = [worker EXCEPT ![r] = [t \in Tools |-> v]],
         mem' = [mem EXCEPT ![r].loadError = e],
         stand' = [stand EXCEPT ![r] = s],
         matrix' = matrix \/ matrix' = Torn
  PROVE  InvBench'
<1>2. /\ Agree(published) /\ TypesBench /\ Owned /\ Files /\ Workers /\ Cells
      /\ \A q \in Runs : stand[q] \in Active => q = r
      /\ Loaded \subseteq Active /\ stand[r] \in Active
  BY Holds DEF Active
<1>3. /\ mem' \in [Runs -> MatrixType]
      /\ \A q \in Runs, u \in Tools : mem'[q].cells[u] = mem[q].cells[u]
  BY <1>2 DEF TypesBench, MatrixType
<1>4. /\ worker' \in [Runs -> [Tools -> WorkerType]]
      /\ \A u \in Tools : worker'[r][u] = v
      /\ \A q \in Runs, u \in Tools : q # r => worker'[q][u] = worker[q][u]
  BY <1>2 DEF TypesBench
<1>5. /\ stand' \in [Runs -> Active \cup {"off", "failed", "succeeded"}]
      /\ stand'[r] = s /\ \A q \in Runs : q # r => stand'[q] = stand[q]
  BY <1>2 DEF TypesBench, Active, Loaded
<1>6. /\ loaded' \in [Runs -> Seq(Nat)] /\ loaded'[r] = given
  BY <1>2 DEF TypesBench
<1>7. TypesBench'
  BY <1>2, <1>3, <1>4, <1>5, <1>6 DEF TypesBench
<1>8. Owned'
  BY <1>2, <1>4, <1>5 DEF Owned
<1>9. Workers'
  <2> SUFFICES ASSUME NEW u \in Tools
               PROVE  /\ WorkerFine(published, v, rows[u], given)
                      /\ v.pc = "recorded" /\ given # <<>>
                         /\ mem'[r].cells[u].status = "OK" => rows[u] = given
    BY <1>2, <1>4, <1>5, <1>6 DEF Workers
  <2> QED
    BY DEF WorkerFine, Busy
<1>10. Cells'
  BY <1>2, <1>3 DEF Cells
<1>11. Files'
  BY <1>2 DEF Files
<1> QED
  BY <1>2, <1>7, <1>8, <1>9, <1>10, <1>11 DEF InvBench

LEMMA LoadDatasetKeeps ==
  ASSUME InvBench, NEW r \in Runs, LoadDataset(r), UNCHANGED published
  PROVE  InvBench'
<1>1. PICK n \in Caps :
        /\ loaded' = [loaded EXCEPT ![r] = published[n]]
        /\ worker' = [worker EXCEPT ![r] = Off]
        /\ mem' = [mem EXCEPT ![r].loadError = FALSE]
        /\ stand' = [stand EXCEPT ![r] = "on"]
  BY DEF LoadDataset
<1>2. stand[r] = "loading" /\ UNCHANGED <<lock, rows, state, matrix>>
  BY DEF LoadDataset
<1>3. published[n] \in Seq(Nat)
  BY Holds DEF Agree
<1>4. Off = [t \in Tools |-> Fresh] /\ Fresh \in WorkerType /\ Fresh.pc = "todo"
  BY FreshIs DEF Off
<1>5. worker' = [worker EXCEPT ![r] = [t \in Tools |-> Fresh]]
  BY <1>1, <1>4
<1>6. "on" \in Loaded
  BY DEF Loaded
<1> QED
  BY <1>1, <1>2, <1>3, <1>4, <1>5, <1>6, RunLoads

LEMMA LoadFailsKeeps ==
  ASSUME InvBench, NEW r \in Runs, LoadFails(r), UNCHANGED published
  PROVE  InvBench'
<1> DEFINE v == [Fresh EXCEPT !.pc = "recorded"]
<1>1. /\ stand[r] = "loading"
      /\ loaded' = [loaded EXCEPT ![r] = <<>>]
      /\ worker' = [worker EXCEPT ![r] = [t \in Tools |-> v]]
      /\ mem' = [mem EXCEPT ![r].loadError = TRUE]
      /\ stand' = [stand EXCEPT ![r] = "writing"]
      /\ matrix' = Torn
      /\ UNCHANGED <<lock, rows, state>>
  BY DEF LoadFails
<1>2. v \in WorkerType /\ v.pc = "recorded" /\ <<>> \in Seq(Nat) /\ "writing" \in Loaded
  BY FreshIs, EmptySeq DEF Loaded
<1> HIDE DEF v
<1> QED
  BY <1>1, <1>2, RunLoads

\* Steps that leave the files and the samples of the active runs alone.
LEMMA WriteMatrixKeeps ==
  ASSUME InvBench, NEW r \in Runs, WriteMatrix(r), UNCHANGED published
  PROVE  InvBench'
<1>1. /\ stand[r] = "writing" /\ matrix' = mem[r] /\ stand' = [stand EXCEPT ![r] = "on"]
      /\ UNCHANGED <<lock, rows, state, mem, loaded, worker>>
  BY DEF WriteMatrix
<1>2. /\ Agree(published) /\ TypesBench /\ Owned /\ Files /\ Workers /\ Cells
  BY Holds
<1>3. /\ stand' \in [Runs -> Active \cup {"off", "failed", "succeeded"}]
      /\ \A q \in Runs : stand'[q] \in Active <=> stand[q] \in Active
      /\ \A q \in Runs : stand'[q] \in Loaded <=> stand[q] \in Loaded
  BY <1>1, <1>2 DEF TypesBench, Active, Loaded
<1>4. TypesBench' /\ Owned' /\ Files' /\ Cells'
  BY <1>1, <1>2, <1>3 DEF TypesBench, Owned, Files, Cells
<1>5. Workers'
  BY <1>1, <1>2, <1>3 DEF Workers
<1> QED
  BY <1>2, <1>4, <1>5 DEF InvBench

LEMMA StartKeeps ==
  ASSUME InvBench, NEW r \in Runs, Start(r), UNCHANGED published
  PROVE  InvBench'
<1>1. /\ stand[r] = "off" /\ lock = None /\ UNCHANGED <<rows, state, matrix, loaded, worker>>
  BY DEF Start, MayStart
<1>2. /\ Agree(published) /\ TypesBench /\ Owned /\ Files /\ Workers /\ Cells
  BY Holds
<1>3. CASE UNCHANGED <<lock, stand, mem>>
  BY <1>1, <1>2, <1>3 DEF InvBench, TypesBench, Owned, Files, Workers, Cells
<1>4. CASE /\ matrix # Torn /\ lock' = r /\ stand' = [stand EXCEPT ![r] = "loading"]
           /\ mem' = [mem EXCEPT ![r] = matrix]
  <2>1. /\ stand' \in [Runs -> Active \cup {"off", "failed", "succeeded"}]
        /\ stand'[r] = "loading" /\ \A q \in Runs : q # r => stand'[q] = stand[q]
    BY <1>2, <1>4 DEF TypesBench, Active
  <2>2. /\ mem' \in [Runs -> MatrixType] /\ mem'[r] = matrix
        /\ \A q \in Runs : q # r => mem'[q] = mem[q]
    BY <1>2, <1>4 DEF TypesBench
  <2>3. \A q \in Runs : stand[q] \notin Active /\ stand[q] \notin Loaded
    BY <1>1, <1>2, BenchAssumption DEF Owned, Active, Loaded
  <2>4. TypesBench'
    BY <1>1, <1>2, <2>1, <2>2 DEF TypesBench
  <2>5. Owned'
    BY <1>1, <1>2, <1>4, <2>1, <2>3 DEF Owned, Active, Loaded
  <2>6. Workers'
    BY <2>1, <2>3 DEF Workers, Loaded
  <2>7. Cells'
    BY <1>1, <1>2, <1>4, <2>2 DEF Cells
  <2>8. Files'
    BY <1>1, <1>2 DEF Files
  <2> QED
    BY <1>2, <2>4, <2>5, <2>6, <2>7, <2>8 DEF InvBench
<1> QED
  BY <1>3, <1>4 DEF Start

LEMMA ExitKeeps ==
  ASSUME InvBench, NEW r \in Runs, Exit(r), UNCHANGED published
  PROVE  InvBench'
<1>1. /\ stand[r] = "on" /\ \A t \in Tools : worker[r][t].pc = "recorded"
      /\ lock' = IF lock = r THEN None ELSE lock
      /\ UNCHANGED <<rows, state, matrix, mem, loaded, worker>>
  BY DEF Exit
<1>a. PICK s \in {"failed", "succeeded"} : stand' = [stand EXCEPT ![r] = s]
  BY DEF Exit
<1>2. /\ Agree(published) /\ TypesBench /\ Owned /\ Files /\ Workers /\ Cells
      /\ \A q \in Runs : stand[q] \in Active => q = r
      /\ Loaded \subseteq Active
  BY <1>1, Holds DEF Active
<1>3. /\ stand' \in [Runs -> Active \cup {"off", "failed", "succeeded"}]
      /\ stand'[r] \notin Active /\ \A q \in Runs : q # r => stand'[q] = stand[q]
  BY <1>2, <1>a DEF TypesBench, Active
<1>4. \A q \in Runs : stand'[q] \notin Active /\ stand'[q] \notin Loaded
  BY <1>2, <1>3
<1>5. Owned'
  <2>1. \A q \in Runs, t \in Tools : worker[q][t].pc \notin Busy \cup {"scored"}
    BY <1>1, <1>2 DEF Owned, Busy
  <2> QED
    BY <1>1, <1>4, <2>1 DEF Owned
<1>6. TypesBench' /\ Files' /\ Cells'
  BY <1>1, <1>2, <1>3 DEF TypesBench, Files, Cells
<1>7. Workers'
  BY <1>4 DEF Workers
<1> QED
  BY <1>2, <1>5, <1>6, <1>7 DEF InvBench

\* A run that is off, its memory and its workers with it.
LEMMA RunIsOff ==
  ASSUME InvBench, NEW r \in Runs, UNCHANGED <<published, matrix>>,
         stand' = [stand EXCEPT ![r] = "off"], mem' = [mem EXCEPT ![r] = Empty],
         loaded' = [loaded EXCEPT ![r] = <<>>], worker' = [worker EXCEPT ![r] = Off],
         rows' \in [Tools -> Seq(Int)], state' \in [Tools -> Int],
         \A t \in Tools : FileFine(published, rows'[t], state'[t]),
         UNCHANGED <<lock, rows>> \/ (stand[r] \in Active /\ lock' = IF lock = r THEN None ELSE lock)
  PROVE  InvBench'
<1>2. /\ Agree(published) /\ TypesBench /\ Owned /\ Files /\ Workers /\ Cells
      /\ stand[r] \in Active => \A q \in Runs : stand[q] \in Active => q = r
      /\ Loaded \subseteq Active
  BY Holds
<1>3. <<>> \in Seq(Nat)
  BY EmptySeq
<1>4. /\ stand' \in [Runs -> Active \cup {"off", "failed", "succeeded"}]
      /\ stand'[r] = "off" /\ \A q \in Runs : q # r => stand'[q] = stand[q]
  BY <1>2 DEF TypesBench
<1>5. /\ mem' \in [Runs -> MatrixType] /\ mem'[r] = Empty
      /\ \A q \in Runs : q # r => mem'[q] = mem[q]
  BY <1>2, EmptyIs DEF TypesBench
<1>6. /\ loaded' \in [Runs -> Seq(Nat)] /\ \A q \in Runs : q # r => loaded'[q] = loaded[q]
  BY <1>2, <1>3 DEF TypesBench
<1>7. /\ worker' \in [Runs -> [Tools -> WorkerType]] /\ \A t \in Tools : worker'[r][t] = Fresh
      /\ \A q \in Runs, t \in Tools : q # r => worker'[q][t] = worker[q][t]
  BY <1>2, FreshIs DEF TypesBench
<1>8. "off" \notin Active /\ "off" \notin Loaded /\ Fresh.pc \notin Busy \cup {"scored"}
  BY FreshIs DEF Active, Loaded, Busy
<1>9. TypesBench'
  BY <1>2, <1>4, <1>5, <1>6, <1>7 DEF TypesBench
<1>10. Owned'
  <2>1. \A q \in Runs : stand'[q] \in Active => lock' = q
    BY <1>2, <1>4, <1>8 DEF Owned
  <2>2. \A q \in Runs, t \in Tools :
          worker'[q][t].pc \in Busy \cup {"scored"} => stand'[q] \in Loaded
    BY <1>2, <1>4, <1>7, <1>8 DEF Owned
  <2> QED
    BY <2>1, <2>2 DEF Owned
<1>11. Files'
  BY DEF Files
<1>12. Workers'
  <2> SUFFICES ASSUME NEW q \in Runs, NEW t \in Tools, stand'[q] \in Loaded
               PROVE  /\ WorkerFine(published, worker'[q][t], rows'[t], loaded'[q])
                      /\ worker'[q][t].pc = "recorded" /\ loaded'[q] # <<>>
                         /\ mem'[q].cells[t].status = "OK" => rows'[t] = loaded'[q]
    BY DEF Workers
  <2>1. q # r /\ stand[q] \in Loaded
    BY <1>4, <1>8
  <2>2. rows' = rows
    BY <1>2, <2>1
  <2> QED
    BY <1>2, <1>5, <1>6, <1>7, <2>1, <2>2 DEF Workers
<1>13. Cells'
  BY <1>2, <1>5, EmptyIs DEF Cells, CellFine
<1> QED
  BY <1>2, <1>9, <1>10, <1>11, <1>12, <1>13 DEF InvBench

LEMMA ForgetKeeps ==
  ASSUME InvBench, NEW r \in Runs, Forget(r), UNCHANGED published
  PROVE  InvBench'
<1>1. /\ UNCHANGED <<lock, rows, state, matrix>>
      /\ stand' = [stand EXCEPT ![r] = "off"] /\ mem' = [mem EXCEPT ![r] = Empty]
      /\ loaded' = [loaded EXCEPT ![r] = <<>>] /\ worker' = [worker EXCEPT ![r] = Off]
  BY DEF Forget
<1>2. /\ rows \in [Tools -> Seq(Int)] /\ state \in [Tools -> Int]
      /\ \A t \in Tools : FileFine(published, rows[t], state[t])
  BY Holds DEF TypesBench, Files
<1> QED
  BY <1>1, <1>2, RunIsOff

LEMMA LandedIs ==
  ASSUME NEW buffer \in Seq(Nat), NEW x \in Landed(buffer)
  PROVE  x \in Seq(Int)
<1>1. ASSUME NEW part \in PrefixesOf(buffer) PROVE part \in Seq(Int)
  <2>1. PICK k \in 0 .. Len(buffer) : part = SubSeq(buffer, 1, k)
    BY DEF PrefixesOf
  <2>2. 1 \in Int /\ k \in Int /\ \A i \in 1 .. k : buffer[i] \in Int
    BY SequenceIs
  <2> QED
    BY <2>1, <2>2, SubSeqProperties
<1>2. CASE x \in PrefixesOf(buffer)
  BY <1>1, <1>2
<1>3. CASE \E part \in PrefixesOf(buffer) : x = Append(part, TornRow)
  <2>1. PICK part \in PrefixesOf(buffer) : x = Append(part, TornRow)
    BY <1>3
  <2>2. part \in Seq(Int) /\ TornRow \in Int
    BY <1>1 DEF TornRow
  <2> QED
    BY <2>1, <2>2, AppendProperties
<1> QED
  BY <1>2, <1>3 DEF Landed

LEMMA KillKeeps ==
  ASSUME InvBench, NEW r \in Runs, Kill(r), UNCHANGED published
  PROVE  InvBench'
<1>1. /\ stand[r] \in Active /\ UNCHANGED matrix
      /\ stand' = [stand EXCEPT ![r] = "off"] /\ mem' = [mem EXCEPT ![r] = Empty]
      /\ loaded' = [loaded EXCEPT ![r] = <<>>] /\ worker' = [worker EXCEPT ![r] = Off]
      /\ lock' = IF lock = r THEN None ELSE lock
  BY DEF Kill, Active
<1>2. PICK landed \in [Tools -> UNION {Landed(worker[r][t].buffer) : t \in Tools}] :
        /\ \A t \in Tools : landed[t] \in Landed(worker[r][t].buffer)
        /\ rows' = [t \in Tools |-> rows[t] \o landed[t]]
  BY DEF Kill
<1>3. PICK marked \in SUBSET {t \in Tools : worker[r][t].pc = "mark"} :
        state' = [t \in Tools |-> IF t \in marked THEN -1 ELSE state[t]]
  BY DEF Kill
<1>4. ASSUME NEW t \in Tools
      PROVE  /\ rows'[t] \in Seq(Int) /\ state'[t] \in Int
             /\ FileFine(published, rows'[t], state'[t])
  <2>1. /\ rows[t] \in Seq(Int) /\ state[t] \in Int /\ worker[r][t].buffer \in Seq(Nat)
        /\ FileFine(published, rows[t], state[t])
    BY WorkerKnown
  <2>2. landed[t] \in Seq(Int)
    BY <1>2, <2>1, LandedIs
  <2>3. rows'[t] = rows[t] \o landed[t]
    BY <1>2
  <2>4. rows'[t] \in Seq(Int) /\ FileFine(published, rows'[t], state[t])
    BY <2>1, <2>2, <2>3, FileGrows
  <2>5. state'[t] = -1 \/ state'[t] = state[t]
    BY <1>3
  <2>6. FileFine(published, rows'[t], -1)
    BY <2>4, SequenceIs DEF FileFine
  <2> QED
    BY <2>1, <2>4, <2>5, <2>6
<1>5. rows' \in [Tools -> Seq(Int)] /\ state' \in [Tools -> Int]
  BY <1>2, <1>3, <1>4
<1> QED
  BY <1>1, <1>4, <1>5, RunIsOff

(* ---------- The bench ---------- *)

LEMMA BenchKeeps ==
  ASSUME InvBench, [Next]_allvars
  PROVE  InvBench'
<1>1. CASE UNCHANGED benchvars
  BY <1>1 DEF benchvars, InvBench, TypesBench, Owned, Files, Workers, Cells
<1>2. ASSUME NEW r \in Runs, Work(r) \/ Start(r) \/ Forget(r) \/ Kill(r), UNCHANGED published
      PROVE  InvBench'
  <2>1. CASE Work(r)
    BY <1>2, <2>1, ResumeKeeps, PredictKeeps, PredictRaisesKeeps, RowRaisesKeeps, FlushKeeps,
       MarkKeeps, CompleteKeeps, RecordKeeps, LoadDatasetKeeps, LoadFailsKeeps,
       WriteMatrixKeeps, ExitKeeps DEF Work
  <2> QED
    BY <1>2, <2>1, StartKeeps, ForgetKeeps, KillKeeps
<1>3. CASE RunBench
  BY <1>2, <1>3 DEF RunBench, NextBench
<1> QED
  BY <1>1, <1>3 DEF Next, RunScore, allvars

\* As long as loaders agree, every cell that reads OK, in a run's memory or
\* in matrix.json, was scored on the samples of a cap, each with the
\* prediction made for it, whatever was killed, failed or torn before it
\* (run_combo, bench_full.py:745).
THEOREM OkCellsAreScored == LoadersAgree => (Spec => []OkMeansScored)
<1>1. LoadersAgree /\ Init => InvBench
  BY BenchBegins DEF Init
<1>2. InvBench /\ [Next]_allvars => InvBench'
  BY BenchKeeps
<1>3. InvBench => OkMeansScored
  BY DEF InvBench, Cells, CellFine, OkMeansScored
<1> QED
  BY <1>1, <1>2, <1>3, PTL DEF Spec

\* As long as loaders agree, the checkpoint behind a cell that a run has
\* recorded as OK holds the rows of its samples, all of them, in order and
\* no others (run_combo and _resume_rows).
THEOREM CheckpointsMatchCells == LoadersAgree => (Spec => []CheckpointMatchesCell)
<1>1. LoadersAgree /\ Init => InvBench
  BY BenchBegins DEF Init
<1>2. InvBench /\ [Next]_allvars => InvBench'
  BY BenchKeeps
<1>3. InvBench => CheckpointMatchesCell
  BY DEF InvBench, Workers, Loaded, CheckpointMatchesCell
<1> QED
  BY <1>1, <1>2, <1>3, PTL DEF Spec

(* ---------- What the loaders give ---------- *)

(* The loaders the registries are made of, and what they have read. *)
Readers ==
  {l \in [fetch : Nat, least : Nat, skips : SUBSET Kinds, raises : SUBSET Kinds,
          draws : SUBSET Kinds, whole : BOOLEAN] : l.whole => l.fetch = Every}
Samples == Seq(Nat)
Readings == [samples : Seq(Samples), drawn : Nat, raised : BOOLEAN]

(* One reading goes on where another stopped. *)
Extends(a, b) ==
  /\ Len(a.samples) <= Len(b.samples)
  /\ \A i \in 1 .. Len(a.samples) : b.samples[i] = a.samples[i]

(* Reading for cap m and for a larger one: the same, until the first has   *)
(* samples enough.                                                         *)
Together(l, m, a, b) ==
  a = b \/ (~l.whole /\ Len(a.samples) >= m /\ ~a.raised /\ Extends(a, b))

LEMMA ExtendsItself == ASSUME NEW a \in Readings PROVE Extends(a, a)
BY LenProperties DEF Extends, Readings

LEMMA ExtendsOn ==
  ASSUME NEW a \in Readings, NEW b \in Readings, NEW c \in Readings,
         Extends(a, b), Extends(b, c)
  PROVE  Extends(a, c)
<1>1. Len(a.samples) \in Nat /\ Len(b.samples) \in Nat /\ Len(c.samples) \in Nat
  BY LenProperties DEF Readings
<1> QED  BY <1>1 DEF Extends

LEMMA TogetherExtends ==
  ASSUME NEW l, NEW m, NEW a \in Readings, NEW b \in Readings, Together(l, m, a, b)
  PROVE  Extends(a, b)
BY ExtendsItself DEF Together

\* A row leaves the samples there are, and adds one at most.
LEMMA ReadAdds ==
  ASSUME NEW l \in Readers, NEW n \in Nat, NEW acc \in Readings,
         NEW at \in Samples, NEW kind
  PROVE  Read(l, n, acc, at, kind) \in Readings /\ Extends(acc, Read(l, n, acc, at, kind))
<1> DEFINE new == Read(l, n, acc, at, kind)
           s == at \o <<acc.drawn>>
<1>1. acc.samples \in Seq(Samples) /\ acc.drawn \in Nat /\ acc.raised \in BOOLEAN
  BY DEF Readings
<1>2. s \in Samples
  BY <1>1, ConcatProperties DEF Samples
<1>3. CASE acc.raised \/ (~l.whole /\ Len(acc.samples) >= n)
  BY <1>3, ExtendsItself DEF Read
<1>4. CASE ~(acc.raised \/ (~l.whole /\ Len(acc.samples) >= n))
  <2> DEFINE t == IF kind \in l.skips \cup l.raises THEN acc.samples
                  ELSE Append(acc.samples, s)
  <2>1. new = [samples |-> t,
               drawn |-> IF kind \in l.draws THEN acc.drawn + 1 ELSE acc.drawn,
               raised |-> kind \in l.raises]
    BY <1>4 DEF Read
  <2> HIDE DEF s
  <2>2. /\ t \in Seq(Samples) /\ Len(acc.samples) <= Len(t)
        /\ \A i \in 1 .. Len(acc.samples) : t[i] = acc.samples[i]
    <3>1. CASE kind \in l.skips \cup l.raises
      BY <1>1, <3>1, LenProperties
    <3>2. CASE kind \notin l.skips \cup l.raises
      <4>1. /\ Append(acc.samples, s) \in Seq(Samples)
            /\ Len(Append(acc.samples, s)) = Len(acc.samples) + 1
            /\ \A i \in 1 .. Len(acc.samples) : Append(acc.samples, s)[i] = acc.samples[i]
        BY <1>1, <1>2, AppendProperties
      <4>2. Len(acc.samples) \in Nat
        BY <1>1, LenProperties
      <4> QED  BY <3>2, <4>1, <4>2
    <3> QED  BY <3>1, <3>2
  <2> HIDE DEF t, new
  <2>3. new \in Readings
    BY <1>1, <2>1, <2>2 DEF Readings
  <2>4. Extends(acc, new)
    BY <2>1, <2>2 DEF Extends
  <2> QED  BY <2>3, <2>4 DEF new
<1> QED  BY <1>3, <1>4

\* Readings for two caps stay together over a row.
LEMMA ReadTogether ==
  ASSUME NEW l \in Readers, NEW m \in Nat, NEW n \in Nat, m <= n,
         NEW a \in Readings, NEW b \in Readings, Together(l, m, a, b),
         NEW at \in Samples, NEW kind
  PROVE  Together(l, m, Read(l, m, a, at, kind), Read(l, n, b, at, kind))
<1> DEFINE a1 == Read(l, m, a, at, kind)
           b1 == Read(l, n, b, at, kind)
<1>1. a1 \in Readings /\ b1 \in Readings /\ Extends(b, b1)
  BY ReadAdds
<1>2. Len(a.samples) \in Nat /\ Len(b.samples) \in Nat
  BY LenProperties DEF Readings
<1>3. ASSUME ~l.whole, Len(a.samples) >= m, ~a.raised, Extends(a, b)
      PROVE  Together(l, m, a1, b1)
  <2>1. a1 = a
    BY <1>3 DEF Read
  <2>2. Extends(a, b1)
    BY <1>1, <1>3, ExtendsOn
  <2> HIDE DEF a1, b1
  <2> QED  BY <1>3, <2>1, <2>2 DEF Together
<1>4. ASSUME a = b PROVE Together(l, m, a1, b1)
  <2>1. CASE a.raised
    <3>1. a1 = a /\ b1 = b
      BY <1>4, <2>1 DEF Read
    <3> HIDE DEF a1, b1
    <3> QED  BY <1>4, <3>1 DEF Together
  <2>2. CASE ~a.raised /\ ~l.whole /\ Len(a.samples) >= m
    BY <1>3, <1>4, <2>2, ExtendsItself
  <2>3. CASE ~a.raised /\ (l.whole \/ ~(Len(a.samples) >= m))
    <3>1. ~(a.raised \/ (~l.whole /\ Len(a.samples) >= m))
          /\ ~(b.raised \/ (~l.whole /\ Len(b.samples) >= n))
      BY <1>2, <1>4, <2>3
    <3>2. a1 = b1
      BY <1>4, <3>1 DEF Read
    <3> HIDE DEF a1, b1
    <3> QED  BY <3>2 DEF Together
  <2> QED  BY <2>1, <2>2, <2>3
<1> QED  BY <1>3, <1>4 DEF Together

(* The rows that are fetched of a file. *)
Fetched(l, n, acc, kinds) ==
  IF l.fetch = Every THEN Len(kinds)
  ELSE Fewer(More(l.fetch * (n - Len(acc.samples)), l.least), Len(kinds))

(* The readings along the first rows of a file.                            *)
Rows(l, n, acc, file, kinds, last) ==
  {h \in [0 .. last -> Readings] :
     h[0] = acc /\ \A i \in 1 .. last : h[i] = Read(l, n, h[i - 1], <<file, i>>, kinds[i])}

LEMMA RowName ==
  ASSUME NEW file \in Nat, NEW i \in Nat
  PROVE  <<file, i>> \in Samples
BY DEF Samples

LEMMA FetchedRows ==
  ASSUME NEW l \in Readers, NEW n \in Nat, NEW acc \in Readings, NEW kinds \in Seq(Kinds)
  PROVE  /\ Len(kinds) \in Nat
         /\ Fetched(l, n, acc, kinds) \in 0 .. Len(kinds)
         /\ l.fetch = Every => Fetched(l, n, acc, kinds) = Len(kinds)
<1>1. Len(kinds) \in Nat /\ Len(acc.samples) \in Nat /\ l.fetch \in Nat /\ l.least \in Nat
  BY LenProperties DEF Readings, Readers
<1> DEFINE want == l.fetch * (n - Len(acc.samples))
           enough == More(want, l.least)
<1>2. want \in Int
  BY <1>1
<1> HIDE DEF want
<1>3. enough \in Nat
  BY <1>1, <1>2 DEF More
<1> HIDE DEF enough
<1>4. Fewer(enough, Len(kinds)) \in 0 .. Len(kinds)
  BY <1>1, <1>3 DEF Fewer
<1>5. Fetched(l, n, acc, kinds) = IF l.fetch = Every THEN Len(kinds) ELSE Fewer(enough, Len(kinds))
  BY DEF Fetched, enough, want
<1> QED  BY <1>1, <1>4, <1>5

\* What a file gives is the end of its rows.
LEMMA FileIsRows ==
  ASSUME NEW l \in Readers, NEW n \in Nat, NEW acc \in Readings, NEW file \in Nat,
         NEW kinds \in Seq(Kinds)
  PROVE  \E h \in Rows(l, n, acc, file, kinds, Fetched(l, n, acc, kinds)) :
           ReadFile(l, n, acc, file, kinds) = h[Fetched(l, n, acc, kinds)]
<1> DEFINE N == Fetched(l, n, acc, kinds)
           Row(a, i) == Read(l, n, a, <<file, i>>, kinds[i])
           Run(g) == g = [i \in 0 .. N |-> IF i = 0 THEN acc ELSE Row(g[i - 1], i)]
           step == [i \in 1 .. N |-> [a \in Readings |-> Row(a, i)]]
           h == CHOOSE g : Run(g)
<1>1. N \in Nat
  BY FetchedRows
<1>2. \A a \in Readings, i \in 1 .. N : Row(a, i) \in Readings
  <2> SUFFICES ASSUME NEW a \in Readings, NEW i \in 1 .. N PROVE Row(a, i) \in Readings
    OBVIOUS
  <2>1. <<file, i>> \in Samples
    BY <1>1, RowName
  <2> QED  BY <2>1, ReadAdds
<1>3. ReadFile(l, n, acc, file, kinds) = h[N]
  BY DEF ReadFile, Fetched
<1> HIDE DEF h, N, Row
<1>4. step \in [1 .. N -> [Readings -> Readings]]
  BY <1>2
<1>5. \A a \in Readings, i \in 1 .. N : step[i][a] = Row(a, i)
  OBVIOUS
<1> HIDE DEF step, Run
<1>6. PICK f \in Iterations(Readings, acc, N, step) : TRUE
  BY <1>1, <1>4, Iterates
<1>7. /\ f \in [0 .. N -> Readings]
      /\ f[0] = acc /\ \A i \in 1 .. N : f[i] = step[i][f[i - 1]]
  BY <1>6 DEF Iterations
<1>8. Run(f)
  <2>1. ASSUME NEW i \in 1 .. N PROVE f[i] = Row(f[i - 1], i)
    <3>1. i - 1 \in 0 .. N /\ f[i - 1] \in Readings
      BY <1>1, <1>7
    <3>2. f[i] = step[i][f[i - 1]]
      BY <1>7
    <3> QED  BY <1>5, <3>1, <3>2
  <2> QED  BY <1>1, <1>7, <2>1 DEF Run
<1>9. Run(h)
  BY <1>8 DEF h
<1>10. /\ DOMAIN h = 0 .. N /\ h = [i \in 0 .. N |-> h[i]]
       /\ h[0] = acc /\ \A i \in 1 .. N : h[i] = Row(h[i - 1], i)
  BY <1>1, <1>9 DEF Run
<1> DEFINE S == {i \in 0 .. N : h[i] \in Readings}
<1>11. \A i \in 0 .. N : i \in S
  <2>1. 0 \in S
    BY <1>1, <1>10
  <2>2. \A i \in 1 .. N : i - 1 \in S => i \in S
    BY <1>1, <1>2, <1>10
  <2> HIDE DEF S
  <2> QED  BY <1>1, <2>1, <2>2, InductionUpTo
<1>12. h \in [0 .. N -> Readings]
  BY <1>10, <1>11
<1>13. h \in Rows(l, n, acc, file, kinds, N)
  BY <1>10, <1>12 DEF Rows, Row
<1> QED  BY <1>3, <1>13 DEF N

\* Along a file samples are only added.
LEMMA RowsExtend ==
  ASSUME NEW l \in Readers, NEW n \in Nat, NEW acc \in Readings, NEW file \in Nat,
         NEW kinds, NEW last \in Nat, NEW h \in Rows(l, n, acc, file, kinds, last),
         NEW from \in 0 .. last
  PROVE  Extends(h[from], h[last])
<1>1. /\ h \in [0 .. last -> Readings]
      /\ \A i \in 1 .. last : h[i] = Read(l, n, h[i - 1], <<file, i>>, kinds[i])
  BY DEF Rows
<1> DEFINE Good(i) == i >= from => Extends(h[from], h[i])
           S == {i \in 0 .. last : Good(i)}
<1>2. Good(0)
  <2>1. from \in Nat /\ (0 >= from => from = 0) /\ h[0] \in Readings
    BY <1>1
  <2> QED  BY <2>1, ExtendsItself
<1>3. ASSUME NEW i \in 1 .. last, Good(i - 1) PROVE Good(i)
  <2>1. i \in Nat /\ h[i] \in Readings /\ h[i - 1] \in Readings /\ h[from] \in Readings
        /\ i - 1 \in Nat
    BY <1>1
  <2>2. CASE i = from
    BY <2>1, <2>2, ExtendsItself
  <2>3. CASE i > from
    <3>1. Extends(h[from], h[i - 1])
      BY <1>3, <2>1, <2>3
    <3>2. <<file, i>> \in Samples
      BY <2>1, RowName
    <3>3. Extends(h[i - 1], h[i])
      BY <1>1, <2>1, <3>2, ReadAdds
    <3> QED  BY <2>1, <3>1, <3>3, ExtendsOn
  <2>4. CASE i < from
    BY <2>1, <2>4
  <2> QED  BY <2>1, <2>2, <2>3, <2>4
<1> HIDE DEF Good
<1>4. \A i \in 0 .. last : i \in S
  <2>1. 0 \in S /\ \A i \in 1 .. last : i - 1 \in S => i \in S
    BY <1>2, <1>3
  <2> HIDE DEF S
  <2> QED  BY <2>1, InductionUpTo
<1> QED  BY <1>4 DEF Good

\* As far as both go, readings for two caps stay together.
LEMMA RowsTogether ==
  ASSUME NEW l \in Readers, NEW m \in Nat, NEW n \in Nat, m <= n,
         NEW a \in Readings, NEW b \in Readings, Together(l, m, a, b),
         NEW file \in Nat, NEW kinds, NEW last \in Nat, NEW more \in Nat, last <= more,
         NEW f \in Rows(l, m, a, file, kinds, last),
         NEW g \in Rows(l, n, b, file, kinds, more)
  PROVE  Together(l, m, f[last], g[last])
<1>1. /\ f \in [0 .. last -> Readings] /\ f[0] = a
      /\ \A i \in 1 .. last : f[i] = Read(l, m, f[i - 1], <<file, i>>, kinds[i])
  BY DEF Rows
<1>2. /\ g \in [0 .. more -> Readings] /\ g[0] = b
      /\ \A i \in 1 .. more : g[i] = Read(l, n, g[i - 1], <<file, i>>, kinds[i])
  BY DEF Rows
<1> DEFINE Good(i) == Together(l, m, f[i], g[i])
           S == {i \in 0 .. last : Good(i)}
<1>3. ASSUME NEW i \in 1 .. last, Good(i - 1) PROVE Good(i)
  <2>1. i \in Nat /\ i \in 1 .. more /\ f[i - 1] \in Readings /\ g[i - 1] \in Readings
    BY <1>1, <1>2
  <2>2. <<file, i>> \in Samples
    BY <2>1, RowName
  <2>3. /\ f[i] = Read(l, m, f[i - 1], <<file, i>>, kinds[i])
        /\ g[i] = Read(l, n, g[i - 1], <<file, i>>, kinds[i])
    BY <1>1, <1>2, <2>1
  <2> QED  BY <1>3, <2>1, <2>2, <2>3, ReadTogether
<1>4. Good(0)
  BY <1>1, <1>2
<1> HIDE DEF Good
<1>5. \A i \in 0 .. last : i \in S
  <2>1. 0 \in S /\ \A i \in 1 .. last : i - 1 \in S => i \in S
    BY <1>3, <1>4
  <2> HIDE DEF S
  <2> QED  BY <2>1, InductionUpTo
<1> QED  BY <1>5 DEF Good

LEMMA TimesGrows ==
  ASSUME NEW k \in Nat, NEW x \in Int, NEW y \in Int, x <= y
  PROVE  k * x <= k * y
<1>1. k * (y - x) >= 0 /\ k * (y - x) = k * y - k * x
  OBVIOUS
<1>2. k * x \in Int /\ k * y \in Int
  OBVIOUS
<1> QED  BY <1>1, <1>2

\* A larger cap fetches no fewer rows.
LEMMA FetchedGrows ==
  ASSUME NEW l \in Readers, NEW m \in Nat, NEW n \in Nat, m <= n,
         NEW acc \in Readings, NEW kinds \in Seq(Kinds)
  PROVE  Fetched(l, m, acc, kinds) <= Fetched(l, n, acc, kinds)
<1>1. Len(kinds) \in Nat /\ Len(acc.samples) \in Nat /\ l.fetch \in Nat /\ l.least \in Nat
  BY LenProperties DEF Readings, Readers
<1> DEFINE x == m - Len(acc.samples)
           y == n - Len(acc.samples)
           wm == l.fetch * x
           wn == l.fetch * y
<1>2. x \in Int /\ y \in Int /\ x <= y
  BY <1>1
<1> HIDE DEF x, y
<1>3. wm <= wn /\ wm \in Int /\ wn \in Int
  BY <1>1, <1>2, TimesGrows
<1>4. /\ Fetched(l, m, acc, kinds) =
           IF l.fetch = Every THEN Len(kinds) ELSE Fewer(More(wm, l.least), Len(kinds))
      /\ Fetched(l, n, acc, kinds) =
           IF l.fetch = Every THEN Len(kinds) ELSE Fewer(More(wn, l.least), Len(kinds))
  BY DEF Fetched, x, y
<1> HIDE DEF wm, wn
<1>5. Fewer(More(wm, l.least), Len(kinds)) <= Fewer(More(wn, l.least), Len(kinds))
  BY <1>1, <1>3 DEF Fewer, More
<1> QED  BY <1>1, <1>4, <1>5

LEMMA ReadFileIs ==
  ASSUME NEW l \in Readers, NEW n \in Nat, NEW acc \in Readings, NEW file \in Nat,
         NEW kinds \in Seq(Kinds)
  PROVE  ReadFile(l, n, acc, file, kinds) \in Readings
<1> DEFINE N == Fetched(l, n, acc, kinds)
<1>1. N \in Nat
  BY FetchedRows
<1>2. PICK h \in Rows(l, n, acc, file, kinds, N) : ReadFile(l, n, acc, file, kinds) = h[N]
  BY FileIsRows
<1>3. h \in [0 .. N -> Readings]
  BY <1>2 DEF Rows
<1> QED  BY <1>1, <1>2, <1>3

\* One file, from the same start, under a larger cap: what it gave goes on.
LEMMA OneFile ==
  ASSUME NEW l \in Readers, NEW m \in Nat, NEW n \in Nat, m <= n,
         NEW acc \in Readings, NEW file \in Nat, NEW kinds \in Seq(Kinds)
  PROVE  Extends(ReadFile(l, m, acc, file, kinds), ReadFile(l, n, acc, file, kinds))
<1> DEFINE M == Fetched(l, m, acc, kinds)
           N == Fetched(l, n, acc, kinds)
<1>1. M \in Nat /\ N \in Nat /\ M <= N
  BY FetchedRows, FetchedGrows
<1>2. PICK f \in Rows(l, m, acc, file, kinds, M) : ReadFile(l, m, acc, file, kinds) = f[M]
  BY FileIsRows
<1>3. PICK g \in Rows(l, n, acc, file, kinds, N) : ReadFile(l, n, acc, file, kinds) = g[N]
  BY FileIsRows
<1> HIDE DEF M, N
<1>4. /\ f \in [0 .. M -> Readings] /\ g \in [0 .. N -> Readings]
      /\ M \in 0 .. N
  BY <1>1 DEF Rows
<1>5. f[M] \in Readings /\ g[M] \in Readings /\ g[N] \in Readings
  BY <1>1, <1>4
<1>6. Together(l, m, acc, acc)
  BY DEF Together
<1>7. Together(l, m, f[M], g[M])
  BY <1>1, <1>6, RowsTogether
<1>8. Extends(f[M], g[M])
  BY <1>5, <1>7, TogetherExtends
<1>9. Extends(g[M], g[N])
  BY <1>1, <1>4, RowsExtend
<1>10. Extends(f[M], g[N])
  BY <1>5, <1>8, <1>9, ExtendsOn
<1> QED  BY <1>2, <1>3, <1>10

\* A file that is read as a whole keeps readings together.
LEMMA WholeFile ==
  ASSUME NEW l \in Readers, l.fetch = Every, NEW m \in Nat, NEW n \in Nat, m <= n,
         NEW a \in Readings, NEW b \in Readings, Together(l, m, a, b),
         NEW file \in Nat, NEW kinds \in Seq(Kinds)
  PROVE  Together(l, m, ReadFile(l, m, a, file, kinds), ReadFile(l, n, b, file, kinds))
<1> DEFINE N == Len(kinds)
<1>1. N \in Nat /\ N <= N /\ Fetched(l, m, a, kinds) = N /\ Fetched(l, n, b, kinds) = N
  <2>1. N \in Nat
    BY LenProperties
  <2>2. Fetched(l, m, a, kinds) = N /\ Fetched(l, n, b, kinds) = N
    BY DEF Fetched
  <2> QED  BY <2>1, <2>2
<1> DEFINE M == Fetched(l, m, a, kinds)
           K == Fetched(l, n, b, kinds)
<1>2. PICK f \in Rows(l, m, a, file, kinds, M) : ReadFile(l, m, a, file, kinds) = f[M]
  BY FileIsRows
<1>3. PICK g \in Rows(l, n, b, file, kinds, K) : ReadFile(l, n, b, file, kinds) = g[K]
  BY FileIsRows
<1>5. M = N /\ K = N
  BY <1>1
<1> HIDE DEF N, M, K
<1>6. f \in Rows(l, m, a, file, kinds, N) /\ g \in Rows(l, n, b, file, kinds, N)
  BY <1>2, <1>3, <1>5
<1>4. Together(l, m, f[N], g[N])
  BY <1>1, <1>6, RowsTogether
<1> QED  BY <1>2, <1>3, <1>4, <1>5

NothingRead == [samples |-> <<>>, drawn |-> 0, raised |-> FALSE]
(* The readings from file to file.                                         *)
FilesRead(l, files, n) ==
  {h \in [0 .. Len(files) -> Readings] :
     /\ h[0] = NothingRead
     /\ \A f \in 1 .. Len(files) : h[f] = ReadFile(l, n, h[f - 1], f, files[f])}

LEMMA NothingIsRead == NothingRead \in Readings
BY DEF NothingRead, Readings

LEMMA FilesAreRead ==
  ASSUME NEW l \in Readers, NEW n \in Nat, NEW files \in Seq(Seq(Kinds))
  PROVE  \E h \in FilesRead(l, files, n) : ReadFiles(l, files, n) = h[Len(files)]
<1> DEFINE N == Len(files)
           File(a, f) == ReadFile(l, n, a, f, files[f])
           Run(g) == g = [f \in 0 .. N |-> IF f = 0 THEN NothingRead ELSE File(g[f - 1], f)]
           step == [f \in 1 .. N |-> [a \in Readings |-> File(a, f)]]
           h == CHOOSE g : Run(g)
<1>1. N \in Nat /\ \A f \in 1 .. N : f \in Nat /\ files[f] \in Seq(Kinds)
  BY LenProperties
<1>2. \A a \in Readings, f \in 1 .. N : File(a, f) \in Readings
  BY <1>1, ReadFileIs
<1>3. ReadFiles(l, files, n) = h[N]
  BY DEF ReadFiles, NothingRead
<1> HIDE DEF h, N, File
<1>4. step \in [1 .. N -> [Readings -> Readings]]
  BY <1>2
<1>5. \A a \in Readings, f \in 1 .. N : step[f][a] = File(a, f)
  OBVIOUS
<1> HIDE DEF step, Run
<1>6. PICK u \in Iterations(Readings, NothingRead, N, step) : TRUE
  BY <1>1, <1>4, NothingIsRead, Iterates
<1>7. /\ u \in [0 .. N -> Readings]
      /\ u[0] = NothingRead /\ \A f \in 1 .. N : u[f] = step[f][u[f - 1]]
  BY <1>6 DEF Iterations
<1>8. Run(u)
  <2>1. ASSUME NEW f \in 1 .. N PROVE u[f] = File(u[f - 1], f)
    <3>1. f - 1 \in 0 .. N /\ u[f - 1] \in Readings
      BY <1>1, <1>7
    <3>2. u[f] = step[f][u[f - 1]]
      BY <1>7
    <3> QED  BY <1>5, <3>1, <3>2
  <2> QED  BY <1>1, <1>7, <2>1 DEF Run
<1>9. Run(h)
  BY <1>8 DEF h
<1>10. /\ DOMAIN h = 0 .. N /\ h = [f \in 0 .. N |-> h[f]]
       /\ h[0] = NothingRead /\ \A f \in 1 .. N : h[f] = File(h[f - 1], f)
  <2>1. h = [f \in 0 .. N |-> IF f = 0 THEN NothingRead ELSE File(h[f - 1], f)]
    BY <1>9 DEF Run
  <2>2. DOMAIN h = 0 .. N /\ h = [f \in 0 .. N |-> h[f]]
    BY <2>1
  <2>3. \A f \in 0 .. N : h[f] = IF f = 0 THEN NothingRead ELSE File(h[f - 1], f)
    BY <2>1
  <2>4. 0 \in 0 .. N /\ \A f \in 1 .. N : f \in 0 .. N /\ f # 0
    BY <1>1
  <2> QED  BY <2>2, <2>3, <2>4
<1> DEFINE S == {f \in 0 .. N : h[f] \in Readings}
<1>11. \A f \in 0 .. N : f \in S
  <2>1. 0 \in S
    BY <1>1, <1>10, NothingIsRead
  <2>2. ASSUME NEW f \in 1 .. N, f - 1 \in S PROVE f \in S
    <3>1. f \in 0 .. N /\ h[f - 1] \in Readings
      BY <1>1, <2>2
    <3>2. h[f] \in Readings
      BY <1>2, <1>10, <3>1
    <3> QED  BY <3>1, <3>2
  <2> HIDE DEF S
  <2> QED  BY <1>1, <2>1, <2>2, InductionUpTo
<1>12. h \in [0 .. N -> Readings]
  BY <1>10, <1>11
<1>13. h \in FilesRead(l, files, n)
  BY <1>10, <1>12 DEF FilesRead, File, N
<1> QED  BY <1>3, <1>13 DEF N

\* What a set gives for a cap it gives for a larger one too, and goes on.
LEMMA ReadFilesExtend ==
  ASSUME NEW l \in Readers, NEW files \in Seq(Seq(Kinds)),
         Len(files) = 1 \/ l.fetch = Every,
         NEW m \in Nat, NEW n \in Nat, m <= n
  PROVE  /\ ReadFiles(l, files, m) \in Readings /\ ReadFiles(l, files, n) \in Readings
         /\ Extends(ReadFiles(l, files, m), ReadFiles(l, files, n))
<1> DEFINE N == Len(files)
<1>1. N \in Nat /\ \A f \in 1 .. N : f \in Nat /\ files[f] \in Seq(Kinds)
  BY LenProperties
<1>2. PICK a \in FilesRead(l, files, m) : ReadFiles(l, files, m) = a[N]
  BY FilesAreRead
<1>3. PICK b \in FilesRead(l, files, n) : ReadFiles(l, files, n) = b[N]
  BY FilesAreRead
<1>4. /\ a \in [0 .. N -> Readings] /\ a[0] = NothingRead
      /\ \A f \in 1 .. N : a[f] = ReadFile(l, m, a[f - 1], f, files[f])
  BY DEF FilesRead
<1>5. /\ b \in [0 .. N -> Readings] /\ b[0] = NothingRead
      /\ \A f \in 1 .. N : b[f] = ReadFile(l, n, b[f - 1], f, files[f])
  BY DEF FilesRead
<1>6. a[N] \in Readings /\ b[N] \in Readings
  BY <1>1, <1>4, <1>5
<1>7. CASE N = 1
  <2>1. /\ a[1] = ReadFile(l, m, a[0], 1, files[1])
        /\ b[1] = ReadFile(l, n, b[0], 1, files[1])
    BY <1>4, <1>5, <1>7
  <2>2. files[1] \in Seq(Kinds)
    BY <1>1, <1>7
  <2>3. Extends(a[1], b[1])
    BY <1>4, <1>5, <2>1, <2>2, NothingIsRead, OneFile
  <2> QED  BY <1>2, <1>3, <1>6, <1>7, <2>3
<1>8. CASE l.fetch = Every
  <2> DEFINE Good(f) == Together(l, m, a[f], b[f])
             S == {f \in 0 .. N : Good(f)}
  <2>1. Good(0)
    BY <1>4, <1>5 DEF Together
  <2>2. ASSUME NEW f \in 1 .. N, Good(f - 1) PROVE Good(f)
    <3>1. a[f - 1] \in Readings /\ b[f - 1] \in Readings
      <4>1. f - 1 \in 0 .. N
        BY <1>1
      <4> HIDE DEF N
      <4> QED  BY <1>4, <1>5, <4>1
    <3>2. f \in Nat /\ files[f] \in Seq(Kinds)
      BY <1>1
    <3>3. /\ a[f] = ReadFile(l, m, a[f - 1], f, files[f])
          /\ b[f] = ReadFile(l, n, b[f - 1], f, files[f])
      BY <1>4, <1>5
    <3> QED  BY <1>8, <2>2, <3>1, <3>2, <3>3, WholeFile
  <2> HIDE DEF Good
  <2>3. \A f \in 0 .. N : f \in S
    <3>1. 0 \in S /\ \A f \in 1 .. N : f - 1 \in S => f \in S
      BY <1>1, <2>1, <2>2
    <3> HIDE DEF S
    <3> QED  BY <1>1, <3>1, InductionUpTo
  <2>4. Together(l, m, a[N], b[N])
    BY <1>1, <2>3 DEF Good
  <2>5. Extends(a[N], b[N])
    BY <1>6, <2>4, TogetherExtends
  <2> QED  BY <1>2, <1>3, <1>6, <2>5
<1> QED  BY <1>7, <1>8

SameFirst(s, u) == \A i \in (DOMAIN s) \cap (DOMAIN u) : s[i] = u[i]

LEMMA SameFirstBothWays ==
  ASSUME NEW s, NEW u, SameFirst(s, u)
  PROVE  SameFirst(u, s)
BY DEF SameFirst

\* A set's samples, cut to the cap.
LEMMA LoadIs ==
  ASSUME NEW l, NEW files, NEW n \in Nat, ReadFiles(l, files, n) \in Readings
  PROVE  /\ Load(l, files, n) \in Seq(Samples)
         /\ \A i \in DOMAIN Load(l, files, n) :
              /\ i \in 1 .. Len(ReadFiles(l, files, n).samples)
              /\ Load(l, files, n)[i] = ReadFiles(l, files, n).samples[i]
<1> DEFINE all == ReadFiles(l, files, n)
           s == all.samples
           k == Fewer(n, Len(s))
<1>1. s \in Seq(Samples) /\ Len(s) \in Nat
  BY LenProperties DEF Readings
<1>2. k \in Nat /\ k <= Len(s)
  BY <1>1 DEF Fewer
<1>3. Load(l, files, n) = IF all.raised THEN <<>> ELSE SubSeq(s, 1, k)
  BY DEF Load
<1> HIDE DEF all, s, k
<1>4. /\ SubSeq(s, 1, k) \in Seq(Samples)
      /\ DOMAIN SubSeq(s, 1, k) = 1 .. k
      /\ \A i \in 1 .. k : SubSeq(s, 1, k)[i] = s[i]
  BY <1>1, <1>2
<1>5. /\ <<>> \in Seq(Samples)
      /\ DOMAIN (<<>>) = {}
  OBVIOUS
<1>6. \A i \in 1 .. k : i \in 1 .. Len(s)
  BY <1>1, <1>2
<1>7. /\ Load(l, files, n) \in Seq(Samples)
      /\ \A i \in DOMAIN Load(l, files, n) :
           i \in 1 .. Len(s) /\ Load(l, files, n)[i] = s[i]
  <2>1. CASE all.raised
    BY <1>3, <1>5, <2>1
  <2>2. CASE ~all.raised
    BY <1>3, <1>4, <1>6, <2>2
  <2> QED  BY <2>1, <2>2
<1> QED  BY <1>7 DEF all, s

LEMMA LoadSteady ==
  ASSUME NEW l \in Readers, NEW files \in Seq(Seq(Kinds)),
         Len(files) = 1 \/ l.fetch = Every,
         NEW m \in Nat, NEW n \in Nat
  PROVE  /\ Load(l, files, m) \in Seq(Samples)
         /\ SameFirst(Load(l, files, m), Load(l, files, n))
<1>1. ASSUME NEW x \in Nat, NEW y \in Nat, x <= y
      PROVE  /\ Load(l, files, x) \in Seq(Samples)
             /\ SameFirst(Load(l, files, x), Load(l, files, y))
  <2> DEFINE a == ReadFiles(l, files, x)
             b == ReadFiles(l, files, y)
  <2>1. a \in Readings /\ b \in Readings /\ Extends(a, b)
    BY <1>1, ReadFilesExtend
  <2>2. /\ Load(l, files, x) \in Seq(Samples)
        /\ \A i \in DOMAIN Load(l, files, x) :
             i \in 1 .. Len(a.samples) /\ Load(l, files, x)[i] = a.samples[i]
    BY <2>1, LoadIs
  <2>3. \A i \in DOMAIN Load(l, files, y) : Load(l, files, y)[i] = b.samples[i]
    BY <2>1, LoadIs
  <2>4. \A i \in 1 .. Len(a.samples) : b.samples[i] = a.samples[i]
    BY <2>1 DEF Extends
  <2> HIDE DEF a, b
  <2> QED  BY <2>2, <2>3, <2>4 DEF SameFirst
<1>2. CASE m <= n
  BY <1>1, <1>2
<1>3. CASE n <= m
  BY <1>1, <1>3, SameFirstBothWays
<1>4. Load(l, files, m) \in Seq(Samples)
  <2>1. m <= m
    OBVIOUS
  <2> QED  BY <1>1, <2>1
<1> QED  BY <1>2, <1>3, <1>4

(* ---------- The registries ---------- *)

LEMMA LoaderReads ==
  ASSUME NEW fetch \in Nat, NEW least \in Nat, NEW skips \in SUBSET Kinds,
         NEW raises \in SUBSET Kinds
  PROVE  Loader(fetch, least, skips, raises) \in Readers
BY DEF Loader, Readers

LEMMA WholeReads ==
  ASSUME NEW l \in Readers, l.fetch = Every
  PROVE  Whole(l) \in Readers
BY DEF Whole, Readers

LEMMA PlantedReads ==
  ASSUME NEW fetch \in Nat, NEW undrawn \in SUBSET Kinds
  PROVE  Planted(fetch, undrawn) \in Readers
<1>1. /\ undrawn \cup {"flat"} \in SUBSET Kinds /\ {} \in SUBSET Kinds
      /\ Kinds \ undrawn \in SUBSET Kinds
  BY DEF Kinds
<1>2. LeastFetch \in Nat
  BY LoadersAssumption
<1> HIDE DEF Kinds
<1> DEFINE l == Loader(fetch, LeastFetch, undrawn \cup {"flat"}, {})
<1>3. l \in Readers /\ l.whole = FALSE
  <2>1. l \in Readers
    BY <1>1, <1>2, LoaderReads
  <2>2. l.whole = FALSE
    BY DEF Loader
  <2> QED  BY <2>1, <2>2
<1>4. Planted(fetch, undrawn) = [l EXCEPT !.draws = Kinds \ undrawn]
  BY DEF Planted
<1> HIDE DEF l
<1> QED  BY <1>1, <1>3, <1>4 DEF Readers

\* Every loader of the registries reads a cap as a loader should.
LEMMA ConfigsRead ==
  \A key \in DOMAIN DatasetConfigs : DatasetConfigs[key] \in Readers
<1>1. \A a, b, c, d : a \in Nat /\ b \in Nat /\ c \in SUBSET Kinds /\ d \in SUBSET Kinds
        => Loader(a, b, c, d) \in Readers
  BY LoaderReads
<1>2. LeastFetch \in Nat
  BY LoadersAssumption
<1>3. /\ NullpiiBench \in Readers /\ TabEchr \in Readers /\ Charspan \in Readers
      /\ Ai4privacy400k \in Readers /\ Ai4privacy(1) \in Readers /\ Isotonic \in Readers
      /\ ArgillaPii \in Readers /\ NemotronPii \in Readers /\ RizzoCleanVal \in Readers
  BY <1>1, <1>2 DEF NullpiiBench, TabEchr, Charspan, Ai4privacy400k, Ai4privacy, Isotonic,
     ArgillaPii, NemotronPii, RizzoCleanVal, Kinds, Every, Ai4privacyLabels, IsotonicLabels,
     RizzoLabels, IsoLanguage
<1>4. \A a, b, c, d : a = Every /\ b \in Nat /\ c \in SUBSET Kinds /\ d \in SUBSET Kinds
        => Whole(Loader(a, b, c, d)) \in Readers
  <2> TAKE a, b, c, d
  <2> HAVE a = Every /\ b \in Nat /\ c \in SUBSET Kinds /\ d \in SUBSET Kinds
  <2>1. Loader(a, b, c, d) \in Readers
    BY <1>1 DEF Every
  <2>2. Loader(a, b, c, d).fetch = Every
    BY DEF Loader
  <2> QED  BY <2>1, <2>2, WholeReads
<1>5. PiimbTask \in Readers /\ FrozenRows \in Readers /\ Ab1Rows \in Readers
  BY <1>4 DEF PiimbTask, FrozenRows, Ab1Rows, Kinds, PiimbLabels
<1> QED  BY <1>3, <1>5 DEF DatasetConfigs

LEMMA PublicRead ==
  \A key \in DOMAIN PublicDatasets : PublicDatasets[key] \in Readers
<1>1. /\ Wikiann \in Readers /\ PresidioSynthetic \in Readers /\ BigcodePii \in Readers
  <2>1. \A a, b, c, d : a \in Nat /\ b \in Nat /\ c \in SUBSET Kinds /\ d \in SUBSET Kinds
          => Loader(a, b, c, d) \in Readers
    BY LoaderReads
  <2> QED  BY <2>1 DEF Wikiann, PresidioSynthetic, BigcodePii, Kinds, Every
<1>2. DevPrompts \in Readers
  BY DEF DevPrompts, Loader, Readers, Every
<1>3. /\ EnronPlanted \in Readers /\ StackoverflowPlanted \in Readers
      /\ ThestackPlanted \in Readers /\ LmsysDevPlanted \in Readers
      /\ OasstDevPlanted \in Readers
  <2>1. \A a, u : a \in Nat /\ u \in SUBSET Kinds => Planted(a, u) \in Readers
    BY PlantedReads
  <2> QED  BY <2>1 DEF EnronPlanted, StackoverflowPlanted, ThestackPlanted,
             LmsysDevPlanted, OasstDevPlanted, Kinds, Every
<1> QED  BY <1>1, <1>2, <1>3 DEF PublicDatasets

LEMMA RegistryReads ==
  ASSUME NEW key \in DOMAIN DatasetConfigs \cup DOMAIN PublicDatasets
  PROVE  LoaderOf(key) \in Readers
BY ConfigsRead, PublicRead DEF LoaderOf

(* ---------- The published samples ---------- *)

\* A sample is numbered by one of its places.
LEMMA NumberIs ==
  ASSUME NEW of, NEW n \in Caps, of[n] \in Seq(Samples), NEW i \in DOMAIN of[n],
         \A k \in Caps : of[k] \in Seq(Samples)
  PROVE  Min(PlacesOf(of[n][i], of)) \in Nat
<1>1. Caps \in SUBSET Nat
  BY BenchAssumption
<1>2. \A k \in Caps : \A j \in DOMAIN of[k] : Place(k, j) \in Nat
  <2> SUFFICES ASSUME NEW k \in Caps, NEW j \in DOMAIN of[k] PROVE Place(k, j) \in Nat
    OBVIOUS
  <2>1. k \in Nat /\ j \in Nat
    BY <1>1
  <2>2. k * k \in Nat
    BY <2>1
  <2> QED  BY <2>1, <2>2 DEF Place
<1> DEFINE T == PlacesOf(of[n][i], of)
<1>3. T \in SUBSET Nat
  BY <1>2 DEF PlacesOf
<1>4. Place(n, i) \in T
  BY DEF PlacesOf
<1> HIDE DEF T
<1>5. PICK x \in T : \A y \in T : x <= y
  BY <1>3, <1>4, LeastNatural
<1>6. Min(T) \in T
  BY <1>5 DEF Min
<1> QED  BY <1>3, <1>6 DEF T

LEMMA NumberedAgree ==
  ASSUME NEW of, \A n \in Caps : of[n] \in Seq(Samples),
         \A m, n \in Caps : SameFirst(of[m], of[n])
  PROVE  Agree(Numbered(of))
<1> DEFINE num(s) == Min(PlacesOf(s, of))
           p == Numbered(of)
<1>1. \A n \in Caps : \A i \in DOMAIN of[n] : num(of[n][i]) \in Nat
  BY NumberIs
<1>2. p = [n \in Caps |-> [i \in DOMAIN of[n] |-> num(of[n][i])]]
  BY DEF Numbered
<1> HIDE DEF num, p
<1>3. ASSUME NEW n \in Caps
      PROVE  /\ p[n] \in Seq(Nat) /\ DOMAIN p[n] = DOMAIN of[n]
             /\ \A i \in DOMAIN of[n] : p[n][i] = num(of[n][i])
  <2>1. p[n] = [i \in DOMAIN of[n] |-> num(of[n][i])]
    BY <1>2
  <2>2. Len(of[n]) \in Nat /\ DOMAIN of[n] = 1 .. Len(of[n])
    BY LenProperties
  <2>3. p[n] = [i \in 1 .. Len(of[n]) |-> num(of[n][i])]
    BY <2>1, <2>2
  <2>4. \A i \in 1 .. Len(of[n]) : num(of[n][i]) \in Nat
    BY <1>1, <2>2
  <2>5. p[n] \in Seq(Nat)
    BY <2>2, <2>3, <2>4
  <2> QED  BY <2>1, <2>5
<1>4. p \in [Caps -> Seq(Nat)]
  BY <1>2, <1>3
<1>5. ASSUME NEW m \in Caps, NEW n \in Caps, NEW i \in (DOMAIN p[m]) \cap (DOMAIN p[n])
      PROVE  p[m][i] = p[n][i]
  <2>1. i \in DOMAIN of[m] /\ i \in DOMAIN of[n]
    BY <1>3
  <2>2. of[m][i] = of[n][i]
    BY <2>1 DEF SameFirst
  <2>3. p[m][i] = num(of[m][i]) /\ p[n][i] = num(of[n][i])
    BY <1>3, <2>1
  <2> QED  BY <2>2, <2>3
<1> QED  BY <1>4, <1>5 DEF Agree, p

\* No cap changes the samples that come first, of any set of one file, or read
\* as a whole, by any loader of the registries but the report's: what run_combo
\* relies on when it matches the rows of a checkpoint to the samples of a run.
THEOREM SteadySetsAgree == SteadySets => LoadersAgree
<1> SUFFICES ASSUME SteadySets, NEW set \in Sets
             PROVE  Agree(Numbered([n \in Caps |-> LoadSet(set[1], set[2], n)]))
  BY DEF LoadersAgree, Publications
<1> DEFINE key == set[1]
           files == set[2]
           of == [n \in Caps |-> LoadSet(key, files, n)]
<1>1. /\ key \in DOMAIN DatasetConfigs \cup DOMAIN PublicDatasets /\ key # Report
      /\ files \in Seq(Seq(Kinds)) /\ (Len(files) = 1 \/ LoaderOf(key).fetch = Every)
  BY DEF SteadySets
<1>2. LoaderOf(key) \in Readers
  BY <1>1, RegistryReads
<1>3. \A n \in Caps : n \in Nat
  BY BenchAssumption
<1>4. \A n \in Caps : of[n] = Load(LoaderOf(key), files, n)
  BY <1>1 DEF LoadSet
<1> HIDE DEF key, files, of
<1>5. \A m, n \in Caps : of[m] \in Seq(Samples) /\ SameFirst(of[m], of[n])
  BY <1>1, <1>2, <1>3, <1>4, LoadSteady
<1>6. Agree(Numbered(of))
  BY <1>5, NumberedAgree
<1> QED  BY <1>6 DEF of, key, files

\* On those sets the bench needs no more: a cell that reads OK was scored on
\* the samples of a cap, and its checkpoint holds their rows.
THEOREM SteadySetsAreScored ==
  SteadySets => (Spec => []OkMeansScored) /\ (Spec => []CheckpointMatchesCell)
BY SteadySetsAgree, OkCellsAreScored, CheckpointsMatchCells

(* ---------- How a document is scored ---------- *)

\* What Inter is, in numbers.
LEMMA InterIs ==
  ASSUME NEW x \in Span, NEW y \in Span
  PROVE  /\ x.start \in Int /\ x.end \in Int /\ y.start \in Int /\ y.end \in Int
         /\ Inter(x, y) \in Int /\ Inter(x, y) >= 0 /\ Union(x, y) \in Int
         /\ Union(x, y) = (x.end - x.start) + (y.end - y.start) - Inter(x, y)
         /\ Inter(x, y) > 0 =>
              /\ Inter(x, y) <= x.end - x.start /\ Inter(x, y) <= y.end - y.start
              /\ Inter(x, y) <= x.end - y.start /\ Inter(x, y) <= y.end - x.start
              /\ x.start < y.end /\ y.start < x.end
BY ScoringAssumption DEF Inter, Union, Lower, Upper

LEMMA HalvesInNumbers ==
  ASSUME NEW a \in Int, NEW b \in Int, NEW c \in Int, NEW d \in Int, NEW e \in Int,
         NEW f \in Int, NEW i \in Int, NEW j \in Int,
         d <= e, i > 0, j > 0,
         i <= d - c, i <= d - a, 3 * i >= (b - a) + (d - c),
         j <= f - e, j <= b - e, 3 * j >= (b - a) + (f - e)
  PROVE  c = a /\ d = e /\ f = b /\ d - c = f - e /\ i = j
<1>1. i + j <= b - a - (e - d)
  OBVIOUS
<1>2. 3 * i + 3 * j >= 2 * (b - a) + i + j
  OBVIOUS
<1>3. i + j = b - a /\ d = e
  BY <1>1, <1>2
<1> QED  BY <1>3

\* A span that matches two spans apart is exactly theirs together, and each
\* is half of it.
LEMMA Halves ==
  ASSUME NEW x \in Span, NEW y \in Span, NEW z \in Span, y.end <= z.start,
         Match(x, y), Match(x, z)
  PROVE  /\ y.start = x.start /\ y.end = z.start /\ z.end = x.end
         /\ y.end - y.start = z.end - z.start
         /\ Inter(x, y) = Inter(x, z) /\ Union(x, y) = Union(x, z)
<1> DEFINE a == x.start
           b == x.end
           c == y.start
           d == y.end
           e == z.start
           f == z.end
           i == Inter(x, y)
           j == Inter(x, z)
           u == Union(x, y)
           v == Union(x, z)
<1>1. i > 0 /\ 2 * i >= u /\ j > 0 /\ 2 * j >= v
  BY DEF Match
<1>2. /\ a \in Int /\ b \in Int /\ c \in Int /\ d \in Int
      /\ i \in Int /\ u = (b - a) + (d - c) - i
      /\ i <= d - c /\ i <= d - a
  BY <1>1, InterIs
<1>3. /\ e \in Int /\ f \in Int
      /\ j \in Int /\ v = (b - a) + (f - e) - j
      /\ j <= f - e /\ j <= b - e
  BY <1>1, InterIs
<1>4. d <= e
  OBVIOUS
<1> HIDE DEF a, b, c, d, e, f, i, j, u, v
<1>5. 3 * i >= (b - a) + (d - c) /\ 3 * j >= (b - a) + (f - e)
  BY <1>1, <1>2, <1>3
<1>6. c = a /\ d = e /\ f = b /\ d - c = f - e /\ i = j
  BY <1>1, <1>2, <1>3, <1>4, <1>5, HalvesInNumbers
<1>7. u = v
  BY <1>2, <1>3, <1>6
<1> QED  BY <1>6, <1>7 DEF a, b, c, d, e, f, i, j, u, v

Disjoint(x, y) == x.end <= y.start \/ y.end <= x.start

\* Of two spans that match one, no other span apart from it matches either.
LEMMA Star ==
  ASSUME NEW x \in Span, NEW other \in Span, NEW y \in Span, NEW z \in Span,
         Disjoint(x, other), Disjoint(y, z),
         Match(x, y), Match(x, z), Match(other, y)
  PROVE  FALSE
<1> DEFINE a == x.start
           b == x.end
           c == y.start
           d == y.end
           e == other.start
           f == other.end
<1>1. Inter(other, y) > 0
  BY DEF Match
<1>2. a \in Int /\ b \in Int /\ c \in Int /\ d \in Int /\ e \in Int /\ f \in Int
      /\ c < f /\ e < d
  BY <1>1, InterIs
<1>3. b <= e \/ f <= a
  BY DEF Disjoint
<1>4. CASE y.end <= z.start
  <2>1. c = a /\ d = z.start /\ z.end = b
    BY <1>4, Halves
  <2>2. Inter(x, z) > 0
    BY DEF Match
  <2>3. z.start < b
    BY <2>2, InterIs
  <2> HIDE DEF a, b, c, d, e, f
  <2>4. d < b
    BY <2>1, <2>3
  <2> QED  BY <1>2, <1>3, <2>1, <2>4
<1>5. CASE z.end <= y.start
  <2>1. z.start = a /\ z.end = c /\ d = b
    BY <1>5, Halves
  <2>2. Inter(x, z) > 0
    BY DEF Match
  <2>3. a < z.end
    BY <2>2, InterIs
  <2> HIDE DEF a, b, c, d, e, f
  <2>4. a < c
    BY <2>1, <2>3
  <2> QED  BY <1>2, <1>3, <2>1, <2>4
<1> QED  BY <1>4, <1>5 DEF Disjoint

(* ---------- The span a prediction is given ---------- *)

LEMMA MatchesAre ==
  ASSUME NEW p, NEW list \in Seq(Span)
  PROVE  /\ Len(list) \in Nat
         /\ \A i : i \in Matches(p, list) <=> i \in 1 .. Len(list) /\ Match(p, list[i])
         /\ \A i \in 1 .. Len(list) : list[i] \in Span
BY DEF Matches

LEMMA TimesPositive ==
  ASSUME NEW x \in Int, NEW y \in Int, NEW z \in Int, z > 0
  PROVE  x >= y <=> x * z >= y * z
OBVIOUS

\* Shares of positive wholes compare as numbers do.
LEMMA SharesCompare ==
  ASSUME NEW a \in Int, NEW b \in Int, NEW c \in Int,
         NEW u \in Int, NEW v \in Int, NEW w \in Int, u > 0, v > 0, w > 0,
         a * v >= b * u, b * w >= c * v
  PROVE  a * w >= c * u
<1>1. a * v \in Int /\ b * u \in Int /\ b * w \in Int /\ c * v \in Int
      /\ a * w \in Int /\ c * u \in Int
  OBVIOUS
<1>2. (a * v) * w >= (b * u) * w
  BY <1>1, TimesPositive
<1>3. (b * w) * u >= (c * v) * u
  BY <1>1, TimesPositive
<1>4. (a * v) * w = (a * w) * v /\ (b * u) * w = (b * w) * u /\ (c * v) * u = (c * u) * v
  OBVIOUS
<1>5. (a * w) * v >= (c * u) * v
  <2> DEFINE x == (a * w) * v
             y == (b * w) * u
             z == (c * u) * v
  <2>1. x \in Int /\ y \in Int /\ z \in Int
    OBVIOUS
  <2>2. x >= y /\ y >= z
    BY <1>2, <1>3, <1>4
  <2> HIDE DEF x, y, z
  <2>3. x >= z
    BY <2>1, <2>2
  <2> QED  BY <2>3 DEF x, z
<1> QED  BY <1>1, <1>5, TimesPositive

\* A span that matches has a positive union.
LEMMA UnionPositive ==
  ASSUME NEW x \in Span, NEW y \in Span, Match(x, y)
  PROVE  Union(x, y) > 0
<1> DEFINE i == Inter(x, y)
           a == x.end - x.start
           b == y.end - y.start
<1>1. i > 0
  BY DEF Match
<1>2. i \in Int /\ a \in Int /\ b \in Int /\ i <= a /\ i <= b /\ Union(x, y) = a + b - i
  BY <1>1, InterIs
<1> HIDE DEF i, a, b
<1> QED  BY <1>1, <1>2

\* How good matching spans are is a total preorder.
LEMMA Better ==
  ASSUME NEW p \in Span, NEW x \in Span, NEW y \in Span, NEW z \in Span,
         Match(p, x), Match(p, y), Match(p, z)
  PROVE  /\ AtLeast(p, x, x)
         /\ AtLeast(p, x, y) \/ AtLeast(p, y, x)
         /\ AtLeast(p, x, y) /\ AtLeast(p, y, z) => AtLeast(p, x, z)
<1> DEFINE a == Inter(p, x)
           b == Inter(p, y)
           c == Inter(p, z)
           u == Union(p, x)
           v == Union(p, y)
           w == Union(p, z)
<1>1. /\ a \in Int /\ b \in Int /\ c \in Int /\ u \in Int /\ v \in Int /\ w \in Int
      /\ u > 0 /\ v > 0 /\ w > 0
  BY InterIs, UnionPositive
<1>2. /\ AtLeast(p, x, x) <=> a * u >= a * u
      /\ AtLeast(p, x, y) <=> a * v >= b * u
      /\ AtLeast(p, y, x) <=> b * u >= a * v
      /\ AtLeast(p, y, z) <=> b * w >= c * v
      /\ AtLeast(p, x, z) <=> a * w >= c * u
  BY DEF AtLeast
<1> HIDE DEF a, b, c, u, v, w
<1>3. a * u >= a * u
  BY <1>1
<1>4. a * v >= b * u \/ b * u >= a * v
  <2>1. a * v \in Int /\ b * u \in Int
    BY <1>1
  <2> QED  BY <2>1
<1>5. a * v >= b * u /\ b * w >= c * v => a * w >= c * u
  BY <1>1, SharesCompare
<1> QED  BY <1>2, <1>3, <1>4, <1>5

(* Position i holds the best of the hits there, and the last of the best.  *)
BestOf(p, list, hits, i) ==
  /\ i \in hits
  /\ \A j \in hits : AtLeast(p, list[i], list[j]) /\ (j > i => ~AtLeast(p, list[j], list[i]))

LEMMA BestWithOneMore ==
  ASSUME NEW p \in Span, NEW list \in Seq(Span), NEW hits \in SUBSET Matches(p, list),
         NEW n \in Matches(p, list), \A j \in hits : j < n,
         hits = {} \/ \E i : BestOf(p, list, hits, i)
  PROVE  \E i : BestOf(p, list, hits \cup {n}, i)
<1> DEFINE all == hits \cup {n}
<1>1. \A j \in all : /\ j \in Nat /\ list[j] \in Span /\ Match(p, list[j])
                     /\ (j = n \/ j \in hits)
  BY MatchesAre
<1>2. \A j \in hits : j < n /\ ~(j > n)
  <2> TAKE j \in hits
  <2>1. j \in Int /\ n \in Int /\ j < n
    BY <1>1
  <2> QED  BY <2>1
<1>3. ~(n > n) /\ AtLeast(p, list[n], list[n])
  BY <1>1, Better
<1>4. CASE \A j \in hits : AtLeast(p, list[n], list[j])
  BY <1>1, <1>2, <1>3, <1>4 DEF BestOf
<1>5. CASE \E j \in hits : ~AtLeast(p, list[n], list[j])
  <2>1. PICK i : BestOf(p, list, hits, i)
    BY <1>5
  <2>2. PICK k \in hits : ~AtLeast(p, list[n], list[k])
    BY <1>5
  <2>3. i \in hits /\ AtLeast(p, list[i], list[k])
    BY <2>1 DEF BestOf
  <2>4. /\ list[i] \in Span /\ list[k] \in Span /\ list[n] \in Span
        /\ Match(p, list[i]) /\ Match(p, list[k]) /\ Match(p, list[n])
    BY <1>1, <2>3
  <2>5. ~AtLeast(p, list[n], list[i])
    BY <2>2, <2>3, <2>4, Better
  <2>6. AtLeast(p, list[i], list[n])
    BY <2>4, <2>5, Better
  <2>7. BestOf(p, list, all, i)
    <3>1. i \in all
      BY <2>3
    <3>2. ASSUME NEW j \in all
          PROVE  AtLeast(p, list[i], list[j]) /\ (j > i => ~AtLeast(p, list[j], list[i]))
      <4>1. CASE j = n
        BY <2>5, <2>6, <4>1
      <4>2. CASE j \in hits
        BY <2>1, <4>2 DEF BestOf
      <4> QED  BY <1>1, <4>1, <4>2
    <3> HIDE DEF all
    <3> QED  BY <3>1, <3>2 DEF BestOf
  <2> QED  BY <2>7
<1> QED  BY <1>4, <1>5

\* What a choice among the hits must be: none if there is none, else one.
Chosen(h, p, list) ==
  \/ h = 0 /\ Matches(p, list) = {}
  \/ h \in Matches(p, list)

LEMMA FindMatchChooses ==
  ASSUME NEW p \in Span, NEW list \in Seq(Span)
  PROVE  Chosen(FindMatch(p, list), p, list)
<1> DEFINE all == Matches(p, list)
           N == Len(list)
           Upto(n) == {j \in all : j <= n}
           Good(n) == Upto(n) = {} \/ \E i : BestOf(p, list, Upto(n), i)
           S == {n \in 0 .. N : Good(n)}
<1>1. N \in Nat /\ \A j \in all : j \in 1 .. N /\ j \in Nat
  BY MatchesAre
<1>2. Good(0)
  BY <1>1
<1>3. ASSUME NEW n \in 1 .. N, Good(n - 1) PROVE Good(n)
  <2>1. n \in Nat /\ n - 1 \in Nat
    BY <1>1
  <2>2. \A j \in Upto(n - 1) : j < n
    BY <1>1, <2>1
  <2>3. CASE n \in all
    <3>1. Upto(n) = Upto(n - 1) \cup {n}
      <4> HIDE DEF all, N
      <4>1. \A j \in all : j <= n <=> j <= n - 1 \/ j = n
        BY <1>1, <2>1
      <4>2. n <= n
        BY <2>1
      <4> QED  BY <2>3, <4>1, <4>2
    <3>2. Upto(n - 1) \in SUBSET all
      OBVIOUS
    <3> HIDE DEF Upto
    <3>3. \E i : BestOf(p, list, Upto(n - 1) \cup {n}, i)
      BY <1>3, <2>2, <2>3, <3>2, BestWithOneMore
    <3> QED  BY <3>1, <3>3
  <2>4. CASE n \notin all
    <3>1. Upto(n) = Upto(n - 1)
      <4> HIDE DEF all, N
      <4>1. \A j \in all : j <= n <=> j <= n - 1 \/ j = n
        BY <1>1, <2>1
      <4> QED  BY <2>4, <4>1
    <3> HIDE DEF Upto
    <3> QED  BY <1>3, <3>1
  <2> QED  BY <2>3, <2>4
<1>4. Good(N)
  <2> HIDE DEF Good
  <2>1. 0 \in S
    BY <1>1, <1>2
  <2>2. \A n \in 1 .. N : n - 1 \in S => n \in S
    <3> TAKE n \in 1 .. N
    <3>1. n \in 0 .. N
      BY <1>1
    <3> HIDE DEF N
    <3> QED  BY <1>3, <3>1
  <2> HIDE DEF S, N
  <2>3. N \in S
    <3>1. \A n \in 0 .. N : n \in S
      BY <1>1, <2>1, <2>2, InductionUpTo
    <3> QED  BY <1>1, <3>1
  <2> QED  BY <2>3 DEF S
<1>5. Upto(N) = all
  <2> HIDE DEF N, all
  <2> QED  BY <1>1
<1>6. CASE all = {}
  BY <1>6 DEF FindMatch, Chosen
<1>7. CASE all # {}
  <2>1. PICK b : BestOf(p, list, all, b)
    <3> HIDE DEF all, N
    <3> QED  BY <1>4, <1>5, <1>7
  <2> DEFINE Best(i) == \A j \in all : /\ AtLeast(p, list[i], list[j])
                                       /\ j > i => ~AtLeast(p, list[j], list[i])
  <2>2. b \in all /\ Best(b)
    BY <2>1 DEF BestOf
  <2>3. FindMatch(p, list) = CHOOSE i \in all : Best(i)
    BY <1>7 DEF FindMatch
  <2>4. FindMatch(p, list) \in all
    <3> HIDE DEF all, Best
    <3> QED  BY <2>2, <2>3
  <2> QED  BY <2>4 DEF Chosen
<1> QED  BY <1>6, <1>7

LEMMA FirstMatchChooses ==
  ASSUME NEW p \in Span, NEW list \in Seq(Span)
  PROVE  Chosen(FirstMatch(p, list), p, list)
<1> DEFINE hits == Matches(p, list)
<1>1. CASE hits = {}
  BY <1>1 DEF FirstMatch, Chosen
<1>2. CASE hits # {}
  <2>1. hits \in SUBSET Nat
    BY MatchesAre
  <2>2. \E b \in hits : \A c \in hits : b <= c
    <3> HIDE DEF hits
    <3> QED  BY <1>2, <2>1, LeastNatural
  <2>3. FirstMatch(p, list) \in hits
    BY <1>2, <2>2 DEF FirstMatch
  <2> QED  BY <2>3 DEF Chosen
<1> QED  BY <1>1, <1>2

LEMMA RemoveAtIs ==
  ASSUME NEW S, NEW s \in Seq(S), NEW h \in 1 .. Len(s)
  PROVE  /\ Without(s, h) \in Seq(S) /\ Len(Without(s, h)) = Len(s) - 1
         /\ \A k \in 1 .. Len(s) - 1 :
              Without(s, h)[k] = IF k < h THEN s[k] ELSE s[k + 1]
<1> DEFINE a == SubSeq(s, 1, h - 1)
           b == SubSeq(s, h + 1, Len(s))
           n == Len(s)
<1>1. n \in Nat /\ h \in Int /\ h >= 1 /\ h <= n
  OBVIOUS
<1>2. /\ \A i \in 1 .. h - 1 : s[i] \in S
      /\ \A i \in h + 1 .. n : s[i] \in S
  OBVIOUS
<1>3. a \in Seq(S) /\ Len(a) = h - 1 /\ \A i \in 1 .. h - 1 : a[i] = s[i]
  <2>1. 1 \in Int /\ h - 1 \in Int
    BY <1>1
  <2>2. /\ a \in Seq(S) /\ Len(a) = IF 1 <= h - 1 THEN h - 1 - 1 + 1 ELSE 0
        /\ \A i \in 1 .. h - 1 - 1 + 1 : a[i] = s[1 + i - 1]
    BY <1>2, <2>1, SubSeqProperties
  <2> HIDE DEF a, n
  <2> QED  BY <1>1, <2>2
<1>4. b \in Seq(S) /\ Len(b) = n - h /\ \A i \in 1 .. n - h : b[i] = s[h + i]
  <2>1. h + 1 \in Int /\ n \in Int
    BY <1>1
  <2>2. /\ b \in Seq(S) /\ Len(b) = IF h + 1 <= n THEN n - (h + 1) + 1 ELSE 0
        /\ \A i \in 1 .. n - (h + 1) + 1 : b[i] = s[h + 1 + i - 1]
    BY <1>2, <2>1, SubSeqProperties
  <2> HIDE DEF b, n
  <2> QED  BY <1>1, <2>2
<1>5. Without(s, h) = a \o b
  <2>1. h # 0
    BY <1>1
  <2>2. Without(s, h) = RemoveAt(s, h)
    BY <2>1, Zenon DEF Without
  <2> QED  BY <2>2, Zenon DEF RemoveAt
<1>6. /\ a \o b \in Seq(S) /\ Len(a \o b) = Len(a) + Len(b)
      /\ \A i \in 1 .. Len(a) + Len(b) : (a \o b)[i] = IF i <= Len(a) THEN a[i] ELSE b[i - Len(a)]
  BY <1>3, <1>4, ConcatProperties
<1> HIDE DEF a, b, n
<1>7. ASSUME NEW k \in 1 .. n - 1 PROVE (a \o b)[k] = IF k < h THEN s[k] ELSE s[k + 1]
  <2>1. CASE k < h
    <3>1. k <= Len(a) /\ k \in 1 .. h - 1
      BY <1>1, <1>3, <2>1
    <3> QED  BY <1>1, <1>3, <1>4, <1>6, <2>1, <3>1
  <2>2. CASE ~(k < h)
    <3>1. ~(k <= Len(a)) /\ k - Len(a) \in 1 .. n - h /\ k \in 1 .. Len(a) + Len(b)
          /\ h + (k - Len(a)) = k + 1
      BY <1>1, <1>3, <1>4, <2>2
    <3>2. (a \o b)[k] = b[k - Len(a)] /\ b[k - Len(a)] = s[h + (k - Len(a))]
      BY <1>4, <1>6, <3>1
    <3> QED  BY <2>2, <3>1, <3>2
  <2> QED  BY <2>1, <2>2
<1>8. Len(a \o b) = n - 1
  BY <1>1, <1>3, <1>4, <1>6
<1>9. a \o b \in Seq(S)
  BY <1>6
<1>10. \A k \in 1 .. n - 1 : (a \o b)[k] = IF k < h THEN s[k] ELSE s[k + 1]
  BY <1>7
<1> QED
  BY <1>5, <1>8, <1>9, <1>10 DEF n

(* ---------- Greedy matching ---------- *)

\* After n predictions: each has been given the gold span at given, or none
\* (0); those left are at left, in the order of list.
Matching(ts, ps, given, left, list, n) ==
  /\ given \in [1 .. Len(ps) -> 0 .. Len(ts)]
  /\ left \in [1 .. Len(list) -> 1 .. Len(ts)]
  /\ \A k \in 1 .. Len(list) : list[k] = ts[left[k]]
  /\ \A k, l \in 1 .. Len(list) : left[k] = left[l] => k = l
  /\ \A i, j \in 1 .. n : given[i] = given[j] /\ given[i] # 0 => i = j
  /\ \A i \in 1 .. n : given[i] # 0 => Match(ps[i], ts[given[i]])

Taken(ts, given, n) == {j \in 1 .. Len(ts) : \E i \in 1 .. n : given[i] = j}

\* A prediction went without only because every span it matches was taken.
Greedily(ts, ps, given, left, list, n) ==
  /\ \A j \in 1 .. Len(ts) : j \in Taken(ts, given, n) <=> \A k \in 1 .. Len(list) : left[k] # j
  /\ \A i \in 1 .. n, j \in 1 .. Len(ts) :
       given[i] = 0 /\ Match(ps[i], ts[j]) => j \in Taken(ts, given, n)
  /\ Cardinality(Taken(ts, given, n)) = Len(ts) - Len(list)

Greedy(ts, ps, list, n) ==
  /\ list \in Seq(Span)
  /\ \E given, left : /\ Matching(ts, ps, given, left, list, n)
                      /\ Greedily(ts, ps, given, left, list, n)

LEMMA UpToN ==
  ASSUME NEW n \in Nat
  PROVE  IsFiniteSet(1 .. n) /\ Cardinality(1 .. n) = n
BY FS_Interval

LEMMA TakenFinite ==
  ASSUME NEW ts \in Seq(Span), NEW given, NEW n
  PROVE  IsFiniteSet(Taken(ts, given, n))
<1>1. Len(ts) \in Nat
  OBVIOUS
<1>2. IsFiniteSet(1 .. Len(ts))
  BY <1>1, UpToN
<1>3. Taken(ts, given, n) \in SUBSET (1 .. Len(ts))
  BY DEF Taken
<1> QED  BY <1>2, <1>3, FS_Subset

LEMMA GreedyBegins ==
  ASSUME NEW ts \in Seq(Span), NEW ps \in Seq(Span)
  PROVE  Greedy(ts, ps, ts, 0)
<1> DEFINE given == [i \in 1 .. Len(ps) |-> 0]
           left == [k \in 1 .. Len(ts) |-> k]
<1>1. Len(ts) \in Nat /\ Len(ps) \in Nat
  OBVIOUS
<1>2. Taken(ts, given, 0) = {}
  BY DEF Taken
<1>3. Matching(ts, ps, given, left, ts, 0)
  BY <1>1 DEF Matching
<1>4. Cardinality(Taken(ts, given, 0)) = 0
  BY <1>2, FS_EmptySet
<1>5. Greedily(ts, ps, given, left, ts, 0)
  BY <1>1, <1>2, <1>4 DEF Greedily
<1> QED  BY <1>3, <1>5 DEF Greedy

\* A prediction is given a hit, or none when there is none.
LEMMA GreedyGoesOn ==
  ASSUME NEW ts \in Seq(Span), NEW ps \in Seq(Span), NEW list, NEW n \in Nat, NEW h,
         n < Len(ps), Greedy(ts, ps, list, n), Chosen(h, ps[n + 1], list)
  PROVE  Greedy(ts, ps, Without(list, h), n + 1)
<1> DEFINE m == n + 1
           p == ps[m]
           z == Len(list)
           t == Len(ts)
<1>1. PICK given, left : Matching(ts, ps, given, left, list, n) /\ Greedily(ts, ps, given, left, list, n)
  BY DEF Greedy
<1>2. /\ m \in 1 .. Len(ps) /\ z \in Nat /\ t \in Nat /\ list \in Seq(Span) /\ ts \in Seq(Span)
      /\ Len(ps) \in Nat
  BY DEF Greedy
<1>3. list \in Seq(Span)
  BY DEF Greedy
<1> DEFINE taken == Taken(ts, given, n)
<1>4. CASE h = 0 /\ Matches(p, list) = {}
  <2> DEFINE then == [given EXCEPT ![m] = 0]
  <2>1. Without(list, h) = list
    BY <1>4 DEF Without
  <2>2. /\ then \in [1 .. Len(ps) -> 0 .. t]
        /\ \A i \in 1 .. n : then[i] = given[i]
        /\ then[m] = 0
    BY <1>1, <1>2 DEF Matching
  <2>3. \A i \in 1 .. m : i \in 1 .. n \/ i = m
    OBVIOUS
  <2>4. Taken(ts, then, m) = taken
    <3> HIDE DEF then
    <3> QED  BY <2>2, <2>3 DEF Taken
  <2>5. Matching(ts, ps, then, left, list, m)
    <3>1. ASSUME NEW i \in 1 .. m, NEW j \in 1 .. m, then[i] = then[j], then[i] # 0
          PROVE  i = j
      <4> HIDE DEF then, m
      <4>1. i \in 1 .. n /\ j \in 1 .. n
        BY <2>2, <2>3, <3>1
      <4>2. given[i] = given[j] /\ given[i] # 0
        BY <2>2, <3>1, <4>1
      <4> QED  BY <1>1, <4>1, <4>2 DEF Matching
    <3>2. \A i \in 1 .. m : then[i] # 0 => Match(ps[i], ts[then[i]])
      <4> HIDE DEF then, m
      <4> QED  BY <1>1, <2>2, <2>3 DEF Matching
    <3> HIDE DEF then, m
    <3> QED  BY <1>1, <2>2, <3>1, <3>2 DEF Matching
  <2>6. ASSUME NEW j \in 1 .. t, Match(p, ts[j]) PROVE j \in taken
    <3>1. ASSUME NEW k \in 1 .. z, left[k] = j PROVE FALSE
      <4>1. Match(p, list[k])
        BY <1>1, <2>6, <3>1 DEF Matching
      <4>2. k \in Matches(p, list)
        BY <1>3, <4>1, MatchesAre
      <4> QED  BY <1>4, <4>2
    <3> QED  BY <1>1, <3>1 DEF Greedily
  <2>7. Greedily(ts, ps, then, left, list, m)
    <3>1. ASSUME NEW i \in 1 .. m, NEW j \in 1 .. t, then[i] = 0, Match(ps[i], ts[j])
          PROVE  j \in taken
      <4>1. CASE i = m
        BY <2>6, <3>1, <4>1
      <4>2. CASE i \in 1 .. n
        <5> HIDE DEF then, taken
        <5>1. given[i] = 0
          BY <2>2, <3>1, <4>2
        <5> QED  BY <1>1, <3>1, <4>2, <5>1 DEF Greedily, taken
      <4> QED  BY <2>3, <4>1, <4>2
    <3> HIDE DEF then, m
    <3> QED  BY <1>1, <2>4, <3>1 DEF Greedily
  <2> QED  BY <1>2, <2>1, <2>5, <2>7 DEF Greedy
<1>5. CASE h \in Matches(p, list)
  <2> DEFINE q == left[h]
             then == [given EXCEPT ![m] = q]
             rest == Without(list, h)
             still == [k \in 1 .. z - 1 |-> IF k < h THEN left[k] ELSE left[k + 1]]
  <2>1. h \in 1 .. z /\ Match(p, list[h])
    BY <1>3, <1>5, MatchesAre
  <2>2. q \in 1 .. t /\ Match(p, ts[q]) /\ q \notin taken
    BY <1>1, <2>1 DEF Matching, Greedily
  <2>3. /\ then \in [1 .. Len(ps) -> 0 .. t]
        /\ \A i \in 1 .. n : then[i] = given[i]
        /\ then[m] = q
    BY <1>1, <1>2, <2>2 DEF Matching
  <2>4. \A i \in 1 .. m : i \in 1 .. n \/ i = m
    OBVIOUS
  <2>5. Taken(ts, then, m) = taken \cup {q}
    <3>1. m \in 1 .. m /\ \A i \in 1 .. n : i \in 1 .. m
      OBVIOUS
    <3> HIDE DEF then, q, m
    <3> QED  BY <2>2, <2>3, <2>4, <3>1 DEF Taken
  <2>6. /\ rest \in Seq(Span) /\ Len(rest) = z - 1
        /\ \A k \in 1 .. z - 1 : rest[k] = IF k < h THEN list[k] ELSE list[k + 1]
    BY <1>2, <2>1, RemoveAtIs
  <2>7. Cardinality(taken \cup {q}) = Cardinality(taken) + 1
    BY <1>2, <2>2, TakenFinite, FS_AddElement
  <2>8. \A k \in 1 .. z - 1 : \E l \in 1 .. z : l # h /\ still[k] = left[l] /\ rest[k] = list[l]
                              /\ l = IF k < h THEN k ELSE k + 1
    <3> TAKE k \in 1 .. z - 1
    <3> DEFINE l == IF k < h THEN k ELSE k + 1
    <3>1. l \in 1 .. z /\ l # h
      BY <1>2, <2>1
    <3> HIDE DEF rest, z
    <3>2. still[k] = left[l] /\ rest[k] = list[l]
      BY <2>6
    <3> QED  BY <3>1, <3>2
  <2>9. \A l \in 1 .. z : l # h => \E k \in 1 .. z - 1 : still[k] = left[l]
    <3> TAKE l \in 1 .. z
    <3> HAVE l # h
    <3> DEFINE k == IF l < h THEN l ELSE l - 1
    <3>1. k \in 1 .. z - 1 /\ still[k] = left[l]
      BY <1>2, <2>1
    <3> QED  BY <3>1
  <2>10. Matching(ts, ps, then, still, rest, m)
    <3>1. still \in [1 .. Len(rest) -> 1 .. t]
      <4>1. \A k \in 1 .. z - 1 : still[k] \in 1 .. t
        <5>1. \A l \in 1 .. z : left[l] \in 1 .. t
          BY <1>1 DEF Matching
        <5> HIDE DEF still, rest, z, t
        <5> QED  BY <2>8, <5>1
      <4> HIDE DEF rest
      <4> QED  BY <2>6, <4>1
    <3>2. \A k \in 1 .. Len(rest) : rest[k] = ts[still[k]]
      <4> HIDE DEF rest, still
      <4> QED  BY <1>1, <2>6, <2>8 DEF Matching
    <3>3. ASSUME NEW k \in 1 .. Len(rest), NEW l \in 1 .. Len(rest), still[k] = still[l] PROVE k = l
      <4>1. PICK a \in 1 .. z : still[k] = left[a] /\ a = IF k < h THEN k ELSE k + 1
        BY <2>6, <2>8
      <4>2. PICK b \in 1 .. z : still[l] = left[b] /\ b = IF l < h THEN l ELSE l + 1
        BY <2>6, <2>8
      <4>3. a = b
        BY <1>1, <3>3, <4>1, <4>2 DEF Matching
      <4>4. k \in Int /\ l \in Int /\ h \in Int
        BY <1>2, <2>1, <2>6
      <4> HIDE DEF still, rest, z
      <4> QED  BY <4>1, <4>2, <4>3, <4>4
    <3>4. \A i, j \in 1 .. m : then[i] = then[j] /\ then[i] # 0 => i = j
      <4>1. \A i \in 1 .. n : given[i] # q
        BY <2>2 DEF Taken
      <4> HIDE DEF then, q, m
      <4> QED  BY <1>1, <2>3, <2>4, <4>1 DEF Matching
    <3>5. \A i \in 1 .. m : then[i] # 0 => Match(ps[i], ts[then[i]])
      <4>1. Match(ps[m], ts[then[m]])
        BY <2>2, <2>3
      <4> HIDE DEF then, q, m
      <4> QED  BY <1>1, <2>3, <2>4, <4>1 DEF Matching
    <3> HIDE DEF then, still, rest, m
    <3> QED  BY <2>3, <3>1, <3>2, <3>3, <3>4, <3>5 DEF Matching, t
  <2>11. Greedily(ts, ps, then, still, rest, m)
    <3>1. \A j \in 1 .. t : j \in Taken(ts, then, m) <=> \A k \in 1 .. Len(rest) : still[k] # j
      <4> TAKE j \in 1 .. t
      <4>1. CASE j = q
        <5>1. \A l \in 1 .. z : l # h => left[l] # q
          BY <1>1, <2>1 DEF Matching
        <5> HIDE DEF then, still, rest, q
        <5> QED  BY <2>5, <2>6, <2>8, <4>1, <5>1
      <4>2. CASE j # q
        <5>1. j \in taken <=> \A l \in 1 .. z : left[l] # j
          BY <1>1 DEF Greedily
        <5>2. j \in taken <=> j \in Taken(ts, then, m)
          BY <2>5, <4>2
        <5>3. left[h] # j
          BY <4>2
        <5>4. ASSUME NEW k \in 1 .. z - 1, still[k] = j, j \in taken PROVE FALSE
          BY <2>8, <5>1, <5>4
        <5>5. ASSUME \A k \in 1 .. z - 1 : still[k] # j, j \notin taken PROVE FALSE
          <6>1. PICK l \in 1 .. z : left[l] = j
            BY <5>1, <5>5
          <6> HIDE DEF still
          <6> QED  BY <2>9, <5>3, <5>5, <6>1
        <5> HIDE DEF then, still, rest, q, taken
        <5> QED  BY <2>6, <5>2, <5>4, <5>5
      <4> QED  BY <4>1, <4>2
    <3>2. ASSUME NEW i \in 1 .. m, NEW j \in 1 .. t, then[i] = 0, Match(ps[i], ts[j])
          PROVE  j \in Taken(ts, then, m)
      <4>1. q # 0
        BY <2>2
      <4>2. i \in 1 .. n /\ given[i] = 0
        <5> HIDE DEF then, q
        <5> QED  BY <2>3, <2>4, <3>2, <4>1
      <4>3. j \in taken
        BY <1>1, <3>2, <4>2 DEF Greedily
      <4> QED  BY <2>5, <4>3
    <3>3. Cardinality(Taken(ts, then, m)) = t - Len(rest)
      <4>1. Cardinality(taken) = t - z
        BY <1>1 DEF Greedily
      <4>2. Cardinality(Taken(ts, then, m)) = Cardinality(taken) + 1
        BY <2>5, <2>7
      <4>3. (t - z) + 1 = t - Len(rest)
        <5> HIDE DEF rest, t, z
        <5> QED  BY <1>2, <2>6
      <4> QED  BY <4>1, <4>2, <4>3
    <3> HIDE DEF then, still, rest, m
    <3> QED  BY <3>1, <3>2, <3>3 DEF Greedily, t
  <2> QED  BY <2>6, <2>10, <2>11 DEF Greedy
<1> QED  BY <1>4, <1>5 DEF Chosen

(* ---------- What greedy loses ---------- *)

(* Spans of one label are apart. *)
Spaced(list) ==
  \A i, j \in 1 .. Len(list) :
    i # j /\ list[i].label = list[j].label => Disjoint(list[i], list[j])

Several(ts, ps) ==
  {i \in 1 .. Len(ps) : \E j, k \in 1 .. Len(ts) :
     j # k /\ Match(ps[i], ts[j]) /\ Match(ps[i], ts[k])}

LEMMA InjectionBounds ==
  ASSUME NEW S, NEW T, IsFiniteSet(T), NEW f,
         f = [x \in S |-> f[x]], \A x \in S : f[x] \in T, \A x, y \in S : f[x] = f[y] => x = y
  PROVE  IsFiniteSet(S) /\ Cardinality(S) <= Cardinality(T) /\ Cardinality(S) \in Nat
<1>1. f \in Injection(S, T)
  BY DEF Injection, IsInjective
<1>2. IsFiniteSet(S) /\ Cardinality(S) <= Cardinality(T)
  BY <1>1, FS_Injection
<1> QED  BY <1>2, FS_CardinalityType

\* Pairs of a prediction and a gold span it matches, none of them in two.
IsPairing(ts, ps, qs) ==
  /\ qs \in SUBSET ((1 .. Len(ps)) \X (1 .. Len(ts)))
  /\ \A x \in qs : Match(ps[x[1]], ts[x[2]])
  /\ \A x, y \in qs : x # y => x[1] # y[1] /\ x[2] # y[2]

\* In a pairing, a prediction whose gold span was not taken was given another.
LEMMA GivenAnother ==
  ASSUME NEW ts \in Seq(Span), NEW ps \in Seq(Span), NEW list, NEW qs, NEW given, NEW left,
         Matching(ts, ps, given, left, list, Len(ps)),
         Greedily(ts, ps, given, left, list, Len(ps)),
         IsPairing(ts, ps, qs), NEW x \in qs, x[2] \notin Taken(ts, given, Len(ps))
  PROVE  /\ x[1] \in 1 .. Len(ps) /\ x[2] \in 1 .. Len(ts) /\ given[x[1]] \in 1 .. Len(ts)
         /\ given[x[1]] \in Taken(ts, given, Len(ps)) /\ given[x[1]] # x[2]
         /\ given[x[1]] # 0
         /\ Match(ps[x[1]], ts[given[x[1]]]) /\ Match(ps[x[1]], ts[x[2]])
<1>1. /\ x[1] \in 1 .. Len(ps) /\ x[2] \in 1 .. Len(ts) /\ Match(ps[x[1]], ts[x[2]])
  BY DEF IsPairing
<1>2. given[x[1]] # 0
  BY <1>1 DEF Greedily
<1>3. given[x[1]] \in 0 .. Len(ts)
  BY <1>1 DEF Matching
<1>4. given[x[1]] \in 1 .. Len(ts)
  BY <1>2, <1>3
<1>5. given[x[1]] \in Taken(ts, given, Len(ps))
  BY <1>1, <1>4 DEF Taken
<1> QED
  BY <1>1, <1>2, <1>4, <1>5 DEF Matching

\* A pairing has at most the pairs whose gold span was taken, no more than
\* were taken, and those that were not: no more than were taken either, each
\* prediction having taken another, and no more than match several.
LEMMA AtMostTwice ==
  ASSUME NEW ts \in Seq(Span), NEW ps \in Seq(Span), NEW list, NEW qs,
         Greedy(ts, ps, list, Len(ps)), IsPairing(ts, ps, qs)
  PROVE  /\ Cardinality(qs) <= 2 * (Len(ts) - Len(list))
         /\ Cardinality(qs) <= Len(ts) - Len(list) + Cardinality(Several(ts, ps))
<1> DEFINE n == Len(ps)
           ties == Several(ts, ps)
<1>1. PICK given, left : Matching(ts, ps, given, left, list, n) /\ Greedily(ts, ps, given, left, list, n)
  BY DEF Greedy
<1> DEFINE taken == Taken(ts, given, n)
           in == {x \in qs : x[2] \in taken}
           out == {x \in qs : x[2] \notin taken}
<1>2. IsFiniteSet(taken) /\ IsFiniteSet(ties)
  <2>1. n \in Nat /\ ties \in SUBSET (1 .. n)
    BY DEF Several
  <2> HIDE DEF n, ties
  <2>2. IsFiniteSet(ties)
    BY <2>1, UpToN, FS_Subset
  <2> QED  BY <2>2, TakenFinite
<1>3. \A x, y \in qs : x[1] = y[1] \/ x[2] = y[2] => x = y
  BY DEF IsPairing
<1>4. ASSUME NEW x \in out
      PROVE  /\ x[1] \in 1 .. n /\ given[x[1]] \in taken /\ given[x[1]] # 0 /\ x[1] \in ties
  <2>1. x \in qs /\ x[2] \notin taken
    OBVIOUS
  <2> QED  BY <1>1, <2>1, GivenAnother DEF Several
<1>5. IsFiniteSet(in) /\ Cardinality(in) <= Cardinality(taken) /\ Cardinality(in) \in Nat
  <2> DEFINE f == [x \in in |-> x[2]]
  <2>1. \A x \in in : f[x] \in taken
    OBVIOUS
  <2>2. \A x, y \in in : f[x] = f[y] => x = y
    BY <1>3
  <2>3. f = [x \in in |-> f[x]]
    OBVIOUS
  <2> HIDE DEF f, in, taken
  <2> QED  BY <1>2, <2>1, <2>2, <2>3, InjectionBounds
<1>6. IsFiniteSet(out) /\ Cardinality(out) <= Cardinality(taken) /\ Cardinality(out) \in Nat
  <2> DEFINE f == [x \in out |-> given[x[1]]]
  <2>1. \A x \in out : f[x] \in taken
    BY <1>4
  <2>2. ASSUME NEW x \in out, NEW y \in out, f[x] = f[y] PROVE x = y
    <3>1. x[1] = y[1]
      BY <1>1, <1>4, <2>2 DEF Matching
    <3> QED  BY <1>3, <3>1
  <2>3. f = [x \in out |-> f[x]]
    OBVIOUS
  <2> HIDE DEF f, out, taken
  <2> QED  BY <1>2, <2>1, <2>2, <2>3, InjectionBounds
<1>7. Cardinality(out) <= Cardinality(ties)
  <2> DEFINE f == [x \in out |-> x[1]]
  <2>1. \A x \in out : f[x] \in ties
    BY <1>4
  <2>2. \A x, y \in out : f[x] = f[y] => x = y
    BY <1>3
  <2>3. f = [x \in out |-> f[x]]
    OBVIOUS
  <2> HIDE DEF f, out, ties
  <2> QED  BY <1>2, <2>1, <2>2, <2>3, InjectionBounds
<1>8. Cardinality(qs) <= Cardinality(in) + Cardinality(out)
  <2>1. qs = in \cup out
    OBVIOUS
  <2>2. Cardinality(in \cap out) \in Nat
    <3>1. in \cap out \in SUBSET in
      OBVIOUS
    <3> HIDE DEF in, out
    <3>2. IsFiniteSet(in \cap out)
      BY <1>5, <3>1, FS_Subset
    <3> QED  BY <3>2, FS_CardinalityType
  <2> HIDE DEF in, out
  <2>3. Cardinality(in \cup out) = Cardinality(in) + Cardinality(out) - Cardinality(in \cap out)
    BY <1>5, <1>6, FS_Union
  <2> QED  BY <1>5, <1>6, <2>1, <2>2, <2>3
<1>9. /\ Cardinality(taken) = Len(ts) - Len(list)
      /\ Cardinality(taken) \in Nat /\ Cardinality(ties) \in Nat
  BY <1>1, <1>2, FS_CardinalityType DEF Greedily
<1>10. Cardinality(qs) \in Int
  <2>1. qs = in \cup out
    OBVIOUS
  <2> HIDE DEF in, out
  <2>2. IsFiniteSet(qs)
    BY <1>5, <1>6, <2>1, FS_Union
  <2>3. Cardinality(qs) \in Nat
    BY <2>2, FS_CardinalityType
  <2> QED  BY <2>3
<1> HIDE DEF in, out, ties, taken, n
<1>11. Cardinality(qs) <= 2 * Cardinality(taken)
       /\ Cardinality(qs) <= Cardinality(taken) + Cardinality(ties)
  BY <1>5, <1>6, <1>7, <1>8, <1>9, <1>10
<1> QED  BY <1>9, <1>11 DEF ties

\* Where spans of one label are apart no pairing is larger than what the
\* greedy pass took: a pair whose gold span was not taken goes to the one its
\* prediction took instead, and that one nobody else matches.
LEMMA NoneIsLarger ==
  ASSUME NEW ts \in Seq(Span), NEW ps \in Seq(Span), NEW list, NEW qs,
         Spaced(ts), Spaced(ps), Greedy(ts, ps, list, Len(ps)), IsPairing(ts, ps, qs)
  PROVE  Cardinality(qs) <= Len(ts) - Len(list)
<1> DEFINE n == Len(ps)
<1>1. PICK given, left : Matching(ts, ps, given, left, list, n) /\ Greedily(ts, ps, given, left, list, n)
  BY DEF Greedy
<1> DEFINE taken == Taken(ts, given, n)
           f == [x \in qs |-> IF x[2] \in taken THEN x[2] ELSE given[x[1]]]
<1>2. ts \in Seq(Span) /\ ps \in Seq(Span)
  OBVIOUS
<1>3. \A x \in qs : /\ x[1] \in 1 .. n /\ x[2] \in 1 .. Len(ts)
                   /\ ps[x[1]] \in Span /\ ts[x[2]] \in Span
                   /\ Match(ps[x[1]], ts[x[2]])
  BY <1>2 DEF IsPairing
<1>4. ASSUME NEW x \in qs, x[2] \notin taken
      PROVE  /\ given[x[1]] \in taken /\ given[x[1]] # 0 /\ given[x[1]] \in 1 .. Len(ts)
             /\ ts[given[x[1]]] \in Span
             /\ Match(ps[x[1]], ts[given[x[1]]])
  <2>1. /\ given[x[1]] \in taken /\ given[x[1]] # 0 /\ given[x[1]] \in 1 .. Len(ts)
        /\ Match(ps[x[1]], ts[given[x[1]]])
    BY <1>1, <1>4, GivenAnother
  <2> QED  BY <2>1
<1>5. \A x \in qs : f[x] \in taken
  BY <1>4
<1>6. ASSUME NEW x \in qs, NEW y \in qs, x[2] \in taken, y[2] \notin taken, x[2] = given[y[1]]
      PROVE  FALSE
  <2>1. x # y
    BY <1>6
  <2>2. x[1] # y[1] /\ x[2] # y[2]
    BY <2>1 DEF IsPairing
  <2>3. Match(ps[y[1]], ts[x[2]])
    BY <1>4, <1>6
  <2>4. ps[y[1]].label = ps[x[1]].label /\ ts[x[2]].label = ts[y[2]].label
    BY <1>3, <2>3 DEF Match
  <2>5. Disjoint(ps[y[1]], ps[x[1]])
    BY <1>3, <2>2, <2>4 DEF Spaced
  <2>6. Disjoint(ts[x[2]], ts[y[2]])
    BY <1>3, <2>2, <2>4 DEF Spaced
  <2> QED
    BY <1>3, <2>3, <2>5, <2>6, Star
<1>7. ASSUME NEW x \in qs, NEW y \in qs, f[x] = f[y] PROVE x = y
  <2>1. CASE x[2] \in taken /\ y[2] \in taken
    BY <1>7, <2>1 DEF IsPairing
  <2>2. CASE x[2] \notin taken /\ y[2] \notin taken
    <3>1. given[x[1]] = given[y[1]] /\ given[x[1]] # 0
      BY <1>4, <1>7, <2>2
    <3>2. x[1] = y[1]
      BY <1>1, <1>3, <3>1 DEF Matching
    <3> QED  BY <3>2 DEF IsPairing
  <2>3. CASE x[2] \in taken /\ y[2] \notin taken
    BY <1>6, <1>7, <2>3
  <2>4. CASE x[2] \notin taken /\ y[2] \in taken
    BY <1>6, <1>7, <2>4
  <2> QED  BY <2>1, <2>2, <2>3, <2>4
<1>8. IsFiniteSet(taken)
  BY <1>2, TakenFinite
<1>9. f \in Injection(qs, taken)
  <2> HIDE DEF taken
  <2>1. f \in [qs -> taken]
    BY <1>5
  <2>2. \A x, y \in qs : f[x] = f[y] => x = y
    BY <1>7
  <2> HIDE DEF f
  <2> QED  BY <2>1, <2>2 DEF Injection, IsInjective
<1>10. Cardinality(qs) <= Cardinality(taken)
  <2> HIDE DEF taken, f
  <2> QED  BY <1>8, <1>9, FS_Injection
<1> QED
  BY <1>1, <1>10 DEF Greedily

\* What it took is a pairing, and as large as it counts.
LEMMA OwnPairing ==
  ASSUME NEW ts \in Seq(Span), NEW ps \in Seq(Span), NEW list, Greedy(ts, ps, list, Len(ps))
  PROVE  \E qs : IsPairing(ts, ps, qs) /\ Cardinality(qs) = Len(ts) - Len(list)
<1> DEFINE n == Len(ps)
           t == Len(ts)
<1>1. PICK given, left : Matching(ts, ps, given, left, list, n) /\ Greedily(ts, ps, given, left, list, n)
  BY DEF Greedy
<1> DEFINE taken == Taken(ts, given, n)
           own == {x \in (1 .. n) \X (1 .. t) : given[x[1]] = x[2]}
           f == [x \in own |-> x[2]]
<1>2. n \in Nat /\ t \in Nat
  OBVIOUS
<1>3. \A x \in own : /\ x[1] \in 1 .. n /\ x[2] \in 1 .. t /\ x = <<x[1], x[2]>>
                    /\ given[x[1]] = x[2] /\ given[x[1]] # 0
  BY <1>2
<1>4. IsPairing(ts, ps, own)
  <2>1. own \in SUBSET ((1 .. n) \X (1 .. t))
    OBVIOUS
  <2>2. \A x \in own : Match(ps[x[1]], ts[x[2]])
    <3> HIDE DEF own
    <3> QED  BY <1>1, <1>3 DEF Matching
  <2>3. ASSUME NEW x \in own, NEW y \in own, x[1] = y[1] \/ x[2] = y[2] PROVE x = y
    <3> HIDE DEF own
    <3>1. x[2] = y[2]
      BY <1>3, <2>3
    <3>2. x[1] = y[1]
      BY <1>1, <1>3, <2>3 DEF Matching
    <3> QED  BY <1>3, <3>1, <3>2
  <2> HIDE DEF own
  <2> QED  BY <2>1, <2>2, <2>3 DEF IsPairing
<1>5. IsFiniteSet(own)
  <2>1. IsFiniteSet(1 .. n) /\ IsFiniteSet(1 .. t)
    BY <1>2, UpToN
  <2>2. IsFiniteSet((1 .. n) \X (1 .. t))
    BY <2>1, FS_Product
  <2>3. own \in SUBSET ((1 .. n) \X (1 .. t))
    OBVIOUS
  <2> HIDE DEF own
  <2> QED  BY <2>2, <2>3, FS_Subset
<1>6. f \in Surjection(own, taken)
  <2>1. \A x \in own : x[2] \in taken
    BY <1>3 DEF Taken
  <2>2. ASSUME NEW j \in taken PROVE \E x \in own : x[2] = j
    <3>1. PICK i \in 1 .. n : given[i] = j
      BY DEF Taken
    <3>2. j \in 1 .. t
      BY DEF Taken
    <3>3. <<i, j>> \in own
      BY <3>1, <3>2
    <3> QED  BY <3>3
  <2> HIDE DEF own, taken
  <2> QED  BY <2>1, <2>2 DEF Surjection
<1>7. Cardinality(own) = Cardinality(taken)
  <2>1. \A x, y \in own : x[2] = y[2] => x = y
    <3> HIDE DEF own
    <3> QED  BY <1>4 DEF IsPairing
  <2>2. f \in Injection(own, taken)
    <3>1. \A x \in own : f[x] = x[2]
      OBVIOUS
    <3> HIDE DEF own, taken, f
    <3> QED  BY <1>6, <2>1, <3>1 DEF Injection, Surjection, IsInjective
  <2> HIDE DEF own, taken, f
  <2> QED  BY <1>5, <1>6, <2>2, FS_Surjection
<1>8. Cardinality(taken) = t - Len(list)
  BY <1>1 DEF Greedily
<1> HIDE DEF own
<1> QED
  BY <1>4, <1>7, <1>8

(* ---------- One document ---------- *)

InvScore ==
  /\ truth \in Seq(Span) /\ pred \in Seq(Span) /\ scored \in 0 .. Len(pred)
  /\ Greedy(truth, pred, free, scored) /\ Greedy(truth, pred, open, scored)

LEMMA ListsAreSequences ==
  ASSUME NEW list \in Lists
  PROVE  list \in Seq(Span)
<1>1. PICK n \in 0 .. MaxSpans : list \in [1 .. n -> Span]
  BY DEF Lists
<1>2. n \in Nat
  BY ScoringAssumption
<1> QED  BY <1>1, <1>2

LEMMA ScoreBegins ==
  ASSUME InitScoring
  PROVE  InvScore
<1>1. <<>> \in Seq(Span) /\ scored \in 0 .. Len(pred)
  BY DEF InitScoring
<1>2. Greedy(<<>>, <<>>, <<>>, 0)
  BY <1>1, GreedyBegins
<1> QED  BY <1>1, <1>2 DEF InitScoring, InvScore

LEMMA TakeKeeps ==
  ASSUME InvScore, Take
  PROVE  InvScore'
<1>1. truth' \in Seq(Span) /\ pred' \in Seq(Span)
  BY ListsAreSequences DEF Take
<1>2. scored' = 0
  BY DEF Take, InvScore
<1>3. Greedy(truth', pred', truth', 0)
  BY <1>1, GreedyBegins
<1>4. scored' \in 0 .. Len(pred')
  BY <1>1, <1>2
<1> QED  BY <1>1, <1>2, <1>3, <1>4 DEF Take, InvScore

LEMMA ScoreKeeps ==
  ASSUME InvScore, Score
  PROVE  InvScore'
<1> DEFINE n == scored
           p == pred[n + 1]
<1>1. pred \in Seq(Span) /\ Len(pred) \in Nat /\ n \in Nat /\ n < Len(pred)
  BY DEF InvScore, Score
<1>2. p \in Span
  BY <1>1
<1>3. truth \in Seq(Span) /\ Greedy(truth, pred, free, n) /\ Greedy(truth, pred, open, n)
  BY DEF InvScore
<1>4. free \in Seq(Span) /\ open \in Seq(Span)
  BY <1>3 DEF Greedy
<1>5. Greedy(truth, pred, Without(free, FindMatch(p, free)), n + 1)
  <2>1. Chosen(FindMatch(p, free), p, free)
    BY <1>2, <1>4, FindMatchChooses
  <2> QED  BY <1>1, <1>3, <2>1, GreedyGoesOn
<1>6. Greedy(truth, pred, Without(open, FirstMatch(p, open)), n + 1)
  <2>1. Chosen(FirstMatch(p, open), p, open)
    BY <1>2, <1>4, FirstMatchChooses
  <2> QED  BY <1>1, <1>3, <2>1, GreedyGoesOn
<1>7. n + 1 \in 0 .. Len(pred)
  BY <1>1
<1> QED
  BY <1>1, <1>3, <1>5, <1>6, <1>7 DEF InvScore, Score

LEMMA PairingsAre ==
  ASSUME truth \in Seq(Span), pred \in Seq(Span)
  PROVE  /\ \A qs : qs \in Pairings <=> IsPairing(truth, pred, qs)
         /\ Ties = Several(truth, pred)
         /\ ApartByLabel(truth) <=> Spaced(truth)
         /\ ApartByLabel(pred) <=> Spaced(pred)
<1>1. DOMAIN truth = 1 .. Len(truth) /\ DOMAIN pred = 1 .. Len(pred)
  OBVIOUS
<1>2. \A qs : qs \in Pairings <=> IsPairing(truth, pred, qs)
  BY <1>1 DEF Pairings, IsPairing
<1>3. Ties = Several(truth, pred)
  BY <1>1 DEF Ties, Several
<1>4. (ApartByLabel(truth) <=> Spaced(truth)) /\ (ApartByLabel(pred) <=> Spaced(pred))
  BY <1>1 DEF ApartByLabel, Spaced, Disjoint
<1> QED  BY <1>2, <1>3, <1>4

LEMMA GreedyEnds ==
  ASSUME InvScore
  PROVE  GreedyLosesOnlyTies
<1> SUFFICES ASSUME scored = Len(pred), NEW left \in {free, open}
             PROVE  LET taken == Len(truth) - Len(left)
                    IN /\ \E qs \in Pairings : Cardinality(qs) = taken
                       /\ \A qs \in Pairings :
                            /\ Cardinality(qs) <= 2 * taken
                            /\ Cardinality(qs) <= taken + Cardinality(Ties)
                            /\ ApartByLabel(truth) /\ ApartByLabel(pred)
                                 => Cardinality(qs) <= taken
  BY DEF GreedyLosesOnlyTies
<1>1. truth \in Seq(Span) /\ pred \in Seq(Span) /\ Greedy(truth, pred, left, Len(pred))
  BY DEF InvScore
<1>2. \E qs \in Pairings : Cardinality(qs) = Len(truth) - Len(left)
  BY <1>1, OwnPairing, PairingsAre
<1>3. ASSUME NEW qs \in Pairings
      PROVE  /\ Cardinality(qs) <= 2 * (Len(truth) - Len(left))
             /\ Cardinality(qs) <= Len(truth) - Len(left) + Cardinality(Ties)
             /\ ApartByLabel(truth) /\ ApartByLabel(pred)
                  => Cardinality(qs) <= Len(truth) - Len(left)
  <2>1. IsPairing(truth, pred, qs)
    BY <1>1, PairingsAre
  <2>2. /\ Cardinality(qs) <= 2 * (Len(truth) - Len(left))
        /\ Cardinality(qs) <= Len(truth) - Len(left) + Cardinality(Several(truth, pred))
    BY <1>1, <2>1, AtMostTwice
  <2>3. Spaced(truth) /\ Spaced(pred) => Cardinality(qs) <= Len(truth) - Len(left)
    BY <1>1, <2>1, NoneIsLarger
  <2> QED  BY <1>1, <2>2, <2>3, PairingsAre
<1> QED  BY <1>2, <1>3

\* However many spans a document has, however they overlap and in whatever
\* order the tool lists its own, evaluate and _confusion (metrics.py:47,
\* bench_full.py:717) count a real pairing, at least half as large as the best
\* and short of it by no more than the predictions that match several gold
\* spans; where spans of one label are apart it is the best.
THEOREM GreedyLosesTiesAlone == Spec => []GreedyLosesOnlyTies
<1>1. Init => InvScore
  BY ScoreBegins DEF Init
<1>2. InvScore /\ [Next]_allvars => InvScore'
  <2> SUFFICES ASSUME InvScore, [Next]_allvars PROVE InvScore'
    OBVIOUS
  <2>1. CASE UNCHANGED scorevars
    BY <2>1 DEF scorevars, InvScore
  <2>2. CASE RunScore
    BY <2>2, TakeKeeps, ScoreKeeps DEF RunScore, NextScoring
  <2> QED  BY <2>1, <2>2 DEF Next, RunBench, allvars
<1>3. InvScore => GreedyLosesOnlyTies
  BY GreedyEnds
<1> QED
  BY <1>1, <1>2, <1>3, PTL DEF Spec

=============================================================================
