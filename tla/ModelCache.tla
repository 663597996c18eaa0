------------------------------ MODULE ModelCache ------------------------------
(***************************************************************************)
(* The model's files on disk (src/hf-hub.ts, src/model-manager.ts):        *)
(* processes that share one cache directory look for the shared file and   *)
(* one ONNX graph, download what no checksum sidecar vouches for, and may  *)
(* be killed anywhere.  The model pins the SHA-256 of what it fetches, as  *)
(* the default one does; a model without pins is left out.                 *)
(*                                                                         *)
(* What a file holds is told by its hash: that of the pinned bytes, of     *)
(* others, or of an unfinished file.                                       *)
(***************************************************************************)
EXTENDS Naturals, Sequences, SequencesExt

CONSTANTS
  Processes,
  SharedFiles,  \* SHARED_FILES, the files every variant needs
  Candidates,   \* the ONNX graphs of the variant, best first
  Pins,         \* the files model.sha256 names
  MaxAttempts,  \* MAX_ATTEMPTS, 4 there
  MaxStarts     \* bound: calls of ensure()

Shared == ToSet(SharedFiles)
Usable == SelectSeq(Candidates, LAMBDA f : f \in Pins)
Files == Shared \cup ToSet(Usable)

Absent == "absent"
Pinned == "pinned"
Others == "others"
Cut == "cut"

(* A model that pins hashes pins every shared file and some candidate;     *)
(* expectedSha and pinnedCandidates refuse any other.  No file is listed   *)
(* twice.                                                                  *)
ASSUME ModelCacheAssumption ==
  /\ SharedFiles \in Seq(Pins \ {Absent}) /\ SharedFiles # <<>>
  /\ IsInjective(SharedFiles)
  /\ Usable \in Seq(Pins \ {Absent}) /\ Usable # <<>>
  /\ MaxAttempts \in Nat \ {0} /\ MaxStarts \in Nat

VARIABLES
  disk,     \* what each file holds
  side,     \* the hash its sidecar names
  partial,  \* the temporary files
  proc,     \* where each process stands
  starts

cachevars == <<disk, side, partial, proc, starts>>

(* A process: what it does, to which file, in which phase (the shared      *)
(* files, a look at each candidate, fetching them in turn), the hash read  *)
(* from the sidecar, the attempt, and the graph it came to.                *)
Doing(what, file, phase, read, attempt, graph) ==
  [what |-> what, file |-> file, phase |-> phase, read |-> read,
   attempt |-> attempt, graph |-> graph]
Resting == Doing("idle", Absent, "none", Absent, 0, Absent)
Look(phase, file) == Doing("look", file, phase, Absent, 0, Absent)
Through(graph) == Doing("ready", graph, "none", Absent, 0, graph)
Failed == Doing("failed", Absent, "none", Absent, 0, Absent)

(* The file that follows in a list, if there is one. *)
AfterIn(list, file) ==
  IF \E k \in 2 .. Len(list) : list[k - 1] = file
  THEN list[CHOOSE k \in 2 .. Len(list) : list[k - 1] = file]
  ELSE Absent

(* The temporary file of a download: process, attempt, random bytes.       *)
\* Mutant: every download writes to the same one.
TemporaryShared(p, file) == <<"any", file>>
Temporary(p, file) == <<p, file>>
Temporaries == (Processes \X Files) \cup ({"any"} \X Files)

(* What earlier runs can have left of a file and its sidecar: nothing; a   *)
(* good copy; one whose run was killed before it was vouched for; the      *)
(* bytes of a download without pins; a copy that went bad afterwards.      *)
Conditions ==
  {<<Absent, Absent>>, <<Pinned, Pinned>>, <<Pinned, Cut>>, <<Others, Others>>,
   <<Others, Pinned>>}

InitCache ==
  /\ \E left \in [Files -> Conditions] :
       /\ disk = [f \in Files |-> left[f][1]]
       /\ side = [f \in Files |-> left[f][2]]
  /\ partial = [t \in Temporaries |-> Absent]
  /\ proc = [p \in Processes |-> Resting]
  /\ starts = 0

Goes(p, to) == proc' = [proc EXCEPT ![p] = to]

Ensure(p) ==
  /\ proc[p] = Resting /\ starts < MaxStarts
  /\ starts' = starts + 1
  /\ Goes(p, Look("shared", SharedFiles[1]))
  /\ UNCHANGED <<disk, side, partial>>

(* ---------- What comes after a file (ensure, pickOnnx) ---------- *)

(* The file is there: the next shared file, the first candidate, or the    *)
(* graph to use.                                                           *)
Got(phase, file) ==
  IF phase # "shared" THEN Through(file)
  ELSE IF AfterIn(SharedFiles, file) # Absent
       THEN Look("shared", AfterIn(SharedFiles, file))
       ELSE Look("peek", Usable[1])

(* It cannot be had: the next candidate, or the error. *)
Missed(phase, file) ==
  IF phase = "fetch" /\ AfterIn(Usable, file) # Absent
  THEN Look("fetch", AfterIn(Usable, file)) ELSE Failed

(* It is not in the cache: candidates are all looked at before one is      *)
(* downloaded.                                                             *)
NotCached(phase, file) ==
  IF phase # "peek" THEN Doing("download", file, phase, Absent, 1, Absent)
  ELSE IF AfterIn(Usable, file) # Absent THEN Look("peek", AfterIn(Usable, file))
       ELSE Look("fetch", Usable[1])

(* ---------- A cached copy (isCachedFile, verifiedSha) ---------- *)

ReadSidecar(p) ==
  LET w == proc[p] IN
  /\ w.what = "look"
  /\ Goes(p, IF disk[w.file] = Absent \/ side[w.file] \in {Absent, Cut}
             THEN NotCached(w.phase, w.file)
             ELSE [w EXCEPT !.what = "hash", !.read = side[w.file]])
  /\ UNCHANGED <<disk, side, partial, starts>>

(* The copy's hash is its sidecar's, and that the pin. *)
\* Mutant: the sidecar vouches for the copy, unread.
CachedUnhashed(read, held) == read = Pinned
Cached(read, held) == read = Pinned /\ held = read

Hash(p) ==
  LET w == proc[p] IN
  /\ w.what = "hash"
  /\ Goes(p, IF Cached(w.read, disk[w.file]) THEN Got(w.phase, w.file)
             ELSE NotCached(w.phase, w.file))
  /\ UNCHANGED <<disk, side, partial, starts>>

(* ---------- A download (retryDownload, downloadWithTimeout) ---------- *)

(* The response is there and its temporary file is opened. *)
Open(p) ==
  LET w == proc[p] IN
  /\ w.what = "download"
  /\ partial' = [partial EXCEPT ![Temporary(p, w.file)] = Cut]
  /\ Goes(p, [w EXCEPT !.what = "receive"])
  /\ UNCHANGED <<disk, side, starts>>

(* Every byte is received and hashed on the way.  Only the pinned ones are *)
(* moved to their place.                                                   *)
\* Mutant: the file is moved whatever its hash.
FitsAny(got) == TRUE
Fits(got) == got = Pinned

Receive(p) ==
  LET w == proc[p] IN
  /\ w.what = "receive"
  /\ \E got \in {Pinned, Others} :
       IF Fits(got)
       THEN /\ partial' = [partial EXCEPT ![Temporary(p, w.file)] = got]
            /\ Goes(p, [w EXCEPT !.what = "move", !.read = got])
       ELSE /\ partial' = [partial EXCEPT ![Temporary(p, w.file)] = Absent]
            /\ Goes(p, Missed(w.phase, w.file))
  /\ UNCHANGED <<disk, side, starts>>

(* A refusal, a broken connection, the timeout: what has come is deleted.  *)
(* Some errors are worth another attempt, up to the last.                  *)
\* Mutant: the attempts are not counted.
NextAttemptUncounted(k) == k
NextAttempt(k) == k + 1

Break(p) ==
  LET w == proc[p] IN
  /\ w.what \in {"download", "receive"}
  /\ partial' = [partial EXCEPT ![Temporary(p, w.file)] = Absent]
  /\ \E retryable \in BOOLEAN :
       Goes(p, IF retryable /\ w.attempt < MaxAttempts
               THEN [w EXCEPT !.what = "download", !.attempt = NextAttempt(@)]
               ELSE Missed(w.phase, w.file))
  /\ UNCHANGED <<disk, side, starts>>

(* rename(tmp, dest): what the temporary file holds by now. *)
Move(p) ==
  LET w == proc[p] IN
  /\ w.what = "move"
  /\ disk' = [disk EXCEPT ![w.file] = partial[Temporary(p, w.file)]]
  /\ partial' = [partial EXCEPT ![Temporary(p, w.file)] = Absent]
  /\ Goes(p, [w EXCEPT !.what = "sidecar"])
  /\ UNCHANGED <<side, starts>>
(* The rename fails (permissions, another device), which no attempt mends. *)
MoveFails(p) ==
  LET w == proc[p] IN
  /\ w.what = "move"
  /\ partial' = [partial EXCEPT ![Temporary(p, w.file)] = Absent]
  /\ Goes(p, Missed(w.phase, w.file))
  /\ UNCHANGED <<disk, side, starts>>

(* The sidecar is rewritten: emptied first, and whole a moment later.      *)
EmptySidecar(p) ==
  /\ proc[p].what = "sidecar"
  /\ side' = [side EXCEPT ![proc[p].file] = Cut]
  /\ Goes(p, [proc[p] EXCEPT !.what = "vouch"])
  /\ UNCHANGED <<disk, partial, starts>>
WriteSidecar(p) ==
  LET w == proc[p] IN
  /\ w.what = "vouch"
  /\ side' = [side EXCEPT ![w.file] = w.read]
  /\ Goes(p, Got(w.phase, w.file))
  /\ UNCHANGED <<disk, partial, starts>>
(* It cannot be written, or not whole (a full disk): the file is in its    *)
(* place, and nothing vouches for it.                                      *)
SidecarFails(p) ==
  LET w == proc[p] IN
  /\ w.what \in {"sidecar", "vouch"}
  /\ Goes(p, Missed(w.phase, w.file))
  /\ UNCHANGED <<disk, side, partial, starts>>

(* ---------- Processes ---------- *)

(* Killed anywhere, or done with the model.  The temporary file it may     *)
(* leave has a name no other download takes, and is left out.              *)
Stop(p) ==
  /\ proc[p] # Resting
  /\ Goes(p, Resting)
  /\ partial' = [t \in Temporaries |-> IF t[1] = p THEN Absent ELSE partial[t]]
  /\ UNCHANGED <<disk, side, starts>>

GoesOn(p) ==
  \/ ReadSidecar(p) \/ Hash(p) \/ Open(p) \/ Receive(p) \/ Break(p)
  \/ Move(p) \/ MoveFails(p)
  \/ EmptySidecar(p) \/ WriteSidecar(p) \/ SidecarFails(p)

NextCache == \E p \in Processes : Ensure(p) \/ GoesOn(p) \/ Stop(p)

(* A process goes on while it lives; a download ends by its timeout.       *)
FairCache == \A p \in Processes : WF_cachevars(GoesOn(p))

SpecCache == InitCache /\ [][NextCache]_cachevars /\ FairCache
=============================================================================
