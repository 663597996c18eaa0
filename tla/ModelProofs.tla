------------------------------ MODULE ModelProofs ------------------------------
(***************************************************************************)
(* Proofs of the safety of the engine's life, for any number of calls,     *)
(* warmups and disposers, and of the model cache, for any number of        *)
(* processes, files, candidates, attempts and starts.                      *)
(*                                                                         *)
(* The engine's inductive invariant says what a disposer knows: who can    *)
(* still run while it waits, that no one can once it has waited, and that  *)
(* every load or session still alive is the one callers share or the one   *)
(* it took.  The cache's says what each process knows of the disk at each  *)
(* of its steps; it survives the steps of the other processes because a    *)
(* pinned copy is only ever replaced by another.                           *)
(***************************************************************************)
EXTENDS EngineProperties, ModelCacheProperties, FiniteSetTheorems, TLAPS

(* ---------- The engine's life ---------- *)

CallStages == {"idle", "init", "detect", "load", "run"}
DisposerStages == {"idle", "waiting", "taken", "releasing", "clearing", "done"}
Wait == [calls : SUBSET Calls, init : Nat]

\* Promises, loads, sessions and callers keep their types.
EngineTypeOK ==
  /\ inits \in Seq({"running", "ok", "failed"}) /\ initPromise \in Nat
  /\ loads \in Seq({"starting", "accelerator", "cpu", "ok", "failed"})
  /\ sessions \in Seq({"none", "open", "releasing", "released"})
  /\ Len(sessions) = Len(loads)
  /\ sessionLoad \in 0 .. Len(loads)
  /\ calls \in [Calls -> [stage : CallStages, on : Nat]]
  /\ disposers \in [Disposers -> [stage : DisposerStages, on : Nat \cup Wait]]

Takes(d) == disposers[d].stage \in {"taken", "releasing"}
Past(d) == disposers[d].stage \in {"taken", "releasing", "clearing", "done"}

(* A call past its initialisation has a backend; it waits for a load that  *)
(* was begun, and runs on a session that is open.                          *)
CallsOK ==
  \A c \in Calls :
    /\ calls[c].stage \in {"detect", "load", "run"} => backend
    /\ calls[c].stage \in {"load", "run"} => calls[c].on \in 1 .. Len(loads)
    /\ calls[c].stage = "run" => sessions[calls[c].on] = "open"

(* While a disposer waits only those it waits for can run; afterwards no   *)
(* one does, and no load is shared.  One disposer at most takes a load.    *)
DisposersOK ==
  /\ \A d \in Disposers :
       /\ disposers[d].stage # "idle" => disposed
       /\ disposers[d].stage = "waiting" =>
            \A c \in Calls : calls[c] # Idle => c \in disposers[d].on.calls
       /\ Past(d) => sessionLoad = 0 /\ \A c \in Calls : calls[c] = Idle
       /\ Takes(d) => disposers[d].on \in 1 .. Len(loads)
       /\ disposers[d].stage = "releasing" => loads[disposers[d].on] = "ok"
       /\ disposers[d].stage = "done" => ~entries
  /\ \A d, e \in Disposers : Takes(d) /\ Takes(e) => d = e

Live(n) == Under(n) \/ sessions[n] \in {"open", "releasing"}

(* A session comes from a load that succeeded, and is open until a         *)
(* disposer has waited.  What is alive is shared or taken.                 *)
LoadsOK ==
  /\ sessionLoad # 0 => backend
  /\ \A n \in 1 .. Len(loads) :
       /\ loads[n] # "ok" => sessions[n] = "none"
       /\ loads[n] = "ok" /\ (\A d \in Disposers : ~Past(d)) => sessions[n] = "open"
       /\ Live(n) => \/ sessionLoad = n
                     \/ \E d \in Disposers : Takes(d) /\ disposers[d].on = n

EngineInv == EngineTypeOK /\ CallsOK /\ DisposersOK /\ LoadsOK

LEMMA EngineStarts == InitEngine => EngineInv
<1> SUFFICES ASSUME InitEngine PROVE EngineInv
  OBVIOUS
<1>1. Idle \in [stage : CallStages, on : Nat] /\ Idle.stage = "idle"
  BY DEF Idle, At, CallStages
<1>2. Idle \in [stage : DisposerStages, on : Nat \cup Wait]
  BY DEF Idle, At, DisposerStages
<1>3. /\ loads = <<>> /\ sessions = <<>> /\ inits = <<>> /\ Len(loads) = 0
      /\ \A c \in Calls : calls[c] = Idle
      /\ \A d \in Disposers : disposers[d] = Idle
  BY DEF InitEngine
<1>4. EngineTypeOK
  <2>1. calls \in [Calls -> [stage : CallStages, on : Nat]]
    BY <1>1 DEF InitEngine
  <2>2. disposers \in [Disposers -> [stage : DisposerStages, on : Nat \cup Wait]]
    BY <1>2 DEF InitEngine
  <2>3. initPromise \in Nat /\ sessionLoad \in 0 .. Len(loads) /\ Len(sessions) = Len(loads)
    BY <1>3 DEF InitEngine
  <2> QED  BY <1>3, <2>1, <2>2, <2>3 DEF EngineTypeOK
<1>5. CallsOK /\ DisposersOK
  BY <1>1, <1>3 DEF CallsOK, DisposersOK, Past, Takes
<1>6. LoadsOK
  BY <1>3 DEF InitEngine, LoadsOK
<1> QED  BY <1>4, <1>5, <1>6 DEF EngineInv

(* ---------- Steps of the promises ---------- *)

LEMMA InitEndsKeeps ==
  ASSUME NEW i \in DOMAIN inits, InitEnds(i), EngineInv
  PROVE  EngineInv'
<1>1. EngineTypeOK'
  <2>1. PICK to \in {"ok", "failed"} : inits' = [inits EXCEPT ![i] = to]
    BY DEF InitEnds
  <2>2. inits \in Seq({"running", "ok", "failed"})
    BY DEF EngineInv, EngineTypeOK
  <2>3. inits' \in Seq({"running", "ok", "failed"})
    BY <2>1, <2>2
  <2>4. initPromise' \in Nat
    BY DEF InitEnds, EngineInv, EngineTypeOK
  <2> QED  BY <2>3, <2>4 DEF InitEnds, EngineInv, EngineTypeOK
<1>2. CallsOK'
  BY DEF InitEnds, EngineInv, EngineTypeOK, CallsOK
<1>3. DisposersOK'
  BY DEF InitEnds, EngineInv, DisposersOK, Past, Takes
<1>4. LoadsOK'
  BY DEF InitEnds, EngineInv, EngineTypeOK, LoadsOK, Past, Takes, Live, Under
<1> QED  BY <1>1, <1>2, <1>3, <1>4 DEF EngineInv

\* A load that is being made goes on being made (loadSession).
LEMMA LoadGoesOnKeeps ==
  ASSUME NEW n \in DOMAIN loads, LoadCreates(n) \/ LoadFallsBack(n), EngineInv
  PROVE  EngineInv'
<1>1. PICK to \in {"accelerator", "cpu"} : loads' = [loads EXCEPT ![n] = to]
  BY DEF LoadCreates, LoadFallsBack
<1>2. Under(n) /\ n \in 1 .. Len(loads)
  BY DEF LoadCreates, LoadFallsBack, Under, EngineInv, EngineTypeOK
<1>3. UNCHANGED <<disposed, initPromise, inits, backend, sessionLoad, sessions, entries,
                  calls, warmups, disposers>>
  BY DEF LoadCreates, LoadFallsBack
<1>4. /\ Len(loads') = Len(loads) /\ loads'[n] = to
      /\ \A m \in 1 .. Len(loads) : m # n => loads'[m] = loads[m]
  BY <1>1, <1>2 DEF EngineInv, EngineTypeOK
<1>5. EngineTypeOK'
  BY <1>1, <1>3, <1>4 DEF EngineInv, EngineTypeOK
<1>6. CallsOK'
  BY <1>3, <1>4 DEF EngineInv, CallsOK
<1>7. DisposersOK'
  BY <1>2, <1>3, <1>4 DEF EngineInv, DisposersOK, Past, Takes, Under
<1>8. LoadsOK'
  BY <1>2, <1>3, <1>4 DEF EngineInv, LoadsOK, Past, Takes, Live, Under
<1> QED  BY <1>5, <1>6, <1>7, <1>8 DEF EngineInv

LEMMA LoadSucceedsKeeps ==
  ASSUME NEW n \in DOMAIN loads, LoadSucceeds(n), EngineInv
  PROVE  EngineInv'
<1>1. Under(n) /\ n \in 1 .. Len(loads)
  BY DEF LoadSucceeds, Under, EngineInv, EngineTypeOK
<1>2. /\ loads' = [loads EXCEPT ![n] = "ok"] /\ sessions' = [sessions EXCEPT ![n] = "open"]
      /\ UNCHANGED <<disposed, initPromise, inits, backend, sessionLoad, entries, calls,
                     warmups, disposers>>
  BY DEF LoadSucceeds
<1>3. /\ Len(loads') = Len(loads) /\ loads'[n] = "ok" /\ sessions'[n] = "open"
      /\ \A m \in 1 .. Len(loads) : m # n => loads'[m] = loads[m] /\ sessions'[m] = sessions[m]
  BY <1>1, <1>2 DEF EngineInv, EngineTypeOK
<1>4. EngineTypeOK'
  BY <1>2, <1>3 DEF EngineInv, EngineTypeOK
<1>5. CallsOK'
  BY <1>2, <1>3 DEF EngineInv, CallsOK
<1>6. DisposersOK'
  BY <1>2, <1>3 DEF EngineInv, DisposersOK, Past, Takes
<1>7. LoadsOK'
  BY <1>1, <1>2, <1>3 DEF EngineInv, LoadsOK, Past, Takes, Live, Under
<1> QED  BY <1>4, <1>5, <1>6, <1>7 DEF EngineInv

LEMMA LoadFailsKeeps ==
  ASSUME NEW n \in DOMAIN loads, LoadFails(n), EngineInv
  PROVE  EngineInv'
<1>1. Under(n) /\ n \in 1 .. Len(loads)
  BY DEF LoadFails, EngineInv, EngineTypeOK
<1>2. /\ loads' = [loads EXCEPT ![n] = "failed"] /\ sessionLoad' = 0
      /\ UNCHANGED <<disposed, initPromise, inits, backend, sessions, entries, calls,
                     warmups, disposers>>
  BY DEF LoadFails
<1>3. /\ Len(loads') = Len(loads) /\ loads'[n] = "failed"
      /\ \A m \in 1 .. Len(loads) : m # n => loads'[m] = loads[m]
  BY <1>1, <1>2 DEF EngineInv, EngineTypeOK
<1>4. sessionLoad \in {0, n}
  BY <1>1 DEF EngineInv, EngineTypeOK, LoadsOK, DisposersOK, Live, Takes, Past
<1>5. EngineTypeOK'
  BY <1>2, <1>3 DEF EngineInv, EngineTypeOK
<1>6. CallsOK'
  BY <1>2, <1>3 DEF EngineInv, CallsOK
<1>7. DisposersOK'
  BY <1>1, <1>2, <1>3 DEF EngineInv, DisposersOK, Past, Takes, Under
<1>8. LoadsOK'
  BY <1>1, <1>2, <1>3, <1>4 DEF EngineInv, LoadsOK, Past, Takes, Live, Under
<1> QED  BY <1>5, <1>6, <1>7, <1>8 DEF EngineInv

(* ---------- Steps of the calls and warmups ---------- *)

\* A new load is the one callers share, and nothing else changes among the
\* loads (ensureSession).
LEMMA BeginLoadGives ==
  ASSUME BeginLoad, EngineInv
  PROVE  /\ loads' \in Seq({"starting", "accelerator", "cpu", "ok", "failed"})
         /\ sessions' \in Seq({"none", "open", "releasing", "released"})
         /\ Len(sessions') = Len(loads') /\ Len(loads) <= Len(loads')
         /\ sessionLoad' = LoadFor /\ LoadFor \in 1 .. Len(loads')
         /\ \A n \in 1 .. Len(loads) : loads'[n] = loads[n] /\ sessions'[n] = sessions[n]
         /\ \A n \in 1 .. Len(loads') \ (1 .. Len(loads)) :
              n = LoadFor /\ loads'[n] = "starting" /\ sessions'[n] = "none"
         /\ sessionLoad # 0 => LoadFor = sessionLoad
<1>1. /\ loads \in Seq({"starting", "accelerator", "cpu", "ok", "failed"})
      /\ sessions \in Seq({"none", "open", "releasing", "released"})
      /\ Len(sessions) = Len(loads) /\ Len(loads) \in Nat
      /\ sessionLoad \in 0 .. Len(loads) /\ DOMAIN loads = 1 .. Len(loads)
  BY DEF EngineInv, EngineTypeOK
<1>2. CASE LoadFor \in DOMAIN loads
  <2>1. UNCHANGED <<loads, sessions>> /\ sessionLoad' = LoadFor
    BY <1>2 DEF BeginLoad
  <2>2. sessionLoad # 0 => LoadFor = sessionLoad
    BY DEF LoadFor
  <2> QED  BY <1>1, <1>2, <2>1, <2>2
<1>3. CASE LoadFor \notin DOMAIN loads
  <2>1. sessionLoad = 0 /\ LoadFor = Len(loads) + 1
    BY <1>1, <1>3 DEF LoadFor
  <2>2. /\ loads' = Append(loads, "starting") /\ sessions' = Append(sessions, "none")
        /\ sessionLoad' = LoadFor
    BY <1>3 DEF BeginLoad
  <2>3. /\ loads' \in Seq({"starting", "accelerator", "cpu", "ok", "failed"})
        /\ sessions' \in Seq({"none", "open", "releasing", "released"})
        /\ Len(loads') = Len(loads) + 1 /\ Len(sessions') = Len(loads) + 1
    BY <1>1, <2>2
  <2>4. /\ \A n \in 1 .. Len(loads) : loads'[n] = loads[n] /\ sessions'[n] = sessions[n]
        /\ loads'[Len(loads) + 1] = "starting" /\ sessions'[Len(loads) + 1] = "none"
    BY <1>1, <2>2
  <2> QED  BY <1>1, <2>1, <2>2, <2>3, <2>4
<1> QED  BY <1>2, <1>3

\* A load that is begun is shared, and no disposer has waited (infer,
\* warmup).
LEMMA BeginLoadKeeps ==
  ASSUME BeginLoad, EngineInv, backend, \A d \in Disposers : ~Past(d),
         UNCHANGED <<backend, disposers>>
  PROVE  LoadsOK'
<1>1. /\ Len(loads) <= Len(loads') /\ Len(loads) \in Nat /\ Len(loads') \in Nat
      /\ sessionLoad' = LoadFor
      /\ \A n \in 1 .. Len(loads) : loads'[n] = loads[n] /\ sessions'[n] = sessions[n]
      /\ \A n \in 1 .. Len(loads') \ (1 .. Len(loads)) :
           n = LoadFor /\ loads'[n] = "starting" /\ sessions'[n] = "none"
      /\ sessionLoad # 0 => LoadFor = sessionLoad
  BY BeginLoadGives DEF EngineInv, EngineTypeOK
<1>2. \A d \in Disposers : ~Takes(d)
  BY DEF Past, Takes
<1> SUFFICES ASSUME NEW n \in 1 .. Len(loads')
             PROVE  /\ loads'[n] # "ok" => sessions'[n] = "none"
                    /\ loads'[n] = "ok" /\ (\A d \in Disposers : ~Past(d)') => sessions'[n] = "open"
                    /\ Live(n)' => \/ sessionLoad' = n
                                   \/ \E d \in Disposers : Takes(d)' /\ disposers'[d].on = n
  BY DEF LoadsOK
<1>3. CASE n \in 1 .. Len(loads)
  <2>1. /\ loads[n] # "ok" => sessions[n] = "none"
        /\ loads[n] = "ok" => sessions[n] = "open"
        /\ Live(n) => sessionLoad = n
    BY <1>2, <1>3 DEF EngineInv, LoadsOK
  <2>2. n # 0
    BY <1>1
  <2> QED  BY <1>1, <1>3, <2>1, <2>2 DEF Live, Under
<1>4. CASE n \notin 1 .. Len(loads)
  BY <1>1, <1>4 DEF Live
<1> QED  BY <1>3, <1>4

\* A call that goes to a place the engine bears out keeps the rest.
LEMMA CallMoves ==
  ASSUME NEW c \in Calls, NEW to \in [stage : CallStages, on : Nat], EngineInv,
         calls' = [calls EXCEPT ![c] = to], calls[c] # Idle \/ ~disposed
  PROVE  /\ calls' \in [Calls -> [stage : CallStages, on : Nat]] /\ calls'[c] = to
         /\ \A e \in Calls : e # c => calls'[e] = calls[e]
         /\ \A d \in Disposers : ~Past(d)
         /\ \A d \in Disposers : disposers[d].stage = "waiting" =>
              \A e \in Calls : calls'[e] # Idle => e \in disposers[d].on.calls
<1>1. /\ calls' \in [Calls -> [stage : CallStages, on : Nat]] /\ calls'[c] = to
      /\ \A e \in Calls : e # c => calls'[e] = calls[e]
  BY DEF EngineInv, EngineTypeOK
<1>2. \A d \in Disposers : ~Past(d)
  BY DEF EngineInv, DisposersOK, Past
<1>3. \A d \in Disposers : disposers[d].stage = "waiting" =>
         \A e \in Calls : calls'[e] # Idle => e \in disposers[d].on.calls
  BY <1>1 DEF EngineInv, DisposersOK
<1> QED  BY <1>1, <1>2, <1>3

\* Nothing but calls changes, and perhaps the initialisation or the vault.
LEMMA OnlyCallMoves ==
  ASSUME NEW c \in Calls, NEW to \in [stage : CallStages, on : Nat], EngineInv,
         calls' = [calls EXCEPT ![c] = to], calls[c] # Idle \/ ~disposed,
         UNCHANGED <<disposed, backend, sessionLoad, loads, sessions, disposers>>,
         inits' \in Seq({"running", "ok", "failed"}), initPromise' \in Nat,
         to.stage \in {"detect", "run"} => backend,
         to.stage # "load",
         to.stage = "run" => to.on \in 1 .. Len(loads) /\ sessions[to.on] = "open"
  PROVE  EngineInv'
<1>1. /\ calls' \in [Calls -> [stage : CallStages, on : Nat]] /\ calls'[c] = to
      /\ \A e \in Calls : e # c => calls'[e] = calls[e]
      /\ \A d \in Disposers : ~Past(d)
      /\ \A d \in Disposers : disposers[d].stage = "waiting" =>
           \A e \in Calls : calls'[e] # Idle => e \in disposers[d].on.calls
  BY CallMoves
<1>2. EngineTypeOK'
  BY <1>1 DEF EngineInv, EngineTypeOK
<1>3. CallsOK'
  <2> SUFFICES ASSUME NEW e \in Calls
               PROVE  /\ calls'[e].stage \in {"detect", "load", "run"} => backend'
                      /\ calls'[e].stage \in {"load", "run"} => calls'[e].on \in 1 .. Len(loads')
                      /\ calls'[e].stage = "run" => sessions'[calls'[e].on] = "open"
    BY DEF CallsOK
  <2>1. CASE e = c
    BY <2>1, <1>1
  <2>2. CASE e # c
    BY <2>2, <1>1 DEF EngineInv, CallsOK
  <2> QED  BY <2>1, <2>2
<1>4. DisposersOK'
  BY <1>1 DEF EngineInv, DisposersOK, Past, Takes
<1>5. LoadsOK'
  BY DEF EngineInv, LoadsOK, Past, Takes, Live, Under
<1> QED  BY <1>2, <1>3, <1>4, <1>5 DEF EngineInv

LEMMA IdleIs == Idle \in [stage : CallStages, on : Nat] /\ Idle.stage = "idle"
BY DEF Idle, At, CallStages

\* An initialisation that is begun is a promise (ensureInit).
LEMMA BeginInitGives ==
  ASSUME BeginInit, EngineInv
  PROVE  inits' \in Seq({"running", "ok", "failed"}) /\ initPromise' \in Nat /\ InitFor \in Nat
<1>1. inits \in Seq({"running", "ok", "failed"}) /\ initPromise \in Nat /\ Len(inits) \in Nat
  BY DEF EngineInv, EngineTypeOK
<1>2. InitFor \in Nat
  BY <1>1 DEF InitFor
<1>3. inits' = inits \/ inits' = Append(inits, "running")
  BY DEF BeginInit
<1> QED  BY <1>1, <1>2, <1>3 DEF BeginInit

LEMMA SanitizeKeeps ==
  ASSUME NEW c \in Calls, Sanitize(c), EngineInv
  PROVE  EngineInv'
<1>1. InitFor \in Nat /\ inits' \in Seq({"running", "ok", "failed"}) /\ initPromise' \in Nat
  BY BeginInitGives DEF Sanitize
<1>2. At("init", InitFor) \in [stage : CallStages, on : Nat] /\ At("init", InitFor).stage = "init"
  BY <1>1 DEF At, CallStages
<1>3. /\ calls' = [calls EXCEPT ![c] = At("init", InitFor)] /\ ~disposed
      /\ UNCHANGED <<disposed, backend, sessionLoad, loads, sessions, disposers>>
  BY DEF Sanitize
<1> QED  BY <1>1, <1>2, <1>3, OnlyCallMoves

LEMMA CallStepKeeps ==
  ASSUME NEW c \in Calls, Ready(c) \/ Run(c) \/ RunEnds(c) \/ Mask(c), EngineInv
  PROVE  EngineInv'
<1>1. /\ calls[c] \in [stage : CallStages, on : Nat] /\ calls[c] # Idle
      /\ UNCHANGED <<disposed, backend, sessionLoad, loads, sessions, disposers>>
      /\ UNCHANGED <<inits, initPromise>>
  BY IdleIs DEF Ready, Run, RunEnds, Mask, Moves, EngineInv, EngineTypeOK
<1>2. inits' \in Seq({"running", "ok", "failed"}) /\ initPromise' \in Nat
  BY <1>1 DEF EngineInv, EngineTypeOK
<1>3. /\ At("detect", 0) \in [stage : CallStages, on : Nat]
      /\ At("detect", 0).stage = "detect"
  BY DEF At, CallStages
<1>4. CASE calls' = [calls EXCEPT ![c] = Idle]
  BY <1>1, <1>2, <1>4, IdleIs, OnlyCallMoves
<1>5. CASE calls' = [calls EXCEPT ![c] = At("detect", 0)] /\ backend
  BY <1>1, <1>2, <1>3, <1>5, OnlyCallMoves
<1>6. CASE Ready(c)
  BY <1>4, <1>5, <1>6 DEF Ready, Moves
<1>7. CASE RunEnds(c)
  <2>1. backend
    BY <1>7 DEF RunEnds, EngineInv, CallsOK
  <2> QED  BY <1>4, <1>5, <1>7, <2>1 DEF RunEnds, Moves
<1>8. CASE Mask(c)
  BY <1>4, <1>8 DEF Mask
<1>9. CASE Run(c)
  <2> DEFINE n == calls[c].on
             to == At("run", n)
  <2>1. n \in 1 .. Len(loads) /\ n \in Nat /\ backend
    BY <1>1, <1>9 DEF Run, EngineInv, EngineTypeOK, CallsOK
  <2>2. CASE loads[n] = "ok" /\ calls' = [calls EXCEPT ![c] = to]
    <3>1. to \in [stage : CallStages, on : Nat] /\ to.stage = "run" /\ to.on = n
      BY <2>1 DEF At, CallStages
    <3>2. \A d \in Disposers : ~Past(d)
      BY <1>1 DEF EngineInv, DisposersOK
    <3>3. sessions[n] = "open"
      BY <2>1, <2>2, <3>2 DEF EngineInv, LoadsOK
    <3> HIDE DEF n, to
    <3> QED  BY <1>1, <1>2, <2>1, <2>2, <3>1, <3>3, OnlyCallMoves
  <2> QED  BY <1>4, <1>9, <2>2 DEF Run, Moves
<1> QED  BY <1>6, <1>7, <1>8, <1>9

LEMMA InferKeeps ==
  ASSUME NEW c \in Calls, Infer(c), EngineInv
  PROVE  EngineInv'
<1> DEFINE to == At("load", LoadFor)
<1>1. /\ backend /\ calls[c] # Idle /\ BeginLoad /\ calls' = [calls EXCEPT ![c] = to]
      /\ UNCHANGED <<disposed, initPromise, inits, backend, entries, disposers>>
  BY IdleIs DEF Infer, EngineInv, CallsOK
<1>2. /\ loads' \in Seq({"starting", "accelerator", "cpu", "ok", "failed"})
      /\ sessions' \in Seq({"none", "open", "releasing", "released"})
      /\ Len(sessions') = Len(loads') /\ Len(loads) <= Len(loads')
      /\ sessionLoad' = LoadFor /\ LoadFor \in 1 .. Len(loads')
      /\ Len(loads) \in Nat /\ Len(loads') \in Nat
      /\ \A n \in 1 .. Len(loads) : loads'[n] = loads[n] /\ sessions'[n] = sessions[n]
  BY <1>1, BeginLoadGives DEF EngineInv, EngineTypeOK
<1>3. to \in [stage : CallStages, on : Nat] /\ to.stage = "load" /\ to.on = LoadFor
  BY <1>2 DEF At, CallStages
<1> HIDE DEF to
<1>4. /\ calls' \in [Calls -> [stage : CallStages, on : Nat]] /\ calls'[c] = to
      /\ \A e \in Calls : e # c => calls'[e] = calls[e]
      /\ \A d \in Disposers : ~Past(d)
      /\ \A d \in Disposers : disposers[d].stage = "waiting" =>
           \A e \in Calls : calls'[e] # Idle => e \in disposers[d].on.calls
  BY <1>1, <1>3, CallMoves
<1>5. EngineTypeOK'
  BY <1>1, <1>2, <1>4 DEF EngineInv, EngineTypeOK
<1>6. CallsOK'
  <2> SUFFICES ASSUME NEW e \in Calls
               PROVE  /\ calls'[e].stage \in {"detect", "load", "run"} => backend'
                      /\ calls'[e].stage \in {"load", "run"} => calls'[e].on \in 1 .. Len(loads')
                      /\ calls'[e].stage = "run" => sessions'[calls'[e].on] = "open"
    BY DEF CallsOK
  <2>1. CASE e = c
    BY <2>1, <1>1, <1>2, <1>3, <1>4
  <2>2. CASE e # c
    <3>1. /\ calls[e].stage \in {"load", "run"} => calls[e].on \in 1 .. Len(loads)
          /\ calls[e].stage = "run" => sessions[calls[e].on] = "open"
      BY DEF EngineInv, CallsOK
    <3> QED  BY <2>2, <1>1, <1>2, <1>4, <3>1
  <2> QED  BY <2>1, <2>2
<1>7. DisposersOK'
  BY <1>1, <1>4 DEF EngineInv, DisposersOK, Past, Takes
<1>8. LoadsOK'
  BY <1>1, <1>4, BeginLoadKeeps
<1> QED  BY <1>5, <1>6, <1>7, <1>8 DEF EngineInv

LEMMA WarmupKeeps ==
  ASSUME NEW w \in Warmups, WarmUp(w) \/ WarmLoad(w) \/ WarmEnds(w), EngineInv
  PROVE  EngineInv'
<1>1. CASE UNCHANGED <<backend, sessionLoad, loads, sessions, entries, calls, disposers, disposed>>
           /\ inits' \in Seq({"running", "ok", "failed"}) /\ initPromise' \in Nat
  <2>1. EngineTypeOK'
    BY <1>1 DEF EngineInv, EngineTypeOK
  <2>2. CallsOK' /\ DisposersOK' /\ LoadsOK'
    BY <1>1 DEF EngineInv, CallsOK, DisposersOK, LoadsOK, Past, Takes, Live, Under
  <2> QED  BY <2>1, <2>2 DEF EngineInv
<1>2. CASE WarmUp(w)
  BY <1>1, <1>2, BeginInitGives DEF WarmUp
<1>3. CASE WarmEnds(w)
  BY <1>1, <1>3 DEF WarmEnds, EngineInv, EngineTypeOK
<1>4. CASE WarmLoad(w)
  <2>1. CASE inits[warmups[w].on] = "ok" /\ ~disposed /\ backend
    <3>1. /\ BeginLoad /\ backend
          /\ UNCHANGED <<disposed, initPromise, inits, backend, entries, calls, disposers>>
      BY <1>4, <2>1 DEF WarmLoad
    <3>2. \A d \in Disposers : ~Past(d)
      BY <2>1 DEF EngineInv, DisposersOK, Past
    <3>3. /\ loads' \in Seq({"starting", "accelerator", "cpu", "ok", "failed"})
          /\ sessions' \in Seq({"none", "open", "releasing", "released"})
          /\ Len(sessions') = Len(loads') /\ Len(loads) <= Len(loads')
          /\ sessionLoad' = LoadFor /\ LoadFor \in 1 .. Len(loads')
          /\ Len(loads) \in Nat /\ Len(loads') \in Nat
          /\ \A n \in 1 .. Len(loads) : loads'[n] = loads[n] /\ sessions'[n] = sessions[n]
      BY <3>1, BeginLoadGives DEF EngineInv, EngineTypeOK
    <3>4. EngineTypeOK'
      BY <3>1, <3>3 DEF EngineInv, EngineTypeOK
    <3>5. CallsOK'
      BY <3>1, <3>3 DEF EngineInv, CallsOK
    <3>6. DisposersOK'
      BY <3>1, <3>2 DEF EngineInv, DisposersOK, Past, Takes
    <3>7. LoadsOK'
      BY <3>1, <3>2, BeginLoadKeeps
    <3> QED  BY <3>4, <3>5, <3>6, <3>7 DEF EngineInv
  <2>2. CASE ~(inits[warmups[w].on] = "ok" /\ ~disposed /\ backend)
    BY <1>1, <1>4, <2>2 DEF WarmLoad, EngineInv, EngineTypeOK
  <2> QED  BY <2>1, <2>2
<1> QED  BY <1>2, <1>3, <1>4

(* ---------- Steps of the disposers ---------- *)

\* A disposer that goes on to a place; the others stay (dispose).
LEMMA DisposerMoves ==
  ASSUME NEW d \in Disposers, NEW to \in [stage : DisposerStages, on : Nat \cup Wait], EngineInv,
         disposers' = [disposers EXCEPT ![d] = to]
  PROVE  /\ disposers' \in [Disposers -> [stage : DisposerStages, on : Nat \cup Wait]]
         /\ disposers'[d] = to
         /\ \A e \in Disposers : e # d => disposers'[e] = disposers[e]
BY DEF EngineInv, EngineTypeOK

LEMMA DisposeKeeps ==
  ASSUME NEW d \in Disposers, Dispose(d), EngineInv
  PROVE  EngineInv'
<1> DEFINE to == At("waiting", Awaited(initPromise))
<1>1. Awaited(initPromise) \in Wait
  BY DEF Awaited, Wait, EngineInv, EngineTypeOK
<1>2. /\ to \in [stage : DisposerStages, on : Nat \cup Wait] /\ to.stage = "waiting"
      /\ to.on = Awaited(initPromise)
  BY <1>1 DEF At, DisposerStages
<1>3. \A c \in Calls : calls[c] # Idle => c \in Awaited(initPromise).calls
  BY DEF Awaited
<1>4. /\ disposers[d].stage = "idle" /\ disposed' = TRUE
      /\ disposers' = [disposers EXCEPT ![d] = to]
      /\ UNCHANGED <<initPromise, inits, backend, sessionLoad, loads, sessions, entries, calls>>
  BY DEF Dispose
<1> HIDE DEF to
<1>5. /\ disposers' \in [Disposers -> [stage : DisposerStages, on : Nat \cup Wait]]
      /\ disposers'[d] = to
      /\ \A e \in Disposers : e # d => disposers'[e] = disposers[e]
  BY <1>2, <1>4, DisposerMoves
<1>6. EngineTypeOK'
  BY <1>4, <1>5 DEF EngineInv, EngineTypeOK
<1>7. CallsOK'
  BY <1>4 DEF EngineInv, CallsOK
<1>8. DisposersOK'
  BY <1>2, <1>3, <1>4, <1>5 DEF EngineInv, DisposersOK, Past, Takes
<1>9. LoadsOK'
  <2>1. \A e \in Disposers : /\ Takes(e) <=> Takes(e)'
                             /\ Takes(e) => disposers'[e].on = disposers[e].on
                             /\ Past(e) <=> Past(e)'
    BY <1>2, <1>4, <1>5 DEF Past, Takes
  <2> QED  BY <1>4, <2>1 DEF EngineInv, LoadsOK, Live, Under
<1> QED  BY <1>6, <1>7, <1>8, <1>9 DEF EngineInv

\* All that a disposer waits for is over: no call runs (dispose).
LEMMA AllIdle ==
  ASSUME NEW d \in Disposers, EngineInv, disposers[d].stage = "waiting",
         \A c \in disposers[d].on.calls : calls[c] = Idle
  PROVE  \A c \in Calls : calls[c] = Idle
BY DEF EngineInv, DisposersOK

LEMMA ReleaseKeeps ==
  ASSUME NEW d \in Disposers, Release(d), EngineInv
  PROVE  EngineInv'
<1> DEFINE load == IF backend THEN Taken(sessionLoad) ELSE 0
           to == IF load = 0 THEN At("clearing", 0) ELSE At("taken", load)
<1>1. load = sessionLoad /\ sessionLoad \in 0 .. Len(loads) /\ Len(loads) \in Nat
  BY DEF Taken, EngineInv, EngineTypeOK, LoadsOK
<1>2. /\ disposers[d].stage = "waiting" /\ disposers' = [disposers EXCEPT ![d] = to]
      /\ UNCHANGED <<disposed, initPromise, inits, backend, loads, sessions, entries, calls>>
  BY DEF Release
<1>3. sessionLoad' = 0
  BY DEF Release, EngineInv, LoadsOK
<1>4. \A c \in Calls : calls[c] = Idle
  BY AllIdle DEF Release
<1>5. /\ to \in [stage : DisposerStages, on : Nat \cup Wait]
      /\ sessionLoad = 0 => to.stage = "clearing"
      /\ sessionLoad # 0 => to.stage = "taken" /\ to.on = sessionLoad
  BY <1>1 DEF At, DisposerStages
<1> HIDE DEF load, to
<1>6. /\ disposers' \in [Disposers -> [stage : DisposerStages, on : Nat \cup Wait]]
      /\ disposers'[d] = to
      /\ \A e \in Disposers : e # d => disposers'[e] = disposers[e]
  BY <1>2, <1>5, DisposerMoves
<1>7. EngineTypeOK'
  BY <1>1, <1>2, <1>3, <1>6 DEF EngineInv, EngineTypeOK
<1>8. CallsOK'
  BY <1>2 DEF EngineInv, CallsOK
<1>9. sessionLoad # 0 => \A e \in Disposers : ~Past(e)
  BY DEF EngineInv, DisposersOK
<1>10. DisposersOK'
  <2>1. \A e \in Disposers :
          /\ disposers'[e].stage # "idle" => disposed'
          /\ disposers'[e].stage = "waiting" =>
               \A c \in Calls : calls'[c] # Idle => c \in disposers'[e].on.calls
          /\ Past(e)' => sessionLoad' = 0 /\ \A c \in Calls : calls'[c] = Idle
          /\ Takes(e)' => disposers'[e].on \in 1 .. Len(loads')
          /\ disposers'[e].stage = "releasing" => loads'[disposers'[e].on] = "ok"
          /\ disposers'[e].stage = "done" => ~entries'
    <3> SUFFICES ASSUME NEW e \in Disposers
                 PROVE  /\ disposers'[e].stage # "idle" => disposed'
                        /\ disposers'[e].stage = "waiting" =>
                             \A c \in Calls : calls'[c] # Idle => c \in disposers'[e].on.calls
                        /\ Past(e)' => sessionLoad' = 0 /\ \A c \in Calls : calls'[c] = Idle
                        /\ Takes(e)' => disposers'[e].on \in 1 .. Len(loads')
                        /\ disposers'[e].stage = "releasing" => loads'[disposers'[e].on] = "ok"
                        /\ disposers'[e].stage = "done" => ~entries'
      OBVIOUS
    <3>1. CASE e = d
      BY <3>1, <1>1, <1>2, <1>3, <1>4, <1>5, <1>6 DEF EngineInv, DisposersOK, Past, Takes
    <3>2. CASE e # d
      BY <3>2, <1>2, <1>3, <1>4, <1>6 DEF EngineInv, DisposersOK, Past, Takes
    <3> QED  BY <3>1, <3>2
  <2>2. \A e, f \in Disposers : Takes(e)' /\ Takes(f)' => e = f
    BY <1>5, <1>6, <1>9 DEF EngineInv, DisposersOK, Past, Takes
  <2> QED  BY <2>1, <2>2 DEF DisposersOK
<1>11. LoadsOK'
  <2> SUFFICES ASSUME NEW n \in 1 .. Len(loads)
               PROVE  /\ loads[n] # "ok" => sessions[n] = "none"
                      /\ ~\A e \in Disposers : ~Past(e)'
                      /\ Live(n) => \E e \in Disposers : Takes(e)' /\ disposers'[e].on = n
    BY <1>2, <1>3 DEF LoadsOK, Live, Under
  <2>1. Past(d)'
    BY <1>5, <1>6 DEF Past
  <2>2. Live(n) => \E e \in Disposers : Takes(e)' /\ disposers'[e].on = n
    <3>1. CASE sessionLoad = n
      BY <3>1, <1>1, <1>5, <1>6 DEF Takes
    <3>2. CASE \E e \in Disposers : Takes(e) /\ disposers[e].on = n
      BY <3>2, <1>2, <1>6 DEF Takes
    <3> QED  BY <3>1, <3>2 DEF EngineInv, LoadsOK
  <2>3. loads[n] # "ok" => sessions[n] = "none"
    BY DEF EngineInv, LoadsOK
  <2> QED  BY <2>1, <2>2, <2>3
<1> QED  BY <1>7, <1>8, <1>10, <1>11 DEF EngineInv

(* A disposer past its wait goes on: no load is begun or revived, and what *)
(* it lets go of is not alive.                                             *)
PastStep(d, to) ==
  /\ Past(d) /\ disposers' = [disposers EXCEPT ![d] = to]
  /\ to \in [stage : DisposerStages, on : Nat \cup Wait]
  /\ to.stage \in {"releasing", "clearing", "done"}
  /\ to.stage = "releasing" => Takes(d) /\ to.on = disposers[d].on /\ loads[to.on] = "ok"
  /\ to.stage = "done" => ~entries'
  /\ ~entries => ~entries'
  /\ UNCHANGED <<disposed, initPromise, inits, sessionLoad, loads, calls>>
  /\ sessions' \in Seq({"none", "open", "releasing", "released"})
  /\ Len(sessions') = Len(sessions)
  /\ \A n \in 1 .. Len(loads) :
       /\ loads[n] # "ok" => sessions'[n] = "none"
       /\ Live(n)' => Live(n) \/ (to.stage = "releasing" /\ to.on = n)
       /\ Takes(d) /\ disposers[d].on = n /\ to.stage # "releasing" => ~Live(n)'

\* What the others know stands, and no call runs on the session whose state
\* changes (dispose).
LEMMA PastMoves ==
  ASSUME NEW d \in Disposers, NEW to, EngineInv, PastStep(d, to)
  PROVE  EngineInv'
<1> USE DEF PastStep
<1>1. /\ disposers' \in [Disposers -> [stage : DisposerStages, on : Nat \cup Wait]]
      /\ disposers'[d] = to
      /\ \A e \in Disposers : e # d => disposers'[e] = disposers[e]
  BY DisposerMoves
<1>2. sessionLoad = 0 /\ (\A c \in Calls : calls[c] = Idle) /\ disposed
  BY DEF EngineInv, DisposersOK, Past
<1>3. EngineTypeOK'
  BY <1>1 DEF EngineInv, EngineTypeOK
<1>4. CallsOK'
  BY <1>2, IdleIs DEF CallsOK
<1>5. DisposersOK'
  <2>1. \A e \in Disposers :
          /\ disposers'[e].stage # "idle" => disposed'
          /\ Past(e)' => sessionLoad' = 0 /\ \A c \in Calls : calls'[c] = Idle
    BY <1>2
  <2>2. \A e \in Disposers :
          /\ Takes(e)' => disposers'[e].on \in 1 .. Len(loads')
          /\ disposers'[e].stage = "releasing" => loads'[disposers'[e].on] = "ok"
    BY <1>1 DEF EngineInv, DisposersOK, Takes
  <2>3. \A e \in Disposers : disposers'[e].stage = "done" => ~entries'
    BY <1>1 DEF EngineInv, DisposersOK
  <2>4. \A e \in Disposers : disposers'[e].stage = "waiting" =>
          \A c \in Calls : calls'[c] # Idle => c \in disposers'[e].on.calls
    BY <1>2
  <2>5. \A e, f \in Disposers : Takes(e)' /\ Takes(f)' => e = f
    BY <1>1 DEF EngineInv, DisposersOK, Takes
  <2> QED  BY <2>1, <2>2, <2>3, <2>4, <2>5 DEF DisposersOK
<1>6. LoadsOK'
  <2> SUFFICES ASSUME NEW n \in 1 .. Len(loads)
               PROVE  /\ loads[n] # "ok" => sessions'[n] = "none"
                      /\ ~\A e \in Disposers : ~Past(e)'
                      /\ Live(n)' => \E e \in Disposers : Takes(e)' /\ disposers'[e].on = n
    BY <1>2 DEF LoadsOK
  <2>1. Past(d)'
    BY <1>1 DEF Past
  <2>2. ASSUME Live(n)' PROVE \E e \in Disposers : Takes(e)' /\ disposers'[e].on = n
    <3>1. n # 0
      BY DEF EngineInv, EngineTypeOK
    <3>2. CASE to.stage = "releasing" /\ to.on = n
      BY <3>2, <1>1 DEF Takes
    <3>3. CASE ~(to.stage = "releasing" /\ to.on = n)
      <4>1. PICK e \in Disposers : Takes(e) /\ disposers[e].on = n
        BY <1>2, <2>2, <3>1, <3>3 DEF EngineInv, LoadsOK
      <4>2. CASE e # d
        BY <4>1, <4>2, <1>1 DEF Takes
      <4>3. CASE e = d
        BY <4>1, <4>3, <1>1, <2>2 DEF Takes
      <4> QED  BY <4>2, <4>3
    <3> QED  BY <3>2, <3>3
  <2> QED  BY <2>1, <2>2
<1> QED  BY <1>3, <1>4, <1>5, <1>6 DEF EngineInv

LEMMA ClearingIs ==
  /\ At("clearing", 0) \in [stage : DisposerStages, on : Nat \cup Wait]
  /\ At("clearing", 0).stage = "clearing"
  /\ At("done", 0) \in [stage : DisposerStages, on : Nat \cup Wait]
  /\ At("done", 0).stage = "done"
BY DEF At, DisposerStages

LEMMA ReleaseBeginsKeeps ==
  ASSUME NEW d \in Disposers, ReleaseBegins(d), EngineInv
  PROVE  EngineInv'
<1> PICK n : n = disposers[d].on
  OBVIOUS
<1>1. /\ Past(d) /\ Takes(d) /\ n \in 1 .. Len(loads) /\ ~Under(n)
      /\ disposers[d].stage = "taken"
      /\ disposers[d] \in [stage : DisposerStages, on : Nat \cup Wait]
  BY DEF ReleaseBegins, Settled, Past, Takes, EngineInv, EngineTypeOK, DisposersOK
<1>2. UNCHANGED <<disposed, initPromise, inits, sessionLoad, loads, calls, entries>>
  BY DEF ReleaseBegins
<1>3. CASE loads[n] = "ok"
  <2> DEFINE to == [disposers[d] EXCEPT !.stage = "releasing"]
  <2>1. /\ sessions' = [sessions EXCEPT ![n] = "releasing"]
        /\ disposers' = [disposers EXCEPT ![d] = to]
    BY <1>3 DEF ReleaseBegins
  <2>2. /\ to \in [stage : DisposerStages, on : Nat \cup Wait]
        /\ to.stage = "releasing" /\ to.on = n
    BY <1>1 DEF DisposerStages
  <2>3. /\ sessions' \in Seq({"none", "open", "releasing", "released"})
        /\ Len(sessions') = Len(sessions) /\ sessions'[n] = "releasing"
        /\ \A m \in 1 .. Len(loads) : m # n => sessions'[m] = sessions[m]
    BY <1>1, <2>1 DEF EngineInv, EngineTypeOK
  <2>5. \A m \in 1 .. Len(loads) : loads[m] # "ok" => sessions'[m] = "none"
    BY <1>3, <2>3 DEF EngineInv, LoadsOK
  <2>6. \A m \in 1 .. Len(loads) : Live(m)' => Live(m) \/ m = n
    BY <1>2, <2>3 DEF Live, Under
  <2> HIDE DEF to
  <2>7. PastStep(d, to)
    BY <1>1, <1>2, <1>3, <2>1, <2>2, <2>3, <2>5, <2>6 DEF PastStep
  <2> QED  BY <2>7, PastMoves
<1>4. CASE loads[n] # "ok"
  <2>1. UNCHANGED sessions /\ disposers' = [disposers EXCEPT ![d] = At("clearing", 0)]
    BY <1>4 DEF ReleaseBegins
  <2>2. \A m \in 1 .. Len(loads) : Live(m)' => Live(m)
    BY <1>2, <2>1 DEF Live, Under
  <2>3. ~Live(n)'
    BY <1>1, <1>2, <1>4, <2>1 DEF Live, Under, EngineInv, LoadsOK
  <2>4. /\ sessions' \in Seq({"none", "open", "releasing", "released"})
        /\ Len(sessions') = Len(sessions)
        /\ \A m \in 1 .. Len(loads) : loads[m] # "ok" => sessions'[m] = "none"
    BY <2>1 DEF EngineInv, EngineTypeOK, LoadsOK
  <2>5. PastStep(d, At("clearing", 0))
    BY <1>1, <1>2, <2>1, <2>2, <2>3, <2>4, ClearingIs DEF PastStep
  <2> QED  BY <2>5, PastMoves
<1> QED  BY <1>3, <1>4

LEMMA ReleaseEndsKeeps ==
  ASSUME NEW d \in Disposers, ReleaseEnds(d), EngineInv
  PROVE  EngineInv'
<1> PICK n : n = disposers[d].on
  OBVIOUS
<1>1. Past(d) /\ Takes(d) /\ n \in 1 .. Len(loads) /\ loads[n] = "ok"
  BY DEF ReleaseEnds, Past, Takes, EngineInv, DisposersOK
<1>2. /\ UNCHANGED <<disposed, initPromise, inits, sessionLoad, loads, calls, entries>>
      /\ sessions' = [sessions EXCEPT ![n] = "released"]
      /\ disposers' = [disposers EXCEPT ![d] = At("clearing", 0)]
  BY DEF ReleaseEnds
<1>3. /\ sessions' \in Seq({"none", "open", "releasing", "released"})
      /\ Len(sessions') = Len(sessions) /\ sessions'[n] = "released"
      /\ \A m \in 1 .. Len(loads) : m # n => sessions'[m] = sessions[m]
  BY <1>1, <1>2 DEF EngineInv, EngineTypeOK
<1>4. \A m \in 1 .. Len(loads) : loads[m] # "ok" => sessions'[m] = "none"
  BY <1>1, <1>3 DEF EngineInv, LoadsOK
<1>5. ~Live(n)' /\ \A m \in 1 .. Len(loads) : Live(m)' => Live(m)
  BY <1>1, <1>2, <1>3 DEF Live, Under
<1>6. PastStep(d, At("clearing", 0))
  BY <1>1, <1>2, <1>3, <1>4, <1>5, ClearingIs DEF PastStep
<1> QED  BY <1>6, PastMoves

LEMMA ClearKeeps ==
  ASSUME NEW d \in Disposers, Clear(d), EngineInv
  PROVE  EngineInv'
<1>1. Past(d) /\ ~Takes(d)
  BY DEF Clear, Past, Takes
<1>2. /\ UNCHANGED <<disposed, initPromise, inits, sessionLoad, loads, sessions, calls>>
      /\ ~entries' /\ disposers' = [disposers EXCEPT ![d] = At("done", 0)]
  BY DEF Clear
<1>3. /\ sessions' \in Seq({"none", "open", "releasing", "released"})
      /\ Len(sessions') = Len(sessions)
      /\ \A m \in 1 .. Len(loads) : loads[m] # "ok" => sessions'[m] = "none"
  BY <1>2 DEF EngineInv, EngineTypeOK, LoadsOK
<1>4. \A m \in 1 .. Len(loads) : Live(m)' => Live(m)
  BY <1>2 DEF Live, Under
<1>5. PastStep(d, At("done", 0))
  BY <1>1, <1>2, <1>3, <1>4, ClearingIs DEF PastStep
<1> QED  BY <1>5, PastMoves

LEMMA EngineStep == EngineInv /\ [NextEngine]_enginevars => EngineInv'
<1> SUFFICES ASSUME EngineInv, [NextEngine]_enginevars PROVE EngineInv'
  OBVIOUS
<1>1. CASE UNCHANGED enginevars
  <2>1. EngineTypeOK'
    BY <1>1 DEF enginevars, EngineInv, EngineTypeOK
  <2>2. CallsOK' /\ DisposersOK' /\ LoadsOK'
    BY <1>1 DEF enginevars, EngineInv, CallsOK, DisposersOK, LoadsOK, Past, Takes, Live, Under
  <2> QED  BY <2>1, <2>2 DEF EngineInv
<1>2. CASE Settles
  BY <1>2, InitEndsKeeps, LoadGoesOnKeeps, LoadSucceedsKeeps, LoadFailsKeeps DEF Settles
<1>3. CASE \E c \in Calls : Sanitize(c) \/ CallGoesOn(c)
  BY <1>3, SanitizeKeeps, CallStepKeeps, InferKeeps DEF CallGoesOn
<1>4. CASE \E w \in Warmups : WarmUp(w) \/ WarmupGoesOn(w)
  BY <1>4, WarmupKeeps DEF WarmupGoesOn
<1>5. CASE \E d \in Disposers : Dispose(d) \/ DisposerGoesOn(d)
  BY <1>5, DisposeKeeps, ReleaseKeeps, ReleaseBeginsKeeps, ReleaseEndsKeeps, ClearKeeps
     DEF DisposerGoesOn
<1> QED  BY <1>1, <1>2, <1>3, <1>4, <1>5 DEF NextEngine

(* ---------- Theorems ---------- *)

\* What calls, disposers and loads know of one another holds always.
THEOREM EngineAlways == SpecEngine => []EngineInv
BY EngineStarts, EngineStep, PTL DEF SpecEngine

\* No session is released while an inference runs on it (nullpii.ts:592-603).
THEOREM NothingIsReleasedUnderUse == SpecEngine => []NoReleaseUnderUse
<1>1. EngineInv => NoReleaseUnderUse
  BY DEF EngineInv, CallsOK, NoReleaseUnderUse
<1> QED  BY <1>1, EngineAlways, PTL

\* The model is in memory once (backend.ts:59, 75-85).
THEOREM TheModelIsLoadedOnce == SpecEngine => []OneSession
<1>1. EngineInv => OneSession
  <2> SUFFICES ASSUME EngineInv PROVE OneSession
    OBVIOUS
  <2> DEFINE alive == {n \in DOMAIN loads : Under(n) \/ sessions[n] \in {"open", "releasing"}}
  <2>1. DOMAIN loads = 1 .. Len(loads) /\ Len(loads) \in Nat
    BY DEF EngineInv, EngineTypeOK
  <2>2. \A n \in alive : \/ sessionLoad = n
                         \/ \E d \in Disposers : Takes(d) /\ disposers[d].on = n
    BY <2>1 DEF Live, EngineInv, LoadsOK
  <2>3. ASSUME NEW n \in alive, NEW m \in alive PROVE n = m
    <3>1. n # 0 /\ m # 0
      BY <2>1
    <3>2. CASE sessionLoad = n \/ sessionLoad = m
      <4>1. \A d \in Disposers : ~Takes(d)
        BY <3>1, <3>2 DEF EngineInv, DisposersOK, Past, Takes
      <4> QED  BY <2>2, <4>1
    <3>3. CASE sessionLoad # n /\ sessionLoad # m
      <4>1. PICK d \in Disposers : Takes(d) /\ disposers[d].on = n
        BY <2>2, <3>3
      <4>2. PICK e \in Disposers : Takes(e) /\ disposers[e].on = m
        BY <2>2, <3>3
      <4> QED  BY <4>1, <4>2 DEF EngineInv, DisposersOK
    <3> QED  BY <3>2, <3>3
  <2> HIDE DEF alive
  <2>4. Cardinality(alive) <= 1
    <3>1. CASE alive = {}
      BY <3>1, FS_EmptySet
    <3>2. CASE alive # {}
      <4>1. PICK n : alive = {n}
        BY <3>2, <2>3
      <4>2. Cardinality({n}) = 1
        BY FS_Singleton
      <4> QED  BY <4>1, <4>2
    <3> QED  BY <3>1, <3>2
  <2> QED  BY <2>4 DEF alive, OneSession
<1> QED  BY <1>1, EngineAlways, PTL

\* Nothing is loaded or remembered after a dispose() (nullpii.ts:592-603).
THEOREM NothingIsLeftAfterDispose == SpecEngine => []NothingAfterDispose
<1>1. EngineInv => NothingAfterDispose
  <2> SUFFICES ASSUME EngineInv, NEW d \in Disposers, disposers[d].stage = "done",
                      \A e \in Disposers : disposers[e].stage \notin {"taken", "releasing"}
               PROVE  /\ \A n \in DOMAIN loads : ~Under(n) /\ sessions[n] \in {"none", "released"}
                      /\ ~entries
    BY DEF NothingAfterDispose
  <2>1. sessionLoad = 0 /\ ~entries
    BY DEF EngineInv, DisposersOK, Past
  <2>2. DOMAIN loads = 1 .. Len(loads) /\ Len(loads) \in Nat
    BY DEF EngineInv, EngineTypeOK
  <2>3. ASSUME NEW n \in DOMAIN loads PROVE ~Live(n)
    BY <2>1, <2>2 DEF EngineInv, LoadsOK, Takes
  <2>4. ASSUME NEW n \in DOMAIN loads PROVE sessions[n] \in {"none", "open", "releasing", "released"}
    BY <2>2 DEF EngineInv, EngineTypeOK
  <2> QED  BY <2>1, <2>3, <2>4 DEF Live
<1> QED  BY <1>1, EngineAlways, PTL

(* ---------- The model cache ---------- *)

Hashes == {Absent, Pinned, Others, Cut}
Work == {"look", "hash", "download", "receive", "move", "sidecar", "vouch"}
Whats == Work \cup {"idle", "ready", "failed"}

Proc ==
  [what : Whats, file : Files \cup {Absent}, phase : {"shared", "peek", "fetch", "none"},
   read : Hashes, attempt : Nat, graph : Files \cup {Absent}]

\* Files, sidecars, temporary files and processes keep their types.
CacheTypeOK ==
  /\ disk \in [Files -> Hashes]
  /\ side \in [Files -> Hashes]
  /\ partial \in [Temporaries -> Hashes]
  /\ proc \in [Processes -> Proc]

SharedIn(d) == \A i \in 1 .. Len(SharedFiles) : d[SharedFiles[i]] = Pinned

(* Where a process stands, given what the files hold.                      *)
InPhase(w, d) ==
  \/ /\ w.phase = "shared"
     /\ \E k \in 1 .. Len(SharedFiles) :
          /\ w.file = SharedFiles[k]
          /\ \A i \in 1 .. k - 1 : d[SharedFiles[i]] = Pinned
  \/ /\ w.phase \in {"peek", "fetch"}
     /\ w.file \in ToSet(Usable)
     /\ SharedIn(d)

Placed(w, d) ==
  /\ w.what \in Work => w.file \in Files /\ InPhase(w, d)
  /\ w.what \in {"sidecar", "vouch"} => d[w.file] = Pinned
  /\ w.what = "ready" =>
       w.graph \in ToSet(Usable) /\ d[w.graph] = Pinned /\ SharedIn(d)

(* What is about to be moved is what was received.                         *)
Received ==
  \A p \in Processes :
    proc[p].what = "move" => partial[Temporary(p, proc[p].file)] = Pinned

CacheInv ==
  /\ CacheTypeOK
  /\ \A p \in Processes : Placed(proc[p], disk)
  /\ Received

(* ---------- Files ---------- *)

\* The shared files and the candidates are files, and no file's name is the
\* sentinel (SHARED_FILES, pinnedCandidates).
LEMMA FileNames ==
  /\ \A i \in 1 .. Len(SharedFiles) : SharedFiles[i] \in Files \ {Absent}
  /\ ToSet(Usable) \subseteq Files \ {Absent}
  /\ Shared \subseteq Files
  /\ \A f \in Shared : \E i \in 1 .. Len(SharedFiles) : f = SharedFiles[i]
  /\ Usable[1] \in ToSet(Usable)
  /\ SharedFiles[1] \in Files /\ 1 \in 1 .. Len(SharedFiles)
<1>1. /\ SharedFiles \in Seq(Pins \ {Absent}) /\ SharedFiles # <<>>
      /\ Usable \in Seq(Pins \ {Absent}) /\ Usable # <<>>
  BY ModelCacheAssumption
<1>2. /\ DOMAIN SharedFiles = 1 .. Len(SharedFiles) /\ DOMAIN Usable = 1 .. Len(Usable)
      /\ 1 \in 1 .. Len(SharedFiles) /\ 1 \in 1 .. Len(Usable)
  BY <1>1
<1>3. /\ \A i \in 1 .. Len(SharedFiles) : SharedFiles[i] \in Pins \ {Absent}
      /\ \A i \in 1 .. Len(Usable) : Usable[i] \in Pins \ {Absent}
  BY <1>1
<1> QED  BY <1>1, <1>2, <1>3 DEF Files, Shared, ToSet

\* What follows a file in a list is in the list (pickOnnx).
LEMMA AfterInUsable ==
  ASSUME NEW f, AfterIn(Usable, f) # Absent
  PROVE  AfterIn(Usable, f) \in ToSet(Usable)
<1>1. \E k \in 2 .. Len(Usable) : Usable[k - 1] = f
  BY DEF AfterIn
<1>2. PICK k \in 2 .. Len(Usable) : AfterIn(Usable, f) = Usable[k]
  BY <1>1 DEF AfterIn
<1>3. DOMAIN Usable = 1 .. Len(Usable) /\ Len(Usable) \in Nat
  BY ModelCacheAssumption
<1>4. k \in 1 .. Len(Usable)
  BY <1>3
<1> QED  BY <1>2, <1>3, <1>4 DEF ToSet

\* After the k-th shared file comes the next one, or none (ensure).
LEMMA AfterInShared ==
  ASSUME NEW k \in 1 .. Len(SharedFiles)
  PROVE  IF k = Len(SharedFiles) THEN AfterIn(SharedFiles, SharedFiles[k]) = Absent
         ELSE AfterIn(SharedFiles, SharedFiles[k]) = SharedFiles[k + 1]
<1>1. /\ SharedFiles \in Seq(Pins \ {Absent}) /\ Len(SharedFiles) \in Nat
      /\ DOMAIN SharedFiles = 1 .. Len(SharedFiles)
  BY ModelCacheAssumption
<1>2. \A i, j \in 1 .. Len(SharedFiles) : SharedFiles[i] = SharedFiles[j] => i = j
  BY <1>1, ModelCacheAssumption DEF IsInjective
<1>3. \A j \in 2 .. Len(SharedFiles) : SharedFiles[j - 1] = SharedFiles[k] => j = k + 1
  <2> SUFFICES ASSUME NEW j \in 2 .. Len(SharedFiles), SharedFiles[j - 1] = SharedFiles[k]
               PROVE  j = k + 1
    OBVIOUS
  <2>1. j - 1 \in 1 .. Len(SharedFiles)
    BY <1>1
  <2>2. j - 1 = k
    BY <2>1, <1>2
  <2> QED  BY <2>2, <1>1
<1>4. CASE k = Len(SharedFiles)
  <2>1. ~ \E j \in 2 .. Len(SharedFiles) : SharedFiles[j - 1] = SharedFiles[k]
    BY <1>3, <1>4, <1>1
  <2> QED  BY <2>1, <1>4 DEF AfterIn
<1>5. CASE k # Len(SharedFiles)
  <2> DEFINE n == Len(SharedFiles)
  <2>1. k + 1 \in 2 .. n /\ (k + 1) - 1 = k
    <3>1. n \in Nat /\ k \in 1 .. n /\ k # n
      BY <1>5, <1>1
    <3> HIDE DEF n
    <3> QED  BY <3>1
  <2>2. \E j \in 2 .. Len(SharedFiles) : SharedFiles[j - 1] = SharedFiles[k]
    BY <2>1
  <2>3. (CHOOSE j \in 2 .. Len(SharedFiles) : SharedFiles[j - 1] = SharedFiles[k]) = k + 1
    BY <2>2, <1>3
  <2> QED  BY <2>2, <2>3, <1>5 DEF AfterIn
<1> QED  BY <1>4, <1>5

(* ---------- Steps between files ---------- *)

\* A process that has its file goes on to the next, or to its graph
\* (ensure, pickOnnx).
LEMMA GotPlaces ==
  ASSUME NEW w \in Proc, NEW d, w.what \in Work, Placed(w, d), d[w.file] = Pinned
  PROVE  Got(w.phase, w.file) \in Proc /\ Placed(Got(w.phase, w.file), d)
<1>1. w.file \in Files /\ InPhase(w, d)
  BY DEF Placed
<1>2. CASE w.phase # "shared"
  <2>1. w.file \in ToSet(Usable) /\ SharedIn(d)
    BY <1>1, <1>2 DEF InPhase
  <2>2. Got(w.phase, w.file) = Through(w.file)
    BY <1>2 DEF Got
  <2>3. Through(w.file) \in Proc
    BY <1>1 DEF Through, Doing, Proc, Whats, Hashes
  <2> QED  BY <2>1, <2>2, <2>3 DEF Through, Doing, Placed, Work
<1>3. CASE w.phase = "shared"
  <2>1. PICK k \in 1 .. Len(SharedFiles) :
          w.file = SharedFiles[k] /\ \A i \in 1 .. k - 1 : d[SharedFiles[i]] = Pinned
    BY <1>1, <1>3 DEF InPhase
  <2>2. Len(SharedFiles) \in Nat
    BY ModelCacheAssumption
  <2>3. CASE k = Len(SharedFiles)
    <3>1. Got(w.phase, w.file) = Look("peek", Usable[1])
      BY <1>3, <2>1, <2>3, AfterInShared DEF Got
    <3>2. SharedIn(d)
      <4> SUFFICES ASSUME NEW i \in 1 .. Len(SharedFiles)
                   PROVE  d[SharedFiles[i]] = Pinned
        BY DEF SharedIn
      <4>1. i = k \/ i \in 1 .. k - 1
        BY <2>2, <2>3
      <4> QED  BY <4>1, <2>1
    <3>3. Look("peek", Usable[1]) \in Proc
      BY FileNames DEF Look, Doing, Proc, Whats, Work, Hashes
    <3> QED  BY <3>1, <3>2, <3>3, FileNames DEF Look, Doing, Placed, InPhase, Work
  <2>4. CASE k # Len(SharedFiles)
    <3>1. k + 1 \in 1 .. Len(SharedFiles)
      BY <2>2, <2>4
    <3>2. SharedFiles[k + 1] \in Files \ {Absent}
      BY <3>1, FileNames
    <3>3. Got(w.phase, w.file) = Look("shared", SharedFiles[k + 1])
      BY <1>3, <2>1, <2>4, <3>2, AfterInShared DEF Got
    <3>4. \A i \in 1 .. (k + 1) - 1 : d[SharedFiles[i]] = Pinned
      <4> SUFFICES ASSUME NEW i \in 1 .. (k + 1) - 1
                   PROVE  d[SharedFiles[i]] = Pinned
        OBVIOUS
      <4>1. i = k \/ i \in 1 .. k - 1
        BY <2>2
      <4> QED  BY <4>1, <2>1
    <3>5. Look("shared", SharedFiles[k + 1]) \in Proc
      BY <3>2 DEF Look, Doing, Proc, Whats, Work, Hashes
    <3> QED  BY <3>1, <3>2, <3>3, <3>4, <3>5 DEF Look, Doing, Placed, InPhase, Work
  <2> QED  BY <2>3, <2>4
<1> QED  BY <1>2, <1>3

\* A process that cannot have its file tries the next candidate or fails
\* (pickOnnx).
LEMMA MissedPlaces ==
  ASSUME NEW w \in Proc, NEW d, w.what \in Work, Placed(w, d)
  PROVE  Missed(w.phase, w.file) \in Proc /\ Placed(Missed(w.phase, w.file), d)
<1>1. w.file \in Files /\ InPhase(w, d)
  BY DEF Placed
<1>2. CASE w.phase = "fetch" /\ AfterIn(Usable, w.file) # Absent
  <2>1. AfterIn(Usable, w.file) \in ToSet(Usable) /\ AfterIn(Usable, w.file) \in Files
    BY <1>2, AfterInUsable, FileNames
  <2>2. SharedIn(d)
    BY <1>1, <1>2 DEF InPhase
  <2>3. Missed(w.phase, w.file) = Look("fetch", AfterIn(Usable, w.file))
    BY <1>2 DEF Missed
  <2>4. Look("fetch", AfterIn(Usable, w.file)) \in Proc
    BY <2>1 DEF Look, Doing, Proc, Whats, Work, Hashes
  <2> QED  BY <2>1, <2>2, <2>3, <2>4 DEF Look, Doing, Placed, InPhase, Work
<1>3. CASE ~(w.phase = "fetch" /\ AfterIn(Usable, w.file) # Absent)
  <2>1. Missed(w.phase, w.file) = Failed
    BY <1>3 DEF Missed
  <2>2. Failed \in Proc
    BY DEF Failed, Doing, Proc, Whats, Hashes
  <2> QED  BY <2>1, <2>2 DEF Failed, Doing, Placed, Work
<1> QED  BY <1>2, <1>3

\* A process whose file is not in the cache downloads it, looks at the next
\* candidate, or goes back to fetch the first (pickOnnx).
LEMMA NotCachedPlaces ==
  ASSUME NEW w \in Proc, NEW d, w.what \in Work, Placed(w, d)
  PROVE  NotCached(w.phase, w.file) \in Proc /\ Placed(NotCached(w.phase, w.file), d)
<1>1. w.file \in Files /\ InPhase(w, d) /\ w.phase \in {"shared", "peek", "fetch", "none"}
  BY DEF Placed, Proc
<1>2. CASE w.phase # "peek"
  <2>1. NotCached(w.phase, w.file) = Doing("download", w.file, w.phase, Absent, 1, Absent)
    BY <1>2 DEF NotCached
  <2>2. Doing("download", w.file, w.phase, Absent, 1, Absent) \in Proc
    BY <1>1 DEF Doing, Proc, Whats, Work, Hashes
  <2> QED  BY <1>1, <2>1, <2>2 DEF Doing, Placed, InPhase, Work
<1>3. CASE w.phase = "peek"
  <2>1. SharedIn(d)
    BY <1>1, <1>3 DEF InPhase
  <2>2. PICK to \in {"peek", "fetch"}, f \in ToSet(Usable) :
          NotCached(w.phase, w.file) = Look(to, f)
    BY <1>3, AfterInUsable, FileNames DEF NotCached
  <2>3. Look(to, f) \in Proc
    BY FileNames DEF Look, Doing, Proc, Whats, Work, Hashes
  <2> QED  BY <2>1, <2>2, <2>3, FileNames DEF Look, Doing, Placed, InPhase, Work
<1> QED  BY <1>2, <1>3

(* ---------- The invariant ---------- *)

\* A cache as earlier runs left it, no process at work (ensure).
LEMMA CacheStarts == InitCache => CacheInv
<1> SUFFICES ASSUME InitCache PROVE CacheInv
  OBVIOUS
<1>1. disk \in [Files -> Hashes] /\ side \in [Files -> Hashes]
  <2>1. PICK left \in [Files -> Conditions] :
          /\ disk = [f \in Files |-> left[f][1]]
          /\ side = [f \in Files |-> left[f][2]]
    BY DEF InitCache
  <2>2. \A x \in Conditions : x[1] \in Hashes /\ x[2] \in Hashes
    BY DEF Conditions, Hashes
  <2> QED  BY <2>1, <2>2
<1>2. partial \in [Temporaries -> Hashes]
  BY DEF InitCache, Hashes
<1>3. Resting \in Proc
  BY DEF Resting, Doing, Proc, Whats, Hashes
<1>4. proc \in [Processes -> Proc] /\ \A p \in Processes : proc[p] = Resting
  BY <1>3 DEF InitCache
<1>5. Resting.what = "idle"
  BY DEF Resting, Doing
<1> QED  BY <1>1, <1>2, <1>4, <1>5 DEF CacheInv, CacheTypeOK, Placed, Received, Work

\* What a process knows of the disk still holds when bad copies turn good.
LEMMA PlacedGrows ==
  ASSUME NEW w \in Proc, NEW d, NEW e, Placed(w, d),
         \A f \in Files : d[f] = Pinned => e[f] = Pinned
  PROVE  Placed(w, e)
<1>1. SharedIn(d) => SharedIn(e)
  BY FileNames DEF SharedIn
<1>2. InPhase(w, d) => InPhase(w, e)
  <2> SUFFICES ASSUME InPhase(w, d) PROVE InPhase(w, e)
    OBVIOUS
  <2>1. CASE w.phase \in {"peek", "fetch"}
    BY <2>1, <1>1 DEF InPhase
  <2>2. CASE w.phase = "shared"
    <3>1. PICK k \in 1 .. Len(SharedFiles) :
            w.file = SharedFiles[k] /\ \A i \in 1 .. k - 1 : d[SharedFiles[i]] = Pinned
      BY <2>2 DEF InPhase
    <3>2. \A i \in 1 .. k - 1 : i \in 1 .. Len(SharedFiles)
      <4>1. Len(SharedFiles) \in Nat
        BY ModelCacheAssumption
      <4> QED  BY <4>1
    <3>3. \A i \in 1 .. k - 1 : e[SharedFiles[i]] = Pinned
      BY <3>1, <3>2, FileNames
    <3> QED  BY <2>2, <3>1, <3>3 DEF InPhase
  <2> QED  BY <2>1, <2>2 DEF InPhase
<1> QED  BY <1>1, <1>2, FileNames DEF Placed, Work

\* A process that goes on to a place the disk bears out, while no copy gets
\* worse, keeps the invariant's second part.
LEMMA GoesPlaces ==
  ASSUME NEW p \in Processes, NEW to \in Proc, Goes(p, to), CacheInv,
         Placed(to, disk'),
         \A f \in Files : disk[f] = Pinned => disk'[f] = Pinned
  PROVE  proc' \in [Processes -> Proc] /\ \A q \in Processes : Placed(proc'[q], disk')
<1>1. proc' \in [Processes -> Proc] /\ proc'[p] = to
  BY DEF Goes, CacheInv, CacheTypeOK
<1>2. \A q \in Processes : Placed(proc'[q], disk')
  <2> SUFFICES ASSUME NEW q \in Processes PROVE Placed(proc'[q], disk')
    OBVIOUS
  <2>1. CASE q = p
    BY <2>1, <1>1
  <2>2. CASE q # p
    <3>1. proc'[q] = proc[q] /\ proc[q] \in Proc /\ Placed(proc[q], disk)
      BY <2>2 DEF Goes, CacheInv, CacheTypeOK
    <3>2. Placed(proc[q], disk')
      BY <3>1, PlacedGrows
    <3> QED  BY <3>1, <3>2
  <2> QED  BY <2>1, <2>2
<1> QED  BY <1>1, <1>2

\* A process that goes on to a place it may be at, and writes nothing.
LEMMA WritesNothing ==
  ASSUME NEW p \in Processes, NEW to \in Proc, Goes(p, to), CacheInv,
         UNCHANGED <<disk, side, partial>>, Placed(to, disk), to.what # "move"
  PROVE  CacheInv'
<1>1. proc' \in [Processes -> Proc] /\ \A q \in Processes : Placed(proc'[q], disk')
  BY GoesPlaces
<1>2. Received'
  BY DEF Received, Goes, CacheInv, CacheTypeOK, Temporary
<1> QED  BY <1>1, <1>2 DEF CacheInv, CacheTypeOK

(* ---------- The steps of a process ---------- *)

LEMMA EnsureKeeps ==
  ASSUME NEW p \in Processes, Ensure(p), CacheInv
  PROVE  CacheInv'
<1>1. Look("shared", SharedFiles[1]) \in Proc
  BY FileNames DEF Look, Doing, Proc, Whats, Work, Hashes
<1>2. \A i \in 1 .. 1 - 1 : disk[SharedFiles[i]] = Pinned
  OBVIOUS
<1>3. Placed(Look("shared", SharedFiles[1]), disk)
  BY <1>2, FileNames DEF Look, Doing, Placed, InPhase, Work
<1> QED  BY <1>1, <1>3, WritesNothing DEF Ensure, Look, Doing

LEMMA ReadSidecarKeeps ==
  ASSUME NEW p \in Processes, ReadSidecar(p), CacheInv
  PROVE  CacheInv'
<1> DEFINE w == proc[p]
           to == [w EXCEPT !.what = "hash", !.read = side[w.file]]
<1>1. w \in Proc /\ Placed(w, disk) /\ w.what = "look" /\ UNCHANGED <<disk, side, partial>>
  BY DEF CacheInv, CacheTypeOK, ReadSidecar
<1>2. w.file \in Files
  BY <1>1 DEF Placed, Work
<1>3. CASE Goes(p, NotCached(w.phase, w.file))
  <2>1. NotCached(w.phase, w.file) \in Proc /\ Placed(NotCached(w.phase, w.file), disk)
    BY <1>1, NotCachedPlaces DEF Work
  <2>2. NotCached(w.phase, w.file).what # "move"
    BY DEF NotCached, Look, Doing
  <2> QED  BY <1>1, <1>3, <2>1, <2>2, WritesNothing
<1>4. CASE Goes(p, to)
  <2>1. to \in Proc
    BY <1>1, <1>2 DEF CacheInv, CacheTypeOK, Proc, Whats, Work
  <2>2. to.what = "hash" /\ to.file = w.file /\ to.phase = w.phase
    BY <1>1 DEF Proc
  <2>3. Placed(to, disk)
    BY <1>1, <2>2 DEF Placed, InPhase, Work
  <2> HIDE DEF to
  <2> QED  BY <1>1, <1>4, <2>1, <2>2, <2>3, WritesNothing
<1> QED  BY <1>3, <1>4 DEF ReadSidecar

LEMMA HashKeeps ==
  ASSUME NEW p \in Processes, Hash(p), CacheInv
  PROVE  CacheInv'
<1> DEFINE w == proc[p]
<1>1. w \in Proc /\ Placed(w, disk) /\ w.what = "hash" /\ UNCHANGED <<disk, side, partial>>
  BY DEF CacheInv, CacheTypeOK, Hash
<1>2. CASE ~Cached(w.read, disk[w.file])
  <2>1. NotCached(w.phase, w.file) \in Proc /\ Placed(NotCached(w.phase, w.file), disk)
    BY <1>1, NotCachedPlaces DEF Work
  <2>2. NotCached(w.phase, w.file).what # "move"
    BY DEF NotCached, Look, Doing
  <2>3. Goes(p, NotCached(w.phase, w.file))
    BY <1>2 DEF Hash
  <2> QED  BY <1>1, <2>1, <2>2, <2>3, WritesNothing
<1>3. CASE Cached(w.read, disk[w.file])
  <2>1. disk[w.file] = Pinned
    BY <1>3 DEF Cached
  <2>2. Got(w.phase, w.file) \in Proc /\ Placed(Got(w.phase, w.file), disk)
    BY <1>1, <2>1, GotPlaces DEF Work
  <2>3. Got(w.phase, w.file).what # "move"
    BY DEF Got, Through, Look, Doing
  <2>4. Goes(p, Got(w.phase, w.file))
    BY <1>3 DEF Hash
  <2> QED  BY <1>1, <2>2, <2>3, <2>4, WritesNothing
<1> QED  BY <1>2, <1>3

\* The temporary file of one download is of no other process.
LEMMA OwnTemporary ==
  ASSUME NEW p \in Processes, NEW f \in Files
  PROVE  /\ Temporary(p, f) \in Temporaries
         /\ \A q \in Processes, g \in Files : Temporary(q, g) = Temporary(p, f) => q = p
BY DEF Temporary, Temporaries

\* A process that writes its temporary file only, and is not about to move.
LEMMA WritesTemporary ==
  ASSUME NEW p \in Processes, NEW to \in Proc, NEW f \in Files, NEW h \in Hashes,
         Goes(p, to), CacheInv, UNCHANGED <<disk, side>>, Placed(to, disk),
         partial' = [partial EXCEPT ![Temporary(p, f)] = h],
         to.what = "move" => to.file = f /\ h = Pinned
  PROVE  CacheInv'
<1>1. proc' \in [Processes -> Proc] /\ \A q \in Processes : Placed(proc'[q], disk')
  BY GoesPlaces
<1>2. partial' \in [Temporaries -> Hashes] /\ partial'[Temporary(p, f)] = h
  BY OwnTemporary DEF CacheInv, CacheTypeOK
<1>3. Received'
  <2> SUFFICES ASSUME NEW q \in Processes, proc'[q].what = "move"
               PROVE  partial'[Temporary(q, proc'[q].file)] = Pinned
    BY DEF Received, Temporary
  <2>1. CASE q = p
    BY <2>1, <1>2 DEF Goes, CacheInv, CacheTypeOK
  <2>2. CASE q # p
    <3>1. proc'[q] = proc[q] /\ proc[q] \in Proc /\ proc[q].file \in Files
      BY <2>2 DEF Goes, CacheInv, CacheTypeOK, Placed, Work
    <3>2. partial[Temporary(q, proc[q].file)] = Pinned
      BY <3>1 DEF CacheInv, Received
    <3>3. Temporary(q, proc[q].file) # Temporary(p, f)
      BY <2>2, <3>1, OwnTemporary
    <3>4. Temporary(q, proc[q].file) \in Temporaries
      BY <3>1, OwnTemporary
    <3> QED  BY <3>1, <3>2, <3>3, <3>4 DEF CacheInv, CacheTypeOK
  <2> QED  BY <2>1, <2>2
<1> QED  BY <1>1, <1>2, <1>3 DEF CacheInv, CacheTypeOK

LEMMA OpenKeeps ==
  ASSUME NEW p \in Processes, Open(p), CacheInv
  PROVE  CacheInv'
<1> DEFINE w == proc[p]
           to == [w EXCEPT !.what = "receive"]
<1>1. w \in Proc /\ Placed(w, disk) /\ w.what = "download"
  BY DEF CacheInv, CacheTypeOK, Open
<1>2. w.file \in Files
  BY <1>1 DEF Placed, Work
<1>3. to \in Proc
  BY <1>1 DEF Proc, Whats, Work
<1>4. to.what = "receive" /\ to.file = w.file /\ to.phase = w.phase
  BY <1>1 DEF Proc
<1>5. Placed(to, disk)
  BY <1>1, <1>4 DEF Placed, InPhase, Work
<1>6. /\ Goes(p, to) /\ UNCHANGED <<disk, side>>
      /\ partial' = [partial EXCEPT ![Temporary(p, w.file)] = Cut]
  BY DEF Open
<1>7. Cut \in Hashes
  BY DEF Hashes
<1> HIDE DEF w, to
<1> QED  BY <1>2, <1>3, <1>4, <1>5, <1>6, <1>7, WritesTemporary

LEMMA ReceiveKeeps ==
  ASSUME NEW p \in Processes, Receive(p), CacheInv
  PROVE  CacheInv'
<1> DEFINE w == proc[p]
<1>1. w \in Proc /\ Placed(w, disk) /\ w.what = "receive" /\ UNCHANGED <<disk, side>>
  BY DEF CacheInv, CacheTypeOK, Receive
<1>2. w.file \in Files
  BY <1>1 DEF Placed, Work
<1>3. PICK got \in {Pinned, Others} :
        IF Fits(got)
        THEN /\ partial' = [partial EXCEPT ![Temporary(p, w.file)] = got]
             /\ Goes(p, [w EXCEPT !.what = "move", !.read = got])
        ELSE /\ partial' = [partial EXCEPT ![Temporary(p, w.file)] = Absent]
             /\ Goes(p, Missed(w.phase, w.file))
  BY DEF Receive
<1>4. CASE Fits(got)
  <2> DEFINE to == [w EXCEPT !.what = "move", !.read = got]
  <2>1. got = Pinned /\ got \in Hashes
    BY <1>4 DEF Fits, Hashes
  <2>2. to \in Proc
    BY <1>1, <2>1 DEF Proc, Whats, Work
  <2>3. to.what = "move" /\ to.file = w.file /\ to.phase = w.phase
    BY <1>1 DEF Proc
  <2>4. Placed(to, disk)
    BY <1>1, <2>3 DEF Placed, InPhase, Work
  <2>5. Goes(p, to) /\ partial' = [partial EXCEPT ![Temporary(p, w.file)] = got]
    BY <1>3, <1>4
  <2> HIDE DEF w, to
  <2> QED  BY <1>1, <1>2, <2>1, <2>2, <2>3, <2>4, <2>5, WritesTemporary
<1>5. CASE ~Fits(got)
  <2>1. Missed(w.phase, w.file) \in Proc /\ Placed(Missed(w.phase, w.file), disk)
    BY <1>1, MissedPlaces DEF Work
  <2>2. Missed(w.phase, w.file).what # "move" /\ Absent \in Hashes
    BY DEF Missed, Look, Failed, Doing, Hashes
  <2>3. /\ partial' = [partial EXCEPT ![Temporary(p, w.file)] = Absent]
        /\ Goes(p, Missed(w.phase, w.file))
    BY <1>3, <1>5
  <2> QED  BY <1>1, <1>2, <2>1, <2>2, <2>3, WritesTemporary
<1> QED  BY <1>4, <1>5

LEMMA BreakKeeps ==
  ASSUME NEW p \in Processes, Break(p), CacheInv
  PROVE  CacheInv'
<1> DEFINE w == proc[p]
           to == [w EXCEPT !.what = "download", !.attempt = NextAttempt(@)]
<1>1. w \in Proc /\ Placed(w, disk) /\ w.what \in {"download", "receive"}
  BY DEF CacheInv, CacheTypeOK, Break
<1>2. w.file \in Files
  BY <1>1 DEF Placed, Work
<1>3. /\ UNCHANGED <<disk, side>> /\ Absent \in Hashes
      /\ partial' = [partial EXCEPT ![Temporary(p, w.file)] = Absent]
  BY DEF Break, Hashes
<1>4. CASE Goes(p, to)
  <2>1. w.attempt + 1 \in Nat
    BY <1>1 DEF Proc
  <2>2. to \in Proc
    BY <1>1, <2>1 DEF Proc, Whats, Work, NextAttempt
  <2>3. to.what = "download" /\ to.file = w.file /\ to.phase = w.phase
    BY <1>1 DEF Proc
  <2>4. Placed(to, disk)
    BY <1>1, <2>3 DEF Placed, InPhase, Work
  <2> HIDE DEF w, to
  <2> QED  BY <1>2, <1>3, <1>4, <2>2, <2>3, <2>4, WritesTemporary
<1>5. CASE Goes(p, Missed(w.phase, w.file))
  <2>1. Missed(w.phase, w.file) \in Proc /\ Placed(Missed(w.phase, w.file), disk)
    BY <1>1, MissedPlaces DEF Work
  <2>2. Missed(w.phase, w.file).what # "move"
    BY DEF Missed, Look, Failed, Doing
  <2> QED  BY <1>2, <1>3, <1>5, <2>1, <2>2, WritesTemporary
<1> QED  BY <1>4, <1>5 DEF Break

\* What is moved to its place is pinned (hf-hub.ts, downloadWithTimeout).
LEMMA MovePins ==
  ASSUME NEW p \in Processes, Move(p), CacheInv
  PROVE  /\ proc[p].file \in Files
         /\ disk' = [disk EXCEPT ![proc[p].file] = Pinned]
<1>1. proc[p].what = "move" /\ Placed(proc[p], disk) /\ Received
  BY DEF Move, CacheInv
<1> QED  BY <1>1 DEF Move, Placed, Work, Received

LEMMA MoveKeeps ==
  ASSUME NEW p \in Processes, Move(p), CacheInv
  PROVE  CacheInv'
<1> DEFINE w == proc[p]
           to == [w EXCEPT !.what = "sidecar"]
<1>1. w \in Proc /\ Placed(w, disk) /\ w.what = "move"
  BY DEF CacheInv, CacheTypeOK, Move
<1>2. w.file \in Files /\ disk' = [disk EXCEPT ![w.file] = Pinned]
  BY MovePins
<1>3. /\ disk' \in [Files -> Hashes] /\ disk'[w.file] = Pinned
      /\ \A f \in Files : disk[f] = Pinned => disk'[f] = Pinned
  BY <1>2 DEF CacheInv, CacheTypeOK, Hashes
<1>4. to \in Proc
  BY <1>1 DEF Proc, Whats, Work
<1>5. to.what = "sidecar" /\ to.file = w.file /\ to.phase = w.phase
  BY <1>1 DEF Proc
<1>6. Placed(to, disk')
  <2>1. Placed(w, disk')
    BY <1>1, <1>3, PlacedGrows
  <2> QED  BY <1>1, <1>3, <1>5, <2>1 DEF Placed, InPhase, Work
<1>7. Goes(p, to) /\ UNCHANGED side
  BY DEF Move
<1>8. proc' \in [Processes -> Proc] /\ \A q \in Processes : Placed(proc'[q], disk')
  <2> HIDE DEF w, to
  <2> QED  BY <1>3, <1>4, <1>6, <1>7, GoesPlaces
<1>9. partial' = [partial EXCEPT ![Temporary(p, w.file)] = Absent] /\ Absent \in Hashes
  BY DEF Move, Hashes
<1>10. partial' \in [Temporaries -> Hashes]
  BY <1>2, <1>9, OwnTemporary DEF CacheInv, CacheTypeOK
<1>11. Received'
  <2> SUFFICES ASSUME NEW q \in Processes, proc'[q].what = "move"
               PROVE  partial'[Temporary(q, proc'[q].file)] = Pinned
    BY DEF Received, Temporary
  <2>1. q # p
    <3>1. proc'[p] = to
      BY <1>7 DEF Goes, CacheInv, CacheTypeOK
    <3> QED  BY <3>1, <1>5
  <2>2. proc'[q] = proc[q] /\ proc[q].file \in Files
    BY <2>1, <1>7 DEF Goes, CacheInv, CacheTypeOK, Placed, Work
  <2>3. partial[Temporary(q, proc[q].file)] = Pinned
    BY <2>2 DEF CacheInv, Received
  <2>4. /\ Temporary(q, proc[q].file) # Temporary(p, w.file)
        /\ Temporary(q, proc[q].file) \in Temporaries
    BY <1>2, <2>1, <2>2, OwnTemporary
  <2> QED  BY <1>9, <2>2, <2>3, <2>4 DEF CacheInv, CacheTypeOK
<1> QED  BY <1>3, <1>7, <1>8, <1>10, <1>11 DEF CacheInv, CacheTypeOK

LEMMA MoveFailsKeeps ==
  ASSUME NEW p \in Processes, MoveFails(p), CacheInv
  PROVE  CacheInv'
<1> DEFINE w == proc[p]
<1>1. w \in Proc /\ Placed(w, disk) /\ w.what = "move"
  BY DEF CacheInv, CacheTypeOK, MoveFails
<1>2. w.file \in Files
  BY <1>1 DEF Placed, Work
<1>3. Missed(w.phase, w.file) \in Proc /\ Placed(Missed(w.phase, w.file), disk)
  BY <1>1, MissedPlaces DEF Work
<1>4. Missed(w.phase, w.file).what # "move"
  BY DEF Missed, Look, Failed, Doing
<1>5. /\ UNCHANGED <<disk, side>> /\ Absent \in Hashes /\ Goes(p, Missed(w.phase, w.file))
      /\ partial' = [partial EXCEPT ![Temporary(p, w.file)] = Absent]
  BY DEF MoveFails, Hashes
<1> HIDE DEF w
<1> QED  BY <1>2, <1>3, <1>4, <1>5, WritesTemporary

\* A process that writes the sidecar of its file, and nothing else.
LEMMA WritesSidecar ==
  ASSUME NEW p \in Processes, NEW to \in Proc, NEW h \in Hashes, CacheInv,
         Goes(p, to), UNCHANGED <<disk, partial>>, Placed(to, disk), to.what # "move",
         side' = [side EXCEPT ![proc[p].file] = h]
  PROVE  CacheInv'
<1>1. proc' \in [Processes -> Proc] /\ \A q \in Processes : Placed(proc'[q], disk')
  BY GoesPlaces
<1>2. Received'
  BY DEF Received, Goes, CacheInv, CacheTypeOK, Temporary
<1>3. side' \in [Files -> Hashes]
  BY DEF CacheInv, CacheTypeOK
<1> QED  BY <1>1, <1>2, <1>3 DEF CacheInv, CacheTypeOK

LEMMA EmptySidecarKeeps ==
  ASSUME NEW p \in Processes, EmptySidecar(p), CacheInv
  PROVE  CacheInv'
<1> DEFINE w == proc[p]
           to == [w EXCEPT !.what = "vouch"]
<1>1. w \in Proc /\ Placed(w, disk) /\ w.what = "sidecar"
  BY DEF CacheInv, CacheTypeOK, EmptySidecar
<1>2. to \in Proc
  BY <1>1 DEF Proc, Whats, Work
<1>3. to.what = "vouch" /\ to.file = w.file /\ to.phase = w.phase
  BY <1>1 DEF Proc
<1>4. Placed(to, disk)
  BY <1>1, <1>3 DEF Placed, InPhase, Work
<1>5. /\ Goes(p, to) /\ UNCHANGED <<disk, partial>> /\ Cut \in Hashes
      /\ side' = [side EXCEPT ![proc[p].file] = Cut]
  BY DEF EmptySidecar, Hashes
<1> HIDE DEF to
<1> QED  BY <1>2, <1>3, <1>4, <1>5, WritesSidecar

LEMMA WriteSidecarKeeps ==
  ASSUME NEW p \in Processes, WriteSidecar(p), CacheInv
  PROVE  CacheInv'
<1> DEFINE w == proc[p]
<1>1. w \in Proc /\ Placed(w, disk) /\ w.what = "vouch"
  BY DEF CacheInv, CacheTypeOK, WriteSidecar
<1>2. Got(w.phase, w.file) \in Proc /\ Placed(Got(w.phase, w.file), disk)
  BY <1>1, GotPlaces DEF Placed, Work
<1>3. Got(w.phase, w.file).what # "move"
  BY DEF Got, Through, Look, Doing
<1>4. /\ Goes(p, Got(w.phase, w.file)) /\ UNCHANGED <<disk, partial>> /\ w.read \in Hashes
      /\ side' = [side EXCEPT ![proc[p].file] = w.read]
  BY <1>1 DEF WriteSidecar, Proc
<1> QED  BY <1>2, <1>3, <1>4, WritesSidecar

LEMMA SidecarFailsKeeps ==
  ASSUME NEW p \in Processes, SidecarFails(p), CacheInv
  PROVE  CacheInv'
<1> DEFINE w == proc[p]
           to == Missed(w.phase, w.file)
<1>1. w \in Proc /\ Placed(w, disk) /\ w.what \in {"sidecar", "vouch"}
  BY DEF CacheInv, CacheTypeOK, SidecarFails
<1>2. to \in Proc /\ Placed(to, disk)
  BY <1>1, MissedPlaces DEF Work
<1>3. to.what # "move"
  BY DEF Missed, Look, Failed, Doing
<1>4. Goes(p, to) /\ UNCHANGED <<disk, side, partial>>
  BY DEF SidecarFails
<1>5. w.file \in Files /\ side[w.file] \in Hashes
  BY <1>1 DEF Placed, Work, CacheInv, CacheTypeOK
<1>6. side' = [side EXCEPT ![w.file] = side[w.file]]
  BY <1>4, <1>5 DEF CacheInv, CacheTypeOK
<1> HIDE DEF to
<1> QED  BY <1>2, <1>3, <1>4, <1>5, <1>6, WritesSidecar

LEMMA StopKeeps ==
  ASSUME NEW p \in Processes, Stop(p), CacheInv
  PROVE  CacheInv'
<1>1. Resting \in Proc /\ Resting.what = "idle"
  BY DEF Resting, Doing, Proc, Whats, Hashes
<1>2. Placed(Resting, disk)
  BY <1>1 DEF Placed, Work
<1>3. /\ Goes(p, Resting) /\ UNCHANGED <<disk, side>>
      /\ partial' = [t \in Temporaries |-> IF t[1] = p THEN Absent ELSE partial[t]]
  BY DEF Stop
<1>4. proc' \in [Processes -> Proc] /\ \A q \in Processes : Placed(proc'[q], disk')
  BY <1>1, <1>2, <1>3, GoesPlaces
<1>5. partial' \in [Temporaries -> Hashes]
  BY <1>3 DEF CacheInv, CacheTypeOK, Hashes
<1>6. Received'
  <2> SUFFICES ASSUME NEW q \in Processes, proc'[q].what = "move"
               PROVE  partial'[Temporary(q, proc'[q].file)] = Pinned
    BY DEF Received, Temporary
  <2>1. q # p
    <3>1. proc'[p] = Resting
      BY <1>3 DEF Goes, CacheInv, CacheTypeOK
    <3> QED  BY <3>1, <1>1
  <2>2. proc'[q] = proc[q] /\ proc[q].file \in Files
    BY <2>1, <1>3 DEF Goes, CacheInv, CacheTypeOK, Placed, Work
  <2>3. partial[Temporary(q, proc[q].file)] = Pinned
    BY <2>2 DEF CacheInv, Received
  <2>4. /\ Temporary(q, proc[q].file) \in Temporaries
        /\ Temporary(q, proc[q].file)[1] = q
    BY <2>2, OwnTemporary DEF Temporary
  <2> QED  BY <1>3, <2>1, <2>2, <2>3, <2>4
<1> QED  BY <1>3, <1>4, <1>5, <1>6 DEF CacheInv, CacheTypeOK

LEMMA CacheStep == CacheInv /\ [NextCache]_cachevars => CacheInv'
<1> SUFFICES ASSUME CacheInv, [NextCache]_cachevars PROVE CacheInv'
  OBVIOUS
<1>1. CASE UNCHANGED cachevars
  BY <1>1 DEF cachevars, CacheInv, CacheTypeOK, Received, Placed, InPhase, SharedIn, Temporary
<1>2. CASE NextCache
  <2>1. PICK p \in Processes : Ensure(p) \/ GoesOn(p) \/ Stop(p)
    BY <1>2 DEF NextCache
  <2>2. CASE GoesOn(p)
    BY <2>2, ReadSidecarKeeps, HashKeeps, OpenKeeps, ReceiveKeeps, BreakKeeps, MoveKeeps,
       MoveFailsKeeps, EmptySidecarKeeps, WriteSidecarKeeps, SidecarFailsKeeps DEF GoesOn
  <2> QED  BY <2>1, <2>2, EnsureKeeps, StopKeeps
<1> QED  BY <1>1, <1>2

(* ---------- Theorems ---------- *)

\* Each process's place agrees with the disk, always (ensure).
THEOREM CacheAlways == SpecCache => []CacheInv
BY CacheStarts, CacheStep, PTL DEF SpecCache

\* A process that ensure() let through loads the pinned bytes
\* (hf-hub.ts:45-83, 159-204; model-manager.ts:173-203).
THEOREM WhatIsUsedIsPinned == SpecCache => []UsedIsPinned
<1>1. CacheInv => UsedIsPinned
  <2> SUFFICES ASSUME CacheInv, NEW p \in Processes, proc[p].what = "ready"
               PROVE  /\ proc[p].graph \in ToSet(Usable) /\ disk[proc[p].graph] = Pinned
                      /\ \A f \in Shared : disk[f] = Pinned
    BY DEF UsedIsPinned
  <2>1. Placed(proc[p], disk)
    BY DEF CacheInv
  <2> QED  BY <2>1, FileNames DEF Placed, SharedIn
<1> QED  BY <1>1, CacheAlways, PTL

\* A good copy already in its place is never replaced by a bad one
\* (hf-hub.ts:159-161).
THEOREM GoodCopiesAreKept == SpecCache => GoodCopiesStay
<1> DEFINE Stays == \A f \in Files : disk[f] = Pinned => disk'[f] = Pinned
<1>1. CacheInv /\ [NextCache]_cachevars => [Stays]_cachevars
  <2> SUFFICES ASSUME CacheInv, NextCache PROVE Stays
    OBVIOUS
  <2>1. PICK p \in Processes : Ensure(p) \/ GoesOn(p) \/ Stop(p)
    BY DEF NextCache
  <2>2. CASE Move(p)
    BY <2>2, MovePins DEF CacheInv, CacheTypeOK
  <2>3. CASE ~Move(p)
    BY <2>1, <2>3 DEF Ensure, GoesOn, Stop, ReadSidecar, Hash, Open, Receive, Break,
         MoveFails, EmptySidecar, WriteSidecar, SidecarFails
  <2> QED  BY <2>2, <2>3
<1> QED  BY <1>1, CacheAlways, PTL DEF SpecCache, GoodCopiesStay

=============================================================================
