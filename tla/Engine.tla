-------------------------------- MODULE Engine --------------------------------
(***************************************************************************)
(* The life of the engine's model (src/nullpii.ts, class NullPii;          *)
(* src/backend/backend.ts, class OrtBackend): one initialisation and one   *)
(* ONNX session shared by concurrent sanitize() and warmup() calls, and    *)
(* dispose() beside them.  What a call masks is left to the vault's module.*)
(*                                                                         *)
(* Everything between two awaits is one step.  A promise that several wait *)
(* for is its number: 0 is the null of the field that holds it.            *)
(***************************************************************************)
EXTENDS Naturals, Sequences

CONSTANTS
  Calls,       \* sanitize() calls that may run at once
  Warmups,
  Disposers,   \* callers of dispose()
  Accelerated, \* an accelerator's provider is tried before the CPU
  MaxInits,    \* bound: initialisations begun; the last does not fail
  MaxLoads     \* bound: session loads begun; the last does not fail

ASSUME EngineAssumption ==
  Accelerated \in BOOLEAN /\ MaxInits \in Nat /\ MaxLoads \in Nat

VARIABLES
  disposed,
  initPromise,  \* the initialisation callers wait for
  inits,        \* how each initialisation stands
  backend,      \* this.backend is set (and this.tokenizer)
  sessionLoad,  \* the load callers wait for
  loads,        \* how each load stands
  sessions,     \* the session a load made
  tensorCtor,   \* TensorCtor is set
  entries,      \* the vault holds values
  calls, warmups, disposers   \* where each caller stands

enginevars == <<disposed, initPromise, inits, backend, sessionLoad, loads, sessions,
                tensorCtor, entries, calls, warmups, disposers>>

\* A caller and the promise it waits for, or the session it runs on.
At(stage, on) == [stage |-> stage, on |-> on]
Idle == At("idle", 0)

InitEngine ==
  /\ disposed = FALSE
  /\ initPromise = 0 /\ inits = <<>>
  /\ backend = FALSE
  /\ sessionLoad = 0 /\ loads = <<>> /\ sessions = <<>> /\ tensorCtor = FALSE
  /\ entries = FALSE
  /\ calls = [c \in Calls |-> Idle]
  /\ warmups = [w \in Warmups |-> Idle]
  /\ disposers = [d \in Disposers |-> Idle]

(* ---------- Initialisation (ensureInit, runInit) ---------- *)

(* The promise a caller gets, begun by it when there is none. *)
InitFor == IF initPromise = 0 THEN Len(inits) + 1 ELSE initPromise
BeginInit ==
  /\ initPromise = 0 => Len(inits) < MaxInits
  /\ initPromise' = InitFor
  /\ inits' = IF initPromise = 0 THEN Append(inits, "running") ELSE inits

(* The files are there, or downloaded: the backend and the tokenizer are   *)
(* made; else the promise is forgotten.                                    *)
InitEnds(i) ==
  /\ inits[i] = "running"
  /\ \/ /\ inits' = [inits EXCEPT ![i] = "ok"]
        /\ backend' = TRUE
        /\ UNCHANGED initPromise
     \/ /\ Len(inits) < MaxInits
        /\ inits' = [inits EXCEPT ![i] = "failed"]
        /\ initPromise' = 0
        /\ UNCHANGED backend
  /\ UNCHANGED <<disposed, sessionLoad, loads, sessions, tensorCtor, entries,
                 calls, warmups, disposers>>

(* ---------- The session (ensureSession, loadSession) ---------- *)

\* Mutant: every inference loads a session of its own.
LoadForOneself == Len(loads) + 1
LoadFor == IF sessionLoad = 0 THEN Len(loads) + 1 ELSE sessionLoad
BeginLoad ==
  /\ LoadFor \notin DOMAIN loads => Len(loads) < MaxLoads
  /\ sessionLoad' = LoadFor
  /\ IF LoadFor \in DOMAIN loads THEN UNCHANGED <<loads, sessions>>
     ELSE loads' = Append(loads, "starting") /\ sessions' = Append(sessions, "none")

Under(n) == loads[n] \in {"starting", "accelerator", "cpu"}

(* The ONNX file and the runtime are found: TensorCtor is set and the      *)
(* session is being created.                                               *)
LoadCreates(n) ==
  /\ loads[n] = "starting"
  /\ loads' = [loads EXCEPT ![n] = IF Accelerated THEN "accelerator" ELSE "cpu"]
  /\ tensorCtor' = TRUE
  /\ UNCHANGED <<disposed, initPromise, inits, backend, sessionLoad, sessions, entries,
                 calls, warmups, disposers>>
(* The accelerator's library cannot be loaded: the CPU alone. *)
LoadFallsBack(n) ==
  /\ loads[n] = "accelerator"
  /\ loads' = [loads EXCEPT ![n] = "cpu"]
  /\ UNCHANGED <<disposed, initPromise, inits, backend, sessionLoad, sessions,
                 tensorCtor, entries, calls, warmups, disposers>>
LoadSucceeds(n) ==
  /\ loads[n] \in {"accelerator", "cpu"}
  /\ loads' = [loads EXCEPT ![n] = "ok"]
  /\ sessions' = [sessions EXCEPT ![n] = "open"]
  /\ UNCHANGED <<disposed, initPromise, inits, backend, sessionLoad, tensorCtor,
                 entries, calls, warmups, disposers>>
(* No file, no runtime, or no session on any provider: the load is         *)
(* forgotten, so that the next inference tries again.                      *)
LoadFails(n) ==
  /\ Under(n) /\ Len(loads) < MaxLoads
  /\ loads' = [loads EXCEPT ![n] = "failed"]
  /\ sessionLoad' = 0
  /\ UNCHANGED <<disposed, initPromise, inits, backend, sessions, tensorCtor, entries,
                 calls, warmups, disposers>>

\* Mutant: a load that failed never answers those who wait for it.
SettledOk(n) == loads[n] = "ok"
Settled(n) == ~Under(n)

(* ---------- sanitize() ---------- *)

Sanitize(c) ==
  /\ calls[c] = Idle /\ ~disposed
  /\ BeginInit
  /\ calls' = [calls EXCEPT ![c] = At("init", InitFor)]
  /\ UNCHANGED <<disposed, backend, sessionLoad, loads, sessions, tensorCtor, entries,
                 warmups, disposers>>

\* The steps of a call that touch nothing but its own place.
Moves(c, to) ==
  /\ calls' = [calls EXCEPT ![c] = to]
  /\ UNCHANGED <<disposed, initPromise, inits, backend, sessionLoad, loads, sessions,
                 tensorCtor, entries, warmups, disposers>>

(* readyModel: without a backend the call is refused. *)
Ready(c) ==
  /\ calls[c].stage = "init" /\ inits[calls[c].on] # "running"
  /\ Moves(c, IF inits[calls[c].on] = "ok" /\ backend THEN At("detect", 0) ELSE Idle)
(* infer: a window of the text, or its secret pass. *)
Infer(c) ==
  /\ calls[c].stage = "detect"
  /\ BeginLoad
  /\ calls' = [calls EXCEPT ![c] = At("load", LoadFor)]
  /\ UNCHANGED <<disposed, initPromise, inits, backend, tensorCtor, entries, warmups,
                 disposers>>
Run(c) ==
  /\ calls[c].stage = "load" /\ Settled(calls[c].on)
  /\ Moves(c, IF loads[calls[c].on] = "ok" /\ tensorCtor THEN At("run", calls[c].on)
              ELSE Idle)
RunEnds(c) ==
  /\ calls[c].stage = "run"
  /\ \E to \in {At("detect", 0), Idle} : Moves(c, to)
(* The vault masks what was found, and the call settles. *)
Mask(c) ==
  /\ calls[c].stage = "detect"
  /\ calls' = [calls EXCEPT ![c] = Idle]
  /\ entries' = TRUE
  /\ UNCHANGED <<disposed, initPromise, inits, backend, sessionLoad, loads, sessions,
                 tensorCtor, warmups, disposers>>

(* ---------- warmup() ---------- *)

WarmUp(w) ==
  /\ warmups[w] = Idle /\ ~disposed
  /\ BeginInit
  /\ warmups' = [warmups EXCEPT ![w] = At("init", InitFor)]
  /\ UNCHANGED <<disposed, backend, sessionLoad, loads, sessions, tensorCtor, entries,
                 calls, disposers>>
(* readyModel asks again whether the engine is disposed.  From there to    *)
(* backend.load() only settled promises are awaited: a dispose() called    *)
(* later is behind it in the queue.                                        *)
WarmLoad(w) ==
  /\ warmups[w].stage = "init" /\ inits[warmups[w].on] # "running"
  /\ IF inits[warmups[w].on] = "ok" /\ ~disposed /\ backend
     THEN BeginLoad /\ warmups' = [warmups EXCEPT ![w] = At("load", LoadFor)]
     ELSE warmups' = [warmups EXCEPT ![w] = Idle] /\ UNCHANGED <<sessionLoad, loads, sessions>>
  /\ UNCHANGED <<disposed, initPromise, inits, backend, tensorCtor, entries, calls,
                 disposers>>
WarmEnds(w) ==
  /\ warmups[w].stage = "load" /\ Settled(warmups[w].on)
  /\ warmups' = [warmups EXCEPT ![w] = Idle]
  /\ UNCHANGED <<disposed, initPromise, inits, backend, sessionLoad, loads, sessions,
                 tensorCtor, entries, calls, disposers>>

(* ---------- dispose() ---------- *)

\* Mutant: the calls that run are not waited for.
AwaitedInitOnly(promise) == [calls |-> {}, init |-> promise]
Awaited(promise) == [calls |-> {c \in Calls : calls[c] # Idle}, init |-> promise]

(* New calls are refused at once.  The calls are waited for one by one as  *)
(* they stood: none can have begun again.                                  *)
Dispose(d) ==
  /\ disposers[d].stage = "idle"
  /\ disposed' = TRUE
  /\ disposers' = [disposers EXCEPT ![d] = At("waiting", Awaited(initPromise))]
  /\ UNCHANGED <<initPromise, inits, backend, sessionLoad, loads, sessions, tensorCtor,
                 entries, calls, warmups>>

(* Backend.dispose: the load is taken and forgotten. *)
\* Mutant: a load under way is not waited for.
TakenIfOpen(n) == IF n # 0 /\ Under(n) THEN 0 ELSE n
Taken(n) == n

Release(d) ==
  /\ disposers[d].stage = "waiting"
  /\ \A c \in disposers[d].on.calls : calls[c] = Idle
  /\ disposers[d].on.init # 0 => inits[disposers[d].on.init] # "running"
  /\ LET load == IF backend THEN Taken(sessionLoad) ELSE 0 IN
       disposers' = [disposers EXCEPT ![d] =
                       IF load = 0 THEN At("clearing", 0) ELSE At("taken", load)]
  /\ IF backend THEN sessionLoad' = 0 /\ tensorCtor' = FALSE
     ELSE UNCHANGED <<sessionLoad, tensorCtor>>
  /\ UNCHANGED <<disposed, initPromise, inits, backend, loads, sessions, entries, calls,
                 warmups>>
(* A load that failed has no session to release. *)
ReleaseBegins(d) ==
  /\ disposers[d].stage = "taken" /\ Settled(disposers[d].on)
  /\ IF loads[disposers[d].on] = "ok"
     THEN /\ sessions' = [sessions EXCEPT ![disposers[d].on] = "releasing"]
          /\ disposers' = [disposers EXCEPT ![d].stage = "releasing"]
     ELSE /\ disposers' = [disposers EXCEPT ![d] = At("clearing", 0)]
          /\ UNCHANGED sessions
  /\ UNCHANGED <<disposed, initPromise, inits, backend, sessionLoad, loads, tensorCtor,
                 entries, calls, warmups>>
ReleaseEnds(d) ==
  /\ disposers[d].stage = "releasing"
  /\ sessions' = [sessions EXCEPT ![disposers[d].on] = "released"]
  /\ disposers' = [disposers EXCEPT ![d] = At("clearing", 0)]
  /\ UNCHANGED <<disposed, initPromise, inits, backend, sessionLoad, loads, tensorCtor,
                 entries, calls, warmups>>
Clear(d) ==
  /\ disposers[d].stage = "clearing"
  /\ backend' = FALSE
  /\ entries' = FALSE
  /\ disposers' = [disposers EXCEPT ![d] = At("done", 0)]
  /\ UNCHANGED <<disposed, initPromise, inits, sessionLoad, loads, sessions, tensorCtor,
                 calls, warmups>>

(* ---------- The engine ---------- *)

\* What the runtime brings to an end.
Settles ==
  \/ \E i \in DOMAIN inits : InitEnds(i)
  \/ \E n \in DOMAIN loads :
       LoadCreates(n) \/ LoadFallsBack(n) \/ LoadSucceeds(n) \/ LoadFails(n)
CallGoesOn(c) == Ready(c) \/ Infer(c) \/ Run(c) \/ RunEnds(c) \/ Mask(c)
WarmupGoesOn(w) == WarmLoad(w) \/ WarmEnds(w)
DisposerGoesOn(d) == Release(d) \/ ReleaseBegins(d) \/ ReleaseEnds(d) \/ Clear(d)

NextEngine ==
  \/ Settles
  \/ \E c \in Calls : Sanitize(c) \/ CallGoesOn(c)
  \/ \E w \in Warmups : WarmUp(w) \/ WarmupGoesOn(w)
  \/ \E d \in Disposers : Dispose(d) \/ DisposerGoesOn(d)

(* Every await ends: downloads have a timeout, the runtime answers, a text *)
(* has finitely many windows.                                              *)
FairEngine ==
  /\ WF_enginevars(Settles)
  /\ \A c \in Calls : WF_enginevars(Ready(c)) /\ WF_enginevars(Run(c))
                      /\ WF_enginevars(RunEnds(c)) /\ SF_enginevars(Mask(c))
  /\ \A w \in Warmups : WF_enginevars(WarmupGoesOn(w))
  /\ \A d \in Disposers : WF_enginevars(DisposerGoesOn(d))

SpecEngine == InitEngine /\ [][NextEngine]_enginevars /\ FairEngine
=============================================================================
