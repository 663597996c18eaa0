--------------------------- MODULE EngineProperties ---------------------------
(***************************************************************************)
(* What the engine's life promises those who call it and those who dispose *)
(* of it.                                                                  *)
(***************************************************************************)
EXTENDS Engine, FiniteSets

\* No session is released while an inference runs on it, whichever calls,
\* warmups and other disposers were under way when dispose() was called
\* (nullpii.ts:592-603).
NoReleaseUnderUse ==
  \A c \in Calls :
    calls[c].stage = "run" => sessions[calls[c].on] = "open"

\* The model is in memory once: concurrent first calls share one load, and
\* a failed load is forgotten before another begins (backend.ts:59, 75-85).
OneSession ==
  Cardinality({n \in DOMAIN loads : Under(n) \/ sessions[n] \in {"open", "releasing"}}) <= 1

\* From the return of the dispose() that took the session on, no session
\* is open or being made and the vault is empty, whatever the calls and
\* warmups that were under way still do (nullpii.ts:592-603).
NothingAfterDispose ==
  (\E d \in Disposers : disposers[d].stage = "done")
    /\ (\A d \in Disposers : disposers[d].stage \notin {"taken", "releasing"})
  => /\ \A n \in DOMAIN loads : ~Under(n) /\ sessions[n] \in {"none", "released"}
     /\ ~entries

\* Every call, warmup and dispose() settles: no one waits for a promise
\* that was forgotten or that waits for it (nullpii.ts:592-603,
\* backend.ts:75-85).
EverythingSettles ==
  /\ \A c \in Calls : calls[c].stage # "idle" ~> calls[c].stage = "idle"
  /\ \A w \in Warmups : warmups[w].stage # "idle" ~> warmups[w].stage = "idle"
  /\ \A d \in Disposers : disposers[d].stage # "idle" ~> disposers[d].stage = "done"
=============================================================================
