------------------------- MODULE ModelCacheProperties -------------------------
(***************************************************************************)
(* What ensure() promises the process that loads the model, and the        *)
(* processes beside it.                                                    *)
(***************************************************************************)
EXTENDS ModelCache

\* A process that ensure() let through loads the pinned bytes, whatever the
\* cache held before and whatever other processes download or left undone
\* (hf-hub.ts:45-83, 159-204; model-manager.ts:173-203).
UsedIsPinned ==
  \A p \in Processes :
    proc[p].what = "ready" =>
      /\ proc[p].graph \in ToSet(Usable) /\ disk[proc[p].graph] = Pinned
      /\ \A f \in Shared : disk[f] = Pinned

\* A good copy already in its place is never replaced by a bad one, by any
\* download of any process (hf-hub.ts:159-161).
GoodCopiesStay ==
  [][\A f \in Files : disk[f] = Pinned => disk'[f] = Pinned]_cachevars

\* ensure() ends: with its files, with an error after the last attempt on
\* the last candidate, or with its process (hf-hub.ts:85-106).
EnsureEnds ==
  \A p \in Processes :
    proc[p] # Resting ~> proc[p].what \in {"ready", "failed", "idle"}
=============================================================================
