-------------------------------- MODULE MCModel --------------------------------
(***************************************************************************)
(* A behaviour is of one part of the model: the engine with two calls, a   *)
(* warmup and two disposers, whose initialisation and load may fail once;  *)
(* or two processes on one cache with a tokenizer, a graph of each         *)
(* precision, and one the pins leave out.                                  *)
(***************************************************************************)
EXTENDS EngineProperties, ModelCacheProperties

CONSTANTS first, second, atStart, owner, signal

MCSharedFiles == <<"tokenizer">>
MCCandidates == <<"fp16", "quantized", "fp32">>

VARIABLE part   \* "engine" or "cache"

modelvars == <<part, enginevars, cachevars>>

\* While the engine runs the cache is empty.  Bound: an earlier run left bad
\* bytes of one graph only.
InitModel ==
  /\ part \in {"engine", "cache"}
  /\ InitEngine /\ InitCache
  /\ part = "engine" => \A f \in Files : disk[f] = Absent
  /\ \A f \in Files \ {"quantized"} : disk[f] # Others
EnginePart == part = "engine" /\ NextEngine /\ UNCHANGED <<part, cachevars>>
CachePart == part = "cache" /\ NextCache /\ UNCHANGED <<part, enginevars>>

\* A part that does not run has nothing under way, and nothing fair to do.
SpecModel ==
  InitModel /\ [][EnginePart \/ CachePart]_modelvars /\ FairEngine /\ FairCache
=============================================================================
