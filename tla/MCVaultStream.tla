----------------------------- MODULE MCVaultStream -----------------------------
(***************************************************************************)
(* The way out and the way back: a behaviour is a vault that masks, or a   *)
(* stream of up to eight characters that restores, in chunks of one, two   *)
(* and three.                                                              *)
(***************************************************************************)
EXTENDS MCVault, RestoreStream

VARIABLE way   \* "out" or "back"

InitWays == way \in {"out", "back"} /\ Init /\ InitStream
Out == way = "out" /\ Next /\ UNCHANGED <<way, streamvars>>
Back == way = "back" /\ NextStream /\ UNCHANGED <<way, vars>>
SpecWays == InitWays /\ [][Out \/ Back]_<<way, vars, streamvars>>
=============================================================================
