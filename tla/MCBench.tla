-------------------------------- MODULE MCBench --------------------------------
(***************************************************************************)
(* A tool fed in batches and one fed sample by sample, two processes, and  *)
(* documents of four characters.  The dataset is any the package loads     *)
(* from one file, with an odd row of any kind second in it.                *)
(***************************************************************************)
EXTENDS BenchProperties, TLC

CONSTANTS first, second, batched, single

MCBatchOf == [t \in Tools |-> IF t = batched THEN 2 ELSE 1]
MCCaps == {2, 3}
(* Spans of one label wherever they can be, and some of another. *)
MCSpan ==
  {s \in [label : {"name", "mail"}, start : 0 .. 3, end : 1 .. 4] :
     s.start < s.end /\ (s.label = "mail" => s.end - s.start = 2)}

\* thestack is of two files.
MCSets ==
  {<<key, <<<<"good", odd, "good", "good", "good">>>>>> :
     key \in DOMAIN DatasetConfigs \cup (DOMAIN PublicDatasets \ {"thestack"}),
     odd \in Kinds}

(* The loader of the report alone draws its strides by the cap. *)
ASSUME LoadersButOneAgree ==
  Report \notin {set[1] : set \in Sets} => SteadySets /\ LoadersAgree

MCReportSet == {<<Report, <<<<"good", "good", "good", "good", "good">>>>>>}
=============================================================================
