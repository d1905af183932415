------------------------------- MODULE MCHandoff -------------------------------
(***************************************************************************)
(* Small instances of Handoff.  The two runs are given the same key, the   *)
(* worst arrangement the seal has to survive.                              *)
(***************************************************************************)
EXTENDS Handoff

MCKeyOf == [r \in Runs |-> "key"]
AllRun1 == [f \in Fetchers |-> "run1"]
ReadersRun1 == [r \in Readers |-> "run1"]
AllVersion1 == [f \in Fetchers |-> 1]
\* Two fetch stages of run1, and one of run2 from another build.
TwoRuns == [f \in Fetchers |-> IF f = "f3" THEN "run2" ELSE "run1"]
TwoVersions == [f \in Fetchers |-> IF f = "f3" THEN 2 ELSE 1]
================================================================================
