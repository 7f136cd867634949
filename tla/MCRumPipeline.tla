--------------------------- MODULE MCRumPipeline ---------------------------
(* Instances of RumPipeline for TLC. *)
EXTENDS RumPipeline, TLC

CONSTANTS staging, production, t1, t2, s1

\* Staging and production under target ids of their own.
TwoTargets == staging :> t1 @@ production :> t2
Lanes2     == staging :> "inventory" @@ production :> "detection"

\* The staging inventory lists the script, the production inventory does not.
StagingKnows ==
  [lane \in {"inventory", "detection"} |->
     [s \in Scripts |-> IF lane = "inventory" THEN "authorised" ELSE "unknown"]]

\* Calls that fail, alerts included, and runs that die.
PathFaults ==
  {<<"alert", "rejected">>, <<"delete", "rejected">>, <<"delete", "lost">>, <<"run", "crash">>}
=============================================================================
