---------------------------- MODULE MCCollector ----------------------------
(* An instance of Collector for TLC: two invocations, an origin of a target *)
(* and one of none.                                                         *)
EXTENDS CollectorWindow, TLC

CONSTANTS i1, i2, o1, o2, t1, csp, r1

TwoOrigins == o1 :> t1 @@ o2 :> NoTarget

\* Failures the code answers to: nothing here loses or duplicates a message.
\* An invocation that dies before it is told of a first sighting leaves the
\* sighting to the next request.
HandledFaults ==
  {<<"archive", "rejected">>, <<"upsert", "rejected">>, <<"reset", "rejected">>,
   <<"reset", "lost">>, <<"send", "rejected">>, <<"delete", "lost">>,
   <<"archive", "crash">>, <<"upsert", "crash">>}
=============================================================================
