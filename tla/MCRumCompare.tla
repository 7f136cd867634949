---------------------------- MODULE MCRumCompare ----------------------------
(* An instance of RumCompare for TLC. *)
EXTENDS RumCompare, TLC

CONSTANTS a1, c1, c2, i1, r1, p1, p2, s1, main, pending

\* The two branches at commits of their own.
OwnRefs == "detection" :> main @@ "inventory" :> pending

Body(lane, pk, verdict) ==
  [wellFormed |-> TRUE, known |-> TRUE, lane |-> lane, verdict |-> verdict, pk |-> pk, script |-> s1]

\* A script unknown in production; a staging candidate for it under two keys; a
\* message that is not well formed and one that is authorised.
Shapes5 ==
  a1 :> Body("detection", p1, "unknown") @@
  c1 :> Body("inventory", p1, "unknown") @@ c2 :> Body("inventory", p2, "unknown") @@
  i1 :> [Body("detection", p1, "unknown") EXCEPT !.wellFormed = FALSE] @@
  r1 :> Body("detection", p2, "authorised")

\* Failing calls, another writer of the branch, runs that die and runs that
\* outlive the visibility timeout.
RunFaults ==
  {<<"receive", "rejected">>, <<"alert", "rejected">>, <<"delete", "rejected">>, <<"delete", "lost">>,
   <<"push", "rejected">>, <<"push", "lost">>, <<"pullRequest", "rejected">>, OtherWrite, Overrun, Crash}

\* Any two of the messages are sent.
SentAtMost == Cardinality({m \in Messages : queue[m] # "absent"}) <= 2
=============================================================================
