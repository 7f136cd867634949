--------------------------- MODULE CollectorWindow ---------------------------
(***************************************************************************)
(* The collector implements the rolling novelty window of NoveltyWindow.   *)
(***************************************************************************)
EXTENDS Collector

(***************************************************************************)
(* The abstract window of a key.  Between the upsert of an expired record  *)
(* and its reset the new window is open already: it is the owner's.        *)
(***************************************************************************)
OwnerOf(k) == CHOOSE i \in Invocations : Owns(i, k)

AbstractWindow(k) ==
  IF table[k] = NoRecord THEN NoRecord
  ELSE IF k \in revived /\ \E i \in Invocations : Owns(i, k)
       THEN [start |-> req[OwnerOf(k)].at, route |-> req[OwnerOf(k)].route, until |-> table[k].ttl]
       ELSE [start |-> table[k].firstSeen, route |-> table[k].firstRoute, until |-> table[k].ttl]

Novelty == INSTANCE NoveltyWindow WITH
  Closed <- NoRecord, Length <- TtlWindow, Slack <- LambdaTimeout,
  window <- [k \in Keys |-> AbstractWindow(k)], reported <- sent

\* Nothing tells a record that is not there from a window that is not open.
ASSUME WindowAssumption == NoRecord \notin Novelty!Windows

\* The collector implements the rolling novelty window: every sighting opens
\* or prolongs exactly one window, and each window ends in a message or is
\* given up so that the next sighting reports again.
ImplementsNoveltyWindow == Novelty!Spec

=============================================================================
