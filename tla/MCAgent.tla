------------------------------ MODULE MCAgent ------------------------------
(* Instances of Agent for TLC. *)
EXTENDS Agent

CONSTANTS d1, d2, u1, v1, h1, e1, e2, s1, s2, w1

\* Two elements whose sources share their length, head and tail.
TwoSources   == e1 :> s1 @@ e2 :> s2
NoSources    == <<>>
OneWindow    == [s \in Sources |-> w1]
=============================================================================
