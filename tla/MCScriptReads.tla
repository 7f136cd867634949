---------------------------- MODULE MCScriptReads ----------------------------
(* An instance of ScriptReads for TLC: a script in a frame, and one that is *)
(* redirected to.                                                           *)
EXTENDS ScriptReads

Made == {"framed", "hop", "target"}

InFrame == [r \in Made |-> IF r = "framed" THEN "frame" ELSE "main"]

Redirects == [r \in Made |-> IF r = "target" THEN "hop" ELSE r]

OwnUrl == [r \in Made |-> r]
=============================================================================
