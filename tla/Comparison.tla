------------------------------ MODULE Comparison ------------------------------
(***************************************************************************)
(* What the comparison services say of the scripts and headers of a page,  *)
(* against the entries of an inventory (src/services/comparison).          *)
(*                                                                         *)
(* An entry is a record [identify, authorise, info, required, loads]: the  *)
(* matcher that says what it is about, the one that says what it accepts,  *)
(* the reviewer's word on it, where it must be present, and how deep the   *)
(* loads it also authorises may be, and which (0: none).                   *)
(***************************************************************************)
EXTENDS Matchers

Entry(identify, authorise, info) ==
  [identify |-> identify, authorise |-> authorise, info |-> info, required |-> {},
   loads |-> [maxDepth |-> 0, guard |-> Leaf("url", {})]]

Granting(e, maxDepth, guard) == [e EXCEPT !.loads = [maxDepth |-> maxDepth, guard |-> guard]]

FirstOf(hits) == IF hits = {} THEN 0 ELSE CHOOSE k \in hits : \A j \in hits : k <= j

\* The first approved entry that identifies the resource, 0 if none does.
FindMatchingEntry(entries, r) ==
  FirstOf({k \in 1 .. Len(entries) : entries[k].info.authorised /\ Identify(entries[k].identify, r)})

Result(verdict, k, r) == [verdict |-> verdict, entry |-> k, resource |-> r]

(***************************************************************************)
(* evaluateDetectedScript, which an observation of a real user enters      *)
(* directly: it has no content to be blank.                                *)
(***************************************************************************)
ScriptVerdict(entries, k, r) ==
  IF k = 0 THEN Result("unknown", 0, r)
  ELSE Result(IF entries[k].info.authorised /\ Authorize(entries[k].authorise, r) THEN "authorised" ELSE "denied", k, r)

EvaluateScript(entries, r) == ScriptVerdict(entries, FindMatchingEntry(entries, r), r)

\* A script the monitor fetched and found blank is judged unknown unseen.
CompareScript(entries, r) ==
  IF r.content = "" THEN Result("unknown", 0, r) ELSE EvaluateScript(entries, r)

\* An identified header without a value is denied, whatever would authorise it.
HeaderVerdict(entries, k, r) ==
  IF k = 0 THEN Result("unknown", 0, r)
  ELSE Result(IF r.content # "" /\ entries[k].info.authorised /\ Authorize(entries[k].authorise, r)
              THEN "authorised" ELSE "denied", k, r)

CompareHeader(entries, r) == HeaderVerdict(entries, FindMatchingEntry(entries, r), r)

=============================================================================
