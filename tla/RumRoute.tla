------------------------------ MODULE RumRoute ------------------------------
(***************************************************************************)
(* How the comparator routes one observation (src/rum/route.ts): the       *)
(* judgement of the script comparison services and the lane the collector  *)
(* stamped decide between an alert, a pending candidate and a record.      *)
(***************************************************************************)

Lanes == {"inventory", "detection"}

(***************************************************************************)
(* What the comparison says of an observation.                             *)
(*   identified  external, by an entry whose authoriser needs more than a  *)
(*               URL                                                       *)
(*   inherited   external, unidentified, an ancestor vouches for it        *)
(*   denied      external, the identifying entry refuses it on its URL     *)
(*   mismatch    inline, identified, its evidence is not authorised        *)
(*   throws      the evaluation raises an error                            *)
(***************************************************************************)
VerdictsOf(kind) ==
  CASE kind = "external" -> {"identified", "authorised", "inherited", "denied", "unknown", "throws"}
    [] kind = "inline"   -> {"authorised", "mismatch", "unknown", "throws"}
    [] kind = "csp"      -> {"unconfigured", "gated", "activated"}

Kinds    == {"external", "inline", "csp"}
Verdicts == UNION {VerdictsOf(kind) : kind \in Kinds}
Dues     == {"alert", "candidate", "record", "throw"}

\* routeCspViolation alerts only where the target opted in and no prevalence
\* floor is above the one session a first sighting proves.
DueOnDetection(verdict) ==
  CASE verdict \in {"denied", "mismatch", "unknown", "activated"} -> "alert"
    [] verdict = "throws" -> "throw"
    [] OTHER -> "record"

\* routeInventoryMessage: a CSP violation is recorded whatever the target's
\* alerts say, and a denied external script is never proposed.
DueOnInventory(verdict) ==
  CASE verdict \in {"mismatch", "unknown"} -> "candidate"
    [] verdict = "throws" -> "throw"
    [] OTHER -> "record"

DueOf(lane, verdict) ==
  IF lane = "inventory" THEN DueOnInventory(verdict) ELSE DueOnDetection(verdict)

=============================================================================
