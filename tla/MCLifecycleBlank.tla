-------------------------- MODULE MCLifecycleBlank --------------------------
(* An instance of Lifecycle for TLC: one variation, and a header whose value *)
(* may be empty, which is what Legible of Lifecycle excludes.                *)
EXTENDS Lifecycle

Option(w, value) ==
  [Unevidenced EXCEPT !.name = "x-frame-options", !.content = value, !.workflow = w, !.host = "shop.example"]

OneWorkflow == <<"w1">>
BlankCatalogue == [w \in {"w1"} |-> [scripts |-> <<>>, headers |-> <<{Option(w, "DENY"), Option(w, "")}>>]]
BlankAtFirst == [w \in {"w1"} |-> [scripts |-> <<>>, headers |-> <<Option(w, "DENY")>>]]
NothingKnown == [scripts |-> <<>>, headers |-> <<>>]
Bare == [text \in {"DENY", ""} |-> {text}]
=============================================================================
