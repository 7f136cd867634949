----------------------------- MODULE MCLifecycle -----------------------------
(* Instances of Lifecycle for TLC: two variations of one checkout. *)
EXTENDS Lifecycle

TwoWorkflows == <<"w1", "w2">>

\* A vendor's script people know, in two builds.
Vendor(w, hash) ==
  [Unevidenced EXCEPT !.name = "vendor", !.content = hash, !.hash = hash, !.host = "vendor.example", !.workflow = w]

\* An inline script without an id, in two versions with one opening.
Inline(w, text) ==
  [Unevidenced EXCEPT !.name = "inline", !.content = text, !.hash = text, !.host = "shop.example", !.workflow = w]

Policy(w, sources) ==
  [Unevidenced EXCEPT !.name = "content-security-policy", !.content = ToString(sources), !.workflow = w,
                      !.host = "shop.example",
                      !.policy = [directive |-> "script-src", sources |-> sources, nonces |-> 1]]

OneOpening ==
  [text \in {"i1", "i2"} |-> {"i1", "i2"}] @@ [text \in {"h1", "h2"} |-> {text}]

\* The second variation serves no inline script.
TwoCatalogues ==
  [w \in {"w1", "w2"} |->
     [scripts |-> <<{Vendor(w, "h1"), Vendor(w, "h2")}>> \o (IF w = "w1" THEN <<{Inline(w, "i1"), Inline(w, "i2")}>> ELSE <<>>),
      headers |-> <<{Policy(w, {"a"}), Policy(w, {"a", "b"})}>>]]

AtFirst ==
  [w \in {"w1", "w2"} |->
     [scripts |-> <<Vendor(w, "h1")>> \o (IF w = "w1" THEN <<Inline(w, "i1")>> ELSE <<>>),
      headers |-> <<Policy(w, {"a"})>>]]

VendorKnown ==
  [scripts |-> <<Entry(Leaf("name", {"vendor"}), Leaf("hash", {"h1"}), Info(TRUE, "curated"))>>, headers |-> <<>>]

\* What the theorems about Lifecycle suppose is so here: their hypotheses
\* hold of an inventory, and the runs of it check what they conclude.
ASSUME InstanceAssumption ==
  /\ HeadersAreNamed /\ Legible /\ HeadersApart /\ CuratedIsApproved /\ EvidenceTells
  /\ \A j, k \in 1 .. Len(Curated.headers) : Curated.headers[j].identify = Curated.headers[k].identify => j = k
=============================================================================
