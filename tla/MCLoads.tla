------------------------------- MODULE MCLoads -------------------------------
(* Instances of Loads for TLC. *)
EXTENDS Loads

Stack(url) == Evidence("stack", url, "")
Parser == Evidence("parser", "page", "")

HostOf ==
  [url \in {"g"} |-> "vendor"] @@ [url \in {"h", "a", "b", "c"} |-> "cdn"] @@ [url \in {"page"} |-> "shop"]

ByUrl(url, hash) == Entry(Leaf("name", {url}), Leaf("hash", {hash}), Info(TRUE, "curated"))

\* g authorises what it loads from a and b, three deep; h is authorised where
\* a vendor's script is among those that loaded it, and grants nothing; a
\* reviewer has not decided on b's neighbour c.
TwoGrants ==
  <<Granting(ByUrl("g", "g1"), 3, Leaf("url", {"a", "b", "c"})),
    Entry(And(<<Leaf("name", {"h"}), ChainLeaf({"vendor"}, 3, {"script"})>>), Leaf("hash", {"h1"}), Info(TRUE, "curated")),
    ByUrl("t", "t1"),
    Entry(Leaf("name", {"c"}), Leaf("hash", {"c1"}), Info(FALSE, "new"))>>

Observed ==
  {External("g", "g1", Parser), External("g", "g2", Parser),
   External("h", "h1", Stack("g")), External("h", "h1", Stack("b")),
   External("a", "a1", Stack("h")), External("a", "a1", Stack("")),
   External("b", "b1", Stack("a")),
   External("c", "c1", Stack("g")),
   Inline("t", "1", "t1", Evidence("script", "g", ""))}

Recorded ==
  {[src |-> "a", kind |-> "script", url |-> "g", token |-> "", document |-> "d"],
   [src |-> "a", kind |-> "inline", url |-> "", token |-> "1", document |-> "d"]}
=============================================================================
