------------------------------- MODULE Matchers -------------------------------
(***************************************************************************)
(* The matchers an inventory is written in (src/types/matcher): what each  *)
(* identifies and authorises, on the evidence a resource carries.          *)
(*                                                                         *)
(* A pattern is the set of texts it accepts.  A resource is a record with  *)
(* a field per kind of evidence, "" where it has none.                     *)
(***************************************************************************)
EXTENDS Naturals, Sequences, FiniteSets

(***************************************************************************)
(* Authorisation infos.  stamp stands for the description and the date.    *)
(***************************************************************************)
Info(authorised, stamp) == [given |-> TRUE, authorised |-> authorised, stamp |-> stamp]
NoInfo == [given |-> FALSE, authorised |-> TRUE, stamp |-> ""]

Declined(info) == info.given /\ ~info.authorised

(***************************************************************************)
(* Matchers.                                                               *)
(***************************************************************************)
Leaf(kind, accepts) == [kind |-> kind, accepts |-> accepts, info |-> NoInfo]

\* anchor: what scanAnchors leaves of an excerpt, "start", "end" or "none".
ContentLeaf(accepts, anchor) ==
  [kind |-> "content", accepts |-> accepts, anchor |-> anchor, info |-> NoInfo]

CspLeaf(directive, allow, nonces) ==
  [kind |-> "csp-directive", directive |-> directive, allow |-> allow, nonces |-> nonces, info |-> NoInfo]

\* The transitive form; kinds is empty where none are given.
ChainLeaf(accepts, maxDepth, kinds) ==
  [kind |-> "initiator-chain", accepts |-> accepts, maxDepth |-> maxDepth, kinds |-> kinds, info |-> NoInfo]

Or(children)  == [kind |-> "or", children |-> children, info |-> NoInfo]
And(children) == [kind |-> "and", children |-> children, info |-> NoInfo]

With(m, info) == [m EXCEPT !.info = info]

Composite(m) == m.kind \in {"or", "and"}

(***************************************************************************)
(* Resources: what a plain leaf reads.                                     *)
(***************************************************************************)
NoPolicy == [directive |-> "", sources |-> {}, nonces |-> 0]

Unevidenced ==
  [name |-> "", content |-> "", head |-> "", tail |-> "", policy |-> NoPolicy, hash |-> "", url |-> "", host |-> "",
   initiator |-> "", workflow |-> "", targetType |-> "", paths |-> <<>>, frame |-> ""]

(***************************************************************************)
(* The windows of a script too large to travel: head is a strict prefix of *)
(* the content and tail a strict suffix, so an excerpt decides a pattern   *)
(* only at the end it is anchored to, and never says no.                   *)
(***************************************************************************)
WindowAccepts(m, r) ==
  \/ m.anchor = "start" /\ r.head \in m.accepts \ {""}
  \/ m.anchor = "end" /\ r.tail \in m.accepts \ {""}

\* A policy is a set of sources; a placeholder stands for one nonce each, and
\* is no source itself.
AnyNonce == "'nonce-*'"

SamePolicy(m, policy) ==
  /\ policy.directive = m.directive
  /\ policy.sources = m.allow /\ AnyNonce \notin policy.sources
  /\ policy.nonces = m.nonces

(***************************************************************************)
(* The initiator chain: hops outward, known up to the first unknown one.   *)
(***************************************************************************)
KnownUpTo(path, k) == \A j \in 1 .. k : path[j].kind # "unknown"

\* With kinds, a document hop counts only on the origin of the script's frame.
Considers(m, hop, r) ==
  \/ m.kinds = {}
  \/ hop.kind = "script" /\ "script" \in m.kinds
  \/ hop.kind = "document" /\ "document" \in m.kinds /\ r.frame # "" /\ hop.host = r.frame

HopMatches(m, hop, r) == Considers(m, hop, r) /\ hop.host \in m.accepts \ {""}

ChainMatches(m, r) ==
  \E p \in 1 .. Len(r.paths) : \E k \in 1 .. Len(r.paths[p]) :
    k <= m.maxDepth /\ KnownUpTo(r.paths[p], k) /\ HopMatches(m, r.paths[p][k], r)

(***************************************************************************)
(* identify and authorize.                                                 *)
(***************************************************************************)
\* Without the evidence it reads a leaf neither identifies nor authorises.
Accepts(m, text) == text \in m.accepts \ {""}

NameMatches(m, r) == Accepts(m, r.name)
HashMatches(m, r) == Accepts(m, r.hash)
UrlMatches(m, r) == Accepts(m, r.url)
HostMatches(m, r) == Accepts(m, r.host)
InitiatorMatches(m, r) == Accepts(m, r.initiator)
WorkflowMatches(m, r) == Accepts(m, r.workflow)
TargetTypeMatches(m, r) == Accepts(m, r.targetType)
ContentMatches(m, r) == IF r.content # "" THEN r.content \in m.accepts ELSE WindowAccepts(m, r)

Satisfies(m, r) ==
  CASE m.kind \in {"name", "header-name"} -> NameMatches(m, r)
    [] m.kind = "content" -> ContentMatches(m, r)
    [] m.kind = "hash" -> HashMatches(m, r)
    [] m.kind = "url" -> UrlMatches(m, r)
    [] m.kind = "host" -> HostMatches(m, r)
    [] m.kind = "initiator-host" -> InitiatorMatches(m, r)
    [] m.kind = "initiator-chain" -> ChainMatches(m, r)
    [] m.kind = "csp-directive" -> SamePolicy(m, r.policy)
    [] m.kind = "workflow" -> WorkflowMatches(m, r)
    [] m.kind = "target-type" -> TargetTypeMatches(m, r)

\* As an authoriser a headerNameMatcher reads the value.
HeaderNameAuthorises(m, r) == Accepts(m, r.content)

AuthorisesLeaf(m, r) ==
  /\ ~Declined(m.info)
  /\ IF m.kind = "header-name" THEN HeaderNameAuthorises(m, r) ELSE Satisfies(m, r)

(***************************************************************************)
(* A composite asks its children, and these theirs.  Composites nest three *)
(* deep, a bound: the inventory's are one or two, and what the diff makes  *)
(* of an entry is one deeper.                                              *)
(***************************************************************************)
IdentifyBy(m, r, Child(_, _)) ==
  CASE m.kind = "or"  -> \E k \in 1 .. Len(m.children) : Child(m.children[k], r)
    [] m.kind = "and" -> \A k \in 1 .. Len(m.children) : Child(m.children[k], r)
    [] OTHER -> Satisfies(m, r)

IdentifyFlat(m, r)   == IdentifyBy(m, r, Satisfies)
IdentifyNested(m, r) == IdentifyBy(m, r, IdentifyFlat)
Identify(m, r)       == IdentifyBy(m, r, IdentifyNested)

\* The first alternative that identifies the resource is the one asked.
FirstAlternative(m, r, k) ==
  /\ IdentifyNested(m.children[k], r)
  /\ \A j \in 1 .. k - 1 : ~IdentifyNested(m.children[j], r)

\* The info of a composite has the last word, over whatever its children say.
AuthorizeBy(m, r, Child(_, _)) ==
  CASE m.kind = "or" ->
         \E k \in 1 .. Len(m.children) :
           FirstAlternative(m, r, k) /\ IF m.info.given THEN m.info.authorised ELSE Child(m.children[k], r)
    [] m.kind = "and" ->
         Identify(m, r) /\ ~Declined(m.info) /\ \A k \in 1 .. Len(m.children) : Child(m.children[k], r)
    [] OTHER -> AuthorisesLeaf(m, r)

AuthorizeFlat(m, r)   == AuthorizeBy(m, r, AuthorisesLeaf)
AuthorizeNested(m, r) == AuthorizeBy(m, r, AuthorizeFlat)
Authorize(m, r)       == AuthorizeBy(m, r, AuthorizeNested)

(***************************************************************************)
(* The shapes of all these.  A list of hashes is finite; what any other    *)
(* pattern accepts need not be.                                            *)
(***************************************************************************)
Stamps == {"", "curated", "new", "update"}

Infos == [given : BOOLEAN, authorised : BOOLEAN, stamp : Stamps]

Policies == [directive : STRING, sources : SUBSET STRING, nonces : Nat]

Hops == [kind : STRING, url : STRING, host : STRING]

Resources ==
  [name : STRING, content : STRING, head : STRING, tail : STRING, policy : Policies, hash : STRING, url : STRING,
   host : STRING, initiator : STRING, workflow : STRING, targetType : STRING, paths : Seq(Seq(Hops)), frame : STRING]

PlainKinds == {"name", "header-name", "url", "host", "initiator-host", "workflow", "target-type"}

PlainLeaves == [kind : PlainKinds, accepts : SUBSET STRING, info : Infos]

HashLeaves == [kind : {"hash"}, accepts : {hashes \in SUBSET STRING : IsFiniteSet(hashes)}, info : Infos]

ContentLeaves == [kind : {"content"}, accepts : SUBSET STRING, anchor : {"none", "start", "end"}, info : Infos]

CspLeaves == [kind : {"csp-directive"}, directive : STRING, allow : SUBSET STRING, nonces : Nat, info : Infos]

ChainLeaves ==
  [kind : {"initiator-chain"}, accepts : SUBSET STRING, maxDepth : Nat, kinds : SUBSET {"script", "document"}, info : Infos]

Leaves == PlainLeaves \cup HashLeaves \cup ContentLeaves \cup CspLeaves \cup ChainLeaves

Composites(kinds, matchers) == [kind : kinds, children : Seq(matchers) \ {<<>>}, info : Infos]

FlatMatchers   == Leaves \cup Composites({"or", "and"}, Leaves)
NestedMatchers == Leaves \cup Composites({"or", "and"}, FlatMatchers)
AllMatchers    == Leaves \cup Composites({"or", "and"}, NestedMatchers)

=============================================================================
