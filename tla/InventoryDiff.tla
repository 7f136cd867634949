---------------------------- MODULE InventoryDiff ----------------------------
(***************************************************************************)
(* How findings become a change of the inventory (src/services/inventory.  *)
(* ts): an unknown script or header becomes an entry for review, a known   *)
(* one with another hash or value becomes an alternative of its entry.     *)
(* An update goes through the written form of the entry and back (src/     *)
(* utils/inventory.ts, script.ts, types/inventory/zod.ts).                 *)
(***************************************************************************)
EXTENDS Comparison, SequencesExt

CONSTANTS
  Opening,      \* content -> the contents with the same opening, when it is
                \* longer than a snippet, or a cookie; itself alone when not
  FallbackName  \* the name every inline script without an id has

Each(list, Op(_)) == [k \in 1 .. Len(list) |-> Op(list[k])]

Pending  == Info(FALSE, "new")
Recorded == Info(TRUE, "update")

(***************************************************************************)
(* The written form.  array: a list of alternatives, the first of which    *)
(* speaks for the entry; single: one matcher with the info of the entry.   *)
(***************************************************************************)
\* Slip: a list is written whenever its elements can carry their infos.
ListsAnyway(e) ==
  /\ e.authorise.kind = "or" /\ ~e.authorise.info.given
  /\ \A k \in 1 .. Len(e.authorise.children) : e.authorise.children[k].info.given

WritesList(e) ==
  /\ e.authorise.kind = "or" /\ ~e.authorise.info.given
  /\ \A k \in 1 .. Len(e.authorise.children) : e.authorise.children[k].info.given
  /\ e.authorise.children[1].info = e.info

Written(e) ==
  IF WritesList(e) THEN [form |-> "array", items |-> e.authorise.children]
  ELSE [form |-> "single", items |-> <<With(e.authorise, e.info)>>]

\* processAuthorizeWith.
Load(e, raw) ==
  LET first == raw.items[1] IN
  IF raw.form = "array" THEN [e EXCEPT !.authorise = Or(raw.items), !.info = first.info]
  ELSE [e EXCEPT !.authorise = With(first, NoInfo), !.info = first.info]

Reload(e) == Load(e, Written(e))

\* The alternatives an update looks among: of a list, of an orMatcher, or one.
Alternatives(raw) ==
  IF raw.form = "single" /\ raw.items[1].kind = "or" THEN raw.items[1].children ELSE raw.items

AddAlternative(raw, m) ==
  IF raw.form = "single" /\ raw.items[1].kind = "or"
    THEN [raw EXCEPT !.items[1].children = Append(@, m)]
  ELSE [form |-> "array", items |-> Append(raw.items, m)]

(***************************************************************************)
(* Matchers for what was found.                                            *)
(***************************************************************************)
WorkflowLeaf(w) == Leaf("workflow", {w})

\* Slip: what one workflow showed is recorded for all of them.
Unscoped(m, w) == With(m, Recorded)

\* scopeNewAuthorisationAlternative.
Scoped(m, w) == With(IF w = "" THEN m ELSE And(<<WorkflowLeaf(w), m>>), Recorded)

InWorkflow(leaves, w) ==
  LET all == (IF w = "" THEN <<>> ELSE <<WorkflowLeaf(w)>>) \o leaves
  IN IF Len(all) = 1 THEN all[1] ELSE And(all)

\* An inline script without an id is known by its inserter's host and its
\* opening: the whole text, when that is all there is.
IdentifyScriptBy(r) ==
  IF r.name # FallbackName THEN InWorkflow(<<Leaf("name", {r.name})>>, r.workflow)
  ELSE InWorkflow((IF r.host = "" THEN <<>> ELSE <<Leaf("host", {r.host})>>)
                    \o <<ContentLeaf(Opening[r.content], IF Opening[r.content] = {r.content} THEN "none" ELSE "start")>>,
                  r.workflow)

AuthoriseScriptBy(r) ==
  IF r.hash # "" THEN Leaf("hash", {r.hash}) ELSE Leaf("name", {r.name})

\* newHeaderValueMatcherConfig: a policy is a set, any other value is itself.
ValueLeaf(r) ==
  IF r.policy # NoPolicy THEN CspLeaf(r.policy.directive, r.policy.sources, r.policy.nonces)
  ELSE ContentLeaf({r.content}, "none")

\* A cookie is known by its name, with which its normalised value opens.
IdentifyHeaderBy(r) ==
  InWorkflow(<<Leaf("header-name", {r.name})>>
               \o (IF r.name = "set-cookie" THEN <<ContentLeaf(Opening[r.content], "start")>> ELSE <<>>)
               \o (IF r.host = "" THEN <<>> ELSE <<Leaf("host", {r.host})>>),
             r.workflow)

NewScript(r) == Entry(IdentifyScriptBy(r), AuthoriseScriptBy(r), Pending)
NewHeader(r) == Entry(IdentifyHeaderBy(r), ValueLeaf(r), Pending)

\* isCoveredByExistingEntry.
Covers(e, r) == Identify(e.identify, r) /\ Authorize(e.authorise, r)

Covered(entries, r) == \E k \in 1 .. Len(entries) : Covers(entries[k], r)

(***************************************************************************)
(* Updates of one entry: the results that deny it, one after the other.    *)
(***************************************************************************)
\* A hash entry takes a second hash only as an alternative of its workflow.
ApplyHash(raw, r) ==
  IF raw.form = "single" /\ raw.items[1].kind = "hash"
    THEN IF r.hash \in raw.items[1].accepts THEN raw
         ELSE IF r.workflow = "" THEN [raw EXCEPT !.items[1].accepts = @ \cup {r.hash}]
         ELSE AddAlternative(raw, Scoped(Leaf("hash", {r.hash}), r.workflow))
  ELSE IF \E k \in 1 .. Len(Alternatives(raw)) : Authorize(Alternatives(raw)[k], r) THEN raw
  ELSE AddAlternative(raw, Scoped(Leaf("hash", {r.hash}), r.workflow))

ApplyValue(raw, r) ==
  IF \E k \in 1 .. Len(Alternatives(raw)) : Authorize(Alternatives(raw)[k], r) THEN raw
  ELSE AddAlternative(raw, Scoped(ValueLeaf(r), r.workflow))

ApplyTo(list, raw, r) == IF list = "scripts" THEN ApplyHash(raw, r) ELSE ApplyValue(raw, r)

Takes(list, e) ==
  e.authorise.kind \in (IF list = "scripts" THEN {"hash", "or"} ELSE {"content", "csp-directive", "or"})

Denies(result, k) == result.verdict = "denied" /\ result.entry = k

Revised(list, k, raw, result) == IF Denies(result, k) THEN ApplyTo(list, raw, result.resource) ELSE raw

\* The written form of entry k, after each of the results.
Updating(list, e, k, results) ==
  LET raw[n \in 0 .. Len(results)] == IF n = 0 THEN Written(e) ELSE Revised(list, k, raw[n - 1], results[n])
  IN raw

Updated(list, e, k, results) ==
  IF Takes(list, e) /\ \E n \in 1 .. Len(results) : Denies(results[n], k)
    THEN Load(e, Updating(list, e, k, results)[Len(results)])
  ELSE e

UpdateAll(list, entries, results) == [k \in 1 .. Len(entries) |-> Updated(list, entries[k], k, results)]

(***************************************************************************)
(* Additions.                                                              *)
(***************************************************************************)
AddScript(entries, r) ==
  IF Covered(entries, r) \/ (r.name = FallbackName /\ r.content = "") THEN entries
  ELSE Append(entries, NewScript(r))

\* Slip: without the identity a header value makes an entry of its own.
AddHeaderAlone(entries, r) ==
  IF Covered(entries, r) THEN entries ELSE Append(entries, NewHeader(r))

\* Slip: an alternative awaiting review does not count as there.
AppendUnapproved(e, r) ==
  IF \E k \in 1 .. Len(Alternatives(Written(e))) : Authorize(Alternatives(Written(e))[k], r) THEN e
  ELSE Load(e, AddAlternative(Written(e), With(ValueLeaf(r), Pending)))

ValueShaped(m) == m.kind \in {"content", "csp-directive"}

CanAppend(m) ==
  ValueShaped(m) \/ (m.kind = "or" /\ \A k \in 1 .. Len(m.children) : ValueShaped(m.children[k]))

\* appendPendingHeaderValue: the word on an alternative is left aside.
AppendPending(e, r) ==
  IF \E k \in 1 .. Len(Alternatives(Written(e))) : Authorize(With(Alternatives(Written(e))[k], NoInfo), r) THEN e
  ELSE Load(e, AddAlternative(Written(e), With(ValueLeaf(r), Pending)))

\* The entries of the header that are not approved.
SameIdentity(entries, r) == {k \in 1 .. Len(entries) : ~entries[k].info.authorised /\ Identify(entries[k].identify, r)}

AddToEntry(entries, k, r) ==
  IF CanAppend(entries[k].authorise) THEN [entries EXCEPT ![k] = AppendPending(@, r)] ELSE entries

AddToFirst(entries, same, r) ==
  IF same = {} THEN Append(entries, NewHeader(r))
  ELSE AddToEntry(entries, CHOOSE k \in same : \A j \in same : k <= j, r)

\* The values of a header that is not approved are alternatives of one entry:
\* of two entries with one identity the second would never be reached.
AddHeader(entries, r) ==
  IF Covered(entries, r) THEN entries ELSE AddToFirst(entries, SameIdentity(entries, r), r)

AddTo(list, entries, r) == IF list = "scripts" THEN AddScript(entries, r) ELSE AddHeader(entries, r)

Extended(list, entries, result) == IF result.verdict = "unknown" THEN AddTo(list, entries, result.resource) ELSE entries

\* The entries, after each of the results.
Adding(list, entries, results) ==
  LET after[n \in 0 .. Len(results)] == IF n = 0 THEN entries ELSE Extended(list, after[n - 1], results[n])
  IN after

(***************************************************************************)
(* diff, of the results of every workflow of one inventory, and push.      *)
(***************************************************************************)
DiffOf(list, entries, results) == Adding(list, UpdateAll(list, entries, results), results)[Len(results)]

Diff(inventory, results) ==
  [scripts |-> DiffOf("scripts", inventory.scripts, results.scripts),
   headers |-> DiffOf("headers", inventory.headers, results.headers)]

(***************************************************************************)
(* buildInventoryCommitMessage: what there is to commit.  Without any the  *)
(* push is left out.                                                       *)
(***************************************************************************)
Total(counts) ==
  LET upTo[n \in 0 .. Len(counts)] == IF n = 0 THEN 0 ELSE upTo[n - 1] + counts[n]
  IN upTo[Len(counts)]

CountHashesBy(m, Child(_)) ==
  CASE Composite(m) -> Total(Each(m.children, Child))
    [] m.kind = "hash" -> Cardinality(m.accepts)
    [] OTHER -> 0

CountHashesLeaf(m)   == IF m.kind = "hash" THEN Cardinality(m.accepts) ELSE 0
CountHashesFlat(m)   == CountHashesBy(m, CountHashesLeaf)
CountHashesNested(m) == CountHashesBy(m, CountHashesFlat)
CountHashes(m)       == CountHashesBy(m, CountHashesNested)

CountAlternativesBy(m, Child(_)) == IF m.kind = "or" THEN Total(Each(m.children, Child)) ELSE 1

CountAlternativesFlat(m)   == CountAlternativesBy(m, LAMBDA leaf : 1)
CountAlternativesNested(m) == CountAlternativesBy(m, CountAlternativesFlat)
CountAlternatives(m)       == CountAlternativesBy(m, CountAlternativesNested)

MatcherOf(raw) == IF raw.form = "array" THEN Or(raw.items) ELSE raw.items[1]

AsMatcher(e) == MatcherOf(Written(e))

\* Slip: only what the counters count is a change.
CountersSee(old, new) ==
  \/ Len(new.scripts) > Len(old.scripts) \/ Len(new.headers) > Len(old.headers)
  \/ \E k \in 1 .. Len(old.scripts) : CountHashes(AsMatcher(new.scripts[k])) > CountHashes(AsMatcher(old.scripts[k]))

HasChanges(old, new) ==
  \/ Len(new.scripts) > Len(old.scripts) \/ Len(new.headers) > Len(old.headers)
  \/ \E k \in 1 .. Len(old.scripts) :
       \/ CountHashes(AsMatcher(new.scripts[k])) > CountHashes(AsMatcher(old.scripts[k]))
       \/ Written(new.scripts[k]) # Written(old.scripts[k])
  \/ \E k \in 1 .. Len(old.headers) :
       \/ CountAlternatives(AsMatcher(new.headers[k])) > CountAlternatives(AsMatcher(old.headers[k]))
       \/ Written(new.headers[k]) # Written(old.headers[k])

=============================================================================
