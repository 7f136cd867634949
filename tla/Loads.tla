------------------------------- MODULE Loads -------------------------------
(***************************************************************************)
(* Trust that scripts inherit from what loaded them: the initiator chains  *)
(* of a synthetic run (src/services/initiator-chain.ts) and the second     *)
(* pass of the script comparison (src/services/comparison/script.ts).      *)
(*                                                                         *)
(* A run observes scripts, each with the evidence of its first hop, and    *)
(* the insertions a shim in the page records.  Everything else follows     *)
(* from these, once the run is over.                                       *)
(***************************************************************************)
EXTENDS Comparison, SequencesExt

CONSTANTS
  Observations,  \* what a run may observe
  Insertions,    \* what the shim may record: [src, kind, url, token, document]
  Documents,     \* the URLs of documents the run loads
  Host,          \* URL -> host; an inline identity has none
  Inventory,     \* the entries scripts are judged by
  MaxDepth,      \* INITIATOR_CHAIN_MAX_DEPTH
  MaxPaths,      \* INITIATOR_CHAIN_MAX_PATHS
  MaxSeen, MaxInserted  \* bounds on what one run observes

(***************************************************************************)
(* An observation: an external script by its URL, an inline one by its     *)
(* identity and the token of its element.  evidence says who inserted it,  *)
(* as type, URL and token; guess is the initiator where there is nothing   *)
(* better.                                                                 *)
(***************************************************************************)
Evidence(type, url, token) == [type |-> type, url |-> url, token |-> token]
NoEvidence == Evidence("none", "", "")

External(url, hash, evidence) ==
  [type |-> "external", url |-> url, token |-> "", hash |-> hash, evidence |-> evidence, guess |-> "", document |-> "d"]
Inline(url, token, hash, evidence) ==
  [type |-> "inline", url |-> url, token |-> token, hash |-> hash, evidence |-> evidence, guess |-> "", document |-> "d"]

ASSUME LoadsAssumption == MaxDepth \in Nat \ {0} /\ MaxPaths \in Nat \ {0} /\ MaxSeen \in Nat /\ MaxInserted \in Nat

VARIABLES
  seen,  \* the observations of the run, in order
  log    \* the insertions the shim recorded

loadsVars == <<seen, log>>

LoadsInit == seen = <<>> /\ log = {}

Observe ==
  /\ Len(seen) < MaxSeen
  /\ \E o \in Observations : seen' = Append(seen, o)
  /\ UNCHANGED log

Insert ==
  /\ Cardinality(log) < MaxInserted
  /\ \E i \in Insertions \ log : log' = log \cup {i}
  /\ UNCHANGED seen

LoadsNext == Observe \/ Insert

LoadsSpec == LoadsInit /\ [][LoadsNext]_loadsVars

(***************************************************************************)
(* First hops.                                                             *)
(***************************************************************************)
Hop(kind, url) == [kind |-> kind, url |-> url, host |-> IF url \in DOMAIN Host THEN Host[url] ELSE ""]
NoHop == Hop("none", "")

IsObserved(run, url) == \E k \in 1 .. Len(run) : run[k].type = "external" /\ run[k].url = url

Classify(run, url) ==
  Hop(CASE url = "" -> "unknown"
        [] url # "" /\ IsObserved(run, url) -> "script"
        [] url # "" /\ ~IsObserved(run, url) /\ url \in Documents -> "document"
        [] OTHER -> "unknown", url)

\* An inserter that was never read is named and cannot be judged.
InlineHop(run, token) ==
  LET read == {k \in 1 .. Len(run) : run[k].type = "inline" /\ run[k].token = token}
  IN IF token = "" \/ read = {} THEN Hop("unknown", "not read")
     ELSE Hop("script", run[CHOOSE k \in read : TRUE].url)

\* What the shim says of who inserted src: only what all its records agree on.
InsertionFor(src, document) ==
  LET records == {i \in log : i.src = src /\ (document = "" \/ i.document \in {"", document})}
      said == {<<i.kind, i.token, i.url>> : i \in records}
  IN IF Cardinality(said) = 1 THEN {CHOOSE i \in records : TRUE} ELSE {}

\* A script URL on top of the stack is never overridden by the shim's record;
\* an anonymous frame and a document's are.
StackHop(run, o) ==
  LET top == o.evidence.url
      record == InsertionFor(o.url, o.document)
  IN IF top # "" /\ (IsObserved(run, top) \/ top \notin Documents) THEN Classify(run, top)
     ELSE IF \E i \in record : i.kind = "inline" THEN InlineHop(run, (CHOOSE i \in record : TRUE).token)
     ELSE IF \E i \in record : i.kind = "script" /\ i.url # "" THEN Classify(run, (CHOOSE i \in record : TRUE).url)
     ELSE IF top # "" THEN Hop("document", top)
     ELSE Hop("unknown", o.guess)

\* Slip: where nothing names the inserter, the shim is asked.
AsksTheShim(run, o) ==
  CASE o.evidence.type \in {"none", "stack"} -> StackHop(run, o)
    [] o.evidence.type = "parser" -> Hop("document", o.evidence.url)
    [] o.evidence.type = "other" -> IF o.evidence.url = "" THEN NoHop ELSE Hop("unknown", o.evidence.url)

NetworkHop(run, o) ==
  CASE o.evidence.type = "none" -> IF o.guess = "" THEN NoHop ELSE Classify(run, o.guess)
    [] o.evidence.type = "parser" -> Hop("document", o.evidence.url)
    [] o.evidence.type = "other" -> IF o.evidence.url = "" THEN NoHop ELSE Hop("unknown", o.evidence.url)
    [] o.evidence.type = "stack" -> StackHop(run, o)

FirstHop(run, o) ==
  IF o.type = "external" THEN NetworkHop(run, o)
  ELSE CASE o.evidence.type = "inline" -> InlineHop(run, o.evidence.token)
         [] o.evidence.type = "script" -> Classify(run, o.evidence.url)
         [] o.evidence.type = "parser" -> IF o.evidence.url = "" THEN NoHop ELSE Hop("document", o.evidence.url)
         [] o.evidence.type = "none" -> IF o.guess = "" THEN NoHop ELSE Hop("unknown", o.guess)

(***************************************************************************)
(* The walk: outward from the first hop, over every inserter of a URL.     *)
(***************************************************************************)
\* The first hops of the observations an URL stands for.
HopsAt(run, url) == FlattenSeq([k \in 1 .. Len(run) |-> IF run[k].url = url THEN <<FirstHop(run, run[k])>> ELSE <<>>])

\* Each once, where it is first.
Once(hops) ==
  FlattenSeq([k \in 1 .. Len(hops) |->
                IF hops[k] = NoHop \/ \E j \in 1 .. k - 1 : hops[j] = hops[k] THEN <<>> ELSE <<hops[k]>>])

ParentsOf(run, hop) == Once(HopsAt(run, hop.url))

\* A call of extend: the path, and the scripts on it.  One that would come to a
\* script again ends where it is.
Call(path, visited) == [path |-> path, visited |-> visited, ends |-> FALSE]

Visiting(visited, hop) == IF hop.kind = "script" THEN visited \cup {hop.url} ELSE visited

CallFor(call, parent) ==
  IF parent.kind = "script" /\ parent.url \in call.visited THEN [call EXCEPT !.ends = TRUE]
  ELSE Call(Append(call.path, parent), Visiting(call.visited, parent))

\* The first call returns; with a path kept, with calls made before it does.
Return(walk) == [walk EXCEPT !.calls = Tail(@)]

Keep(walk, path) == [Return(walk) EXCEPT !.paths = Append(@, path)]

CallAll(walk, call, parents) ==
  [walk EXCEPT !.calls = [k \in 1 .. Len(parents) |-> CallFor(call, parents[k])] \o Tail(@)]

ExtendBy(walk, call, last, parents) ==
  IF call.ends THEN Keep(walk, call.path)
  ELSE IF Len(walk.paths) >= MaxPaths THEN Return(walk)
  ELSE IF last.kind # "script" \/ Len(call.path) >= MaxDepth THEN Keep(walk, call.path)
  ELSE IF parents = <<>> THEN Keep(walk, Append(call.path, Hop("unknown", "")))
  ELSE CallAll(walk, call, parents)

LastHop(call) == call.path[Len(call.path)]

\* The recursion of extend, by the calls that are still to be made: the first
\* of these.
Extend(run, walk) ==
  IF walk.calls = <<>> THEN walk
  ELSE ExtendBy(walk, Head(walk.calls), LastHop(Head(walk.calls)), ParentsOf(run, LastHop(Head(walk.calls))))

\* Less than MaxDepth calls lead to a path kept, each making at most one call per
\* observation, and what makes calls leads to a path kept.
WalkSteps(run) == 1 + Len(run) * MaxPaths * MaxDepth

Walks(run, start) ==
  LET walk[n \in 0 .. WalkSteps(run)] == IF n = 0 THEN start ELSE Extend(run, walk[n - 1])
  IN walk

StartOf(o, first) == [paths |-> <<>>, calls |-> <<Call(<<first>>, Visiting({o.url}, first))>>]

WalkFrom(run, o, first) ==
  IF first = NoHop \/ (first.kind = "script" /\ first.url = o.url) THEN <<>>
  ELSE Walks(run, StartOf(o, first))[WalkSteps(run)].paths

Paths(run, o) == WalkFrom(run, o, FirstHop(run, o))

(***************************************************************************)
(* The first pass.                                                         *)
(***************************************************************************)
\* The initiator of an inline script stands in for an address of its own.
Resource(run, o) ==
  LET initiator == IF o.evidence.type = "none" THEN o.guess ELSE o.evidence.url
      url == IF o.type = "external" THEN o.url ELSE initiator
  IN [Unevidenced EXCEPT !.name = o.url, !.content = o.hash, !.hash = o.hash, !.url = url,
                         !.host = Hop("", url).host, !.initiator = Hop("", initiator).host, !.paths = Paths(run, o)]

OfType(run, type) == FlattenSeq([k \in 1 .. Len(run) |-> IF run[k].type = type THEN <<run[k]>> ELSE <<>>])

JudgeAll(run, observations) ==
  [k \in 1 .. Len(observations) |->
     [observation |-> observations[k], result |-> CompareScript(Inventory, Resource(run, observations[k]))]]

\* External scripts come first.
Judge(run) == JudgeAll(run, OfType(run, "external")) \o JudgeAll(run, OfType(run, "inline"))

(***************************************************************************)
(* The second pass: inheritAuthorisation.                                  *)
(***************************************************************************)
OwnEvidence(o, r) ==
  [r EXCEPT !.initiator = "", !.paths = <<>>, !.url = IF o.type = "inline" THEN "" ELSE @,
            !.host = IF o.type = "inline" THEN "" ELSE @]

\* Slip: a copy that is authorised speaks for all of them.
AnyCopyOf(judged, hop) ==
  LET copies == {k \in 1 .. Len(judged) : judged[k].observation.url = hop.url /\ judged[k].result.verdict = "authorised"}
  IN IF copies = {} THEN {} ELSE {CHOOSE k \in copies : \A j \in copies : k <= j}

\* The positions of the observations a hop stands for.
ObservationsOf(judged, hop) == {k \in 1 .. Len(judged) : judged[k].observation.url = hop.url}

Authorised(j) == j.result.verdict = "authorised"

GrantOf(j) == Inventory[j.result.entry].loads

GrantAt(judged, copies, depth, loaded) ==
  /\ copies # {}
  /\ \A c \in copies :
       /\ judged[c].observation.type = "external"
       /\ Authorised(judged[c]) /\ Inventory[judged[c].result.entry].info.authorised
       /\ depth <= GrantOf(judged[c]).maxDepth
       /\ Identify(GrantOf(judged[c]).guard, OwnEvidence(loaded.observation, loaded.result.resource))

\* Only an external script that is unknown inherits, and only when no entry,
\* pending and declined ones included, is about it.
MayInherit(j) ==
  /\ j.result.verdict = "unknown" /\ j.observation.type = "external"
  /\ \A k \in 1 .. Len(Inventory) : ~Identify(Inventory[k].identify, j.result.resource)

\* A call of inheritFor: for a script, at a hop of one of its paths.
InheritFor(k) == [script |-> k, path |-> 1, hop |-> 1]

NextPath(call) == [script |-> call.script, path |-> call.path + 1, hop |-> 1]

NextHop(call) == [call EXCEPT !.hop = @ + 1]

\* What is decided so far, by position: "open", "deciding", "inherits", "none".
Decide(search, k, verdict) == [search EXCEPT !.memo[k] = verdict]

Continue(search, call) == [search EXCEPT !.calls = <<call>> \o Tail(@)]

Push(search, call) == [search EXCEPT !.calls = <<call>> \o @]

\* What is being decided further down the stack cannot vouch for itself.
AskFor(judged, search, call, copy) ==
  IF search.memo[copy] = "open" /\ MayInherit(judged[copy]) THEN Push(search, InheritFor(copy))
  ELSE Continue(search, NextPath(call))

Doubtful(judged, search, copies) == {c \in copies : ~Authorised(judged[c]) /\ search.memo[c] # "inherits"}

\* The copies that are not vouched for are asked for, the first first.
Judging(judged, search, call, copies, doubtful) ==
  IF GrantAt(judged, copies, call.hop, judged[call.script]) THEN Decide(search, call.script, "inherits")
  ELSE IF copies = {} THEN Continue(search, NextPath(call))
  ELSE IF doubtful = {} THEN Continue(search, NextHop(call))
  ELSE AskFor(judged, search, call, CHOOSE c \in doubtful : \A d \in doubtful : c <= d)

AtHop(judged, search, call, path) ==
  IF call.hop > Len(path) \/ path[call.hop].kind # "script" THEN Continue(search, NextPath(call))
  ELSE Judging(judged, search, call, ObservationsOf(judged, path[call.hop]),
               Doubtful(judged, search, ObservationsOf(judged, path[call.hop])))

PathsOf(j) == j.result.resource.paths

Inherit(judged, search, call) ==
  IF search.memo[call.script] \in {"inherits", "none"} \/ ~MayInherit(judged[call.script]) THEN [search EXCEPT !.calls = Tail(@)]
  ELSE IF search.memo[call.script] = "open" THEN Decide(search, call.script, "deciding")
  ELSE IF call.path > Len(PathsOf(judged[call.script])) THEN Decide(search, call.script, "none")
  ELSE AtHop(judged, search, call, PathsOf(judged[call.script])[call.path])

\* The recursion of inheritFor, by the calls that have not returned.
Search(judged, search) == IF search.calls = <<>> THEN search ELSE Inherit(judged, search, Head(search.calls))

\* A script is called for itself and by one that asks for it, each call returns,
\* its deciding begins and ends, and each hop and each path is left once.
SearchSteps(judged, paths) == 5 * Len(judged) + Len(paths) + Len(FlattenSeq(paths))

AllPaths(judged) == FlattenSeq([k \in 1 .. Len(judged) |-> PathsOf(judged[k])])

Searches(judged, steps) ==
  LET search[n \in 0 .. steps] ==
        IF n = 0 THEN [memo |-> [k \in 1 .. Len(judged) |-> "open"], calls |-> [k \in 1 .. Len(judged) |-> InheritFor(k)]]
        ELSE Search(judged, search[n - 1])
  IN search[steps]

\* The positions that inherit, one script after the other.
InheritsIn(judged, search) == {k \in 1 .. Len(judged) : search.memo[k] = "inherits"}

InheritAuthorisation(judged) ==
  InheritsIn(judged, Searches(judged, SearchSteps(judged, AllPaths(judged))))

Inheriting(run) == InheritAuthorisation(Judge(run))

(***************************************************************************)
(* Properties.                                                             *)
(***************************************************************************)
\* What may inherit by the rules alone, said of first hops and without walks,
\* orders or memory.
Inserters(run, url) ==
  {FirstHop(run, run[k]).url : k \in {j \in 1 .. Len(run) : run[j].url = url /\ FirstHop(run, run[j]).kind = "script"}}

Copies(judged, url) == {k \in 1 .. Len(judged) : judged[k].observation.url = url}

LoadedBy(hop, url) == hop.kind = "script" /\ hop.url = url

\* n scripts, each loaded by the next, the first of which loaded k.
Routes(run, judged, k, n) ==
  {urls \in [1 .. n -> {judged[j].observation.url : j \in 1 .. Len(judged)}] :
     /\ LoadedBy(FirstHop(run, judged[k].observation), urls[1])
     /\ \A i \in 1 .. n - 1 : urls[i + 1] \in Inserters(run, urls[i])}

Granted(run, judged, k, n) == {urls \in Routes(run, judged, k, n) : GrantAt(judged, Copies(judged, urls[n]), n, judged[k])}

\* What has a route to what grants it, and those on the way that do not.
Grounds(run, judged) ==
  UNION {{[script |-> k, through |-> {urls[i] : i \in 1 .. n - 1}] : urls \in Granted(run, judged, k, n)} :
           k \in {j \in 1 .. Len(judged) : MayInherit(judged[j])}, n \in 1 .. MaxDepth}

Trusted(judged, trusted, url) == \A c \in Copies(judged, url) : Authorised(judged[c]) \/ c \in trusted

\* It takes in whatever has a route over what it trusts.
Closed(judged, grounds, trusted) ==
  \A ground \in grounds : (\A url \in ground.through : Trusted(judged, trusted, url)) => ground.script \in trusted

\* What is in all such: from what is granted, outward in, as far as it goes.
GroundedIn(judged, grounds) ==
  {k \in 1 .. Len(judged) : \A trusted \in SUBSET (1 .. Len(judged)) : Closed(judged, grounds, trusted) => k \in trusted}

GroundedOf(run, judged) == GroundedIn(judged, Grounds(run, judged))

Grounded(run) == GroundedOf(run, Judge(run))

\* No script vouches for itself, however the evidence loops: what inherits has
\* a route of trusted scripts to a script that grants it.
InheritanceIsGrounded == \A k \in Inheriting(seen) : k \in Grounded(seen)

\* Whether a script is among those that loaded it, directly or through others.
Loops(run) ==
  LET Above(url) ==
        LET Up[n \in 1 .. Len(run)] ==
              IF n = 1 THEN Inserters(run, url) ELSE Up[n - 1] \cup UNION {Inserters(run, u) : u \in Up[n - 1]}
        IN Up[Len(run)]
  IN \E k \in 1 .. Len(run) : run[k].url \in Above(run[k].url)

\* No walk was cut short by the cap on paths.
Uncut(run) == \A k \in 1 .. Len(run) : Len(Paths(run, run[k])) < MaxPaths

\* "Each chosen so that a gap in the evidence can only remove trust": where no
\* script is among those that loaded it and no walk is cut short, none inherits
\* without the evidence of one observation that did not inherit with it.
GapsOnlyRemoveTrust ==
  ~Loops(seen) /\ Uncut(seen) =>
    \A k \in 1 .. Len(seen) :
      \A i \in Inheriting([seen EXCEPT ![k].evidence = NoEvidence]) : i \in Inheriting(seen)

=============================================================================
