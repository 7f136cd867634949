------------------------------ MODULE AgentProofs ------------------------------
(***************************************************************************)
(* Theorems about the browser agent, for any tabs, scripts, violations and *)
(* inline elements, and any limits of its queues, beacons and stores.      *)
(***************************************************************************)
EXTENDS Agent, DataLemmas

(***************************************************************************)
(* What a step is, one name for each action.                               *)
(***************************************************************************)
Captures(d) ==
  \E gate, obs : Capture(d, gate, obs) /\
    \/ \E u \in Urls, h \in AllHosts : obs = External(u, h) /\ gate \in {urlKey(u), urlWithInitiatorKey(u, h)}
    \/ \E v \in Violations : obs = Csp(v) /\ gate = cspKey(v)

FlushEnds(d, accepted) ==
  open[d] /\ accepted \in 0..Beacons(d) /\ (Hide(d, Converted(d), accepted) \/ Leave(d, Converted(d), accepted))

LEMMA StepCases ==
  ASSUME [Next]_vars
  PROVE  \/ \E d \in Tabs :
              \/ Load(d) \/ Discard(d) \/ NewSession(d) \/ Captures(d)
              \/ \E e \in Elements, h \in Hosts \cup {DocHost} : CaptureInline(d, e, h)
              \/ IdleTick(d) \/ PersistSeen(d)
              \/ \E r \in 1..Cardinality(Elements), ok \in BOOLEAN : Digest(d, r, ok)
              \/ \E accepted : FlushEnds(d, accepted)
         \/ \E t \in 0..MaxClock : SetClock(t)
         \/ UNCHANGED vars
<1>1. ASSUME NEW d \in Tabs, Observe(d)
      PROVE  Captures(d) \/ \E e \in Elements, h \in Hosts \cup {DocHost} : CaptureInline(d, e, h)
  BY <1>1 DEF Observe, CaptureFromInsertion, CaptureFromSafetyNet, CaptureViolation, Captures, AllHosts
<1>2. ASSUME NEW d \in Tabs, open[d] /\ Flush(d) PROVE \E accepted : FlushEnds(d, accepted)
  BY <1>2 DEF Flush, FlushEnds
<1> QED
  BY <1>1, <1>2 DEF Next, DigestOne

(***************************************************************************)
(* Type correctness.                                                       *)
(***************************************************************************)
\* The parts of the invariant that say where values live.
Places ==
  /\ clock \in 0..MaxClock
  /\ open \in [Tabs -> BOOLEAN] /\ persistDue \in [Tabs -> BOOLEAN] /\ sentStore \in [Tabs -> BOOLEAN]
  /\ seen \in [Tabs -> Seq(Keys)] /\ seenStore \in [Tabs -> Seq(Keys)] /\ inherited \in [Tabs -> Seq(Keys)]
  /\ queue \in [Tabs -> Seq(Observations)] /\ pending \in [Tabs -> Seq(Observations)]
  /\ shipped \in [Tabs -> Seq(Observations)]
  /\ inlineQueue \in [Tabs -> Seq(InlineCaptures)] /\ rounds \in [Tabs -> Seq(Seq(InlineCaptures))]
  /\ elements \in [Tabs -> SUBSET InlineCaptures] /\ memo \in [Tabs -> SUBSET (AllHosts \X Sources)]
  /\ device \in [Tabs -> [Keys -> Nat \cup {Unstamped}]] /\ disk \in [Keys -> Nat \cup {Unstamped}]
  /\ beats \in [Tabs -> Nat] /\ reports \subseteq Keys \X Nat

\* Session sets hold a key once, memories fit their caps, no round is empty.
Caps ==
  \A d \in Tabs :
    /\ IsInjective(seen[d]) /\ IsInjective(seenStore[d]) /\ Len(seenStore[d]) <= SeenCap
    /\ \A r \in DOMAIN rounds[d] : rounds[d][r] # <<>>
    /\ IsFiniteSet(memo[d]) /\ Cardinality(memo[d]) <= MemoCap

LEMMA KeyTypes ==
  /\ \A u \in Urls, h \in AllHosts : External(u, h) \in Observations /\ urlKey(u) \in Keys /\ urlWithInitiatorKey(u, h) \in Keys
  /\ \A v \in Violations : Csp(v) \in Observations /\ cspKey(v) \in Keys
  /\ \A c \in InlineCaptures, hashed \in BOOLEAN :
       /\ InlineObservation(c, hashed) \in Observations
       /\ InlineObservation(c, hashed).stamps \subseteq {InlineObservation(c, hashed).id}
       /\ <<c[2], sourceOf[c[1]]>> \in AllHosts \X Sources
<1>1. ASSUME NEW u \in Urls, NEW h \in AllHosts
      PROVE  External(u, h) \in Observations /\ urlKey(u) \in Keys /\ urlWithInitiatorKey(u, h) \in Keys
  <2>1. urlKey(u) \in Keys /\ urlWithInitiatorKey(u, h) \in Keys
    BY DEF Keys, ExternalKeys
  <2> QED
    BY <2>1 DEF External, Observation, Observations
<1>2. ASSUME NEW v \in Violations PROVE Csp(v) \in Observations /\ cspKey(v) \in Keys
  <2>1. cspKey(v) \in Keys
    BY DEF Keys, CspKeys
  <2> QED
    BY <2>1 DEF Csp, Observation, Observations
<1>3. ASSUME NEW c \in InlineCaptures, NEW hashed \in BOOLEAN
      PROVE  /\ InlineObservation(c, hashed) \in Observations
             /\ InlineObservation(c, hashed).stamps \subseteq {InlineObservation(c, hashed).id}
             /\ <<c[2], sourceOf[c[1]]>> \in AllHosts \X Sources
  <2>1. c[2] \in AllHosts /\ sourceOf[c[1]] \in Sources
    BY DEF InlineCaptures, AllHosts, Sources
  <2>2. inlineHashKey(c[2], sourceOf[c[1]]) \in Keys /\ inlineWireKey(c[2], sourceOf[c[1]]) \in Keys
    BY <2>1 DEF Keys, HashKeys, WireKeys
  <2> QED
    BY <2>1, <2>2 DEF InlineObservation, Hashed, Unhashed, Observation, Observations
<1> QED
  BY <1>1, <1>2, <1>3

(***************************************************************************)
(* The operators on session sets, rounds, beacons and stamps.              *)
(***************************************************************************)
LEMMA MarkedAdds ==
  ASSUME NEW set \in Seq(Keys), NEW ks \in SUBSET Keys, IsFiniteSet(ks)
  PROVE  /\ Marked(set, ks) \in Seq(Keys) /\ ToSet(Marked(set, ks)) = ToSet(set) \cup ks
         /\ Len(set) <= Len(Marked(set, ks))
         /\ IsInjective(set) => IsInjective(Marked(set, ks))
<1> DEFINE new == SetToSeq(ks \ ToSet(set))
<1>1. IsFiniteSet(ks \ ToSet(set))
  BY FS_Subset
<1>2. new \in Seq(ks \ ToSet(set)) /\ ToSet(new) = ks \ ToSet(set) /\ IsInjective(new)
  BY <1>1, ElementsOfSetToSeq
<1>3. new \in Seq(Keys)
  BY <1>2
<1> HIDE DEF new
<1>4. set \o new \in Seq(Keys) /\ ToSet(set \o new) = ToSet(set) \cup ToSet(new) /\ Len(set) <= Len(set \o new)
  BY <1>3, ElementsOfConcat
<1>5. IsInjective(set) => IsInjective(set \o new)
  BY <1>2, <1>3, InjectiveConcat
<1> QED
  BY <1>2, <1>4, <1>5 DEF Marked, new

LEMMA PersistedIsPrefix ==
  ASSUME NEW set \in Seq(Keys)
  PROVE  /\ Persisted(set) \in Seq(Keys)
         /\ Len(Persisted(set)) <= SeenCap /\ Len(Persisted(set)) <= Len(set)
         /\ Len(Persisted(set)) < SeenCap => Persisted(set) = set
         /\ IsInjective(set) => IsInjective(Persisted(set))
<1> DEFINE n == IF Len(set) <= SeenCap THEN Len(set) ELSE SeenCap
<1>1. Len(set) \in Nat /\ SeenCap \in Nat /\ n \in 0 .. Len(set)
  BY AgentAssumption
<1>2. \A i \in 1 .. n : set[i] \in Keys
  BY <1>1
<1>3. /\ Persisted(set) \in Seq(Keys) /\ Len(Persisted(set)) = n
      /\ \A i \in 1 .. n : Persisted(set)[i] = set[i]
  <2>1. SubSeq(set, 1, n) \in Seq(Keys)
    BY <1>1, <1>2, SubSeqProperties
  <2>2. Len(SubSeq(set, 1, n)) = n /\ \A i \in 1 .. n : SubSeq(set, 1, n)[i] = set[i]
    BY <1>1
  <2> QED
    BY <2>1, <2>2 DEF Persisted
<1>4. n < SeenCap => Persisted(set) = set
  BY <1>1, SubSeqFull DEF Persisted
<1>5. DOMAIN Persisted(set) = 1 .. n
  BY <1>3
<1>6. IsInjective(set) => IsInjective(Persisted(set))
  BY <1>1, <1>3, <1>5 DEF IsInjective
<1> QED
  BY <1>1, <1>3, <1>4, <1>6

\* Once its digest is there a capture leaves its round, and no other does.
LEMMA AfterHeadDrops ==
  ASSUME NEW S, NEW rs \in Seq(Seq(S)), \A i \in DOMAIN rs : rs[i] # <<>>, NEW r \in DOMAIN rs
  PROVE  /\ AfterHead(rs, r) \in Seq(Seq(S))
         /\ \A i \in DOMAIN AfterHead(rs, r) : AfterHead(rs, r)[i] # <<>>
         /\ Head(rs[r]) \in S
         /\ \A i \in DOMAIN rs : \A c \in ToSet(rs[i]) :
              c = Head(rs[r]) \/ \E j \in DOMAIN AfterHead(rs, r) : c \in ToSet(AfterHead(rs, r)[j])
<1> DEFINE Q == Seq(S)
<1>1. rs \in Seq(Q) /\ rs[r] \in Seq(S) /\ rs[r] # <<>>
  OBVIOUS
<1>2. /\ Head(rs[r]) \in S /\ Tail(rs[r]) \in Seq(S) /\ Len(Tail(rs[r])) = Len(rs[r]) - 1
      /\ ToSet(rs[r]) = {Head(rs[r])} \cup ToSet(Tail(rs[r]))
  BY <1>1, ElementsOfTail
<1>3. /\ Tail(rs[r]) \in Q /\ Len(rs[r]) \in Nat
      /\ Len(rs[r]) = 1 <=> Tail(rs[r]) = <<>>
  <2>1. Len(rs[r]) \in Nat /\ (Len(Tail(rs[r])) = 0 <=> Tail(rs[r]) = <<>>)
    BY <1>1, <1>2, EmptyAndLength
  <2> QED
    BY <1>2, <2>1
<1> HIDE DEF Q
<1>4. CASE Len(rs[r]) = 1
  <2>1. AfterHead(rs, r) = RemoveAt(rs, r)
    BY <1>4 DEF AfterHead
  <2>2. /\ RemoveAt(rs, r) \in Seq(Q)
        /\ ToSet(RemoveAt(rs, r)) \subseteq ToSet(rs)
        /\ \A i \in DOMAIN rs : i # r => rs[i] \in ToSet(RemoveAt(rs, r))
    BY <1>1, ElementsOfRemoveAt
  <2>3. \A i \in DOMAIN RemoveAt(rs, r) : RemoveAt(rs, r)[i] # <<>>
    BY <2>2 DEF ToSet
  <2>4. ToSet(rs[r]) = {Head(rs[r])}
    BY <1>2, <1>3, <1>4, ElementsOf
  <2>5. ASSUME NEW i \in DOMAIN rs, NEW c \in ToSet(rs[i])
        PROVE  c = Head(rs[r]) \/ \E j \in DOMAIN RemoveAt(rs, r) : c \in ToSet(RemoveAt(rs, r)[j])
    <3>1. CASE i = r
      BY <2>4, <3>1
    <3>2. CASE i # r
      <4>1. PICK j \in DOMAIN RemoveAt(rs, r) : RemoveAt(rs, r)[j] = rs[i]
        BY <2>2, <3>2 DEF ToSet
      <4> QED
        BY <4>1
    <3> QED
      BY <3>1, <3>2
  <2> QED
    BY <1>2, <2>1, <2>2, <2>3, <2>5 DEF Q
<1>5. CASE Len(rs[r]) # 1
  <2> DEFINE rest == [rs EXCEPT ![r] = Tail(@)]
  <2>1. AfterHead(rs, r) = rest
    BY <1>5 DEF AfterHead
  <2>2. /\ rest \in Seq(Q) /\ DOMAIN rest = DOMAIN rs /\ rest[r] = Tail(rs[r])
        /\ \A i \in DOMAIN rs : i # r => rest[i] = rs[i]
    BY <1>1, <1>3
  <2> HIDE DEF rest
  <2>3. \A i \in DOMAIN rest : rest[i] # <<>>
    BY <1>3, <1>5, <2>2
  <2>4. ASSUME NEW i \in DOMAIN rs, NEW c \in ToSet(rs[i])
        PROVE  c = Head(rs[r]) \/ \E j \in DOMAIN rest : c \in ToSet(rest[j])
    BY <1>2, <2>2
  <2> QED
    BY <1>2, <2>1, <2>2, <2>3, <2>4 DEF Q
<1> QED
  BY <1>4, <1>5

\* What the transports take and what stays pending make up what was to go out.
LEMMA TakenAndKept ==
  ASSUME NEW out \in Seq(Observations), NEW accepted \in Nat
  PROVE  /\ Taken(out, accepted) \in Seq(Observations) /\ Kept(out, accepted) \in Seq(Observations)
         /\ Taken(out, accepted) \o Kept(out, accepted) = out
<1>1. BeaconCap \in Nat /\ Len(out) \in Nat
  BY AgentAssumption
<1>2. accepted * BeaconCap \in Nat
  BY <1>1
<1> DEFINE k == accepted * BeaconCap
<1>3. k \in Nat
  BY <1>2
<1> HIDE DEF k
<1>4. CASE k <= Len(out)
  <2>1. k \in 0 .. Len(out)
    BY <1>1, <1>3, <1>4
  <2>2. Taken(out, accepted) = SubSeq(out, 1, k) /\ Kept(out, accepted) = SubSeq(out, k + 1, Len(out))
    BY <1>4 DEF Taken, Kept, k
  <2> QED
    BY <2>1, <2>2, CutInTwo
<1>5. CASE ~(k <= Len(out))
  <2>1. Taken(out, accepted) = SubSeq(out, 1, Len(out)) /\ Kept(out, accepted) = SubSeq(out, k + 1, Len(out))
    BY <1>5 DEF Taken, Kept, k
  <2>2. SubSeq(out, 1, Len(out)) = out
    BY SubSeqFull
  <2>3. SubSeq(out, k + 1, Len(out)) = <<>>
    BY <1>1, <1>3, <1>5, SubSeqEmpty
  <2> QED
    BY <2>1, <2>2, <2>3, EmptyAndLength
<1> QED
  BY <1>4, <1>5

LEMMA StampTypes ==
  ASSUME Places, NEW d \in Tabs, NEW ks
  PROVE  Restamped(d, ks) \in [Keys -> Nat \cup {Unstamped}] /\ LoadedDevice \in [Keys -> Nat \cup {Unstamped}]
         /\ NoStamps \in [Keys -> Nat \cup {Unstamped}]
<1>1. device[d] \in [Keys -> Nat \cup {Unstamped}] /\ disk \in [Keys -> Nat \cup {Unstamped}] /\ clock \in Nat
  BY AgentAssumption DEF Places
<1> QED
  BY <1>1 DEF Restamped, Newer, LoadedDevice, NoStamps

(***************************************************************************)
(* markInlineEmitted, for one capture and for all those of a flush.        *)
(***************************************************************************)
Emissions == [seen : Seq(Keys), out : Seq(Observations)]

Emitted(e, d, set, out, obs) ==
  /\ e \in Emissions
  /\ obs.id \in ToSet(set) => e.seen = set /\ e.out = out
  /\ obs.id \notin ToSet(set) => e.seen = Append(set, obs.id) /\ (DeviceHasSeen(d, obs.id) \/ e.out = Append(out, obs))
  /\ e.out = out \/ e.out = Append(out, obs)
  /\ ToSet(e.seen) = ToSet(set) \cup {obs.id}
  /\ Len(e.seen) >= Len(set)
  /\ IsInjective(set) => IsInjective(e.seen)
  /\ ToSet(out) \subseteq ToSet(e.out) /\ ToSet(e.out) \subseteq ToSet(out) \cup {obs}

LEMMA EmitOne ==
  ASSUME NEW d, NEW set \in Seq(Keys), NEW out \in Seq(Observations), NEW obs \in Observations
  PROVE  Emitted(Emit(d, set, out, obs), d, set, out, obs)
<1> USE DEF Emitted
<1>1. obs.id \in Keys
  BY DEF Observations
<1>2. Contains(set, obs.id) <=> obs.id \in ToSet(set)
  BY ElementsOf
<1>3. /\ Append(set, obs.id) \in Seq(Keys) /\ ToSet(Append(set, obs.id)) = ToSet(set) \cup {obs.id}
      /\ obs.id \notin ToSet(set) /\ IsInjective(set) => IsInjective(Append(set, obs.id))
      /\ Append(out, obs) \in Seq(Observations) /\ ToSet(Append(out, obs)) = ToSet(out) \cup {obs}
      /\ Len(Append(set, obs.id)) >= Len(set)
  BY <1>1, ElementsOfAppend
<1>4. CASE obs.id \in ToSet(set)
  BY <1>2, <1>4 DEF Emit, Emissions
<1>5. CASE obs.id \notin ToSet(set)
  <2>1. CASE DeviceHasSeen(d, obs.id)
    <3>1. Emit(d, set, out, obs) = [seen |-> Append(set, obs.id), out |-> out]
      BY <1>2, <1>5, <2>1 DEF Emit
    <3>2. Emit(d, set, out, obs) \in Emissions
      BY <1>3, <3>1 DEF Emissions
    <3>3. Emit(d, set, out, obs).seen = Append(set, obs.id) /\ Emit(d, set, out, obs).out = out
      BY <3>1
    <3> QED
      BY <1>3, <1>5, <2>1, <3>2, <3>3
  <2>2. CASE ~DeviceHasSeen(d, obs.id)
    <3>1. Emit(d, set, out, obs) = [seen |-> Append(set, obs.id), out |-> Append(out, obs)]
      BY <1>2, <1>5, <2>2 DEF Emit
    <3>2. Emit(d, set, out, obs) \in Emissions
      BY <1>3, <3>1 DEF Emissions
    <3>3. Emit(d, set, out, obs).seen = Append(set, obs.id) /\ Emit(d, set, out, obs).out = Append(out, obs)
      BY <3>1
    <3> QED
      BY <1>3, <1>5, <3>2, <3>3
  <2> QED
    BY <2>1, <2>2
<1> QED
  BY <1>4, <1>5

\* The conversion of a flush is where the emissions of its captures lead.
FlushStart(d) == [seen |-> seen[d], out |-> pending[d] \o queue[d]]

InlineOf(d, k) == InlineObservation(inlineQueue[d][k], Memoised(d, inlineQueue[d][k]))

LEMMA ConversionSteps ==
  ASSUME Places, NEW d \in Tabs
  PROVE  /\ Conversion(d) \in [0 .. Len(inlineQueue[d]) -> Emissions]
         /\ Conversion(d)[0] = FlushStart(d)
         /\ \A k \in 1 .. Len(inlineQueue[d]) :
              /\ InlineOf(d, k) \in Observations
              /\ Conversion(d)[k] = Emit(d, Conversion(d)[k - 1].seen, Conversion(d)[k - 1].out, InlineOf(d, k))
         /\ Converted(d) = Conversion(d)[Len(inlineQueue[d])]
<1> DEFINE n == Len(inlineQueue[d])
           step == [p \in Nat \X Emissions |->
                      IF p[1] \in 1 .. n THEN Emit(d, p[2].seen, p[2].out, InlineOf(d, p[1])) ELSE p[2]]
<1>1. n \in Nat /\ inlineQueue[d] \in Seq(InlineCaptures)
  BY DEF Places
<1>2. ASSUME NEW k \in 1 .. n PROVE InlineOf(d, k) \in Observations
  <2>1. inlineQueue[d][k] \in InlineCaptures
    BY <1>1
  <2>2. Memoised(d, inlineQueue[d][k]) \in BOOLEAN
    BY DEF Memoised
  <2> QED
    BY <2>1, <2>2, KeyTypes DEF InlineOf
<1>3. FlushStart(d) \in Emissions
  <2>1. seen[d] \in Seq(Keys) /\ pending[d] \in Seq(Observations) /\ queue[d] \in Seq(Observations)
    BY DEF Places
  <2> QED
    BY <2>1, ElementsOfConcat DEF FlushStart, Emissions
<1>4. step \in [Nat \X Emissions -> Emissions]
  <2> SUFFICES ASSUME NEW k \in 1 .. n, NEW e \in Emissions
               PROVE  Emit(d, e.seen, e.out, InlineOf(d, k)) \in Emissions
    OBVIOUS
  <2>1. e.seen \in Seq(Keys) /\ e.out \in Seq(Observations)
    BY DEF Emissions
  <2> QED
    BY <1>2, <2>1, EmitOne DEF Emitted
<1> HIDE DEF n
<1>5. PICK f \in [0 .. n -> Emissions] : f[0] = FlushStart(d) /\ \A k \in 1 .. n : f[k] = step[<<k, f[k - 1]>>]
  <2> HIDE DEF step
  <2>1. Courses(Emissions, FlushStart(d), step, n) # {}
    BY <1>1, <1>3, <1>4, Recursion
  <2> QED
    BY <2>1 DEF Courses
<1>6. ASSUME NEW k \in 1 .. n PROVE f[k] = Emit(d, f[k - 1].seen, f[k - 1].out, InlineOf(d, k))
  <2>1. <<k, f[k - 1]>> \in Nat \X Emissions
    BY <1>1
  <2> QED
    BY <1>5, <2>1
<1> DEFINE Through(g) == [k \in 0 .. n |-> IF k = 0 THEN [seen |-> seen[d], out |-> pending[d] \o queue[d]]
                                        ELSE Emit(d, g[k - 1].seen, g[k - 1].out,
                                                  InlineObservation(inlineQueue[d][k], Memoised(d, inlineQueue[d][k])))]
<1>7. f = Through(f)
  <2>1. ASSUME NEW k \in 0 .. n PROVE f[k] = Through(f)[k]
    <3>1. CASE k = 0
      BY <1>5, <3>1 DEF FlushStart
    <3>2. CASE k # 0
      <4>1. k \in 1 .. n
        BY <1>1, <3>2
      <4> QED
        BY <1>6, <3>2, <4>1 DEF InlineOf
    <3> QED
      BY <3>1, <3>2
  <2> QED
    BY <1>5, <2>1
<1>8. Conversion(d) = Through(Conversion(d))
  BY <1>7 DEF Conversion, n
<1>9. ASSUME NEW k \in 0 .. n PROVE Conversion(d)[k] = Through(Conversion(d))[k]
  BY <1>8
<1>10. /\ Conversion(d)[0] = FlushStart(d)
       /\ \A k \in 1 .. n : Conversion(d)[k] = Emit(d, Conversion(d)[k - 1].seen, Conversion(d)[k - 1].out, InlineOf(d, k))
  <2>1. 0 \in 0 .. n /\ \A k \in 1 .. n : k \in 0 .. n /\ k # 0
    BY <1>1
  <2>2. Conversion(d)[0] = FlushStart(d)
    BY <1>9, <2>1 DEF FlushStart
  <2>3. ASSUME NEW k \in 1 .. n
        PROVE  Conversion(d)[k] = Emit(d, Conversion(d)[k - 1].seen, Conversion(d)[k - 1].out, InlineOf(d, k))
    BY <1>9, <2>1 DEF InlineOf
  <2> QED
    BY <2>2, <2>3
<1>11. 0 .. n \subseteq {k \in 0 .. n : Conversion(d)[k] \in Emissions}
  <2>1. ASSUME NEW k \in 1 .. n, Conversion(d)[k - 1] \in Emissions PROVE Conversion(d)[k] \in Emissions
    <3> DEFINE before == Conversion(d)[k - 1]
    <3>1. before.seen \in Seq(Keys) /\ before.out \in Seq(Observations)
      BY <2>1 DEF Emissions
    <3>2. Emit(d, before.seen, before.out, InlineOf(d, k)) \in Emissions
      BY <1>2, <3>1, EmitOne DEF Emitted
    <3> QED
      BY <1>10, <3>2
  <2> DEFINE U == {k \in 0 .. n : Conversion(d)[k] \in Emissions}
  <2>2. 0 \in U /\ \A k \in 1 .. n : k - 1 \in U => k \in U
    BY <1>1, <1>3, <1>10, <2>1
  <2> HIDE DEF U
  <2>3. 0 .. n \subseteq U
    BY <1>1, <2>2, SetInductionUpTo
  <2> QED
    BY <2>3 DEF U
<1> QED
  BY <1>2, <1>8, <1>10, <1>11 DEF Converted, n

\* What the start of a flush has and an emission keeps, its end has.
LEMMA ConvertedIn ==
  ASSUME Places, NEW d \in Tabs, NEW S, FlushStart(d) \in S,
         \A k \in 1 .. Len(inlineQueue[d]), e \in S \cap Emissions :
           Emit(d, e.seen, e.out, InlineOf(d, k)) \in S
  PROVE  Converted(d) \in S
<1> DEFINE n == Len(inlineQueue[d])
           U == {k \in 0 .. n : Conversion(d)[k] \in S}
<1>1. n \in Nat
  BY DEF Places
<1>2. 0 \in U
  BY <1>1, ConversionSteps
<1>3. ASSUME NEW k \in 1 .. n, k - 1 \in U PROVE k \in U
  <2>1. Conversion(d)[k - 1] \in S \cap Emissions
    BY <1>1, <1>3, ConversionSteps
  <2>2. Emit(d, Conversion(d)[k - 1].seen, Conversion(d)[k - 1].out, InlineOf(d, k)) \in S
    BY <2>1
  <2> QED
    BY <1>1, <2>2, ConversionSteps
<1>4. 0 .. n \subseteq U
  <2> HIDE DEF U
  <2> QED
    BY <1>1, <1>2, <1>3, SetInductionUpTo
<1>5. n \in U
  BY <1>1, <1>4
<1> QED
  BY <1>5, ConversionSteps

LEMMA ConvertedKeeps ==
  ASSUME Places, NEW d \in Tabs
  PROVE  LET flush == Converted(d)
         IN /\ flush \in Emissions
            /\ ToSet(seen[d]) \subseteq ToSet(flush.seen) /\ Len(seen[d]) <= Len(flush.seen)
            /\ IsInjective(seen[d]) => IsInjective(flush.seen)
            /\ ToSet(pending[d]) \cup ToSet(queue[d]) \subseteq ToSet(flush.out)
            /\ \A k \in ToSet(flush.seen) :
                 k \in ToSet(seen[d]) \/ DeviceHasSeen(d, k) \/ \E obs \in ToSet(flush.out) : obs.id = k
<1> DEFINE Good(e) ==
      /\ ToSet(seen[d]) \subseteq ToSet(e.seen) /\ Len(seen[d]) <= Len(e.seen)
      /\ IsInjective(seen[d]) => IsInjective(e.seen)
      /\ ToSet(pending[d]) \cup ToSet(queue[d]) \subseteq ToSet(e.out)
      /\ \A k \in ToSet(e.seen) : k \in ToSet(seen[d]) \/ DeviceHasSeen(d, k) \/ \E obs \in ToSet(e.out) : obs.id = k
           S == {e \in Emissions : Good(e)}
<1>0. seen[d] \in Seq(Keys) /\ pending[d] \in Seq(Observations) /\ queue[d] \in Seq(Observations)
  BY DEF Places
<1>1. FlushStart(d) \in S
  <2>1. pending[d] \o queue[d] \in Seq(Observations) /\ ToSet(pending[d] \o queue[d]) = ToSet(pending[d]) \cup ToSet(queue[d])
    BY <1>0, ElementsOfConcat
  <2>2. FlushStart(d) \in Emissions /\ FlushStart(d).seen = seen[d] /\ FlushStart(d).out = pending[d] \o queue[d]
    BY <1>0, <2>1 DEF FlushStart, Emissions
  <2>3. Len(seen[d]) <= Len(seen[d])
    BY <1>0
  <2> QED
    BY <2>1, <2>2, <2>3
<1>2. ASSUME NEW k \in 1 .. Len(inlineQueue[d]), NEW e \in S
      PROVE  Emit(d, e.seen, e.out, InlineOf(d, k)) \in S
  <2>1. e.seen \in Seq(Keys) /\ e.out \in Seq(Observations) /\ Good(e)
    BY DEF Emissions
  <2>2. InlineOf(d, k) \in Observations
    BY ConversionSteps
  <2> DEFINE obs == InlineOf(d, k)
             f == Emit(d, e.seen, e.out, obs)
  <2>3. /\ f \in Emissions
        /\ obs.id \in ToSet(e.seen) => f.seen = e.seen /\ f.out = e.out
        /\ obs.id \notin ToSet(e.seen) => f.seen = Append(e.seen, obs.id) /\ (DeviceHasSeen(d, obs.id) \/ f.out = Append(e.out, obs))
        /\ ToSet(f.seen) = ToSet(e.seen) \cup {obs.id}
        /\ Len(f.seen) >= Len(e.seen)
        /\ IsInjective(e.seen) => IsInjective(f.seen)
        /\ ToSet(e.out) \subseteq ToSet(f.out)
    <3>1. Emitted(f, d, e.seen, e.out, obs)
      BY <2>1, <2>2, EmitOne
    <3> HIDE DEF f, obs
    <3> QED
      BY <3>1 DEF Emitted
  <2>4. Len(seen[d]) <= Len(f.seen)
    BY <1>0, <2>1, <2>3 DEF Emissions
  <2>5. ToSet(Append(e.out, obs)) = ToSet(e.out) \cup {obs}
    BY <2>1, <2>2, ElementsOfAppend
  <2> HIDE DEF f, obs
  <2>6. ASSUME NEW key \in ToSet(f.seen)
        PROVE  key \in ToSet(seen[d]) \/ DeviceHasSeen(d, key) \/ \E o \in ToSet(f.out) : o.id = key
    <3>1. CASE key \in ToSet(e.seen)
      BY <2>1, <2>3, <3>1
    <3>2. CASE key \notin ToSet(e.seen)
      BY <2>3, <2>5, <2>6, <3>2
    <3> QED
      BY <3>1, <3>2
  <2>7. Good(f)
    BY <2>1, <2>3, <2>4, <2>6
  <2> QED
    BY <2>3, <2>7 DEF f, obs
<1>3. Converted(d) \in S
  <2> HIDE DEF S
  <2>1. \A k \in 1 .. Len(inlineQueue[d]), e \in S \cap Emissions : Emit(d, e.seen, e.out, InlineOf(d, k)) \in S
    BY <1>2
  <2> QED
    BY <1>1, <2>1, ConvertedIn
<1> QED
  BY <1>3

\* Every inline capture of the flush has been judged.
LEMMA ConvertedJudges ==
  ASSUME Places, NEW d \in Tabs, NEW c \in ToSet(inlineQueue[d])
  PROVE  InlineObservation(c, Memoised(d, c)).id \in ToSet(Converted(d).seen)
<1> DEFINE n == Len(inlineQueue[d])
           U(j) == {k \in 0 .. n : j <= k => InlineOf(d, j).id \in ToSet(Conversion(d)[k].seen)}
<1>1. n \in Nat /\ inlineQueue[d] \in Seq(InlineCaptures)
  BY DEF Places
<1>2. PICK j \in 1 .. n : c = inlineQueue[d][j]
  BY <1>1 DEF ToSet
<1>3. 0 \in U(j)
  BY <1>1, <1>2
<1>4. ASSUME NEW k \in 1 .. n, k - 1 \in U(j) PROVE k \in U(j)
  <2> DEFINE before == Conversion(d)[k - 1]
  <2>1. before.seen \in Seq(Keys) /\ before.out \in Seq(Observations) /\ InlineOf(d, k) \in Observations
    BY <1>1, <1>4, ConversionSteps DEF Emissions
  <2>2. ToSet(Emit(d, before.seen, before.out, InlineOf(d, k)).seen) = ToSet(before.seen) \cup {InlineOf(d, k).id}
    <3>1. Emitted(Emit(d, before.seen, before.out, InlineOf(d, k)), d, before.seen, before.out, InlineOf(d, k))
      BY <2>1, EmitOne
    <3> QED
      BY <3>1 DEF Emitted
  <2>3. ToSet(Conversion(d)[k].seen) = ToSet(before.seen) \cup {InlineOf(d, k).id}
    BY <2>2, ConversionSteps
  <2>4. CASE j <= k - 1
    BY <1>1, <1>4, <2>3, <2>4
  <2>5. CASE j = k
    BY <1>1, <2>3, <2>5
  <2> QED
    BY <1>1, <1>4, <2>4, <2>5
<1>5. 0 .. n \subseteq U(j)
  <2> DEFINE V == U(j)
  <2>1. 0 \in V /\ \A k \in 1 .. n : k - 1 \in V => k \in V
    BY <1>3, <1>4
  <2> HIDE DEF V
  <2>2. 0 .. n \subseteq V
    BY <1>1, <2>1, SetInductionUpTo
  <2> QED
    BY <2>2 DEF V
<1>6. InlineOf(d, j).id \in ToSet(Conversion(d)[n].seen)
  BY <1>1, <1>2, <1>5
<1> QED
  BY <1>2, <1>6, ConversionSteps DEF InlineOf

(***************************************************************************)
(* Every step keeps the places and the caps.                               *)
(***************************************************************************)
\* A closed tab has no document.
Closed ==
  \A d \in Tabs :
    ~open[d] =>
      /\ seen[d] = <<>> /\ queue[d] = <<>> /\ inlineQueue[d] = <<>> /\ pending[d] = <<>> /\ rounds[d] = <<>>
      /\ elements[d] = {} /\ memo[d] = {}

TypeInv == Places /\ Caps /\ Closed

LEMMA LoadType ==
  ASSUME TypeInv, NEW d \in Tabs, Load(d)
  PROVE  TypeInv'
<1> USE DEF TypeInv, Load, storeVars, historyVars
<1>1. LoadedDevice \in [Keys -> Nat \cup {Unstamped}]
  BY StampTypes
<1>2. Places'
  BY <1>1 DEF Places
<1>3. Caps'
  BY DEF Places, Caps
<1>4. Closed'
  BY DEF Places, Closed
<1> QED
  BY <1>2, <1>3, <1>4

\* What a document that goes leaves of its own variables.
LEMMA UnloadType ==
  ASSUME TypeInv, NEW d \in Tabs, Unload(d)
  PROVE  /\ open' \in [Tabs -> BOOLEAN] /\ persistDue' \in [Tabs -> BOOLEAN]
         /\ seen' \in [Tabs -> Seq(Keys)] /\ inherited' \in [Tabs -> Seq(Keys)]
         /\ queue' \in [Tabs -> Seq(Observations)] /\ pending' \in [Tabs -> Seq(Observations)]
         /\ inlineQueue' \in [Tabs -> Seq(InlineCaptures)] /\ rounds' \in [Tabs -> Seq(Seq(InlineCaptures))]
         /\ elements' \in [Tabs -> SUBSET InlineCaptures] /\ memo' \in [Tabs -> SUBSET (AllHosts \X Sources)]
         /\ device' \in [Tabs -> [Keys -> Nat \cup {Unstamped}]]
         /\ \A t \in Tabs :
              /\ IsInjective(seen'[t])
              /\ \A r \in DOMAIN rounds'[t] : rounds'[t][r] # <<>>
              /\ IsFiniteSet(memo'[t]) /\ Cardinality(memo'[t]) <= MemoCap
         /\ Closed'
<1> USE DEF TypeInv, Places, Unload
<1>1. NoStamps \in [Keys -> Nat \cup {Unstamped}]
  BY StampTypes
<1>2. /\ open' \in [Tabs -> BOOLEAN] /\ persistDue' \in [Tabs -> BOOLEAN]
      /\ seen' \in [Tabs -> Seq(Keys)] /\ inherited' \in [Tabs -> Seq(Keys)]
      /\ queue' \in [Tabs -> Seq(Observations)] /\ pending' \in [Tabs -> Seq(Observations)]
      /\ inlineQueue' \in [Tabs -> Seq(InlineCaptures)] /\ rounds' \in [Tabs -> Seq(Seq(InlineCaptures))]
      /\ elements' \in [Tabs -> SUBSET InlineCaptures] /\ memo' \in [Tabs -> SUBSET (AllHosts \X Sources)]
      /\ device' \in [Tabs -> [Keys -> Nat \cup {Unstamped}]]
  BY <1>1
<1>3. IsFiniteSet({}) /\ Cardinality({}) <= MemoCap
  BY FS_EmptySet, AgentAssumption
<1>4. /\ \A t \in Tabs : seen'[t] = (IF t = d THEN <<>> ELSE seen[t])
      /\ \A t \in Tabs : rounds'[t] = (IF t = d THEN <<>> ELSE rounds[t])
      /\ \A t \in Tabs : memo'[t] = (IF t = d THEN {} ELSE memo[t])
  OBVIOUS
<1>5. ASSUME NEW t \in Tabs
      PROVE  /\ IsInjective(seen'[t])
             /\ \A r \in DOMAIN rounds'[t] : rounds'[t][r] # <<>>
             /\ IsFiniteSet(memo'[t]) /\ Cardinality(memo'[t]) <= MemoCap
  <2>1. CASE t = d
    <3>1. seen'[t] = <<>> /\ rounds'[t] = <<>> /\ memo'[t] = {}
      BY <1>4, <2>1
    <3>2. IsInjective(<<>>) /\ DOMAIN <<>> = {}
      BY DEF IsInjective
    <3>3. IsInjective(seen'[t]) /\ \A r \in DOMAIN rounds'[t] : rounds'[t][r] # <<>>
      BY <3>1, <3>2
    <3> QED
      BY <1>3, <3>1, <3>3
  <2>2. CASE t # d
    <3>1. seen'[t] = seen[t] /\ rounds'[t] = rounds[t] /\ memo'[t] = memo[t]
      BY <1>4, <2>2
    <3> QED
      BY <3>1 DEF Caps
  <2> QED
    BY <2>1, <2>2
<1>6. Closed'
  BY DEF Closed
<1> QED
  BY <1>2, <1>5, <1>6

LEMMA DiscardType ==
  ASSUME TypeInv, NEW d \in Tabs, Discard(d)
  PROVE  TypeInv'
<1>1. Unload(d) /\ UNCHANGED <<clock, storeVars, historyVars>>
  BY DEF Discard
<1> QED
  BY <1>1, UnloadType DEF TypeInv, Places, Caps, storeVars, historyVars

LEMMA NewSessionType ==
  ASSUME TypeInv, NEW d \in Tabs, NewSession(d)
  PROVE  TypeInv'
<1> USE DEF TypeInv, NewSession, documentVars
<1>1. Places'
  BY DEF Places
<1>2. ASSUME NEW t \in Tabs PROVE IsInjective(seenStore'[t]) /\ Len(seenStore'[t]) <= SeenCap
  <2>1. seenStore'[t] = (IF t = d THEN <<>> ELSE seenStore[t])
    BY DEF Places
  <2>2. IsInjective(<<>>) /\ Len(<<>>) <= SeenCap
    BY AgentAssumption DEF IsInjective
  <2> QED
    BY <2>1, <2>2 DEF Caps
<1>4. Caps'
  BY <1>2 DEF Caps
<1>5. Closed'
  BY DEF Closed
<1> QED
  BY <1>1, <1>4, <1>5

LEMMA CapturesObserve ==
  ASSUME NEW d \in Tabs, Captures(d)
  PROVE  \E gate : \E obs \in Observations :
           /\ Capture(d, gate, obs) /\ IsFiniteSet(obs.stamps) /\ obs.id \in obs.stamps /\ gate \in obs.stamps
<1>1. PICK gate, obs : Capture(d, gate, obs) /\
         \/ \E u \in Urls, h \in AllHosts : obs = External(u, h) /\ gate \in {urlKey(u), urlWithInitiatorKey(u, h)}
         \/ \E v \in Violations : obs = Csp(v) /\ gate = cspKey(v)
  BY DEF Captures
<1>2. CASE \E u \in Urls, h \in AllHosts : obs = External(u, h) /\ gate \in {urlKey(u), urlWithInitiatorKey(u, h)}
  <2>1. PICK u \in Urls, h \in AllHosts : obs = External(u, h) /\ gate \in {urlKey(u), urlWithInitiatorKey(u, h)}
    BY <1>2
  <2>2. obs \in Observations /\ obs.id = urlWithInitiatorKey(u, h) /\ obs.stamps = {urlKey(u), urlWithInitiatorKey(u, h)}
    BY <2>1, KeyTypes DEF External, Observation
  <2>3. IsFiniteSet({urlKey(u)} \cup {urlWithInitiatorKey(u, h)})
    BY FS_Singleton, FS_Union
  <2>4. obs.stamps = {urlKey(u)} \cup {urlWithInitiatorKey(u, h)}
    BY <2>2
  <2> QED
    BY <1>1, <2>1, <2>2, <2>3, <2>4
<1>3. CASE \E v \in Violations : obs = Csp(v) /\ gate = cspKey(v)
  <2>1. PICK v \in Violations : obs = Csp(v) /\ gate = cspKey(v)
    BY <1>3
  <2>2. obs \in Observations /\ obs.id = cspKey(v) /\ obs.stamps = {cspKey(v)}
    BY <2>1, KeyTypes DEF Csp, Observation
  <2>3. IsFiniteSet(obs.stamps)
    BY <2>2, FS_Singleton
  <2> QED
    BY <1>1, <2>1, <2>2, <2>3
<1> QED
  BY <1>1, <1>2, <1>3

LEMMA CaptureType ==
  ASSUME TypeInv, NEW d \in Tabs, NEW gate, NEW obs \in Observations, Capture(d, gate, obs), IsFiniteSet(obs.stamps)
  PROVE  /\ TypeInv'
         /\ ToSet(seen'[d]) = ToSet(seen[d]) \cup obs.stamps /\ Len(seen[d]) <= Len(seen'[d])
         /\ ToSet(queue'[d]) = ToSet(queue[d]) \cup {obs} /\ queue'[d] = Append(queue[d], obs)
<1> USE DEF TypeInv, Capture, Mark, storeVars, historyVars
<1>1. seen[d] \in Seq(Keys) /\ queue[d] \in Seq(Observations) /\ obs.stamps \in SUBSET Keys
  BY DEF Places, Observations
<1>2. /\ Marked(seen[d], obs.stamps) \in Seq(Keys)
      /\ ToSet(Marked(seen[d], obs.stamps)) = ToSet(seen[d]) \cup obs.stamps
      /\ Len(seen[d]) <= Len(Marked(seen[d], obs.stamps))
      /\ IsInjective(seen[d]) => IsInjective(Marked(seen[d], obs.stamps))
  BY <1>1, MarkedAdds
<1>3. Append(queue[d], obs) \in Seq(Observations) /\ ToSet(Append(queue[d], obs)) = ToSet(queue[d]) \cup {obs}
  BY <1>1, ElementsOfAppend
<1>4. /\ seen' = [seen EXCEPT ![d] = Marked(seen[d], obs.stamps)]
      /\ queue' = [queue EXCEPT ![d] = Append(queue[d], obs)]
      /\ open[d]
  OBVIOUS
<1>5. seen'[d] = Marked(seen[d], obs.stamps) /\ queue'[d] = Append(queue[d], obs)
  BY <1>4 DEF Places
<1>6. persistDue' \in [Tabs -> BOOLEAN]
  BY DEF Places
<1>7. seen' \in [Tabs -> Seq(Keys)] /\ queue' \in [Tabs -> Seq(Observations)]
  BY <1>2, <1>3, <1>4 DEF Places
<1>8. Places'
  BY <1>6, <1>7 DEF Places
<1>9. Caps'
  BY <1>2, <1>4 DEF Places, Caps
<1>10. Closed'
  BY <1>4 DEF Places, Closed
<1> QED
  BY <1>2, <1>3, <1>5, <1>8, <1>9, <1>10

LEMMA CaptureInlineType ==
  ASSUME TypeInv, NEW d \in Tabs, NEW e \in Elements, NEW h \in Hosts \cup {DocHost}, CaptureInline(d, e, h)
  PROVE  /\ TypeInv'
         /\ ToSet(inlineQueue'[d]) = ToSet(inlineQueue[d]) \cup {<<e, h>>}
<1> USE DEF TypeInv, CaptureInline, storeVars, historyVars
<1>1. inlineQueue[d] \in Seq(InlineCaptures) /\ <<e, h>> \in InlineCaptures
  BY DEF Places, InlineCaptures
<1>2. /\ Append(inlineQueue[d], <<e, h>>) \in Seq(InlineCaptures)
      /\ ToSet(Append(inlineQueue[d], <<e, h>>)) = ToSet(inlineQueue[d]) \cup {<<e, h>>}
  BY <1>1, ElementsOfAppend
<1>3. /\ inlineQueue' = [inlineQueue EXCEPT ![d] = Append(inlineQueue[d], <<e, h>>)]
      /\ elements' = [elements EXCEPT ![d] = elements[d] \cup {<<e, h>>}] /\ open[d]
  OBVIOUS
<1>4. elements' \in [Tabs -> SUBSET InlineCaptures] /\ inlineQueue' \in [Tabs -> Seq(InlineCaptures)]
      /\ inlineQueue'[d] = Append(inlineQueue[d], <<e, h>>)
  <2>1. elements[d] \cup {<<e, h>>} \in SUBSET InlineCaptures
    BY <1>1 DEF Places
  <2>2. elements' \in [Tabs -> SUBSET InlineCaptures]
    BY <1>3, <2>1 DEF Places
  <2> QED
    BY <1>2, <1>3, <2>2 DEF Places
<1>5. Places'
  BY <1>4 DEF Places
<1>6. Caps'
  BY DEF Caps
<1>7. Closed'
  BY <1>3 DEF Places, Closed
<1> QED
  BY <1>2, <1>4, <1>5, <1>6, <1>7

LEMMA IdleTickType ==
  ASSUME TypeInv, NEW d \in Tabs, IdleTick(d)
  PROVE  /\ TypeInv' /\ pending'[d] = pending[d] \o queue[d] /\ queue'[d] = <<>> /\ inlineQueue'[d] = <<>>
         /\ rounds'[d] = (IF inlineQueue[d] = <<>> THEN rounds[d] ELSE Append(rounds[d], inlineQueue[d]))
<1> USE DEF TypeInv, IdleTick, storeVars, historyVars
<1> DEFINE Q == Seq(InlineCaptures)
<1>1. /\ pending[d] \in Seq(Observations) /\ queue[d] \in Seq(Observations) /\ inlineQueue[d] \in Q /\ rounds[d] \in Seq(Q)
      /\ rounds \in [Tabs -> Seq(Q)]
  BY DEF Places
<1>2. pending[d] \o queue[d] \in Seq(Observations)
  BY <1>1, ElementsOfConcat
<1>3. Append(rounds[d], inlineQueue[d]) \in Seq(Q) /\ ToSet(Append(rounds[d], inlineQueue[d])) = ToSet(rounds[d]) \cup {inlineQueue[d]}
  <2> HIDE DEF Q
  <2> QED
    BY <1>1, ElementsOfAppend
<1>4. /\ rounds' = (IF inlineQueue[d] = <<>> THEN rounds ELSE [rounds EXCEPT ![d] = Append(rounds[d], inlineQueue[d])])
      /\ pending' = [pending EXCEPT ![d] = pending[d] \o queue[d]] /\ queue' = [queue EXCEPT ![d] = <<>>]
      /\ inlineQueue' = [inlineQueue EXCEPT ![d] = <<>>] /\ open[d]
  OBVIOUS
<1>5. /\ pending' \in [Tabs -> Seq(Observations)] /\ queue' \in [Tabs -> Seq(Observations)] /\ inlineQueue' \in [Tabs -> Q]
      /\ pending'[d] = pending[d] \o queue[d] /\ queue'[d] = <<>> /\ inlineQueue'[d] = <<>>
  BY <1>2, <1>4 DEF Places
<1>6. /\ rounds' \in [Tabs -> Seq(Q)]
      /\ rounds'[d] = (IF inlineQueue[d] = <<>> THEN rounds[d] ELSE Append(rounds[d], inlineQueue[d]))
      /\ \A t \in Tabs : t # d => rounds'[t] = rounds[t]
  <2> HIDE DEF Q
  <2> QED
    BY <1>1, <1>3, <1>4
<1>7. Places'
  BY <1>5, <1>6 DEF Places
<1>8. \A r \in DOMAIN rounds'[d] : rounds'[d][r] # <<>>
  <2>1. CASE inlineQueue[d] = <<>>
    BY <1>6, <2>1 DEF Caps
  <2>2. CASE inlineQueue[d] # <<>>
    <3>1. \A q \in ToSet(rounds[d]) : q # <<>>
      BY DEF Caps, ToSet
    <3>2. \A q \in ToSet(Append(rounds[d], inlineQueue[d])) : q # <<>>
      BY <1>3, <2>2, <3>1
    <3> QED
      BY <1>6, <2>2, <3>2 DEF ToSet
  <2> QED
    BY <2>1, <2>2
<1>9. Caps'
  BY <1>6, <1>8 DEF Caps
<1>10. Closed'
  BY <1>4, <1>6 DEF Places, Closed
<1> QED
  BY <1>5, <1>6, <1>7, <1>9, <1>10

LEMMA PersistSeenType ==
  ASSUME TypeInv, NEW d \in Tabs, PersistSeen(d)
  PROVE  TypeInv'
<1> USE DEF TypeInv, PersistSeen, historyVars
<1>1. seen[d] \in Seq(Keys)
  BY DEF Places
<1>2. Persisted(seen[d]) \in Seq(Keys) /\ Len(Persisted(seen[d])) <= SeenCap
      /\ (IsInjective(seen[d]) => IsInjective(Persisted(seen[d])))
  BY <1>1, PersistedIsPrefix
<1>3. Places'
  BY <1>2 DEF Places
<1>4. Caps'
  BY <1>2 DEF Places, Caps
<1>5. Closed'
  BY DEF Closed
<1> QED
  BY <1>3, <1>4, <1>5

\* A digest emits the observation of one capture.
LEMMA DigestEmits ==
  ASSUME TypeInv, NEW d \in Tabs, NEW r, NEW ok \in BOOLEAN, Digest(d, r, ok)
  PROVE  \E c \in InlineCaptures, hashed \in BOOLEAN :
           LET obs == InlineObservation(c, hashed)
               e   == Emit(d, seen[d], pending[d], obs)
           IN /\ r \in DOMAIN rounds[d] /\ c = Head(rounds[d][r]) /\ obs \in Observations
              /\ Emitted(e, d, seen[d], pending[d], obs)
              /\ seen' = [seen EXCEPT ![d] = e.seen] /\ pending' = [pending EXCEPT ![d] = e.out]
              /\ memo' = memo \/ (hashed /\ Cardinality(memo[d]) < MemoCap
                                  /\ memo' = [memo EXCEPT ![d] = memo[d] \cup {<<c[2], sourceOf[c[1]]>>}])
<1>1. r \in DOMAIN rounds[d]
  BY DEF Digest
<1>2. rounds[d] \in Seq(Seq(InlineCaptures)) /\ \A i \in DOMAIN rounds[d] : rounds[d][i] # <<>>
  BY DEF TypeInv, Places, Caps
<1>3. Head(rounds[d][r]) \in InlineCaptures
  BY <1>1, <1>2, AfterHeadDrops
<1> DEFINE c == Head(rounds[d][r])
           oversize == sourceOf[c[1]] \in Oversize
           hashed == ~oversize /\ (Memoised(d, c) \/ ok)
           obs == InlineObservation(c, hashed)
           e == Emit(d, seen[d], pending[d], obs)
<1>4. /\ seen' = [seen EXCEPT ![d] = e.seen] /\ pending' = [pending EXCEPT ![d] = e.out]
      /\ memo' = IF hashed /\ Cardinality(memo[d]) < MemoCap
                 THEN [memo EXCEPT ![d] = memo[d] \cup {<<c[2], sourceOf[c[1]]>>}] ELSE memo
  BY DEF Digest
<1>5. hashed \in BOOLEAN
  BY DEF Memoised
<1>6. seen[d] \in Seq(Keys) /\ pending[d] \in Seq(Observations)
  BY DEF TypeInv, Places
<1> HIDE DEF hashed, c
<1>7. obs \in Observations
  BY <1>3, <1>5, KeyTypes DEF c
<1>8. Emitted(e, d, seen[d], pending[d], obs)
  BY <1>6, <1>7, EmitOne
<1>9. c \in InlineCaptures /\ c = Head(rounds[d][r])
  BY <1>3 DEF c
<1> QED
  BY <1>1, <1>4, <1>5, <1>7, <1>8, <1>9

LEMMA DigestType ==
  ASSUME TypeInv, NEW d \in Tabs, NEW r, NEW ok \in BOOLEAN, Digest(d, r, ok)
  PROVE  TypeInv'
<1> USE DEF TypeInv
<1>1. PICK c \in InlineCaptures, hashed \in BOOLEAN :
        LET obs == InlineObservation(c, hashed)
            e   == Emit(d, seen[d], pending[d], obs)
        IN /\ r \in DOMAIN rounds[d] /\ c = Head(rounds[d][r]) /\ obs \in Observations
           /\ Emitted(e, d, seen[d], pending[d], obs)
           /\ seen' = [seen EXCEPT ![d] = e.seen] /\ pending' = [pending EXCEPT ![d] = e.out]
           /\ memo' = memo \/ (hashed /\ Cardinality(memo[d]) < MemoCap
                               /\ memo' = [memo EXCEPT ![d] = memo[d] \cup {<<c[2], sourceOf[c[1]]>>}])
  BY DigestEmits
<1> DEFINE e == Emit(d, seen[d], pending[d], InlineObservation(c, hashed))
           m == <<c[2], sourceOf[c[1]]>>
<1>2. e.seen \in Seq(Keys) /\ e.out \in Seq(Observations) /\ (IsInjective(seen[d]) => IsInjective(e.seen))
  BY <1>1 DEF Emitted, Emissions
<1>3. m \in AllHosts \X Sources
  BY KeyTypes
<1>4. /\ rounds[d] \in Seq(Seq(InlineCaptures)) /\ \A i \in DOMAIN rounds[d] : rounds[d][i] # <<>>
      /\ rounds' = [rounds EXCEPT ![d] = AfterHead(rounds[d], r)] /\ open[d]
  BY DEF Places, Caps, Digest
<1>5. /\ AfterHead(rounds[d], r) \in Seq(Seq(InlineCaptures))
      /\ \A i \in DOMAIN AfterHead(rounds[d], r) : AfterHead(rounds[d], r)[i] # <<>>
  BY <1>1, <1>4, AfterHeadDrops
<1>6. /\ seen' = [seen EXCEPT ![d] = e.seen] /\ pending' = [pending EXCEPT ![d] = e.out]
      /\ memo' = memo \/ (Cardinality(memo[d]) < MemoCap /\ memo' = [memo EXCEPT ![d] = memo[d] \cup {m}])
  BY <1>1
<1> HIDE DEF e, m
<1>7. persistDue' \in [Tabs -> BOOLEAN]
  <2>1. \E b : persistDue' = [persistDue EXCEPT ![d] = persistDue[d] \/ b]
    BY DEF Digest
  <2> QED
    BY <2>1 DEF Places
<1>8. seen' \in [Tabs -> Seq(Keys)] /\ pending' \in [Tabs -> Seq(Observations)]
  BY <1>2, <1>6 DEF Places
<1>9. rounds' \in [Tabs -> Seq(Seq(InlineCaptures))]
  <2> DEFINE Q == Seq(Seq(InlineCaptures))
  <2>1. rounds \in [Tabs -> Q] /\ AfterHead(rounds[d], r) \in Q
    BY <1>5 DEF Places
  <2> HIDE DEF Q
  <2>2. rounds' \in [Tabs -> Q]
    BY <1>4, <2>1
  <2> QED
    BY <2>2 DEF Q
<1>10. memo' \in [Tabs -> SUBSET (AllHosts \X Sources)]
  <2>1. memo[d] \cup {m} \in SUBSET (AllHosts \X Sources)
    BY <1>3 DEF m, Places
  <2> QED
    BY <1>6, <2>1 DEF Places
<1>11. Places'
  BY <1>7, <1>8, <1>9, <1>10 DEF Digest, Places, storeVars, historyVars
<1>12. ASSUME NEW t \in Tabs
       PROVE  /\ IsInjective(seen'[t])
              /\ \A i \in DOMAIN rounds'[t] : rounds'[t][i] # <<>>
              /\ IsFiniteSet(memo'[t]) /\ Cardinality(memo'[t]) <= MemoCap
  <2>1. IsInjective(seen'[t])
    BY <1>2, <1>6 DEF Places, Caps
  <2>2. \A i \in DOMAIN rounds'[t] : rounds'[t][i] # <<>>
    <3>1. rounds'[t] = IF t = d THEN AfterHead(rounds[d], r) ELSE rounds[t]
      BY <1>4 DEF Places
    <3> QED
      BY <1>5, <3>1 DEF Caps
  <2>3. IsFiniteSet(memo[d] \cup {m}) /\ (Cardinality(memo[d]) < MemoCap => Cardinality(memo[d] \cup {m}) <= MemoCap)
    <3>1. IsFiniteSet(memo[d])
      BY DEF Caps
    <3>2. /\ IsFiniteSet(memo[d] \cup {m})
          /\ Cardinality(memo[d] \cup {m}) = IF m \in memo[d] THEN Cardinality(memo[d]) ELSE Cardinality(memo[d]) + 1
      BY <3>1, FS_AddElement
    <3>3. Cardinality(memo[d]) \in Nat /\ MemoCap \in Nat
      BY <3>1, FS_CardinalityType, AgentAssumption
    <3> QED
      BY <3>2, <3>3
  <2>4. memo'[t] = memo[t] \/ (t = d /\ Cardinality(memo[d]) < MemoCap /\ memo'[t] = memo[d] \cup {m})
    BY <1>6 DEF Places
  <2> QED
    BY <2>1, <2>2, <2>3, <2>4 DEF Caps
<1>13. Caps'
  BY <1>12 DEF Digest, Caps, storeVars
<1>14. Closed'
  <2>1. /\ open' = open /\ queue' = queue /\ inlineQueue' = inlineQueue /\ elements' = elements
        /\ \A t \in Tabs : t # d => seen'[t] = seen[t] /\ pending'[t] = pending[t]
        /\ \A t \in Tabs : t # d => memo'[t] = memo[t]
    BY <1>6 DEF Digest, Places
  <2>2. \A t \in Tabs : t # d => rounds'[t] = rounds[t]
    BY <1>4 DEF Places
  <2> QED
    BY <1>4, <2>1, <2>2 DEF Closed
<1> QED
  BY <1>11, <1>13, <1>14

(***************************************************************************)
(* A flush.                                                                *)
(***************************************************************************)
LEMMA BeaconsCount ==
  ASSUME Places, NEW d \in Tabs
  PROVE  Beacons(d) \in Nat /\ (Converted(d).out = <<>> => Beacons(d) = IF sentStore[d] THEN 0 ELSE 1)
<1>1. Converted(d) \in Emissions
  BY ConvertedKeeps
<1>2. Converted(d).out \in Seq(Observations) /\ BeaconCap \in Nat /\ BeaconCap > 0
  BY <1>1, AgentAssumption DEF Emissions
<1>3. Len(Converted(d).out) \in Nat /\ (Converted(d).out = <<>> => Len(Converted(d).out) = 0)
  BY <1>2, EmptyAndLength
<1>4. Chunks(Converted(d).out) \in Nat
  <2> DEFINE n == Len(Converted(d).out) + BeaconCap
  <2>1. n \in Nat
    BY <1>2, <1>3
  <2> HIDE DEF n
  <2>2. n \div BeaconCap \in Nat
    BY <1>2, <2>1
  <2> QED
    BY <2>2 DEF Chunks, n
<1>5. Converted(d).out = <<>> => Chunks(Converted(d).out) = 1
  BY <1>2, <1>3 DEF Chunks
<1> QED
  BY <1>4, <1>5 DEF Beacons

\* What a flush sends, of whatever identity and stamps, is keys.
LEMMA FlushTypes ==
  ASSUME TypeInv, NEW d \in Tabs, NEW accepted, FlushEnds(d, accepted)
  PROVE  LET out == Converted(d).out
         IN /\ accepted \in Nat /\ Converted(d).seen \in Seq(Keys) /\ out \in Seq(Observations)
            /\ Taken(out, accepted) \in Seq(Observations) /\ Kept(out, accepted) \in Seq(Observations)
            /\ Taken(out, accepted) \o Kept(out, accepted) = out
            /\ UNION {KeysOf(obs) : obs \in ToSet(Taken(out, accepted))} \subseteq Keys
            /\ Stamped(out, accepted) \subseteq UNION {KeysOf(obs) : obs \in ToSet(Taken(out, accepted))}
<1>1. accepted \in Nat
  <2>1. Beacons(d) \in Nat
    BY BeaconsCount DEF TypeInv
  <2> QED
    BY <2>1 DEF FlushEnds
<1> DEFINE out == Converted(d).out
<1>2. Converted(d).seen \in Seq(Keys) /\ out \in Seq(Observations)
  BY ConvertedKeeps DEF TypeInv, Emissions
<1> HIDE DEF out
<1>3. /\ Taken(out, accepted) \in Seq(Observations) /\ Kept(out, accepted) \in Seq(Observations)
      /\ Taken(out, accepted) \o Kept(out, accepted) = out
  BY <1>1, <1>2, TakenAndKept
<1>4. ToSet(Taken(out, accepted)) \subseteq Observations
  BY <1>3, ElementsOf
<1>5. \A obs \in Observations : KeysOf(obs) \subseteq Keys /\ obs.stamps \subseteq KeysOf(obs)
  BY DEF Observations, KeysOf
<1>6. UNION {KeysOf(obs) : obs \in ToSet(Taken(out, accepted))} \subseteq Keys
  BY <1>4, <1>5
<1>7. Stamped(out, accepted) \subseteq UNION {KeysOf(obs) : obs \in ToSet(Taken(out, accepted))}
  BY <1>4, <1>5 DEF Stamped
<1> QED
  BY <1>1, <1>2, <1>3, <1>6, <1>7 DEF out

LEMMA FlushStoresType ==
  ASSUME TypeInv, NEW d \in Tabs, NEW accepted, FlushEnds(d, accepted)
  PROVE  /\ seenStore' \in [Tabs -> Seq(Keys)] /\ sentStore' \in [Tabs -> BOOLEAN]
         /\ disk' \in [Keys -> Nat \cup {Unstamped}]
         /\ shipped' \in [Tabs -> Seq(Observations)] /\ beats' \in [Tabs -> Nat]
         /\ reports' \subseteq Keys \X Nat /\ clock' = clock
         /\ \A t \in Tabs : IsInjective(seenStore'[t]) /\ Len(seenStore'[t]) <= SeenCap
<1> USE DEF TypeInv
<1> DEFINE flush == Converted(d)
           out == flush.out
<1>0. open[d] /\ FlushStores(d, out, flush.seen, accepted) /\ clock' = clock
  BY DEF FlushEnds, Hide, Leave
<1>1. /\ accepted \in Nat /\ flush.seen \in Seq(Keys) /\ out \in Seq(Observations)
      /\ Taken(out, accepted) \in Seq(Observations)
      /\ UNION {KeysOf(obs) : obs \in ToSet(Taken(out, accepted))} \subseteq Keys
  BY FlushTypes
<1>2. IsInjective(flush.seen)
  BY ConvertedKeeps DEF Caps
<1> HIDE DEF flush
<1>3. Persisted(flush.seen) \in Seq(Keys) /\ Len(Persisted(flush.seen)) <= SeenCap /\ IsInjective(Persisted(flush.seen))
  BY <1>1, <1>2, PersistedIsPrefix
<1>4. seenStore' = [seenStore EXCEPT ![d] = Persisted(flush.seen)]
  BY <1>0 DEF FlushStores
<1>5. seenStore' \in [Tabs -> Seq(Keys)]
  BY <1>3, <1>4 DEF Places
<1>6. \A t \in Tabs : IsInjective(seenStore'[t]) /\ Len(seenStore'[t]) <= SeenCap
  BY <1>3, <1>4 DEF Places, Caps
<1>7. sentStore' \in [Tabs -> BOOLEAN]
  BY <1>0 DEF FlushStores, Places
<1>8. disk' \in [Keys -> Nat \cup {Unstamped}]
  BY <1>0, StampTypes DEF FlushStores, Places
<1>9. shipped' \in [Tabs -> Seq(Observations)]
  <2>1. shipped[d] \o Taken(out, accepted) \in Seq(Observations)
    BY <1>1, ElementsOfConcat DEF Places
  <2> QED
    BY <1>0, <2>1 DEF FlushStores, Places
<1>10. beats' \in [Tabs -> Nat]
  BY <1>0, <1>1 DEF FlushStores, Places
<1>11. reports' \subseteq Keys \X Nat
  <2>1. clock \in Nat
    BY AgentAssumption DEF Places
  <2>2. reports' = reports \cup {<<k, clock>> : k \in UNION {KeysOf(obs) : obs \in ToSet(Taken(out, accepted))}}
    BY <1>0 DEF FlushStores
  <2> QED
    BY <1>1, <2>1, <2>2 DEF Places
<1> QED
  BY <1>0, <1>5, <1>6, <1>7, <1>8, <1>9, <1>10, <1>11

LEMMA FlushType ==
  ASSUME TypeInv, NEW d \in Tabs, NEW accepted, FlushEnds(d, accepted)
  PROVE  TypeInv'
<1> USE DEF TypeInv
<1>1. /\ seenStore' \in [Tabs -> Seq(Keys)] /\ sentStore' \in [Tabs -> BOOLEAN]
      /\ disk' \in [Keys -> Nat \cup {Unstamped}]
      /\ shipped' \in [Tabs -> Seq(Observations)] /\ beats' \in [Tabs -> Nat]
      /\ reports' \subseteq Keys \X Nat /\ clock' = clock
      /\ \A t \in Tabs : IsInjective(seenStore'[t]) /\ Len(seenStore'[t]) <= SeenCap
  BY FlushStoresType
<1>2. CASE Leave(d, Converted(d), accepted)
  <2>1. Unload(d)
    BY <1>2 DEF Leave
  <2> QED
    BY <1>1, <2>1, UnloadType DEF Places, Caps
<1>3. CASE Hide(d, Converted(d), accepted)
  <2> DEFINE flush == Converted(d)
  <2>1. /\ seen' = [seen EXCEPT ![d] = flush.seen] /\ pending' = [pending EXCEPT ![d] = Kept(flush.out, accepted)]
        /\ queue' = [queue EXCEPT ![d] = <<>>] /\ inlineQueue' = [inlineQueue EXCEPT ![d] = <<>>]
        /\ device' = [device EXCEPT ![d] = Restamped(d, Stamped(flush.out, accepted))]
        /\ UNCHANGED <<open, elements, rounds, memo, inherited>>
        /\ open[d]
    BY <1>3 DEF Hide
  <2>2. flush.seen \in Seq(Keys) /\ Kept(flush.out, accepted) \in Seq(Observations)
    BY FlushTypes
  <2>3. IsInjective(flush.seen)
    BY ConvertedKeeps DEF Caps
  <2>4. Restamped(d, Stamped(flush.out, accepted)) \in [Keys -> Nat \cup {Unstamped}]
    BY StampTypes
  <2>5. persistDue' \in [Tabs -> BOOLEAN]
    <3>1. \E b : persistDue' = [persistDue EXCEPT ![d] = persistDue[d] \/ b]
      BY <1>3 DEF Hide
    <3> QED
      BY <3>1 DEF Places
  <2> HIDE DEF flush
  <2>6. /\ seen' \in [Tabs -> Seq(Keys)] /\ pending' \in [Tabs -> Seq(Observations)]
        /\ queue' \in [Tabs -> Seq(Observations)] /\ inlineQueue' \in [Tabs -> Seq(InlineCaptures)]
        /\ device' \in [Tabs -> [Keys -> Nat \cup {Unstamped}]]
    BY <2>1, <2>2, <2>4 DEF Places
  <2>7. Places'
    BY <1>1, <2>1, <2>5, <2>6 DEF Places
  <2>8. Caps'
    BY <1>1, <2>1, <2>3 DEF Places, Caps
  <2>9. Closed'
    BY <2>1 DEF Places, Closed
  <2> QED
    BY <2>7, <2>8, <2>9
<1> QED
  BY <1>2, <1>3 DEF FlushEnds

LEMMA TypeInvStep ==
  ASSUME TypeInv, [Next]_vars
  PROVE  TypeInv'
<1>1. ASSUME NEW d \in Tabs, Captures(d) PROVE TypeInv'
  BY <1>1, CapturesObserve, CaptureType
<1>2. ASSUME NEW t \in 0..MaxClock, SetClock(t) PROVE TypeInv'
  BY <1>2 DEF SetClock, TypeInv, Places, Caps, Closed, documentVars, storeVars, historyVars
<1>3. CASE UNCHANGED vars
  BY <1>3 DEF vars, TypeInv, Places, Caps, Closed, documentVars, storeVars, historyVars
<1> QED
  BY <1>1, <1>2, <1>3, StepCases, LoadType, DiscardType, NewSessionType, CaptureInlineType, IdleTickType,
     PersistSeenType, DigestType, FlushType

LEMMA TypeInvariant == Spec => []TypeInv
<1>1. Init => TypeInv
  <2> SUFFICES ASSUME Init PROVE TypeInv
    OBVIOUS
  <2> DEFINE Empty == [d \in Tabs |-> <<>>]
  <2>1. /\ seen = Empty /\ seenStore = Empty /\ inherited = Empty /\ queue = Empty /\ inlineQueue = Empty
        /\ rounds = Empty /\ pending = Empty /\ shipped = Empty
        /\ elements = [d \in Tabs |-> {}] /\ memo = [d \in Tabs |-> {}]
    BY DEF Init
  <2>2. NoStamps \in [Keys -> Nat \cup {Unstamped}]
    BY DEF NoStamps
  <2>3. Places
    BY <2>1, <2>2, AgentAssumption DEF Init, Places
  <2>4. Caps
    <3>1. IsInjective(<<>>) /\ Len(<<>>) <= SeenCap /\ DOMAIN <<>> = {}
      BY AgentAssumption DEF IsInjective
    <3>2. IsFiniteSet({}) /\ Cardinality({}) <= MemoCap
      BY FS_EmptySet, AgentAssumption
    <3> QED
      BY <2>1, <3>1, <3>2 DEF Caps
  <2>5. Closed
    BY <2>1 DEF Closed
  <2> QED
    BY <2>3, <2>4, <2>5 DEF TypeInv
<1> QED
  BY <1>1, TypeInvStep, PTL DEF Spec

\* All that the agent stores or sends stays what it is meant to hold: session
\* sets without repeats, stores and memos within their caps, no empty round.
THEOREM TypeCorrect == Spec => []TypeOK
<1>1. TypeInv => TypeOK
  <2> SUFFICES ASSUME TypeInv PROVE TypeOK
    OBVIOUS
  <2> USE DEF TypeInv
  <2>1. ASSUME NEW d \in Tabs
        PROVE  /\ ToSet(seen[d]) \subseteq Keys /\ ToSet(seenStore[d]) \subseteq Keys /\ ToSet(inherited[d]) \subseteq Keys
               /\ ToSet(queue[d]) \subseteq Observations /\ ToSet(pending[d]) \subseteq Observations
               /\ ToSet(shipped[d]) \subseteq Observations
               /\ ToSet(inlineQueue[d]) \subseteq InlineCaptures
    BY ElementsOf DEF Places
  <2>2. ASSUME NEW d \in Tabs, NEW r \in DOMAIN rounds[d] PROVE ToSet(rounds[d][r]) \subseteq InlineCaptures
    <3>1. rounds[d][r] \in Seq(InlineCaptures)
      BY DEF Places
    <3> QED
      BY <3>1, ElementsOf
  <2>3. ASSUME NEW d \in Tabs
        PROVE  /\ elements[d] \subseteq InlineCaptures /\ memo[d] \subseteq AllHosts \X Sources
               /\ device[d] \in [Keys -> Nat \cup {Unstamped}]
    BY DEF Places
  <2>4. /\ clock \in 0..MaxClock
        /\ open \in [Tabs -> BOOLEAN] /\ persistDue \in [Tabs -> BOOLEAN] /\ sentStore \in [Tabs -> BOOLEAN]
        /\ disk \in [Keys -> Nat \cup {Unstamped}]
        /\ beats \in [Tabs -> Nat] /\ reports \subseteq Keys \X Nat
    BY DEF Places
  <2> QED
    BY <2>1, <2>2, <2>3, <2>4 DEF TypeOK, Caps
<1> QED
  BY <1>1, TypeInvariant, PTL

(***************************************************************************)
(* The invariants.                                                         *)
(***************************************************************************)
\* A session whose heartbeat was accepted knows that a beacon has left it.
BeatInv == \A d \in Tabs : beats[d] <= 1 /\ (beats[d] = 1 => sentStore[d])

\* A stamp stands for an accepted key and the time it was accepted at.
StampInv ==
  \A k \in Keys :
    /\ disk[k] # Unstamped => <<k, disk[k]>> \in reports
    /\ \A d \in Tabs : device[d][k] # Unstamped => <<k, device[d][k]>> \in reports

Ids(s) == {obs.id : obs \in ToSet(s)}

Distinct(s) == \A i, j \in DOMAIN s : s[i].id = s[j].id => i = j

\* What goes out under a URL and an initiator is gated on the URL, too.
StampsUrl(obs) == \A u \in Urls, h \in AllHosts : obs.id = urlWithInitiatorKey(u, h) => urlKey(u) \in obs.stamps

Outgoing(d) == ToSet(queue[d]) \cup ToSet(pending[d]) \cup ToSet(shipped[d])

UrlInv == \A d \in Tabs : \A obs \in Outgoing(d) : StampsUrl(obs)

\* Nothing is stored twice, and all that was sent or waits is marked where the
\* next capture, or the next page of the session, will look for it.
Apart(d) ==
  /\ Distinct(queue[d]) /\ Distinct(pending[d]) /\ Distinct(shipped[d])
  /\ Ids(queue[d]) \cap Ids(pending[d]) = {}
  /\ (Ids(queue[d]) \cup Ids(pending[d])) \cap Ids(shipped[d]) = {}
  /\ \A obs \in ToSet(shipped[d]) : KeysOf(obs) \subseteq ToSet(seenStore[d])
  /\ open[d] => \A obs \in Outgoing(d) : KeysOf(obs) \subseteq ToSet(seen[d])

OnceAt(d) ==
  /\ open[d] => Len(seenStore[d]) <= Len(seen[d])
  /\ Len(seenStore[d]) < SeenCap => Apart(d)

OnceInv == \A d \in Tabs : OnceAt(d)

(***************************************************************************)
(* What has left the device is written by flushes, and by new sessions.    *)
(***************************************************************************)
LEMMA HistoryCases ==
  ASSUME [Next]_vars
  PROVE  \/ \E d \in Tabs : \E accepted : FlushEnds(d, accepted)
         \/ \E d \in Tabs : NewSession(d)
         \/ UNCHANGED <<sentStore, disk, shipped, beats, reports>>
<1>1. ASSUME NEW d \in Tabs, Captures(d) PROVE UNCHANGED <<sentStore, disk, shipped, beats, reports>>
  BY <1>1 DEF Captures, Capture, storeVars, historyVars
<1>2. ASSUME NEW d \in Tabs, Load(d) \/ Discard(d) \/ IdleTick(d) \/ PersistSeen(d)
      PROVE  UNCHANGED <<sentStore, disk, shipped, beats, reports>>
  BY <1>2 DEF Load, Discard, IdleTick, PersistSeen, storeVars, historyVars
<1>3. ASSUME NEW d \in Tabs, NEW r, NEW ok, Digest(d, r, ok) PROVE UNCHANGED <<sentStore, disk, shipped, beats, reports>>
  BY <1>3 DEF Digest, storeVars, historyVars
<1>4. ASSUME NEW d \in Tabs, NEW e, NEW h, CaptureInline(d, e, h)
      PROVE  UNCHANGED <<sentStore, disk, shipped, beats, reports>>
  BY <1>4 DEF CaptureInline, storeVars, historyVars
<1>5. ASSUME UNCHANGED vars \/ \E t \in 0..MaxClock : SetClock(t)
      PROVE  UNCHANGED <<sentStore, disk, shipped, beats, reports>>
  BY <1>5 DEF vars, SetClock, storeVars, historyVars
<1> QED
  BY <1>1, <1>2, <1>3, <1>4, <1>5, StepCases

LEMMA BeatInvStep ==
  ASSUME TypeInv, BeatInv, [Next]_vars
  PROVE  BeatInv'
<1> USE DEF TypeInv
<1>1. ASSUME NEW d \in Tabs, NEW accepted, FlushEnds(d, accepted) PROVE BeatInv'
  <2> DEFINE out == Converted(d).out
  <2>1. /\ accepted \in 0..Beacons(d)
        /\ sentStore' = [sentStore EXCEPT ![d] = sentStore[d] \/ accepted > 0]
        /\ beats' = [beats EXCEPT ![d] = IF out = <<>> THEN beats[d] + accepted ELSE beats[d]]
    BY <1>1 DEF FlushEnds, Hide, Leave, FlushStores
  <2>2. Beacons(d) \in Nat /\ (out = <<>> => Beacons(d) = IF sentStore[d] THEN 0 ELSE 1)
    BY BeaconsCount
  <2> HIDE DEF out
  <2>3. beats \in [Tabs -> Nat] /\ sentStore \in [Tabs -> BOOLEAN]
    BY DEF Places
  <2>4. \A t \in Tabs : t # d => beats'[t] = beats[t] /\ sentStore'[t] = sentStore[t]
    BY <2>1, <2>3
  <2>5. sentStore'[d] = (sentStore[d] \/ accepted > 0)
    BY <2>1, <2>3
  <2>6. beats'[d] = IF out = <<>> THEN beats[d] + accepted ELSE beats[d]
    BY <2>1, <2>3
  <2>7. beats[d] \in Nat /\ accepted \in Nat /\ beats[d] <= 1 /\ (beats[d] = 1 => sentStore[d])
    BY <2>1, <2>2, <2>3 DEF BeatInv
  <2>8. CASE out = <<>> /\ ~sentStore[d]
    <3>1. beats[d] = 0 /\ accepted <= 1
      BY <2>1, <2>2, <2>7, <2>8
    <3>2. beats'[d] = accepted
      BY <2>6, <2>7, <2>8, <3>1
    <3>3. beats'[d] <= 1 /\ (beats'[d] = 1 => sentStore'[d])
      <4>1. beats'[d] <= 1
        BY <3>1, <3>2
      <4>2. accepted = 1 => accepted > 0
        OBVIOUS
      <4> QED
        BY <2>5, <3>2, <4>1, <4>2
    <3> QED
      BY <2>4, <3>3 DEF BeatInv
  <2>9. CASE ~(out = <<>> /\ ~sentStore[d])
    <3>1. beats'[d] = beats[d]
      BY <2>1, <2>2, <2>6, <2>7, <2>9
    <3> QED
      BY <2>4, <2>5, <2>7, <3>1 DEF BeatInv
  <2> QED
    BY <2>8, <2>9
<1>2. ASSUME NEW d \in Tabs, NewSession(d) PROVE BeatInv'
  <2>1. beats' = [beats EXCEPT ![d] = 0] /\ sentStore' = [sentStore EXCEPT ![d] = FALSE]
    BY <1>2 DEF NewSession
  <2>2. beats'[d] = 0 /\ \A t \in Tabs : t # d => beats'[t] = beats[t] /\ sentStore'[t] = sentStore[t]
    BY <2>1 DEF Places
  <2> QED
    BY <2>2 DEF BeatInv
<1>3. CASE UNCHANGED <<sentStore, disk, shipped, beats, reports>>
  BY <1>3 DEF BeatInv
<1> QED
  BY <1>1, <1>2, <1>3, HistoryCases

\* A session sends at most one heartbeat, over any number of its pages.
THEOREM HeartbeatIsOne == Spec => []OneHeartbeat
<1>1. Init => BeatInv
  BY DEF Init, BeatInv
<1>2. BeatInv => OneHeartbeat
  BY DEF BeatInv, OneHeartbeat
<1> QED
  BY <1>1, <1>2, BeatInvStep, TypeInvariant, PTL DEF Spec

(***************************************************************************)
(* The device set.                                                         *)
(***************************************************************************)
LEMMA StampInvStep ==
  ASSUME TypeInv, StampInv, [Next]_vars
  PROVE  StampInv' /\ reports \subseteq reports'
<1> USE DEF TypeInv
<1>1. ASSUME NEW d \in Tabs, NEW accepted, FlushEnds(d, accepted) PROVE StampInv' /\ reports \subseteq reports'
  <2> DEFINE out == Converted(d).out
             sent == UNION {KeysOf(obs) : obs \in ToSet(Taken(out, accepted))}
             ks == Stamped(out, accepted)
  <2>1. /\ disk' = IF ks = {} THEN disk ELSE Restamped(d, ks)
        /\ reports' = reports \cup {<<k, clock>> : k \in sent}
        /\ device' = [device EXCEPT ![d] = NoStamps] \/ device' = [device EXCEPT ![d] = Restamped(d, ks)]
    BY <1>1 DEF FlushEnds, Hide, Leave, FlushStores, Unload
  <2>2. ks \subseteq sent
    BY <1>1, FlushTypes
  <2> HIDE DEF sent, ks
  <2>3. /\ device \in [Tabs -> [Keys -> Nat \cup {Unstamped}]] /\ disk \in [Keys -> Nat \cup {Unstamped}]
    BY DEF Places
  <2>4. ASSUME NEW k \in Keys, Restamped(d, ks)[k] # Unstamped PROVE <<k, Restamped(d, ks)[k]>> \in reports'
    <3>1. \/ Restamped(d, ks)[k] = device[d][k] \/ Restamped(d, ks)[k] = disk[k]
          \/ Restamped(d, ks)[k] = clock /\ k \in ks
      BY DEF Restamped, Newer
    <3> QED
      BY <2>1, <2>2, <2>4, <3>1 DEF StampInv
  <2>5. ASSUME NEW k \in Keys, disk'[k] # Unstamped PROVE <<k, disk'[k]>> \in reports'
    BY <2>1, <2>4, <2>5 DEF StampInv
  <2>6. ASSUME NEW t \in Tabs, NEW k \in Keys, device'[t][k] # Unstamped PROVE <<k, device'[t][k]>> \in reports'
    <3>1. device'[t] = device[t] \/ device'[t] = NoStamps \/ device'[t] = Restamped(d, ks)
      BY <2>1, <2>3
    <3>2. NoStamps[k] = Unstamped
      BY DEF NoStamps
    <3> QED
      BY <2>1, <2>4, <2>6, <3>1, <3>2 DEF StampInv
  <2> QED
    BY <2>1, <2>5, <2>6 DEF StampInv
<1>2. ASSUME NEW d \in Tabs, Load(d) PROVE StampInv' /\ reports' = reports
  <2>1. device' = [device EXCEPT ![d] = LoadedDevice] /\ disk' = disk /\ reports' = reports
    BY <1>2 DEF Load, storeVars, historyVars
  <2>2. \A k \in Keys : LoadedDevice[k] = Unstamped \/ LoadedDevice[k] = disk[k]
    BY DEF LoadedDevice
  <2>3. \A t \in Tabs : device'[t] = device[t] \/ device'[t] = LoadedDevice
    BY <2>1 DEF Places
  <2> QED
    BY <2>1, <2>2, <2>3 DEF StampInv
<1>3. ASSUME NEW d \in Tabs, Discard(d) PROVE StampInv' /\ reports' = reports
  <2>1. device' = [device EXCEPT ![d] = NoStamps] /\ disk' = disk /\ reports' = reports
    BY <1>3 DEF Discard, Unload, storeVars, historyVars
  <2>2. \A k \in Keys : NoStamps[k] = Unstamped
    BY DEF NoStamps
  <2>3. \A t \in Tabs : device'[t] = device[t] \/ device'[t] = NoStamps
    BY <2>1 DEF Places
  <2> QED
    BY <2>1, <2>2, <2>3 DEF StampInv
<1>4. ASSUME NEW d \in Tabs, Captures(d) PROVE UNCHANGED <<device, disk, reports>>
  BY <1>4 DEF Captures, Capture, storeVars, historyVars
<1>5. ASSUME NEW d \in Tabs, NewSession(d) \/ IdleTick(d) \/ PersistSeen(d) PROVE UNCHANGED <<device, disk, reports>>
  BY <1>5 DEF NewSession, IdleTick, PersistSeen, documentVars, storeVars, historyVars
<1>6. ASSUME NEW d \in Tabs, NEW r, NEW ok, Digest(d, r, ok) PROVE UNCHANGED <<device, disk, reports>>
  BY <1>6 DEF Digest, storeVars, historyVars
<1>7. ASSUME NEW d \in Tabs, NEW e, NEW h, CaptureInline(d, e, h) PROVE UNCHANGED <<device, disk, reports>>
  BY <1>7 DEF CaptureInline, storeVars, historyVars
<1>8. ASSUME UNCHANGED vars \/ \E t \in 0..MaxClock : SetClock(t) PROVE UNCHANGED <<device, disk, reports>>
  BY <1>8 DEF vars, SetClock, documentVars, storeVars, historyVars
<1>9. CASE UNCHANGED <<device, disk, reports>>
  BY <1>9 DEF StampInv
<1> QED
  BY <1>1, <1>2, <1>3, <1>4, <1>5, <1>6, <1>7, <1>8, <1>9, StepCases

LEMMA StampInvariant == Spec => []StampInv
<1>1. Init => StampInv
  BY DEF Init, StampInv, NoStamps
<1>2. TypeInv /\ StampInv /\ [Next]_vars => StampInv'
  BY StampInvStep
<1> QED
  BY <1>1, <1>2, TypeInvariant, PTL DEF Spec

\* What the device stays silent about was accepted for delivery, less than the
\* window ago on its clock, whichever tab stamped it and however it was merged.
THEOREM SilenceHasCause == Spec => []SilenceIsEarned
<1>1. StampInv => SilenceIsEarned
  <2> SUFFICES ASSUME StampInv, NEW d \in Tabs, NEW k \in Keys, DeviceHasSeen(d, k)
               PROVE  \E r \in reports : r[1] = k /\ r[2] <= clock /\ clock - r[2] < DeviceTtl
    BY DEF SilenceIsEarned
  <2>1. <<k, device[d][k]>> \in reports
    BY DEF StampInv, DeviceHasSeen, StampIsLive
  <2>2. device[d][k] <= clock /\ clock - device[d][k] < DeviceTtl
    BY DEF DeviceHasSeen, StampIsLive
  <2> QED
    BY <2>1, <2>2
<1> QED
  BY <1>1, StampInvariant, PTL

(***************************************************************************)
(* A step is that of one tab, and leaves the others as they are.           *)
(***************************************************************************)
TabStep(d) ==
  \/ Load(d) \/ Discard(d) \/ NewSession(d) \/ Captures(d)
  \/ \E e \in Elements, h \in Hosts \cup {DocHost} : CaptureInline(d, e, h)
  \/ IdleTick(d) \/ PersistSeen(d)
  \/ \E r \in 1..Cardinality(Elements), ok \in BOOLEAN : Digest(d, r, ok)
  \/ \E accepted : FlushEnds(d, accepted)

SameTab(t) ==
  /\ open'[t] = open[t] /\ seen'[t] = seen[t] /\ seenStore'[t] = seenStore[t] /\ inherited'[t] = inherited[t]
  /\ queue'[t] = queue[t] /\ pending'[t] = pending[t] /\ shipped'[t] = shipped[t]
  /\ inlineQueue'[t] = inlineQueue[t] /\ rounds'[t] = rounds[t]
  /\ elements'[t] = elements[t] /\ memo'[t] = memo[t]

LEMMA OtherTabs ==
  ASSUME TypeInv, NEW d \in Tabs, TabStep(d), NEW t \in Tabs, t # d
  PROVE  SameTab(t)
<1> USE DEF TypeInv, SameTab
<1>1. ASSUME Captures(d) PROVE SameTab(t)
  BY <1>1 DEF Captures, Capture, Mark, Places, storeVars, historyVars
<1>2. CASE Load(d)
  BY <1>2 DEF Load, Places, storeVars, historyVars
<1>3. CASE Discard(d)
  BY <1>3 DEF Discard, Unload, Places, storeVars, historyVars
<1>4. CASE NewSession(d)
  BY <1>4 DEF NewSession, Places, documentVars
<1>5. CASE IdleTick(d)
  BY <1>5 DEF IdleTick, Places, storeVars, historyVars
<1>6. CASE PersistSeen(d)
  BY <1>6 DEF PersistSeen, Places, historyVars
<1>7. ASSUME NEW r, NEW ok, Digest(d, r, ok) PROVE SameTab(t)
  <2>1. \E e : seen' = [seen EXCEPT ![d] = e.seen] /\ pending' = [pending EXCEPT ![d] = e.out]
    BY <1>7 DEF Digest
  <2>2. \E m : memo' = [memo EXCEPT ![d] = m] \/ memo' = memo
    BY <1>7 DEF Digest
  <2>3. \E q : rounds' = [rounds EXCEPT ![d] = q]
    BY <1>7 DEF Digest
  <2>4. seen'[t] = seen[t] /\ pending'[t] = pending[t]
    BY <2>1 DEF Places
  <2>5. memo'[t] = memo[t]
    BY <2>2 DEF Places
  <2>6. rounds'[t] = rounds[t]
    BY <2>3 DEF Places
  <2> QED
    BY <1>7, <2>4, <2>5, <2>6 DEF Digest, storeVars, historyVars
<1>8. ASSUME NEW e, NEW h, CaptureInline(d, e, h) PROVE SameTab(t)
  BY <1>8 DEF CaptureInline, Places, storeVars, historyVars
<1>9. ASSUME NEW accepted, FlushEnds(d, accepted) PROVE SameTab(t)
  <2>1. /\ \E x : shipped' = [shipped EXCEPT ![d] = x]
        /\ \E x : seenStore' = [seenStore EXCEPT ![d] = x]
    BY <1>9 DEF FlushEnds, Hide, Leave, FlushStores
  <2>2. shipped'[t] = shipped[t] /\ seenStore'[t] = seenStore[t]
    BY <2>1 DEF Places
  <2>3. CASE Hide(d, Converted(d), accepted)
    <3>1. /\ \E x : seen' = [seen EXCEPT ![d] = x]
          /\ \E x : pending' = [pending EXCEPT ![d] = x]
          /\ queue' = [queue EXCEPT ![d] = <<>>] /\ inlineQueue' = [inlineQueue EXCEPT ![d] = <<>>]
          /\ UNCHANGED <<open, elements, rounds, memo, inherited>>
      BY <2>3 DEF Hide
    <3> QED
      BY <2>2, <3>1 DEF Places
  <2>4. CASE Leave(d, Converted(d), accepted)
    BY <2>2, <2>4 DEF Leave, Unload, Places
  <2> QED
    BY <1>9, <2>3, <2>4 DEF FlushEnds
<1> QED
  BY <1>1, <1>2, <1>3, <1>4, <1>5, <1>6, <1>7, <1>8, <1>9 DEF TabStep

LEMMA TabCases ==
  ASSUME TypeInv, [Next]_vars
  PROVE  \A t \in Tabs : TabStep(t) \/ SameTab(t)
<1>1. (\E d \in Tabs : TabStep(d)) \/ \A t \in Tabs : SameTab(t)
  BY StepCases DEF TabStep, SameTab, SetClock, vars, documentVars, storeVars, historyVars
<1> QED
  BY <1>1, OtherTabs

(***************************************************************************)
(* What is marked is carried.                                              *)
(***************************************************************************)
Borne(t, k) == WasReported(k) \/ \E obs \in Outgoing(t) : k \in KeysOf(obs)

CarryInv == \A t \in Tabs : \A k \in ToSet(seen[t]) : k \in ToSet(inherited[t]) \/ Borne(t, k)

\* What bears a mark still does, and each new mark has what bears it.
LEMMA CarryStep ==
  ASSUME CarryInv, NEW t \in Tabs, inherited'[t] = inherited[t], reports \subseteq reports',
         Outgoing(t) \subseteq Outgoing(t)',
         \A k \in ToSet(seen'[t]) : k \in ToSet(seen[t]) \/ Borne(t, k)'
  PROVE  \A k \in ToSet(seen'[t]) : k \in ToSet(inherited'[t]) \/ Borne(t, k)'
<1> SUFFICES ASSUME NEW k \in ToSet(seen'[t]), k \in ToSet(seen[t])
             PROVE  k \in ToSet(inherited'[t]) \/ Borne(t, k)'
  OBVIOUS
<1>1. k \in ToSet(inherited[t]) \/ Borne(t, k)
  BY DEF CarryInv
<1>2. WasReported(k) => WasReported(k)'
  BY DEF WasReported
<1> QED
  BY <1>1, <1>2 DEF Borne

LEMMA FlushOutgoing ==
  ASSUME TypeInv, NEW d \in Tabs, NEW accepted, FlushEnds(d, accepted), Hide(d, Converted(d), accepted)
  PROVE  /\ Outgoing(d)' = ToSet(shipped[d]) \cup ToSet(Converted(d).out)
         /\ seen'[d] = Converted(d).seen /\ inherited'[d] = inherited[d]
<1> USE DEF TypeInv
<1> DEFINE flush == Converted(d)
           taken == Taken(flush.out, accepted)
           kept == Kept(flush.out, accepted)
<1>1. taken \in Seq(Observations) /\ kept \in Seq(Observations) /\ taken \o kept = flush.out
  BY FlushTypes
<1>2. shipped[d] \in Seq(Observations)
  BY DEF Places
<1>3. /\ seen' = [seen EXCEPT ![d] = flush.seen] /\ pending' = [pending EXCEPT ![d] = kept]
      /\ queue' = [queue EXCEPT ![d] = <<>>] /\ shipped' = [shipped EXCEPT ![d] = shipped[d] \o taken]
      /\ inherited' = inherited
  BY DEF Hide, FlushStores
<1> HIDE DEF flush, taken, kept
<1>4. ToSet(shipped[d] \o taken) = ToSet(shipped[d]) \cup ToSet(taken) /\ ToSet(flush.out) = ToSet(taken) \cup ToSet(kept)
  <2>1. ToSet(taken \o kept) = ToSet(taken) \cup ToSet(kept)
    BY <1>1, ElementsOfConcat
  <2>2. ToSet(shipped[d] \o taken) = ToSet(shipped[d]) \cup ToSet(taken)
    BY <1>1, <1>2, ElementsOfConcat
  <2> QED
    BY <1>1, <2>1, <2>2
<1>5. /\ seen'[d] = flush.seen /\ pending'[d] = kept /\ queue'[d] = <<>> /\ shipped'[d] = shipped[d] \o taken
  BY <1>3 DEF Places
<1>6. ToSet(queue'[d]) = {}
  BY <1>5 DEF ToSet
<1> QED
  BY <1>3, <1>4, <1>5, <1>6 DEF Outgoing, flush

LEMMA CarryInvStep ==
  ASSUME TypeInv, StampInv, CarryInv, [Next]_vars
  PROVE  CarryInv'
<1> USE DEF TypeInv
<1>0. TypeInv' /\ StampInv' /\ reports \subseteq reports'
  BY TypeInvStep, StampInvStep
<1> SUFFICES ASSUME NEW d \in Tabs PROVE \A k \in ToSet(seen'[d]) : k \in ToSet(inherited'[d]) \/ Borne(d, k)'
  BY DEF CarryInv
<1>1. CASE SameTab(d)
  <2>1. /\ inherited'[d] = inherited[d] /\ seen'[d] = seen[d] /\ Outgoing(d)' = Outgoing(d)
    BY <1>1 DEF SameTab, Outgoing
  <2> QED
    BY <1>0, <2>1, CarryStep
<1>2. CASE Load(d)
  <2>1. seen'[d] = seenStore[d] /\ inherited'[d] = seenStore[d]
    BY <1>2 DEF Load, Places
  <2> QED
    BY <2>1
<1>3. ASSUME ~open'[d] PROVE \A k \in ToSet(seen'[d]) : k \in ToSet(inherited'[d]) \/ Borne(d, k)'
  <2>1. seen'[d] = <<>>
    BY <1>0, <1>3 DEF Closed
  <2>2. ToSet(<<>>) = {}
    BY DEF ToSet
  <2> QED
    BY <2>1, <2>2
<1>4. CASE Discard(d) \/ NewSession(d)
  <2>1. ~open'[d]
    BY <1>4 DEF Discard, Unload, NewSession, Places
  <2> QED
    BY <1>3, <2>1
<1>5. CASE Captures(d)
  <2>0. PICK gate : \E obs \in Observations : Capture(d, gate, obs) /\ IsFiniteSet(obs.stamps)
    BY <1>5, CapturesObserve
  <2>1. PICK obs \in Observations : Capture(d, gate, obs) /\ IsFiniteSet(obs.stamps)
    BY <2>0
  <2>2. ToSet(seen'[d]) = ToSet(seen[d]) \cup obs.stamps /\ ToSet(queue'[d]) = ToSet(queue[d]) \cup {obs}
    BY <2>1, CaptureType
  <2>3. inherited' = inherited /\ pending' = pending /\ shipped' = shipped
    BY <2>1 DEF Capture, historyVars
  <2>4. Outgoing(d)' = Outgoing(d) \cup {obs}
    BY <2>2, <2>3 DEF Outgoing
  <2>5. \A k \in obs.stamps : Borne(d, k)'
    BY <2>4 DEF Borne, KeysOf
  <2> QED
    BY <1>0, <2>2, <2>3, <2>4, <2>5, CarryStep
<1>6. ASSUME NEW e, NEW h, CaptureInline(d, e, h)
      PROVE  \A k \in ToSet(seen'[d]) : k \in ToSet(inherited'[d]) \/ Borne(d, k)'
  <2>1. inherited' = inherited /\ seen' = seen /\ queue' = queue /\ pending' = pending /\ shipped' = shipped
    BY <1>6 DEF CaptureInline, historyVars
  <2> QED
    BY <1>0, <2>1, CarryStep DEF Outgoing
<1>7. CASE IdleTick(d)
  <2>1. pending'[d] = pending[d] \o queue[d] /\ queue'[d] = <<>>
    BY <1>7, IdleTickType
  <2>2. inherited' = inherited /\ seen' = seen /\ shipped' = shipped
    BY <1>7 DEF IdleTick, historyVars
  <2>3. pending[d] \in Seq(Observations) /\ queue[d] \in Seq(Observations)
    BY DEF Places
  <2>4. ToSet(pending'[d]) = ToSet(pending[d]) \cup ToSet(queue[d])
    BY <2>1, <2>3, ElementsOfConcat
  <2>5. Outgoing(d) \subseteq Outgoing(d)'
    BY <2>2, <2>4 DEF Outgoing
  <2> QED
    BY <1>0, <2>2, <2>5, CarryStep
<1>8. CASE PersistSeen(d)
  <2>1. inherited' = inherited /\ seen' = seen /\ queue' = queue /\ pending' = pending /\ shipped' = shipped
    BY <1>8 DEF PersistSeen, historyVars
  <2> QED
    BY <1>0, <2>1, CarryStep DEF Outgoing
<1>9. ASSUME NEW r, NEW ok \in BOOLEAN, Digest(d, r, ok)
      PROVE  \A k \in ToSet(seen'[d]) : k \in ToSet(inherited'[d]) \/ Borne(d, k)'
  <2>0. PICK c \in InlineCaptures, hashed \in BOOLEAN :
          LET o == InlineObservation(c, hashed)
              f == Emit(d, seen[d], pending[d], o)
          IN /\ o \in Observations /\ Emitted(f, d, seen[d], pending[d], o)
             /\ seen' = [seen EXCEPT ![d] = f.seen] /\ pending' = [pending EXCEPT ![d] = f.out]
    BY <1>9, DigestEmits
  <2> DEFINE obs == InlineObservation(c, hashed)
             e == Emit(d, seen[d], pending[d], obs)
  <2>1. /\ obs \in Observations /\ Emitted(e, d, seen[d], pending[d], obs)
        /\ seen' = [seen EXCEPT ![d] = e.seen] /\ pending' = [pending EXCEPT ![d] = e.out]
    BY <2>0
  <2> HIDE DEF obs, e
  <2>2. seen'[d] = e.seen /\ pending'[d] = e.out
    BY <2>1 DEF Places
  <2>3. pending[d] \in Seq(Observations)
    BY DEF Places
  <2>4. UNCHANGED <<inherited, queue, shipped, device, disk, clock, reports>>
    BY <1>9 DEF Digest, storeVars, historyVars
  <2>5. ToSet(pending[d]) \subseteq ToSet(pending'[d]) /\ ToSet(seen'[d]) = ToSet(seen[d]) \cup {obs.id}
    BY <2>1, <2>2 DEF Emitted
  <2>6. Outgoing(d) \subseteq Outgoing(d)'
    BY <2>4, <2>5 DEF Outgoing
  <2>7. obs.id \in ToSet(seen[d]) \/ Borne(d, obs.id)'
    <3>1. CASE DeviceHasSeen(d, obs.id)
      <4>1. obs.id \in Keys
        BY <2>1 DEF Observations
      <4>2. <<obs.id, device[d][obs.id]>> \in reports
        BY <3>1, <4>1 DEF DeviceHasSeen, StampIsLive, StampInv
      <4> QED
        BY <2>4, <4>2 DEF Borne, WasReported
    <3>2. CASE obs.id \notin ToSet(seen[d]) /\ ~DeviceHasSeen(d, obs.id)
      <4>1. pending'[d] = Append(pending[d], obs)
        BY <2>1, <2>2, <3>2 DEF Emitted
      <4>2. obs \in ToSet(pending'[d])
        <5>1. ToSet(Append(pending[d], obs)) = ToSet(pending[d]) \cup {obs}
          BY <2>1, <2>3, ElementsOfAppend
        <5> QED
          BY <4>1, <5>1
      <4> QED
        BY <4>2 DEF Borne, KeysOf, Outgoing
    <3> QED
      BY <3>1, <3>2
  <2> QED
    BY <1>0, <2>4, <2>5, <2>6, <2>7, CarryStep
<1>10. ASSUME NEW accepted, FlushEnds(d, accepted)
       PROVE  \A k \in ToSet(seen'[d]) : k \in ToSet(inherited'[d]) \/ Borne(d, k)'
  <2>1. CASE Leave(d, Converted(d), accepted)
    <3>1. ~open'[d]
      BY <2>1 DEF Leave, Unload, Places
    <3> QED
      BY <1>3, <3>1
  <2>2. CASE Hide(d, Converted(d), accepted)
    <3>1. /\ Outgoing(d)' = ToSet(shipped[d]) \cup ToSet(Converted(d).out)
          /\ seen'[d] = Converted(d).seen /\ inherited'[d] = inherited[d]
      BY <1>10, <2>2, FlushOutgoing
    <3>2. /\ Converted(d) \in Emissions
          /\ ToSet(pending[d]) \cup ToSet(queue[d]) \subseteq ToSet(Converted(d).out)
          /\ \A k \in ToSet(Converted(d).seen) :
               k \in ToSet(seen[d]) \/ DeviceHasSeen(d, k) \/ \E obs \in ToSet(Converted(d).out) : obs.id = k
      BY ConvertedKeeps
    <3>3. ToSet(Converted(d).seen) \subseteq Keys
      BY <3>2, ElementsOf DEF Emissions
    <3>4. Outgoing(d) \subseteq Outgoing(d)'
      BY <3>1, <3>2 DEF Outgoing
    <3>5. \A k \in Keys : DeviceHasSeen(d, k) => Borne(d, k)'
      BY <1>0 DEF StampInv, DeviceHasSeen, StampIsLive, Borne, WasReported
    <3>6. \A k \in ToSet(seen'[d]) : k \in ToSet(seen[d]) \/ Borne(d, k)'
      BY <3>1, <3>2, <3>3, <3>5 DEF Borne, KeysOf
    <3> QED
      BY <1>0, <3>1, <3>4, <3>6, CarryStep
  <2> QED
    BY <1>10, <2>1, <2>2 DEF FlushEnds
<1> QED
  BY <1>1, <1>2, <1>4, <1>5, <1>6, <1>7, <1>8, <1>9, <1>10, TabCases DEF TabStep

\* A key that a document has marked, and so keeps quiet about for the session,
\* is one whose observation waits in it, was accepted, or was reported by the
\* device, through full queues, refused beacons and overlapping idle rounds.
THEOREM MarksAreCarried == Spec => []MarkedIsCarried
<1>1. Init => CarryInv
  <2>1. ToSet(<<>>) = {}
    BY DEF ToSet
  <2> QED
    BY <2>1 DEF Init, CarryInv
<1>2. TypeInv /\ StampInv /\ CarryInv /\ [Next]_vars => CarryInv'
  BY CarryInvStep
<1>3. TypeInv /\ CarryInv => MarkedIsCarried
  <2> SUFFICES ASSUME TypeInv, CarryInv, NEW d \in Tabs, NEW k \in ToSet(seen[d]) \ ToSet(inherited[d])
               PROVE  k \in Carried(queue[d] \o pending[d] \o shipped[d]) \/ WasReported(k)
    BY DEF MarkedIsCarried
  <2>1. queue[d] \in Seq(Observations) /\ pending[d] \in Seq(Observations) /\ shipped[d] \in Seq(Observations)
    BY DEF TypeInv, Places
  <2> DEFINE waiting == queue[d] \o pending[d]
  <2>2. waiting \in Seq(Observations) /\ ToSet(waiting) = ToSet(queue[d]) \cup ToSet(pending[d])
    BY <2>1, ElementsOfConcat
  <2> HIDE DEF waiting
  <2>3. ToSet(waiting \o shipped[d]) = ToSet(waiting) \cup ToSet(shipped[d])
    BY <2>1, <2>2, ElementsOfConcat
  <2>4. ToSet(waiting \o shipped[d]) = Outgoing(d)
    BY <2>2, <2>3 DEF Outgoing
  <2> QED
    BY <2>4 DEF CarryInv, Borne, Carried, waiting
<1> QED
  BY <1>1, <1>2, <1>3, TypeInvariant, StampInvariant, PTL DEF Spec

(***************************************************************************)
(* Every inline element is judged.                                         *)
(***************************************************************************)
JudgeAt(t) ==
  /\ \A c \in elements[t] : c \in Awaited(t) \/ \E id \in IdsOf(c) : id \in ToSet(seen[t])
  /\ \A m \in memo[t] : inlineHashKey(m[1], m[2]) \in ToSet(seen[t])

JudgeInv == \A t \in Tabs : JudgeAt(t)

\* The session set only grows while a document lives: what it needs to show is
\* where the new elements are, and where those that were awaited have gone.
LEMMA JudgeStep ==
  ASSUME JudgeInv, NEW t \in Tabs, ToSet(seen[t]) \subseteq ToSet(seen'[t]),
         elements'[t] = elements[t], memo'[t] = memo[t],
         \A c \in Awaited(t) : c \in Awaited(t)' \/ \E id \in IdsOf(c) : id \in ToSet(seen'[t])
  PROVE  JudgeAt(t)'
<1>1. ASSUME NEW c PROVE IdsOf(c)' = IdsOf(c)
  BY DEF IdsOf, InlineObservation, Hashed, Unhashed, Observation, inlineHashKey, inlineWireKey
<1>2. ASSUME NEW c \in elements'[t] PROVE c \in Awaited(t)' \/ \E id \in IdsOf(c)' : id \in ToSet(seen'[t])
  <2>1. c \in Awaited(t) \/ \E id \in IdsOf(c) : id \in ToSet(seen[t])
    BY DEF JudgeInv, JudgeAt
  <2> QED
    BY <1>1, <2>1
<1>3. ASSUME NEW m \in memo'[t] PROVE inlineHashKey(m[1], m[2]) \in ToSet(seen'[t])
  BY DEF JudgeInv, JudgeAt
<1> QED
  BY <1>2, <1>3 DEF JudgeAt

LEMMA IdleTickAwaits ==
  ASSUME TypeInv, NEW d \in Tabs, IdleTick(d)
  PROVE  Awaited(d) \subseteq Awaited(d)'
<1>1. rounds'[d] = (IF inlineQueue[d] = <<>> THEN rounds[d] ELSE Append(rounds[d], inlineQueue[d]))
  BY IdleTickType
<1>2. inlineQueue[d] \in Seq(InlineCaptures) /\ rounds[d] \in Seq(Seq(InlineCaptures))
  BY DEF TypeInv, Places
<1>3. CASE inlineQueue[d] = <<>>
  <2>1. ToSet(inlineQueue[d]) = {} /\ rounds'[d] = rounds[d]
    BY <1>1, <1>3, ElementsOf DEF ToSet
  <2> QED
    BY <2>1 DEF Awaited
<1>4. CASE inlineQueue[d] # <<>>
  <2> DEFINE Q == Seq(InlineCaptures)
             new == Append(rounds[d], inlineQueue[d])
  <2>1. inlineQueue[d] \in Q /\ rounds[d] \in Seq(Q)
    BY <1>2
  <2> HIDE DEF Q
  <2>2. /\ Len(rounds[d]) + 1 \in DOMAIN new /\ new[Len(rounds[d]) + 1] = inlineQueue[d]
        /\ \A r \in DOMAIN rounds[d] : r \in DOMAIN new /\ new[r] = rounds[d][r]
    BY <2>1
  <2>3. rounds'[d] = new
    BY <1>1, <1>4
  <2> HIDE DEF new
  <2> QED
    BY <2>2, <2>3 DEF Awaited
<1> QED
  BY <1>3, <1>4

LEMMA DigestJudges ==
  ASSUME TypeInv, JudgeInv, NEW d \in Tabs, NEW r, NEW ok \in BOOLEAN, Digest(d, r, ok)
  PROVE  JudgeAt(d)'
<1> USE DEF TypeInv
<1>1. PICK c \in InlineCaptures, hashed \in BOOLEAN :
        LET obs == InlineObservation(c, hashed)
            e   == Emit(d, seen[d], pending[d], obs)
        IN /\ r \in DOMAIN rounds[d] /\ c = Head(rounds[d][r]) /\ obs \in Observations
           /\ Emitted(e, d, seen[d], pending[d], obs)
           /\ seen' = [seen EXCEPT ![d] = e.seen] /\ pending' = [pending EXCEPT ![d] = e.out]
           /\ memo' = memo \/ (hashed /\ Cardinality(memo[d]) < MemoCap
                               /\ memo' = [memo EXCEPT ![d] = memo[d] \cup {<<c[2], sourceOf[c[1]]>>}])
  BY DigestEmits
<1> DEFINE obs == InlineObservation(c, hashed)
           m == <<c[2], sourceOf[c[1]]>>
<1>2. ToSet(seen'[d]) = ToSet(seen[d]) \cup {obs.id}
  <2> DEFINE e == Emit(d, seen[d], pending[d], obs)
  <2>1. Emitted(e, d, seen[d], pending[d], obs) /\ seen' = [seen EXCEPT ![d] = e.seen]
    BY <1>1
  <2> HIDE DEF e, obs
  <2>2. seen'[d] = e.seen
    BY <2>1 DEF Places
  <2> QED
    BY <2>1, <2>2 DEF Emitted
<1>3. obs.id \in IdsOf(c)
  BY DEF IdsOf
<1>4. memo'[d] = memo[d] \/ (memo'[d] = memo[d] \cup {m} /\ obs.id = inlineHashKey(m[1], m[2]))
  <2>1. hashed => obs.id = inlineHashKey(m[1], m[2])
    BY DEF InlineObservation, Hashed, Observation
  <2> HIDE DEF obs, m
  <2>2. memo' = memo \/ (hashed /\ memo' = [memo EXCEPT ![d] = memo[d] \cup {m}])
    BY <1>1 DEF m
  <2> QED
    BY <2>1, <2>2 DEF Places
<1>5. /\ rounds[d] \in Seq(Seq(InlineCaptures)) /\ \A i \in DOMAIN rounds[d] : rounds[d][i] # <<>>
      /\ rounds' = [rounds EXCEPT ![d] = AfterHead(rounds[d], r)]
      /\ elements' = elements /\ inlineQueue' = inlineQueue
  BY DEF Places, Caps, Digest
<1>6. rounds'[d] = AfterHead(rounds[d], r)
  BY <1>5 DEF Places
<1> HIDE DEF obs, m
<1>7. ASSUME NEW a \in Awaited(d) PROVE a \in Awaited(d)' \/ \E id \in IdsOf(a) : id \in ToSet(seen'[d])
  <2>1. CASE a \in ToSet(inlineQueue[d])
    BY <1>5, <2>1 DEF Awaited
  <2>2. CASE \E i \in DOMAIN rounds[d] : a \in ToSet(rounds[d][i])
    <3>1. PICK i \in DOMAIN rounds[d] : a \in ToSet(rounds[d][i])
      BY <2>2
    <3>2. /\ r \in DOMAIN rounds[d] /\ c = Head(rounds[d][r])
      BY <1>1
    <3>3. a = c \/ \E j \in DOMAIN AfterHead(rounds[d], r) : a \in ToSet(AfterHead(rounds[d], r)[j])
      BY <1>5, <3>1, <3>2, AfterHeadDrops
    <3>4. CASE a = c
      BY <1>2, <1>3, <3>4
    <3>5. CASE \E j \in DOMAIN AfterHead(rounds[d], r) : a \in ToSet(AfterHead(rounds[d], r)[j])
      BY <1>6, <3>5 DEF Awaited
    <3> QED
      BY <3>3, <3>4, <3>5
  <2> QED
    BY <2>1, <2>2 DEF Awaited
<1>8. ASSUME NEW a PROVE IdsOf(a)' = IdsOf(a)
  BY DEF IdsOf, InlineObservation, Hashed, Unhashed, Observation, inlineHashKey, inlineWireKey
<1>9. ASSUME NEW a \in elements'[d] PROVE a \in Awaited(d)' \/ \E id \in IdsOf(a)' : id \in ToSet(seen'[d])
  <2>1. a \in Awaited(d) \/ \E id \in IdsOf(a) : id \in ToSet(seen[d])
    BY <1>5 DEF JudgeInv, JudgeAt
  <2> QED
    BY <1>2, <1>7, <1>8, <2>1
<1>10. ASSUME NEW x \in memo'[d] PROVE inlineHashKey(x[1], x[2]) \in ToSet(seen'[d])
  BY <1>2, <1>4 DEF JudgeInv, JudgeAt
<1> QED
  BY <1>9, <1>10 DEF JudgeAt

LEMMA JudgeInvStep ==
  ASSUME TypeInv, JudgeInv, [Next]_vars
  PROVE  JudgeInv'
<1> USE DEF TypeInv
<1>0. TypeInv'
  BY TypeInvStep
<1> SUFFICES ASSUME NEW d \in Tabs PROVE JudgeAt(d)'
  BY DEF JudgeInv, JudgeAt
<1>1. CASE SameTab(d)
  <2>1. Awaited(d)' = Awaited(d)
    BY <1>1 DEF SameTab, Awaited
  <2> QED
    BY <1>1, <2>1, JudgeStep DEF SameTab
<1>2. ASSUME elements'[d] = {} /\ memo'[d] = {} PROVE JudgeAt(d)'
  BY <1>2 DEF JudgeAt
<1>3. CASE Load(d)
  <2>1. elements'[d] = {} /\ memo'[d] = {}
    BY <1>3 DEF Load, Closed
  <2> QED
    BY <1>2, <2>1
<1>4. CASE Discard(d) \/ NewSession(d)
  <2>1. ~open'[d]
    BY <1>4 DEF Discard, Unload, NewSession, Places
  <2> QED
    BY <1>0, <1>2, <2>1 DEF Closed
<1>5. CASE Captures(d)
  <2>0. PICK gate : \E obs \in Observations : Capture(d, gate, obs) /\ IsFiniteSet(obs.stamps)
    BY <1>5, CapturesObserve
  <2>1. PICK obs \in Observations : Capture(d, gate, obs) /\ IsFiniteSet(obs.stamps)
    BY <2>0
  <2>2. ToSet(seen'[d]) = ToSet(seen[d]) \cup obs.stamps
    BY <2>1, CaptureType
  <2>3. elements' = elements /\ memo' = memo /\ inlineQueue' = inlineQueue /\ rounds' = rounds
    BY <2>1 DEF Capture
  <2> QED
    BY <2>2, <2>3, JudgeStep DEF Awaited
<1>6. ASSUME NEW e \in Elements, NEW h \in Hosts \cup {DocHost}, CaptureInline(d, e, h) PROVE JudgeAt(d)'
  <2>1. ToSet(inlineQueue'[d]) = ToSet(inlineQueue[d]) \cup {<<e, h>>}
    BY <1>6, CaptureInlineType
  <2>2. /\ elements' = [elements EXCEPT ![d] = elements[d] \cup {<<e, h>>}]
        /\ memo' = memo /\ seen' = seen /\ rounds' = rounds
    BY <1>6 DEF CaptureInline
  <2>3. elements'[d] = elements[d] \cup {<<e, h>>}
    BY <2>2 DEF Places
  <2>4. Awaited(d)' = Awaited(d) \cup {<<e, h>>}
    BY <2>1, <2>2 DEF Awaited
  <2>5. ASSUME NEW c PROVE IdsOf(c)' = IdsOf(c)
    BY DEF IdsOf, InlineObservation, Hashed, Unhashed, Observation, inlineHashKey, inlineWireKey
  <2> QED
    BY <2>2, <2>3, <2>4, <2>5 DEF JudgeAt, JudgeInv
<1>7. CASE IdleTick(d)
  <2>1. elements' = elements /\ memo' = memo /\ seen' = seen
    BY <1>7 DEF IdleTick
  <2> QED
    BY <1>7, <2>1, IdleTickAwaits, JudgeStep
<1>8. CASE PersistSeen(d)
  <2>1. elements' = elements /\ memo' = memo /\ seen' = seen /\ inlineQueue' = inlineQueue /\ rounds' = rounds
    BY <1>8 DEF PersistSeen
  <2> QED
    BY <2>1, JudgeStep DEF Awaited
<1>9. ASSUME NEW r, NEW ok \in BOOLEAN, Digest(d, r, ok) PROVE JudgeAt(d)'
  BY <1>9, DigestJudges
<1>10. ASSUME NEW accepted, FlushEnds(d, accepted) PROVE JudgeAt(d)'
  <2>1. CASE Leave(d, Converted(d), accepted)
    <3>1. ~open'[d]
      BY <2>1 DEF Leave, Unload, Places
    <3> QED
      BY <1>0, <1>2, <3>1 DEF Closed
  <2>2. CASE Hide(d, Converted(d), accepted)
    <3>1. seen'[d] = Converted(d).seen
      BY <1>10, <2>2, FlushOutgoing
    <3>2. ToSet(seen[d]) \subseteq ToSet(Converted(d).seen)
      BY ConvertedKeeps
    <3>3. elements' = elements /\ memo' = memo /\ rounds' = rounds
      BY <2>2 DEF Hide
    <3>4. ASSUME NEW c \in Awaited(d) PROVE c \in Awaited(d)' \/ \E id \in IdsOf(c) : id \in ToSet(seen'[d])
      <4>1. CASE c \in ToSet(inlineQueue[d])
        <5>1. InlineObservation(c, Memoised(d, c)).id \in ToSet(Converted(d).seen)
          BY <4>1, ConvertedJudges
        <5>2. Memoised(d, c) \in BOOLEAN
          BY DEF Memoised
        <5>3. InlineObservation(c, Memoised(d, c)).id \in IdsOf(c)
          BY <5>2 DEF IdsOf
        <5> QED
          BY <3>1, <5>1, <5>3
      <4>2. CASE c \notin ToSet(inlineQueue[d])
        BY <3>3, <4>2 DEF Awaited
      <4> QED
        BY <4>1, <4>2
    <3> QED
      BY <3>1, <3>2, <3>3, <3>4, JudgeStep
  <2> QED
    BY <1>10, <2>1, <2>2 DEF FlushEnds
<1> QED
  BY <1>1, <1>3, <1>4, <1>5, <1>6, <1>7, <1>8, <1>9, <1>10, TabCases DEF TabStep

\* An inline element that was captured waits for its digest or has been judged,
\* by this document, on an identity of its own, and a memoised source on its
\* hash: a flush that overtakes the idle rounds loses none and confuses none.
THEOREM InlinesAreJudged == Spec => []InlineIsJudged
<1>1. Init => JudgeInv
  BY DEF Init, JudgeInv, JudgeAt
<1>2. TypeInv /\ JudgeInv /\ [Next]_vars => JudgeInv'
  BY JudgeInvStep
<1>3. TypeInv /\ JudgeInv => InlineIsJudged
  <2>1. ASSUME TypeInv, NEW d \in Tabs, NEW k PROVE Contains(seen[d], k) <=> k \in ToSet(seen[d])
    BY <2>1, ElementsOf DEF TypeInv, Places
  <2> QED
    BY <2>1 DEF JudgeInv, JudgeAt, InlineIsJudged
<1> QED
  BY <1>1, <1>2, <1>3, TypeInvariant, PTL DEF Spec

(***************************************************************************)
(* Nothing is reported twice.                                              *)
(***************************************************************************)
LEMMA DistinctConcat ==
  ASSUME NEW s \in Seq(Observations), NEW t \in Seq(Observations)
  PROVE  /\ Distinct(s \o t) <=> Distinct(s) /\ Distinct(t) /\ Ids(s) \cap Ids(t) = {}
         /\ Ids(s \o t) = Ids(s) \cup Ids(t)
<1>1. /\ s \o t \in Seq(Observations) /\ DOMAIN (s \o t) = 1 .. Len(s) + Len(t)
      /\ DOMAIN s = 1 .. Len(s) /\ DOMAIN t = 1 .. Len(t) /\ Len(s) \in Nat /\ Len(t) \in Nat
      /\ \A i \in 1 .. Len(s) : (s \o t)[i] = s[i]
      /\ \A i \in 1 .. Len(t) : (s \o t)[Len(s) + i] = t[i]
  OBVIOUS
<1>2. Ids(s \o t) = Ids(s) \cup Ids(t)
  <2>1. ToSet(s \o t) = ToSet(s) \cup ToSet(t)
    BY ElementsOfConcat
  <2> QED
    BY <2>1 DEF Ids
<1> DEFINE st == s \o t
<1> HIDE DEF st
<1>3. ASSUME Distinct(st) PROVE Distinct(s) /\ Distinct(t) /\ Ids(s) \cap Ids(t) = {}
  <2>1. Distinct(s)
    BY <1>1, <1>3 DEF Distinct, st
  <2>2. ASSUME NEW i \in DOMAIN t, NEW j \in DOMAIN t, t[i].id = t[j].id PROVE i = j
    <3>1. Len(s) + i \in DOMAIN st /\ Len(s) + j \in DOMAIN st
      BY <1>1 DEF st
    <3>2. st[Len(s) + i].id = st[Len(s) + j].id
      BY <1>1, <2>2 DEF st
    <3>3. Len(s) + i = Len(s) + j
      BY <1>3, <3>1, <3>2 DEF Distinct
    <3> QED
      BY <1>1, <3>3
  <2>3. ASSUME NEW i \in DOMAIN s, NEW j \in DOMAIN t, s[i].id = t[j].id PROVE FALSE
    <3>1. i \in DOMAIN st /\ Len(s) + j \in DOMAIN st
      BY <1>1 DEF st
    <3>2. st[i].id = st[Len(s) + j].id
      BY <1>1, <2>3 DEF st
    <3>3. i = Len(s) + j
      BY <1>3, <3>1, <3>2 DEF Distinct
    <3> QED
      BY <1>1, <3>3
  <2>4. Ids(s) \cap Ids(t) = {}
    BY <2>3 DEF Ids, ToSet
  <2> QED
    BY <2>1, <2>2, <2>4 DEF Distinct
<1>4. ASSUME Distinct(s), Distinct(t), Ids(s) \cap Ids(t) = {}, NEW i \in DOMAIN st, NEW j \in DOMAIN st,
             st[i].id = st[j].id
      PROVE  i = j
  <2>1. ASSUME NEW k \in DOMAIN st
        PROVE  \/ k \in DOMAIN s /\ st[k] = s[k]
               \/ k - Len(s) \in DOMAIN t /\ st[k] = t[k - Len(s)]
    <3>1. CASE k <= Len(s)
      BY <1>1, <3>1 DEF st
    <3>2. CASE ~(k <= Len(s))
      <4>1. k - Len(s) \in 1 .. Len(t) /\ Len(s) + (k - Len(s)) = k
        BY <1>1, <3>2 DEF st
      <4>2. st[Len(s) + (k - Len(s))] = t[k - Len(s)]
        BY <1>1, <4>1 DEF st
      <4> QED
        BY <1>1, <4>1, <4>2
    <3> QED
      BY <3>1, <3>2
  <2>2. \A k \in DOMAIN s, l \in DOMAIN t : s[k].id # t[l].id
    BY <1>4 DEF Ids, ToSet
  <2>3. CASE i \in DOMAIN s /\ st[i] = s[i]
    <3>1. j \in DOMAIN s /\ st[j] = s[j]
      BY <1>4, <2>1, <2>2, <2>3
    <3> QED
      BY <1>4, <2>3, <3>1 DEF Distinct
  <2>4. CASE i - Len(s) \in DOMAIN t /\ st[i] = t[i - Len(s)]
    <3>1. j - Len(s) \in DOMAIN t /\ st[j] = t[j - Len(s)]
      BY <1>4, <2>1, <2>2, <2>4
    <3>2. i - Len(s) = j - Len(s)
      BY <1>4, <2>4, <3>1 DEF Distinct
    <3> QED
      BY <1>1, <3>2 DEF st
  <2> QED
    BY <2>1, <2>3, <2>4
<1>5. Distinct(s) /\ Distinct(t) /\ Ids(s) \cap Ids(t) = {} => Distinct(st)
  BY <1>4 DEF Distinct
<1> QED
  BY <1>2, <1>3, <1>5 DEF st

LEMMA DistinctAppend ==
  ASSUME NEW s \in Seq(Observations), NEW obs \in Observations
  PROVE  /\ Distinct(s) /\ obs.id \notin Ids(s) => Distinct(Append(s, obs))
         /\ Ids(Append(s, obs)) = Ids(s) \cup {obs.id}
<1>1. ToSet(Append(s, obs)) = ToSet(s) \cup {obs}
  BY ElementsOfAppend
<1>2. Ids(Append(s, obs)) = Ids(s) \cup {obs.id}
  BY <1>1 DEF Ids
<1>3. /\ DOMAIN Append(s, obs) = 1 .. Len(s) + 1 /\ DOMAIN s = 1 .. Len(s) /\ Len(s) \in Nat
      /\ Append(s, obs)[Len(s) + 1] = obs /\ \A i \in 1 .. Len(s) : Append(s, obs)[i] = s[i]
  OBVIOUS
<1> DEFINE t == Append(s, obs)
<1> HIDE DEF t
<1>4. ASSUME Distinct(s), obs.id \notin Ids(s), NEW i \in DOMAIN t, NEW j \in DOMAIN t, t[i].id = t[j].id
      PROVE  i = j
  <2>1. \A k \in 1 .. Len(s) : s[k].id # obs.id
    BY <1>3, <1>4 DEF Ids, ToSet
  <2>2. ASSUME NEW k \in DOMAIN t
        PROVE  \/ k = Len(s) + 1 /\ t[k] = obs
               \/ k \in 1 .. Len(s) /\ t[k] = s[k]
    BY <1>3 DEF t
  <2> QED
    BY <1>3, <1>4, <2>1, <2>2 DEF Distinct
<1> QED
  BY <1>2, <1>4 DEF Distinct, t

LEMMA NothingIsDistinct == Distinct(<<>>) /\ Ids(<<>>) = {} /\ ToSet(<<>>) = {} /\ Len(<<>>) = 0
<1>1. DOMAIN <<>> = {}
  OBVIOUS
<1> QED
  BY <1>1 DEF Distinct, Ids, ToSet

\* What observers and digests make.
Genuine ==
  {External(u, h) : u \in Urls, h \in AllHosts} \cup {Csp(v) : v \in Violations}
  \cup {InlineObservation(c, hashed) : c \in InlineCaptures, hashed \in BOOLEAN}

LEMMA GenuineStampUrl == \A obs \in Genuine : StampsUrl(obs)
<1>1. ASSUME NEW u \in Urls, NEW h \in AllHosts PROVE StampsUrl(External(u, h))
  BY DEF StampsUrl, External, Observation, urlKey, urlWithInitiatorKey
<1>2. ASSUME NEW v \in Violations PROVE StampsUrl(Csp(v))
  BY DEF StampsUrl, Csp, Observation, cspKey, urlWithInitiatorKey
<1>3. ASSUME NEW c \in InlineCaptures, NEW hashed \in BOOLEAN PROVE StampsUrl(InlineObservation(c, hashed))
  BY DEF StampsUrl, InlineObservation, Hashed, Unhashed, Observation, inlineHashKey, inlineWireKey, urlWithInitiatorKey
<1> QED
  BY <1>1, <1>2, <1>3 DEF Genuine

LEMMA InlineOfGenuine ==
  ASSUME Places, NEW d \in Tabs, NEW k \in 1 .. Len(inlineQueue[d])
  PROVE  /\ InlineOf(d, k) \in Genuine /\ InlineOf(d, k) \in Observations
         /\ KeysOf(InlineOf(d, k)) = {InlineOf(d, k).id}
<1>1. inlineQueue[d][k] \in InlineCaptures
  BY DEF Places
<1>2. Memoised(d, inlineQueue[d][k]) \in BOOLEAN
  BY DEF Memoised
<1>3. /\ InlineOf(d, k) \in Observations /\ InlineOf(d, k).stamps \subseteq {InlineOf(d, k).id}
  BY <1>1, <1>2, KeyTypes DEF InlineOf
<1>4. InlineOf(d, k) \in Genuine
  BY <1>1, <1>2 DEF InlineOf, Genuine
<1> QED
  BY <1>3, <1>4 DEF KeysOf

LEMMA UrlInvStep ==
  ASSUME TypeInv, UrlInv, [Next]_vars
  PROVE  UrlInv'
<1> USE DEF TypeInv
<1> SUFFICES ASSUME NEW d \in Tabs PROVE Outgoing(d)' \subseteq Outgoing(d) \cup Genuine
  <2>1. \A obs : StampsUrl(obs)' <=> StampsUrl(obs)
    BY DEF StampsUrl, urlKey, urlWithInitiatorKey
  <2> QED
    BY <2>1, GenuineStampUrl DEF UrlInv
<1>1. CASE SameTab(d)
  BY <1>1 DEF SameTab, Outgoing
<1>2. CASE Load(d) \/ PersistSeen(d)
  BY <1>2 DEF Load, PersistSeen, historyVars, Outgoing
<1>3. CASE Discard(d)
  <2>1. queue'[d] = <<>> /\ pending'[d] = <<>> /\ shipped'[d] = shipped[d]
    BY <1>3 DEF Discard, Unload, Places, historyVars
  <2> QED
    BY <2>1, NothingIsDistinct DEF Outgoing
<1>4. CASE NewSession(d)
  <2>1. queue'[d] = queue[d] /\ pending'[d] = pending[d] /\ shipped'[d] = <<>>
    BY <1>4 DEF NewSession, Places, documentVars
  <2> QED
    BY <2>1, NothingIsDistinct DEF Outgoing
<1>5. CASE Captures(d)
  <2>1. PICK gate, obs : Capture(d, gate, obs) /\
          \/ \E u \in Urls, h \in AllHosts : obs = External(u, h) /\ gate \in {urlKey(u), urlWithInitiatorKey(u, h)}
          \/ \E v \in Violations : obs = Csp(v) /\ gate = cspKey(v)
    BY <1>5 DEF Captures
  <2>2. obs \in Genuine /\ obs \in Observations
    BY <2>1, KeyTypes DEF Genuine
  <2>3. queue' = [queue EXCEPT ![d] = Append(queue[d], obs)] /\ pending' = pending /\ shipped' = shipped
    BY <2>1 DEF Capture, historyVars
  <2>4. queue'[d] = Append(queue[d], obs) /\ queue[d] \in Seq(Observations)
    BY <2>3 DEF Places
  <2>5. ToSet(queue'[d]) = ToSet(queue[d]) \cup {obs}
    BY <2>2, <2>4, ElementsOfAppend
  <2> QED
    BY <2>2, <2>3, <2>5 DEF Outgoing
<1>6. ASSUME NEW e, NEW h, CaptureInline(d, e, h) PROVE Outgoing(d)' \subseteq Outgoing(d) \cup Genuine
  BY <1>6 DEF CaptureInline, historyVars, Outgoing
<1>7. CASE IdleTick(d)
  <2>1. pending'[d] = pending[d] \o queue[d] /\ queue'[d] = <<>>
    BY <1>7, IdleTickType
  <2>2. pending[d] \in Seq(Observations) /\ queue[d] \in Seq(Observations) /\ shipped' = shipped
    BY <1>7 DEF Places, IdleTick, historyVars
  <2>3. ToSet(pending'[d]) = ToSet(pending[d]) \cup ToSet(queue[d])
    BY <2>1, <2>2, ElementsOfConcat
  <2> QED
    BY <2>1, <2>2, <2>3, NothingIsDistinct DEF Outgoing
<1>8. ASSUME NEW r, NEW ok \in BOOLEAN, Digest(d, r, ok) PROVE Outgoing(d)' \subseteq Outgoing(d) \cup Genuine
  <2>0. PICK c \in InlineCaptures, hashed \in BOOLEAN :
          LET o == InlineObservation(c, hashed)
              f == Emit(d, seen[d], pending[d], o)
          IN Emitted(f, d, seen[d], pending[d], o) /\ pending' = [pending EXCEPT ![d] = f.out]
    BY <1>8, DigestEmits
  <2> DEFINE obs == InlineObservation(c, hashed)
             e == Emit(d, seen[d], pending[d], obs)
  <2>1. obs \in Genuine /\ Emitted(e, d, seen[d], pending[d], obs) /\ pending' = [pending EXCEPT ![d] = e.out]
    BY <2>0 DEF Genuine
  <2> HIDE DEF obs, e
  <2>2. pending'[d] = e.out /\ queue' = queue /\ shipped' = shipped
    BY <1>8, <2>1 DEF Places, Digest, historyVars
  <2>3. ToSet(e.out) \subseteq ToSet(pending[d]) \cup {obs}
    BY <2>1 DEF Emitted
  <2> QED
    BY <2>1, <2>2, <2>3 DEF Outgoing
<1>9. ToSet(Converted(d).out) \subseteq Outgoing(d) \cup Genuine
  <2> DEFINE S == {e \in Emissions : ToSet(e.out) \subseteq Outgoing(d) \cup Genuine}
  <2>1. FlushStart(d) \in S
    <3>1. pending[d] \in Seq(Observations) /\ queue[d] \in Seq(Observations) /\ seen[d] \in Seq(Keys)
      BY DEF Places
    <3>2. /\ pending[d] \o queue[d] \in Seq(Observations)
          /\ ToSet(pending[d] \o queue[d]) = ToSet(pending[d]) \cup ToSet(queue[d])
      BY <3>1, ElementsOfConcat
    <3> QED
      BY <3>1, <3>2 DEF FlushStart, Emissions, Outgoing
  <2>2. ASSUME NEW k \in 1 .. Len(inlineQueue[d]), NEW e \in S
        PROVE  Emit(d, e.seen, e.out, InlineOf(d, k)) \in S
    <3> DEFINE f == Emit(d, e.seen, e.out, InlineOf(d, k))
    <3>1. e.seen \in Seq(Keys) /\ e.out \in Seq(Observations) /\ ToSet(e.out) \subseteq Outgoing(d) \cup Genuine
      BY DEF Emissions
    <3>2. InlineOf(d, k) \in Genuine /\ InlineOf(d, k) \in Observations
      BY InlineOfGenuine
    <3>3. Emitted(f, d, e.seen, e.out, InlineOf(d, k))
      BY <3>1, <3>2, EmitOne
    <3> HIDE DEF f
    <3>4. f \in Emissions /\ ToSet(f.out) \subseteq ToSet(e.out) \cup {InlineOf(d, k)}
      BY <3>3 DEF Emitted
    <3>5. f \in S
      BY <3>1, <3>2, <3>4
    <3> QED
      BY <3>5 DEF f
  <2> HIDE DEF S
  <2>3. Converted(d) \in S
    BY <2>1, <2>2, ConvertedIn
  <2> QED
    BY <2>3 DEF S
<1>10. ASSUME NEW accepted, FlushEnds(d, accepted) PROVE Outgoing(d)' \subseteq Outgoing(d) \cup Genuine
  <2>1. CASE Hide(d, Converted(d), accepted)
    <3>1. Outgoing(d)' = ToSet(shipped[d]) \cup ToSet(Converted(d).out)
      BY <1>10, <2>1, FlushOutgoing
    <3> QED
      BY <1>9, <3>1 DEF Outgoing
  <2>2. CASE Leave(d, Converted(d), accepted)
    <3> DEFINE taken == Taken(Converted(d).out, accepted)
               kept == Kept(Converted(d).out, accepted)
    <3>1. taken \in Seq(Observations) /\ kept \in Seq(Observations) /\ taken \o kept = Converted(d).out
      BY <1>10, FlushTypes
    <3>2. queue' = [queue EXCEPT ![d] = <<>>] /\ pending' = [pending EXCEPT ![d] = <<>>]
          /\ shipped' = [shipped EXCEPT ![d] = shipped[d] \o taken]
      BY <2>2 DEF Leave, Unload, FlushStores
    <3> HIDE DEF taken, kept
    <3>3. queue'[d] = <<>> /\ pending'[d] = <<>> /\ shipped'[d] = shipped[d] \o taken /\ shipped[d] \in Seq(Observations)
      BY <3>2 DEF Places
    <3>4. ToSet(shipped'[d]) = ToSet(shipped[d]) \cup ToSet(taken)
      BY <3>1, <3>3, ElementsOfConcat
    <3>5. ToSet(taken) \subseteq ToSet(Converted(d).out)
      <4>1. ToSet(taken \o kept) = ToSet(taken) \cup ToSet(kept)
        BY <3>1, ElementsOfConcat
      <4> QED
        BY <3>1, <4>1
    <3> QED
      BY <1>9, <3>3, <3>4, <3>5, NothingIsDistinct DEF Outgoing
  <2> QED
    BY <1>10, <2>1, <2>2 DEF FlushEnds
<1> QED
  BY <1>1, <1>2, <1>3, <1>4, <1>5, <1>6, <1>7, <1>8, <1>10, TabCases DEF TabStep

\* An emission is of an identity nothing that waits or was sent has.
EmitsApart(e, d) ==
  /\ Len(seen[d]) <= Len(e.seen)
  /\ Distinct(e.out) /\ Ids(e.out) \cap Ids(shipped[d]) = {}
  /\ \A obs \in ToSet(e.out) \cup ToSet(shipped[d]) : KeysOf(obs) \subseteq ToSet(e.seen)

LEMMA FlushApart ==
  ASSUME TypeInv, NEW d \in Tabs, open[d], Apart(d)
  PROVE  EmitsApart(Converted(d), d)
<1> USE DEF TypeInv
<1> DEFINE S == {e \in Emissions : EmitsApart(e, d)}
<1>0. seen[d] \in Seq(Keys) /\ pending[d] \in Seq(Observations) /\ queue[d] \in Seq(Observations)
  BY DEF Places
<1>1. FlushStart(d) \in S
  <2> DEFINE out == pending[d] \o queue[d]
  <2>1. out \in Seq(Observations) /\ ToSet(out) = ToSet(pending[d]) \cup ToSet(queue[d])
    BY <1>0, ElementsOfConcat
  <2>2. /\ Distinct(out) <=> Distinct(pending[d]) /\ Distinct(queue[d]) /\ Ids(pending[d]) \cap Ids(queue[d]) = {}
        /\ Ids(out) = Ids(pending[d]) \cup Ids(queue[d])
    BY <1>0, DistinctConcat
  <2>3. FlushStart(d) \in Emissions /\ FlushStart(d).seen = seen[d] /\ FlushStart(d).out = out
    BY <1>0, <2>1 DEF FlushStart, Emissions
  <2> HIDE DEF out
  <2>4. Len(seen[d]) <= Len(seen[d])
    BY <1>0
  <2>5. EmitsApart(FlushStart(d), d)
    BY <2>1, <2>2, <2>3, <2>4 DEF EmitsApart, Apart, Outgoing
  <2> QED
    BY <2>3, <2>5
<1>2. ASSUME NEW k \in 1 .. Len(inlineQueue[d]), NEW e \in S
      PROVE  Emit(d, e.seen, e.out, InlineOf(d, k)) \in S
  <2> DEFINE obs == InlineOf(d, k)
             f == Emit(d, e.seen, e.out, obs)
  <2>1. e.seen \in Seq(Keys) /\ e.out \in Seq(Observations) /\ EmitsApart(e, d)
    BY DEF Emissions
  <2>2. obs \in Observations /\ KeysOf(obs) = {obs.id}
    BY InlineOfGenuine
  <2>3. Emitted(f, d, e.seen, e.out, obs)
    BY <2>1, <2>2, EmitOne
  <2> HIDE DEF f, obs
  <2>4. /\ f \in Emissions /\ ToSet(f.seen) = ToSet(e.seen) \cup {obs.id} /\ Len(f.seen) >= Len(e.seen)
        /\ ToSet(f.out) \subseteq ToSet(e.out) \cup {obs}
    BY <2>3 DEF Emitted
  <2>5. Len(seen[d]) <= Len(f.seen)
    <3>1. Len(seen[d]) \in Nat /\ Len(e.seen) \in Nat /\ Len(f.seen) \in Nat
      BY <1>0, <2>1, <2>4 DEF Emissions
    <3> QED
      BY <2>1, <2>4, <3>1 DEF EmitsApart
  <2>6. \A o \in ToSet(f.out) \cup ToSet(shipped[d]) : KeysOf(o) \subseteq ToSet(f.seen)
    BY <2>1, <2>2, <2>4 DEF EmitsApart
  <2>7. Distinct(f.out) /\ Ids(f.out) \cap Ids(shipped[d]) = {}
    <3>1. CASE f.out = e.out
      BY <2>1, <3>1 DEF EmitsApart
    <3>2. CASE f.out # e.out
      <4>1. obs.id \notin ToSet(e.seen) /\ f.out = Append(e.out, obs)
        BY <2>3, <3>2 DEF Emitted
      <4>2. obs.id \notin Ids(e.out) /\ obs.id \notin Ids(shipped[d])
        BY <2>1, <4>1 DEF EmitsApart, Ids, KeysOf
      <4>3. Distinct(f.out) /\ Ids(f.out) = Ids(e.out) \cup {obs.id}
        BY <2>1, <2>2, <4>1, <4>2, DistinctAppend DEF EmitsApart
      <4> QED
        BY <2>1, <4>2, <4>3 DEF EmitsApart
    <3> QED
      BY <3>1, <3>2
  <2>8. EmitsApart(f, d)
    BY <2>5, <2>6, <2>7 DEF EmitsApart
  <2> QED
    BY <2>4, <2>8 DEF f, obs
<1>3. Converted(d) \in S
  <2> HIDE DEF S
  <2> QED
    BY <1>1, <1>2, ConvertedIn
<1> QED
  BY <1>3

LEMMA FlushKeepsApart ==
  ASSUME TypeInv, NEW d \in Tabs, OnceAt(d), NEW accepted, FlushEnds(d, accepted)
  PROVE  OnceAt(d)'
<1> USE DEF TypeInv
<1> DEFINE flush == Converted(d)
           taken == Taken(flush.out, accepted)
           kept == Kept(flush.out, accepted)
<1>1. /\ flush.seen \in Seq(Keys) /\ flush.out \in Seq(Observations)
      /\ taken \in Seq(Observations) /\ kept \in Seq(Observations) /\ taken \o kept = flush.out
  BY FlushTypes
<1>2. shipped[d] \in Seq(Observations) /\ seen[d] \in Seq(Keys) /\ seenStore[d] \in Seq(Keys)
  BY DEF Places
<1>3. /\ open[d] /\ FlushStores(d, flush.out, flush.seen, accepted)
      /\ \/ ~open'[d] /\ pending'[d] = <<>> /\ queue'[d] = <<>>
         \/ open'[d] /\ pending'[d] = kept /\ queue'[d] = <<>> /\ seen'[d] = flush.seen
  BY DEF FlushEnds, Hide, Leave, Unload, Places
<1>4. Len(seen[d]) <= Len(flush.seen)
  BY ConvertedKeeps
<1>5. Apart(d) => EmitsApart(flush, d)
  BY <1>3, FlushApart
<1> HIDE DEF flush, taken, kept
<1>6. seenStore'[d] = Persisted(flush.seen) /\ shipped'[d] = shipped[d] \o taken
  BY <1>3 DEF FlushStores, Places, taken
<1>7. /\ Len(Persisted(flush.seen)) <= Len(flush.seen) /\ Len(Persisted(flush.seen)) \in Nat
      /\ Len(Persisted(flush.seen)) < SeenCap => Persisted(flush.seen) = flush.seen
  BY <1>1, PersistedIsPrefix
<1>8. open'[d] => Len(seenStore'[d]) <= Len(seen'[d])
  BY <1>3, <1>6, <1>7
<1>9. ASSUME Len(seenStore'[d]) < SeenCap PROVE Apart(d)'
  <2>1. seenStore'[d] = flush.seen
    BY <1>6, <1>7, <1>9
  <2>2. Len(seenStore[d]) < SeenCap
    <3>1. Len(seenStore[d]) \in Nat /\ Len(seen[d]) \in Nat /\ Len(flush.seen) \in Nat /\ SeenCap \in Nat
      BY <1>1, <1>2, AgentAssumption
    <3>2. Len(seenStore[d]) <= Len(seen[d])
      BY <1>3 DEF OnceAt
    <3> QED
      BY <1>4, <1>9, <2>1, <3>1, <3>2
  <2>3. Apart(d) /\ EmitsApart(flush, d)
    BY <1>5, <2>2 DEF OnceAt
  <2>4. Distinct(taken) /\ Distinct(kept) /\ Ids(taken) \cap Ids(kept) = {} /\ Ids(flush.out) = Ids(taken) \cup Ids(kept)
    <3>1. Distinct(taken \o kept)
      BY <1>1, <2>3 DEF EmitsApart
    <3>2. /\ Distinct(taken \o kept) <=> Distinct(taken) /\ Distinct(kept) /\ Ids(taken) \cap Ids(kept) = {}
          /\ Ids(taken \o kept) = Ids(taken) \cup Ids(kept)
      BY <1>1, DistinctConcat
    <3> QED
      BY <1>1, <3>1, <3>2
  <2>5. ToSet(flush.out) = ToSet(taken) \cup ToSet(kept)
    <3>1. ToSet(taken \o kept) = ToSet(taken) \cup ToSet(kept)
      BY <1>1, ElementsOfConcat
    <3> QED
      BY <1>1, <3>1
  <2>6. ToSet(shipped'[d]) = ToSet(shipped[d]) \cup ToSet(taken)
    BY <1>1, <1>2, <1>6, ElementsOfConcat
  <2>7. Distinct(shipped'[d]) /\ Ids(shipped'[d]) = Ids(shipped[d]) \cup Ids(taken)
    <3>1. /\ Distinct(shipped[d] \o taken) <=> Distinct(shipped[d]) /\ Distinct(taken) /\ Ids(shipped[d]) \cap Ids(taken) = {}
          /\ Ids(shipped[d] \o taken) = Ids(shipped[d]) \cup Ids(taken)
      BY <1>1, <1>2, DistinctConcat
    <3>2. Distinct(shipped[d]) /\ Ids(shipped[d]) \cap Ids(taken) = {}
      BY <2>3, <2>4 DEF Apart, EmitsApart
    <3> QED
      BY <1>6, <2>4, <3>1, <3>2
  <2>8. \A obs \in ToSet(shipped'[d]) \cup ToSet(kept) : KeysOf(obs) \subseteq ToSet(flush.seen)
    BY <2>3, <2>5, <2>6 DEF EmitsApart
  <2>9. Ids(kept) \cap Ids(shipped'[d]) = {}
    BY <2>3, <2>4, <2>7 DEF EmitsApart
  <2>10. /\ \A obs \in ToSet(shipped[d])' : KeysOf(obs)' \subseteq ToSet(seenStore[d])'
         /\ Distinct(shipped[d])'
    BY <2>1, <2>7, <2>8 DEF KeysOf
  <2>11. CASE ~open'[d] /\ pending'[d] = <<>> /\ queue'[d] = <<>>
    BY <2>10, <2>11, NothingIsDistinct DEF Apart
  <2>12. CASE open'[d] /\ pending'[d] = kept /\ queue'[d] = <<>> /\ seen'[d] = flush.seen
    <3>1. \A obs \in Outgoing(d)' : KeysOf(obs) \subseteq ToSet(seen'[d])
      BY <2>8, <2>12, NothingIsDistinct DEF Outgoing
    <3> QED
      BY <2>4, <2>9, <2>10, <2>12, <3>1, NothingIsDistinct DEF Apart
  <2> QED
    BY <1>3, <2>11, <2>12
<1> QED
  BY <1>8, <1>9 DEF OnceAt

LEMMA CaptureKeepsApart ==
  ASSUME TypeInv, UrlInv, NEW d \in Tabs, OnceAt(d), Captures(d)
  PROVE  OnceAt(d)'
<1> USE DEF TypeInv
<1>1. PICK gate, obs : Capture(d, gate, obs) /\
        \/ \E u \in Urls, h \in AllHosts : obs = External(u, h) /\ gate \in {urlKey(u), urlWithInitiatorKey(u, h)}
        \/ \E v \in Violations : obs = Csp(v) /\ gate = cspKey(v)
  BY DEF Captures
<1>2. obs \in Observations /\ obs.id \in obs.stamps /\ IsFiniteSet(obs.stamps)
  <2>1. CASE \E u \in Urls, h \in AllHosts : obs = External(u, h) /\ gate \in {urlKey(u), urlWithInitiatorKey(u, h)}
    <3>1. PICK u \in Urls, h \in AllHosts : obs = External(u, h)
      BY <2>1
    <3>2. obs.id = urlWithInitiatorKey(u, h) /\ obs.stamps = {urlKey(u)} \cup {urlWithInitiatorKey(u, h)}
      BY <3>1 DEF External, Observation
    <3>3. IsFiniteSet({urlKey(u)} \cup {urlWithInitiatorKey(u, h)})
      BY FS_Singleton, FS_Union
    <3> QED
      BY <3>1, <3>2, <3>3, KeyTypes
  <2>2. CASE \E v \in Violations : obs = Csp(v) /\ gate = cspKey(v)
    <3>1. PICK v \in Violations : obs = Csp(v)
      BY <2>2
    <3>2. obs.id = cspKey(v) /\ obs.stamps = {cspKey(v)}
      BY <3>1 DEF Csp, Observation
    <3>3. IsFiniteSet(obs.stamps)
      BY <3>2, FS_Singleton
    <3> QED
      BY <3>1, <3>2, <3>3, KeyTypes
  <2> QED
    BY <1>1, <2>1, <2>2
<1>3. /\ ToSet(seen'[d]) = ToSet(seen[d]) \cup obs.stamps /\ Len(seen[d]) <= Len(seen'[d])
      /\ ToSet(queue'[d]) = ToSet(queue[d]) \cup {obs} /\ queue'[d] = Append(queue[d], obs)
      /\ TypeInv'
  BY <1>1, <1>2, CaptureType
<1>4. /\ open' = open /\ open[d] /\ pending' = pending /\ shipped' = shipped /\ seenStore' = seenStore
      /\ gate \notin ToSet(seen[d])
  <2>1. seen[d] \in Seq(Keys)
    BY DEF Places
  <2>2. ~Contains(seen[d], gate)
    BY <1>1 DEF Capture, HasSeen
  <2> QED
    BY <1>1, <2>1, <2>2, ElementsOf DEF Capture, storeVars, historyVars
<1>5. Len(seenStore[d]) <= Len(seen'[d])
  <2>1. Len(seenStore[d]) \in Nat /\ Len(seen[d]) \in Nat /\ Len(seen'[d]) \in Nat
    <3>1. seenStore[d] \in Seq(Keys) /\ seen[d] \in Seq(Keys)
      BY DEF Places
    <3>2. seen' \in [Tabs -> Seq(Keys)]
      BY <1>3 DEF Places
    <3>3. seen'[d] \in Seq(Keys)
      BY <3>2
    <3> QED
      BY <3>1, <3>3
  <2>2. Len(seenStore[d]) <= Len(seen[d])
    BY <1>4 DEF OnceAt
  <2> QED
    BY <1>3, <2>1, <2>2
<1>6. ASSUME Apart(d), NEW o \in Outgoing(d), o.id = obs.id PROVE FALSE
  <2>1. KeysOf(o) \subseteq ToSet(seen[d])
    BY <1>4, <1>6 DEF Apart
  <2>2. CASE gate = obs.id
    BY <1>4, <1>6, <2>1, <2>2 DEF KeysOf
  <2>3. CASE gate # obs.id
    <3>1. PICK u \in Urls, h \in AllHosts : obs = External(u, h) /\ gate = urlKey(u)
      BY <1>1, <2>3 DEF External, Csp, Observation
    <3>2. o.id = urlWithInitiatorKey(u, h)
      BY <1>6, <3>1 DEF External, Observation
    <3>3. urlKey(u) \in o.stamps
      BY <3>2 DEF UrlInv, StampsUrl
    <3> QED
      BY <1>4, <2>1, <3>1, <3>3 DEF KeysOf
  <2> QED
    BY <2>2, <2>3
<1>7. ASSUME Apart(d) PROVE Apart(d)'
  <2>1. queue[d] \in Seq(Observations)
    BY DEF Places
  <2>2. obs.id \notin Ids(queue[d]) /\ obs.id \notin Ids(pending[d]) /\ obs.id \notin Ids(shipped[d])
    BY <1>6, <1>7 DEF Ids, Outgoing
  <2>3. Distinct(queue[d]) /\ Distinct(Append(queue[d], obs)) /\ Ids(Append(queue[d], obs)) = Ids(queue[d]) \cup {obs.id}
    BY <1>2, <1>7, <2>1, <2>2, DistinctAppend DEF Apart
  <2>4. Distinct(queue'[d]) /\ Ids(queue'[d]) = Ids(queue[d]) \cup {obs.id}
    BY <1>3, <2>3
  <2>5. \A o \in Outgoing(d)' : KeysOf(o) \subseteq ToSet(seen'[d])
    <3>1. Outgoing(d)' = Outgoing(d) \cup {obs}
      BY <1>3, <1>4 DEF Outgoing
    <3>2. KeysOf(obs) \subseteq ToSet(seen'[d])
      BY <1>2, <1>3 DEF KeysOf
    <3>3. \A o \in Outgoing(d) : KeysOf(o) \subseteq ToSet(seen[d])
      BY <1>4, <1>7 DEF Apart
    <3> QED
      BY <1>3, <3>1, <3>2, <3>3
  <2>6. \A o \in ToSet(shipped'[d]) : KeysOf(o) \subseteq ToSet(seenStore'[d])
    BY <1>4, <1>7 DEF Apart
  <2>7. /\ Distinct(pending'[d]) /\ Distinct(shipped'[d])
        /\ Ids(queue'[d]) \cap Ids(pending'[d]) = {}
        /\ (Ids(queue'[d]) \cup Ids(pending'[d])) \cap Ids(shipped'[d]) = {}
    BY <1>4, <1>7, <2>2, <2>4 DEF Apart
  <2> QED
    BY <2>4, <2>5, <2>6, <2>7 DEF Apart, KeysOf
<1> QED
  BY <1>4, <1>5, <1>7 DEF OnceAt

LEMMA DigestKeepsApart ==
  ASSUME TypeInv, NEW d \in Tabs, OnceAt(d), NEW r, NEW ok \in BOOLEAN, Digest(d, r, ok)
  PROVE  OnceAt(d)'
<1> USE DEF TypeInv
<1>1. PICK c \in InlineCaptures, hashed \in BOOLEAN :
        LET o == InlineObservation(c, hashed)
            f == Emit(d, seen[d], pending[d], o)
        IN /\ o \in Observations /\ Emitted(f, d, seen[d], pending[d], o)
           /\ seen' = [seen EXCEPT ![d] = f.seen] /\ pending' = [pending EXCEPT ![d] = f.out]
  BY DigestEmits
<1> DEFINE obs == InlineObservation(c, hashed)
           e == Emit(d, seen[d], pending[d], obs)
<1>2. /\ obs \in Observations /\ Emitted(e, d, seen[d], pending[d], obs)
      /\ seen' = [seen EXCEPT ![d] = e.seen] /\ pending' = [pending EXCEPT ![d] = e.out]
  BY <1>1
<1>3. KeysOf(obs) = {obs.id}
  BY KeyTypes DEF KeysOf
<1> HIDE DEF obs, e
<1>4. /\ seen'[d] = e.seen /\ pending'[d] = e.out /\ open' = open /\ open[d]
      /\ queue' = queue /\ shipped' = shipped /\ seenStore' = seenStore
      /\ pending[d] \in Seq(Observations) /\ seen[d] \in Seq(Keys) /\ seenStore[d] \in Seq(Keys)
  BY <1>2 DEF Places, Digest, storeVars, historyVars
<1>5. /\ e \in Emissions /\ ToSet(e.seen) = ToSet(seen[d]) \cup {obs.id} /\ Len(e.seen) >= Len(seen[d])
      /\ ToSet(e.out) \subseteq ToSet(pending[d]) \cup {obs}
  BY <1>2 DEF Emitted
<1>6. Len(seenStore[d]) <= Len(e.seen)
  <2>1. Len(seenStore[d]) \in Nat /\ Len(seen[d]) \in Nat /\ Len(e.seen) \in Nat
    BY <1>4, <1>5 DEF Emissions
  <2>2. Len(seenStore[d]) <= Len(seen[d])
    BY <1>4 DEF OnceAt
  <2> QED
    BY <1>5, <2>1, <2>2
<1>7. ASSUME Apart(d) PROVE Apart(d)'
  <2>1. \A o \in Outgoing(d) : KeysOf(o) \subseteq ToSet(seen[d])
    BY <1>4, <1>7 DEF Apart
  <2>2. \A o \in Outgoing(d)' : KeysOf(o) \subseteq ToSet(seen'[d])
    <3>1. Outgoing(d)' \subseteq Outgoing(d) \cup {obs}
      BY <1>4, <1>5 DEF Outgoing
    <3> QED
      BY <1>3, <1>4, <1>5, <2>1, <3>1
  <2>3. \A o \in ToSet(shipped'[d]) : KeysOf(o) \subseteq ToSet(seenStore'[d])
    BY <1>4, <1>7 DEF Apart
  <2>4. /\ Distinct(queue'[d]) /\ Distinct(pending'[d]) /\ Distinct(shipped'[d])
        /\ Ids(queue'[d]) \cap Ids(pending'[d]) = {}
        /\ (Ids(queue'[d]) \cup Ids(pending'[d])) \cap Ids(shipped'[d]) = {}
    <3>1. CASE e.out = pending[d]
      BY <1>4, <1>7, <3>1 DEF Apart
    <3>2. CASE e.out # pending[d]
      <4>1. obs.id \notin ToSet(seen[d]) /\ e.out = Append(pending[d], obs)
        BY <1>2, <3>2 DEF Emitted
      <4>2. obs.id \notin Ids(queue[d]) /\ obs.id \notin Ids(pending[d]) /\ obs.id \notin Ids(shipped[d])
        BY <2>1, <4>1 DEF Ids, KeysOf, Outgoing
      <4>3. Distinct(Append(pending[d], obs)) /\ Ids(Append(pending[d], obs)) = Ids(pending[d]) \cup {obs.id}
        BY <1>2, <1>4, <1>7, <4>2, DistinctAppend DEF Apart
      <4>4. Distinct(pending'[d]) /\ Ids(pending'[d]) = Ids(pending[d]) \cup {obs.id}
        BY <1>4, <4>1, <4>3
      <4> QED
        BY <1>4, <1>7, <4>2, <4>4 DEF Apart
    <3> QED
      BY <3>1, <3>2
  <2> QED
    BY <2>2, <2>3, <2>4 DEF Apart, KeysOf
<1> QED
  BY <1>4, <1>6, <1>7 DEF OnceAt

LEMMA OnceInvStep ==
  ASSUME TypeInv, UrlInv, OnceInv, [Next]_vars
  PROVE  OnceInv'
<1> USE DEF TypeInv
<1> SUFFICES ASSUME NEW d \in Tabs PROVE OnceAt(d)'
  BY DEF OnceInv
<1>0. OnceAt(d)
  BY DEF OnceInv
<1>1. CASE SameTab(d)
  BY <1>0, <1>1 DEF SameTab, OnceAt, Apart, Outgoing, Ids, Distinct, KeysOf
<1>2. CASE Load(d)
  <2>1. /\ ~open[d] /\ seen'[d] = seenStore[d] /\ seenStore' = seenStore
        /\ queue' = queue /\ pending' = pending /\ shipped' = shipped
    BY <1>2 DEF Load, Places, storeVars, historyVars
  <2>2. queue[d] = <<>> /\ pending[d] = <<>> /\ Len(seenStore[d]) \in Nat
    BY <2>1 DEF Closed, Places
  <2>3. Outgoing(d)' = ToSet(shipped[d])
    BY <2>1, <2>2, NothingIsDistinct DEF Outgoing
  <2>4. ASSUME Apart(d) PROVE Apart(d)'
    <3>1. \A o \in Outgoing(d)' : KeysOf(o) \subseteq ToSet(seen'[d])
      BY <2>1, <2>3, <2>4 DEF Apart
    <3> QED
      BY <2>1, <2>4, <3>1 DEF Apart, Ids, Distinct, KeysOf
  <2> QED
    BY <1>0, <2>1, <2>2, <2>4 DEF OnceAt
<1>3. CASE Discard(d)
  <2>1. /\ ~open'[d] /\ queue'[d] = <<>> /\ pending'[d] = <<>> /\ shipped' = shipped /\ seenStore' = seenStore
    BY <1>3 DEF Discard, Unload, Places, storeVars, historyVars
  <2>2. ASSUME Apart(d) PROVE Apart(d)'
    <3>1. \A o \in ToSet(shipped'[d]) : KeysOf(o) \subseteq ToSet(seenStore'[d])
      BY <2>1, <2>2 DEF Apart
    <3>2. Distinct(shipped'[d])
      BY <2>1, <2>2 DEF Apart
    <3> QED
      BY <2>1, <3>1, <3>2, NothingIsDistinct DEF Apart, KeysOf
  <2> QED
    BY <1>0, <2>1, <2>2 DEF OnceAt
<1>4. CASE NewSession(d)
  <2>1. ~open[d] /\ open' = open /\ queue' = queue /\ pending' = pending /\ shipped'[d] = <<>>
    BY <1>4 DEF NewSession, Places, documentVars
  <2>2. queue[d] = <<>> /\ pending[d] = <<>>
    BY <2>1 DEF Closed
  <2>3. Apart(d)'
    BY <2>1, <2>2, NothingIsDistinct DEF Apart
  <2> QED
    BY <2>1, <2>3 DEF OnceAt
<1>5. CASE Captures(d)
  BY <1>0, <1>5, CaptureKeepsApart
<1>6. ASSUME NEW e, NEW h, CaptureInline(d, e, h) PROVE OnceAt(d)'
  BY <1>0, <1>6 DEF CaptureInline, storeVars, historyVars, OnceAt, Apart, Outgoing, Ids, Distinct, KeysOf
<1>7. CASE IdleTick(d)
  <2>1. pending'[d] = pending[d] \o queue[d] /\ queue'[d] = <<>>
    BY <1>7, IdleTickType
  <2>2. /\ pending[d] \in Seq(Observations) /\ queue[d] \in Seq(Observations)
        /\ open' = open /\ seen' = seen /\ seenStore' = seenStore /\ shipped' = shipped
    BY <1>7 DEF Places, IdleTick, storeVars, historyVars
  <2>3. ToSet(pending'[d]) = ToSet(pending[d]) \cup ToSet(queue[d])
    BY <2>1, <2>2, ElementsOfConcat
  <2>4. /\ Distinct(pending'[d]) <=> Distinct(pending[d]) /\ Distinct(queue[d]) /\ Ids(pending[d]) \cap Ids(queue[d]) = {}
        /\ Ids(pending'[d]) = Ids(pending[d]) \cup Ids(queue[d])
    <3>1. /\ Distinct(pending[d] \o queue[d]) <=>
               Distinct(pending[d]) /\ Distinct(queue[d]) /\ Ids(pending[d]) \cap Ids(queue[d]) = {}
          /\ Ids(pending[d] \o queue[d]) = Ids(pending[d]) \cup Ids(queue[d])
      BY <2>2, DistinctConcat
    <3> QED
      BY <2>1, <3>1
  <2>5. ASSUME Apart(d) PROVE Apart(d)'
    <3>1. Outgoing(d)' = Outgoing(d)
      BY <2>1, <2>2, <2>3, NothingIsDistinct DEF Outgoing
    <3>2. (open[d] => \A o \in Outgoing(d)' : KeysOf(o) \subseteq ToSet(seen'[d]))
          /\ \A o \in ToSet(shipped'[d]) : KeysOf(o) \subseteq ToSet(seenStore'[d])
      BY <2>2, <2>5, <3>1 DEF Apart
    <3>3. /\ Distinct(queue'[d]) /\ Distinct(pending'[d]) /\ Distinct(shipped'[d])
          /\ Ids(queue'[d]) \cap Ids(pending'[d]) = {}
          /\ (Ids(queue'[d]) \cup Ids(pending'[d])) \cap Ids(shipped'[d]) = {}
      BY <2>1, <2>2, <2>4, <2>5, NothingIsDistinct DEF Apart
    <3> QED
      BY <2>2, <3>2, <3>3 DEF Apart, KeysOf
  <2> QED
    BY <1>0, <2>2, <2>5 DEF OnceAt
<1>8. CASE PersistSeen(d)
  <2>1. /\ open[d] /\ open' = open /\ seen' = seen /\ queue' = queue /\ pending' = pending /\ shipped' = shipped
        /\ seenStore'[d] = Persisted(seen[d])
    BY <1>8 DEF PersistSeen, Places, historyVars
  <2>2. /\ seen[d] \in Seq(Keys) /\ Len(seen[d]) \in Nat /\ Len(seenStore[d]) \in Nat /\ SeenCap \in Nat
    BY AgentAssumption DEF Places
  <2>3. /\ Len(Persisted(seen[d])) <= Len(seen[d])
        /\ Len(Persisted(seen[d])) < SeenCap => Persisted(seen[d]) = seen[d]
    BY <2>2, PersistedIsPrefix
  <2>4. ASSUME Len(seenStore'[d]) < SeenCap PROVE Apart(d)'
    <3>1. seenStore'[d] = seen[d]
      BY <2>1, <2>3, <2>4
    <3>2. Len(seenStore[d]) <= Len(seen[d])
      BY <1>0, <2>1 DEF OnceAt
    <3>3. Len(seenStore[d]) < SeenCap
      BY <2>2, <2>4, <3>1, <3>2
    <3>4. Apart(d)
      BY <1>0, <3>3 DEF OnceAt
    <3>5. \A o \in Outgoing(d) : KeysOf(o) \subseteq ToSet(seen[d])
      BY <2>1, <3>4 DEF Apart
    <3> QED
      BY <2>1, <3>1, <3>4, <3>5 DEF Apart, Outgoing, Ids, Distinct, KeysOf
  <2> QED
    BY <2>1, <2>3, <2>4 DEF OnceAt
<1>9. ASSUME NEW r, NEW ok \in BOOLEAN, Digest(d, r, ok) PROVE OnceAt(d)'
  BY <1>0, <1>9, DigestKeepsApart
<1>10. ASSUME NEW accepted, FlushEnds(d, accepted) PROVE OnceAt(d)'
  BY <1>0, <1>10, FlushKeepsApart
<1> QED
  BY <1>1, <1>2, <1>3, <1>4, <1>5, <1>6, <1>7, <1>8, <1>9, <1>10, TabCases DEF TabStep

\* Within a session no observation is queued, pending or accepted twice, over
\* the pages of the session, overlapping rounds and refused beacons, as long as
\* the keys of the session have not filled its storage.
THEOREM NothingTwice == Spec => []ReportedOnce
<1>1. Init => UrlInv /\ OnceInv
  <2> SUFFICES ASSUME Init, NEW d \in Tabs
               PROVE  (\A obs \in Outgoing(d) : StampsUrl(obs)) /\ OnceAt(d)
    BY DEF UrlInv, OnceInv
  <2>1. /\ queue[d] = <<>> /\ pending[d] = <<>> /\ shipped[d] = <<>> /\ seen[d] = <<>> /\ seenStore[d] = <<>> /\ ~open[d]
    BY DEF Init
  <2>2. Outgoing(d) = {}
    BY <2>1, NothingIsDistinct DEF Outgoing
  <2>3. Apart(d)
    BY <2>1, NothingIsDistinct DEF Apart
  <2> QED
    BY <2>1, <2>2, <2>3 DEF OnceAt
<1>2. TypeInv /\ UrlInv /\ OnceInv /\ [Next]_vars => UrlInv' /\ OnceInv'
  BY UrlInvStep, OnceInvStep
<1>3. TypeInv /\ OnceInv => ReportedOnce
  <2> SUFFICES ASSUME TypeInv, OnceInv, NEW d \in Tabs, Len(seenStore[d]) < SeenCap
               PROVE  Distinct(queue[d] \o pending[d] \o shipped[d])
    BY DEF ReportedOnce, Distinct
  <2>1. queue[d] \in Seq(Observations) /\ pending[d] \in Seq(Observations) /\ shipped[d] \in Seq(Observations)
    BY DEF TypeInv, Places
  <2>2. Apart(d)
    BY DEF OnceInv, OnceAt
  <2> DEFINE waiting == queue[d] \o pending[d]
  <2>3. waiting \in Seq(Observations) /\ Distinct(waiting) /\ Ids(waiting) = Ids(queue[d]) \cup Ids(pending[d])
    BY <2>1, <2>2, ElementsOfConcat, DistinctConcat DEF Apart
  <2> HIDE DEF waiting
  <2>4. Distinct(waiting \o shipped[d]) <=>
          Distinct(waiting) /\ Distinct(shipped[d]) /\ Ids(waiting) \cap Ids(shipped[d]) = {}
    BY <2>1, <2>3, DistinctConcat
  <2> QED
    BY <2>2, <2>3, <2>4 DEF Apart, waiting
<1> QED
  BY <1>1, <1>2, <1>3, TypeInvariant, PTL DEF Spec

=============================================================================
