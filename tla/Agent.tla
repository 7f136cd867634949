-------------------------------- MODULE Agent --------------------------------
(***************************************************************************)
(* The browser agent (agent/src): the documents of one origin on one       *)
(* device, each in a tab with a session of its own.  Observers capture     *)
(* scripts and CSP violations into bounded queues; idle callbacks turn the *)
(* captures into observations, inline ones after an awaited SHA-256; a     *)
(* hidden or leaving page flushes what is pending in beacons.              *)
(*                                                                         *)
(* Two sets keep repeats quiet: the session set (memory, sessionStorage),  *)
(* marked at capture, and the device set (memory, localStorage, shared by  *)
(* the tabs), stamped when a transport has accepted a beacon.              *)
(*                                                                         *)
(* An external script or a violation is represented by the observation it  *)
(* becomes: its wire identity and the dedupe keys it was captured under.   *)
(***************************************************************************)
EXTENDS Integers, Sequences, FiniteSets, SequencesExt

CONSTANTS
  Tabs,
  Urls, Hosts, DocHost, NoHost,  \* script URLs; hosts of initiators; the document's; none
  Violations,                    \* directive and blocked URI of a CSP violation
  Elements,                      \* inline script elements of a document
  sourceOf,                      \* the source of each
  windowOf,                      \* length, head and tail of a source
  Oversize,                      \* sources over the hashing ceiling
  Performance,                   \* the engine has a PerformanceObserver
  DigestFails,                   \* crypto.subtle may be missing or fail
  QueueCap,                      \* MAX_PENDING_CAPTURES
  BeaconCap,                     \* MAX_OBSERVATIONS_PER_BEACON
  SeenCap,                       \* MAX_PERSISTED_SEEN
  MemoCap,                       \* MAX_INLINE_HASH_MEMO
  DeviceTtl,                     \* DEVICE_SEEN_TTL_MS, in ticks
  MaxClock,                      \* bound of the device's clock
  Unstamped                      \* no stamp under a key

Sources  == {sourceOf[e] : e \in Elements}
AllHosts == Hosts \cup {DocHost, NoHost}

\* Hosts here are those of initiators the insertion patch can attribute.
ASSUME AgentAssumption ==
  /\ DOMAIN sourceOf = Elements /\ DOMAIN windowOf = Sources
  /\ {Performance, DigestFails} \subseteq BOOLEAN /\ Oversize \subseteq Sources
  /\ NoHost \notin Hosts \cup {DocHost}
  /\ {QueueCap, BeaconCap} \subseteq Nat \ {0}
  /\ {SeenCap, MemoCap, DeviceTtl, MaxClock} \subseteq Nat
  /\ Unstamped \notin Nat

(***************************************************************************)
(* Dedupe keys.                                                            *)
(***************************************************************************)
urlKey(u)                 == <<"ext", u>>
urlWithInitiatorKey(u, h) == <<"ext", u, h>>
cspKey(v)                 == <<"csp", v>>
inlineHashKey(h, s)       == <<"inl-sha", s, h>>
inlineWireKey(h, s)       == <<"inl-wire", windowOf[s], h>>

ExternalKeys == {urlKey(u) : u \in Urls} \cup {urlWithInitiatorKey(u, h) : u \in Urls, h \in AllHosts}
CspKeys      == {cspKey(v) : v \in Violations}
HashKeys     == {inlineHashKey(h, s) : h \in AllHosts, s \in Sources}
WireKeys     == {inlineWireKey(h, s) : h \in AllHosts, s \in Sources}
Keys         == ExternalKeys \cup CspKeys \cup HashKeys \cup WireKeys

\* An observation: its identity on the wire, the keys a device stamps for it.
Observation(id, stamps) == [id |-> id, stamps |-> stamps]
External(u, h) == Observation(urlWithInitiatorKey(u, h), {urlKey(u), urlWithInitiatorKey(u, h)})
Csp(v)         == Observation(cspKey(v), {cspKey(v)})
Hashed(h, s)   == Observation(inlineHashKey(h, s), {inlineHashKey(h, s)})
\* Its key embeds excerpts of the source, so it never reaches localStorage.
Unhashed(h, s) == Observation(inlineWireKey(h, s), {})
KeysOf(obs)    == {obs.id} \cup obs.stamps

VARIABLES
  clock,       \* Date.now(), which may be set forwards and backwards
  open,        \* the tab shows a document
  seen,        \* the session set in memory, oldest first
  seenStore,   \* and in sessionStorage
  persistDue,  \* a deferred persistSeen is scheduled
  sentStore,   \* sessionStorage: some beacon left this session
  device,      \* the device set in memory
  disk,        \* and in localStorage
  queue,       \* external and CSP captures
  inlineQueue, \* inline captures
  elements,    \* inline elements captured in this document
  rounds,      \* inline captures drained by idle rounds that await a digest
  memo,        \* sources hashed in this document, per host
  pending,     \* observations awaiting a flush
  inherited,   \* history: the session set as loaded
  shipped,     \* history: observations accepted by a transport this session
  beats,       \* history: heartbeats accepted this session
  reports      \* history: keys accepted for delivery, and when

documentVars == <<seen, persistDue, device, queue, inlineQueue, elements, rounds, memo, pending, inherited>>
storeVars    == <<seenStore, sentStore, disk>>
historyVars  == <<shipped, beats, reports>>
vars == <<clock, open, documentVars, storeVars, historyVars>>

NoStamps == [k \in Keys |-> Unstamped]

(***************************************************************************)
(* The device set (session.ts).                                            *)
(***************************************************************************)
StampIsLive(stamp) == stamp # Unstamped /\ stamp <= clock /\ clock - stamp < DeviceTtl

\* loadDeviceSeen: what is live in storage.
LoadedDevice == [k \in Keys |-> IF StampIsLive(disk[k]) THEN disk[k] ELSE Unstamped]

\* persistSeen: the newer live stamp per key, of this document's and the stored.
Newer(mine, stored) ==
  IF StampIsLive(stored) /\ (mine = Unstamped \/ stored > mine) THEN stored ELSE mine

DeviceHasSeen(d, k) == StampIsLive(device[d][k])
HasSeen(d, k)       == Contains(seen[d], k) \/ DeviceHasSeen(d, k)

\* The session set with keys ks marked.
Marked(set, ks) == set \o SetToSeq(ks \ ToSet(set))

\* persistSeen writes the oldest keys up to the cap.
Persisted(set) == SubSeq(set, 1, IF Len(set) <= SeenCap THEN Len(set) ELSE SeenCap)

Init ==
  /\ clock = 0
  /\ open = [d \in Tabs |-> FALSE]
  /\ seen = [d \in Tabs |-> <<>>] /\ seenStore = seen /\ inherited = seen
  /\ persistDue = [d \in Tabs |-> FALSE] /\ sentStore = persistDue
  /\ device = [d \in Tabs |-> NoStamps] /\ disk = NoStamps
  /\ queue = seen /\ inlineQueue = seen /\ rounds = seen /\ pending = seen /\ shipped = seen
  /\ elements = [d \in Tabs |-> {}] /\ memo = elements
  /\ beats = [d \in Tabs |-> 0]
  /\ reports = {}

(***************************************************************************)
(* A document: loaded, left (pagehide flushes, see below), or lost.        *)
(***************************************************************************)
Load(d) ==
  /\ ~open[d]
  /\ open' = [open EXCEPT ![d] = TRUE]
  /\ seen' = [seen EXCEPT ![d] = seenStore[d]]
  /\ inherited' = [inherited EXCEPT ![d] = seenStore[d]]
  /\ device' = [device EXCEPT ![d] = LoadedDevice]
  /\ UNCHANGED <<clock, persistDue, queue, inlineQueue, elements, rounds, memo, pending, storeVars, historyVars>>

\* What the memory of a document leaves behind.
Unload(d) ==
  /\ open' = [open EXCEPT ![d] = FALSE]
  /\ seen' = [seen EXCEPT ![d] = <<>>] /\ inherited' = [inherited EXCEPT ![d] = <<>>]
  /\ persistDue' = [persistDue EXCEPT ![d] = FALSE]
  /\ device' = [device EXCEPT ![d] = NoStamps]
  /\ queue' = [queue EXCEPT ![d] = <<>>] /\ inlineQueue' = [inlineQueue EXCEPT ![d] = <<>>]
  /\ elements' = [elements EXCEPT ![d] = {}] /\ memo' = [memo EXCEPT ![d] = {}]
  /\ rounds' = [rounds EXCEPT ![d] = <<>>]
  /\ pending' = [pending EXCEPT ![d] = <<>>]

\* The browser discards the tab without a pagehide.
Discard(d) ==
  /\ open[d]
  /\ Unload(d)
  /\ UNCHANGED <<clock, storeVars, historyVars>>

NewSession(d) ==
  /\ ~open[d] /\ (seenStore[d] # <<>> \/ sentStore[d])
  /\ seenStore' = [seenStore EXCEPT ![d] = <<>>]
  /\ sentStore' = [sentStore EXCEPT ![d] = FALSE]
  /\ shipped' = [shipped EXCEPT ![d] = <<>>]
  /\ beats' = [beats EXCEPT ![d] = 0]
  /\ UNCHANGED <<clock, open, documentVars, disk, reports>>

(***************************************************************************)
(* Capture (capture.ts).  Room in the queue is checked before any key is   *)
(* marked: what is turned away stays capturable.                           *)
(***************************************************************************)
HasCapacity(d) == Len(queue[d]) + Len(inlineQueue[d]) < QueueCap

Mark(d, ks) ==
  /\ seen' = [seen EXCEPT ![d] = Marked(@, ks)]
  /\ persistDue' = [persistDue EXCEPT ![d] = @ \/ ~(ks \subseteq ToSet(seen[d]))]

\* Slip: the keys are marked before the queue is found full.
CaptureMarked(d, gate, obs) ==
  /\ open[d] /\ ~HasSeen(d, gate)
  /\ Mark(d, obs.stamps)
  /\ queue' = IF HasCapacity(d) THEN [queue EXCEPT ![d] = Append(@, obs)] ELSE queue
  /\ UNCHANGED <<clock, open, device, inlineQueue, elements, rounds, memo, pending, inherited, storeVars, historyVars>>

Capture(d, gate, obs) ==
  /\ open[d] /\ ~HasSeen(d, gate)
  /\ HasCapacity(d)
  /\ Mark(d, obs.stamps)
  /\ queue' = [queue EXCEPT ![d] = Append(@, obs)]
  /\ UNCHANGED <<clock, open, device, inlineQueue, elements, rounds, memo, pending, inherited, storeVars, historyVars>>

\* The insertion patch knows who inserts, and gates on URL and initiator.
CaptureFromInsertion(d, u, h) == Capture(d, urlWithInitiatorKey(u, h), External(u, h))

\* The two observers do not, and gate on the URL alone.
CaptureFromSafetyNet(d, u, h) == Capture(d, urlKey(u), External(u, h))

CaptureViolation(d, v) == Capture(d, cspKey(v), Csp(v))

\* An element is captured once, by whichever path meets it first.
CaptureInline(d, e, h) ==
  /\ open[d]
  /\ \A c \in elements[d] : c[1] # e
  /\ HasCapacity(d)
  /\ elements' = [elements EXCEPT ![d] = @ \cup {<<e, h>>}]
  /\ inlineQueue' = [inlineQueue EXCEPT ![d] = Append(@, <<e, h>>)]
  /\ UNCHANGED <<clock, open, seen, persistDue, device, queue, rounds, memo, pending, inherited, storeVars, historyVars>>

(***************************************************************************)
(* Idle processing (agent.ts).  A round takes all inline captures at once  *)
(* and then awaits one digest after the other; another round may start     *)
(* before it is over.                                                      *)
(***************************************************************************)
IdleTick(d) ==
  /\ open[d] /\ queue[d] \o inlineQueue[d] # <<>>
  /\ pending' = [pending EXCEPT ![d] = @ \o queue[d]]
  /\ queue' = [queue EXCEPT ![d] = <<>>]
  /\ rounds' = IF inlineQueue[d] = <<>> THEN rounds ELSE [rounds EXCEPT ![d] = Append(@, inlineQueue[d])]
  /\ inlineQueue' = [inlineQueue EXCEPT ![d] = <<>>]
  /\ UNCHANGED <<clock, open, seen, persistDue, device, elements, memo, inherited, storeVars, historyVars>>

\* What an inline capture becomes.
InlineObservation(c, hashed) ==
  IF hashed THEN Hashed(c[2], sourceOf[c[1]]) ELSE Unhashed(c[2], sourceOf[c[1]])

\* Slip: the check does not mark what it lets through.
EmitUnmarked(d, set, out, obs) ==
  [seen |-> set,
   out  |-> IF Contains(set, obs.id) \/ DeviceHasSeen(d, obs.id) THEN out ELSE Append(out, obs)]

\* Slip: novelty is judged on the fingerprint, which two sources may share.
EmitOnWindow(d, set, out, obs) ==
  LET wire == IF obs.id[1] = "inl-sha" THEN inlineWireKey(obs.id[3], obs.id[2]) ELSE obs.id
  IN IF Contains(set, wire) THEN [seen |-> set, out |-> out]
     ELSE [seen |-> Append(set, wire), out |-> Append(out, obs)]

\* markInlineEmitted: novel to the session and not reported by the device.
\* What it lets through is appended to out.
Emit(d, set, out, obs) ==
  IF Contains(set, obs.id) THEN [seen |-> set, out |-> out]
  ELSE [seen |-> Append(set, obs.id),
        out  |-> IF DeviceHasSeen(d, obs.id) THEN out ELSE Append(out, obs)]

Memoised(d, c) == <<c[2], sourceOf[c[1]]>> \in memo[d]

AfterHead(rs, r) ==
  IF Len(rs[r]) = 1 THEN RemoveAt(rs, r) ELSE [rs EXCEPT ![r] = Tail(@)]

\* The digest that round r awaits arrives (or is a memo's, or cannot be had).
Digest(d, r, ok) ==
  /\ open[d] /\ r \in DOMAIN rounds[d]
  /\ LET c == Head(rounds[d][r])
         oversize == sourceOf[c[1]] \in Oversize
         hashed == ~oversize /\ (Memoised(d, c) \/ ok)
         emission == Emit(d, seen[d], pending[d], InlineObservation(c, hashed))
     IN /\ ok \/ oversize \/ Memoised(d, c) \/ DigestFails
        /\ memo' = IF hashed /\ Cardinality(memo[d]) < MemoCap
                   THEN [memo EXCEPT ![d] = @ \cup {<<c[2], sourceOf[c[1]]>>}] ELSE memo
        /\ seen' = [seen EXCEPT ![d] = emission.seen]
        /\ persistDue' = [persistDue EXCEPT ![d] = @ \/ emission.seen # seen[d]]
        /\ pending' = [pending EXCEPT ![d] = emission.out]
  /\ rounds' = [rounds EXCEPT ![d] = AfterHead(@, r)]
  /\ UNCHANGED <<clock, open, device, queue, inlineQueue, elements, inherited, storeVars, historyVars>>

\* The timer of schedulePersist.
PersistSeen(d) ==
  /\ open[d] /\ persistDue[d]
  /\ persistDue' = [persistDue EXCEPT ![d] = FALSE]
  /\ seenStore' = [seenStore EXCEPT ![d] = Persisted(seen[d])]
  /\ UNCHANGED <<clock, open, seen, device, queue, inlineQueue, elements, rounds, memo, pending, inherited, sentStore, disk, historyVars>>

(***************************************************************************)
(* flushObservations.  The queues are converted at once, inline captures   *)
(* with a memoised hash or none; the pending observations and one health   *)
(* observation go out in chunks, and after the first chunk no transport    *)
(* takes, the rest stays pending.  accepted is the number of chunks taken. *)
(***************************************************************************)
Conversion(d) ==
  LET after[k \in 0..Len(inlineQueue[d])] ==
        IF k = 0 THEN [seen |-> seen[d], out |-> pending[d] \o queue[d]]
        ELSE LET before == after[k - 1]
                 c == inlineQueue[d][k]
             IN Emit(d, before.seen, before.out, InlineObservation(c, Memoised(d, c)))
  IN after

Converted(d) == Conversion(d)[Len(inlineQueue[d])]

Chunks(out) == (Len(out) + BeaconCap) \div BeaconCap

\* Slip: what a transport refuses is not kept.
KeptNothing(out, accepted) == <<>>

Kept(out, accepted) ==
  SubSeq(out, accepted * BeaconCap + 1, Len(out))

Taken(out, accepted) ==
  SubSeq(out, 1, IF accepted * BeaconCap <= Len(out) THEN accepted * BeaconCap ELSE Len(out))

\* Slip: every key of the flush is stamped, accepted or not.
StampedAll(out, accepted) == UNION {obs.stamps : obs \in ToSet(out)}

Stamped(out, accepted) == UNION {obs.stamps : obs \in ToSet(Taken(out, accepted))}

\* markDeviceReported, then persistSeen for both sets.
Restamped(d, ks) ==
  [k \in Keys |-> IF ks = {} THEN device[d][k]
                  ELSE Newer(IF k \in ks THEN clock ELSE device[d][k], disk[k])]

\* What a flush leaves in the stores and in the history.
FlushStores(d, out, marks, accepted) ==
  /\ seenStore' = [seenStore EXCEPT ![d] = Persisted(marks)]
  /\ sentStore' = [sentStore EXCEPT ![d] = @ \/ accepted > 0]
  /\ disk' = IF Stamped(out, accepted) = {} THEN disk ELSE Restamped(d, Stamped(out, accepted))
  /\ shipped' = [shipped EXCEPT ![d] = @ \o Taken(out, accepted)]
  /\ beats' = [beats EXCEPT ![d] = IF out = <<>> THEN @ + accepted ELSE @]
  /\ reports' = reports \cup {<<k, clock>> : k \in UNION {KeysOf(obs) : obs \in ToSet(Taken(out, accepted))}}

\* Slip: a hide with nothing pending always sends a heartbeat.
BeaconsEach(d) == Chunks(Converted(d).out)

\* The beacons of a flush.  With nothing pending only the session's first is
\* sent, a heartbeat.
Beacons(d) ==
  LET out == Converted(d).out IN IF out = <<>> /\ sentStore[d] THEN 0 ELSE Chunks(out)

\* visibilitychange to hidden, or a pagehide into the back/forward cache.
Hide(d, flush, accepted) ==
  /\ open[d]
  /\ UNCHANGED <<clock, open, elements, rounds, memo, inherited>>
  /\ queue' = [queue EXCEPT ![d] = <<>>] /\ inlineQueue' = [inlineQueue EXCEPT ![d] = <<>>]
  /\ seen' = [seen EXCEPT ![d] = flush.seen]
  /\ persistDue' = [persistDue EXCEPT ![d] = @ \/ flush.seen # seen[d]]
  /\ pending' = [pending EXCEPT ![d] = Kept(flush.out, accepted)]
  /\ device' = [device EXCEPT ![d] = Restamped(d, Stamped(flush.out, accepted))]
  /\ FlushStores(d, flush.out, flush.seen, accepted)

HideAccepted(d) == Hide(d, Converted(d), Beacons(d))

\* pagehide: the document flushes and is gone.
Leave(d, flush, accepted) ==
  /\ open[d]
  /\ Unload(d)
  /\ FlushStores(d, flush.out, flush.seen, accepted)
  /\ UNCHANGED clock

\* A flush is the document's last or not, and its transports take some of it.
Flush(d) ==
  LET flush == Converted(d)
  IN \E accepted \in 0..Beacons(d) : Hide(d, flush, accepted) \/ Leave(d, flush, accepted)

SetClock(t) ==
  /\ t # clock /\ clock' = t
  /\ UNCHANGED <<open, documentVars, storeVars, historyVars>>

Observe(d) ==
  \/ \E u \in Urls :
       \/ \E h \in Hosts \cup {DocHost} : CaptureFromInsertion(d, u, h)
       \/ CaptureFromSafetyNet(d, u, DocHost)
       \/ Performance /\ CaptureFromSafetyNet(d, u, NoHost)
  \/ \E v \in Violations : CaptureViolation(d, v)
  \/ \E e \in Elements, h \in Hosts \cup {DocHost} : CaptureInline(d, e, h)

DigestOne(d) == \E r \in 1..Cardinality(Elements), ok \in BOOLEAN : Digest(d, r, ok)

Next ==
  \/ \E d \in Tabs :
       \/ Load(d) \/ Discard(d) \/ NewSession(d)
       \/ Observe(d) \/ IdleTick(d) \/ DigestOne(d) \/ PersistSeen(d)
       \/ open[d] /\ Flush(d)
  \/ \E t \in 0..MaxClock : SetClock(t)

Spec == Init /\ [][Next]_vars

ToFlush(d) == queue[d] \o inlineQueue[d] \o pending[d] # <<>>

\* Idle callbacks and digests come; a page that stays open is hidden again and
\* again, and a transport then takes all it sends.  Each line is a weak
\* fairness whose ENABLED is written out, for TLC to evaluate a flush once.
Fairness ==
  \A d \in Tabs :
    /\ []<>~(open[d] /\ queue[d] \o inlineQueue[d] # <<>>) \/ []<><<IdleTick(d)>>_vars
    /\ []<>~(open[d] /\ rounds[d] # <<>>) \/ []<><<DigestOne(d)>>_vars
    /\ []<>~(open[d] /\ ToFlush(d)) \/ []<><<HideAccepted(d)>>_vars

FairSpec == Spec /\ Fairness

(***************************************************************************)
(* Properties.                                                             *)
(***************************************************************************)
Observations == [id : Keys, stamps : SUBSET Keys]
InlineCaptures == Elements \X (Hosts \cup {DocHost})

TypeOK ==
  /\ clock \in 0..MaxClock
  /\ open \in [Tabs -> BOOLEAN] /\ persistDue \in [Tabs -> BOOLEAN] /\ sentStore \in [Tabs -> BOOLEAN]
  /\ \A d \in Tabs :
       /\ ToSet(seen[d]) \cup ToSet(seenStore[d]) \cup ToSet(inherited[d]) \subseteq Keys
       /\ IsInjective(seen[d]) /\ Len(seenStore[d]) <= SeenCap
       /\ ToSet(queue[d]) \cup ToSet(pending[d]) \cup ToSet(shipped[d]) \subseteq Observations
       /\ ToSet(inlineQueue[d]) \cup elements[d] \subseteq InlineCaptures
       /\ \A r \in DOMAIN rounds[d] : rounds[d][r] # <<>> /\ ToSet(rounds[d][r]) \subseteq InlineCaptures
       /\ memo[d] \subseteq AllHosts \X Sources /\ Cardinality(memo[d]) <= MemoCap
       /\ device[d] \in [Keys -> Nat \cup {Unstamped}]
  /\ disk \in [Keys -> Nat \cup {Unstamped}]
  /\ beats \in [Tabs -> Nat] /\ reports \subseteq Keys \X Nat

WasReported(k) == \E r \in reports : r[1] = k
Carried(s)     == UNION {KeysOf(obs) : obs \in ToSet(s)}

\* The device set is silent about a key only if a beacon with it was accepted,
\* by this clock no later than now and less than the window ago: however tabs
\* merge their stamps, and however the clock is set.
SilenceIsEarned ==
  \A d \in Tabs, k \in Keys :
    DeviceHasSeen(d, k) =>
      \E r \in reports : r[1] = k /\ r[2] <= clock /\ clock - r[2] < DeviceTtl

\* A key this document has marked silences its repeats for the session, so its
\* observation is queued, pending or accepted, unless the device has reported
\* it: through full queues, refused beacons and overlapping idle rounds.
MarkedIsCarried ==
  \A d \in Tabs, k \in Keys :
    k \in ToSet(seen[d]) \ ToSet(inherited[d]) =>
      k \in Carried(queue[d] \o pending[d] \o shipped[d]) \/ WasReported(k)

Awaited(d) == ToSet(inlineQueue[d]) \cup UNION {ToSet(rounds[d][r]) : r \in DOMAIN rounds[d]}

\* What a captured element can go out as.
IdsOf(c) == {InlineObservation(c, hashed).id : hashed \in BOOLEAN}

\* Every inline element captured is still to be processed or has been judged on
\* an identity of its own; a source that could be hashed was judged on its
\* hash, so that no other source, alike at both ends, can stand in for it.
InlineIsJudged ==
  \A d \in Tabs :
    /\ \A c \in elements[d] : c \in Awaited(d) \/ \E id \in IdsOf(c) : Contains(seen[d], id)
    /\ \A m \in memo[d] : Contains(seen[d], inlineHashKey(m[1], m[2]))

\* Nothing is queued, pending or accepted twice in a session, over overlapping
\* rounds and reloads, while the session's keys fit its storage.
ReportedOnce ==
  \A d \in Tabs :
    Len(seenStore[d]) < SeenCap =>
      LET all == queue[d] \o pending[d] \o shipped[d]
      IN \A i, j \in DOMAIN all : all[i].id = all[j].id => i = j

\* A session sends at most one heartbeat, however many pages it loads.
OneHeartbeat == \A d \in Tabs : beats[d] <= 1

\* In a page that stays open everything it has captured is in the end accepted,
\* but for what a page before it in the session has marked.
CapturedIsSent ==
  \A d \in Tabs :
    []<>(open[d] =>
           /\ \A k \in ToSet(seen[d]) \ ToSet(inherited[d]) : WasReported(k)
           /\ \A c \in elements[d] : \E id \in IdsOf(c) : WasReported(id) \/ Contains(inherited[d], id))

=============================================================================
