---------------------------- MODULE WorkerRouter ----------------------------
(***************************************************************************)
(* gateway/worker_router/worker_router.py for one tier: the cache of       *)
(* available streams with its lock, the fetch that fills it, and the       *)
(* choice of a stream.  Caches and locks of different tiers share nothing. *)
(* A request is one call of resolve_stream_key.                            *)
(***************************************************************************)
EXTENDS Integers, FiniteSets

CONSTANTS
  Requests,
  Streams,       \* streams workers may register for the tier
  RegionOf,      \* the region in a stream's key
  Known,         \* REGIONES_COORDENADAS without "global"
  Places,        \* where the clients are
  Nowhere,       \* in Places: an address that GeoIP does not find
  Apart,         \* between a place and the coordinates of a region, in degrees
  Km,            \* between the coordinates of two regions
  Allowed,       \* regions of the agents that are asked for
  None,
  CacheTtl,      \* STREAM_CACHE_TTL
  RequestTime,   \* bound: ticks from the start of a request to its end
  MaxTime,       \* bound: the clock
  MaxFaults      \* bound: Redis calls that raise

\* REGIONES_COORDENADAS has an entry for "global", too.
Regions == Known \cup {"global"}

\* What is assumed of them; the module that gives them values states it.
RouterAssumption ==
  /\ RegionOf \in [Streams -> STRING]
  /\ Known \subseteq STRING /\ "global" \notin Known
  /\ Apart \in [(Places \ {Nowhere}) \X Regions -> Nat]
  /\ Km \in [Regions \X Known -> Nat]
  /\ Allowed \subseteq SUBSET STRING
  /\ None \notin Requests \cup Streams
  /\ CacheTtl \in Nat \ {0}
  /\ RequestTime \in Nat /\ MaxTime \in Nat /\ MaxFaults \in Nat

VARIABLES
  now,
  registered,    \* members of webrtc:offers:{tier}
  full,          \* streams with MAX_STREAM_DEPTH entries pending or more
  cache,         \* _stream_cache[tier].streams, or None
  fetchedAt,     \* _stream_cache[tier].fetched_at
  lock,          \* the request that holds _locks[tier]
  stage,         \* where the request is
  startedAt,     \* when it came in
  client,        \* its client's region
  allowed,       \* agent.regions
  members,       \* the reply of SMEMBERS
  chosen,        \* the stream the request was routed to
  lastSeen,      \* history: when a stream was last registered
  lastRoom,      \* history: when it was last not full
  lastBad,       \* history: when it was last unregistered or full, or XINFO failed
  faults

worldVars == <<registered, full>>
cacheVars == <<cache, fetchedAt>>
historyVars == <<lastSeen, lastRoom, lastBad>>
vars == <<now, worldVars, cacheVars, lock, stage, startedAt, client, allowed, members, chosen,
          historyVars, faults>>

Stages == {"idle", "lock", "members", "info", "routed", "refused", "none", "error"}
Waiting == {"lock", "members", "info"}

TypeOK ==
  /\ now \in 0..MaxTime
  /\ registered \subseteq Streams /\ full \subseteq Streams
  /\ cache \in (SUBSET Streams) \cup {None}
  /\ fetchedAt \in 0..MaxTime
  /\ lock \in Requests \cup {None}
  /\ stage \in [Requests -> Stages]
  /\ startedAt \in [Requests -> 0..MaxTime]
  /\ client \in [Requests -> Regions]
  /\ allowed \in [Requests -> Allowed]
  /\ members \in [Requests -> SUBSET Streams]
  /\ chosen \in [Requests -> Streams \cup {None}]
  /\ \A h \in {lastSeen, lastRoom, lastBad} : h \in [Streams -> Int]
  /\ faults \in 0..MaxFaults

\* _obtener_region_cercana: nearest in degrees, be it "global".
RegionesCercanas(p) == {g \in Regions : \A h \in Regions : Apart[<<p, g>>] <= Apart[<<p, h>>]}

\* _resolver_region_por_ip
RegionesPorIp(p) == IF p = Nowhere THEN {"global"} ELSE RegionesCercanas(p)

\* Long before the clock starts.
Ages == -(CacheTtl + RequestTime + 1)

Init ==
  /\ now = 0
  /\ registered = {} /\ full = {}
  /\ cache = None /\ fetchedAt = 0
  /\ lock = None
  /\ stage = [r \in Requests |-> "idle"]
  /\ startedAt = [r \in Requests |-> 0]
  /\ client \in [Requests -> UNION {RegionesPorIp(p) : p \in Places}]
  /\ allowed \in [Requests -> Allowed]
  /\ members = [r \in Requests |-> {}]
  /\ chosen = [r \in Requests |-> None]
  /\ lastSeen = [k \in Streams |-> Ages]
  /\ lastRoom = [k \in Streams |-> 0]
  /\ lastBad = [k \in Streams |-> 0]
  /\ faults = 0

Fault == /\ faults < MaxFaults
         /\ faults' = faults + 1

----------------------------------------------------------------------------
(* The choice of a stream: resolve_stream_key after the fetch. *)

\* distance_to_region as sort_streams_by_distance sees it: the global stream
\* and unknown regions are infinitely far.
AsNear(from, k, j) ==
  \/ RegionOf[j] \notin Known
  \/ RegionOf[k] \in Known /\ Km[<<from, RegionOf[k]>>] <= Km[<<from, RegionOf[j]>>]

\* sorted(...)[0]: one of the nearest, in whatever order the set was read.
Nearest(S, from) == {k \in S : \A j \in S : AsNear(from, k, j)}

Preferred(S, regions) == {k \in S : RegionOf[k] \in regions}

\* The streams the request may be routed to.
AnyRegion(S, regions) == IF Preferred(S, regions) # {} THEN Preferred(S, regions) ELSE S \* mutant
Candidates(S, regions) ==
  IF Preferred(S, regions) # {} THEN Preferred(S, regions)
  ELSE IF "global" \in regions THEN S ELSE {}

\* The log line after the choice computes the distance once more, this time
\* with nothing to catch UnknownRegionError.
Loggable(k) == RegionOf[k] \in Regions

\* What becomes of a request once get_available_streams returned S.
Resolve(r, S) ==
  \/ /\ S = {}
     /\ stage' = [stage EXCEPT ![r] = "refused"]
     /\ UNCHANGED chosen
  \/ /\ S # {} /\ Candidates(S, allowed[r]) = {}
     /\ stage' = [stage EXCEPT ![r] = "none"]
     /\ UNCHANGED chosen
  \/ \E k \in Nearest(Candidates(S, allowed[r]), client[r]) :
       IF Loggable(k)
         THEN /\ stage' = [stage EXCEPT ![r] = "routed"]
              /\ chosen' = [chosen EXCEPT ![r] = k]
         ELSE stage' = [stage EXCEPT ![r] = "error"] /\ UNCHANGED chosen

----------------------------------------------------------------------------
(* Time and the workers. *)

\* The history of the world before and after a step that ends at time t, in
\* which XINFO failed for the streams in F.
Note(t, F) ==
  /\ lastSeen' = [k \in Streams |-> IF k \in registered \cup registered' THEN t ELSE lastSeen[k]]
  /\ lastRoom' = [k \in Streams |-> IF k \notin full \cap full' THEN t ELSE lastRoom[k]]
  /\ lastBad' = [k \in Streams |->
       IF k \notin registered \cap registered' \/ k \in full \cup full' \cup F THEN t ELSE lastBad[k]]

\* A request is over within RequestTime.
Tick ==
  /\ now < MaxTime
  /\ \A r \in Requests : stage[r] \in Waiting => now < startedAt[r] + RequestTime
  /\ now' = now + 1
  /\ UNCHANGED <<worldVars, cacheVars, lock, stage, startedAt, client, allowed, members, chosen, faults>>
  /\ Note(now + 1, {})

\* A worker registers the stream, or it is removed from the set.
ChangeRegistry(k) ==
  /\ registered' = IF k \in registered THEN registered \ {k} ELSE registered \cup {k}
  /\ UNCHANGED <<now, full, cacheVars, lock, stage, startedAt, client, allowed, members, chosen, faults>>
  /\ Note(now, {})

ChangeDepth(k) ==
  /\ full' = IF k \in full THEN full \ {k} ELSE full \cup {k}
  /\ UNCHANGED <<now, registered, cacheVars, lock, stage, startedAt, client, allowed, members, chosen, faults>>
  /\ Note(now, {})

----------------------------------------------------------------------------
(* get_available_streams. *)

NeverOld == cache # None \* mutant: no limit
Fresh == cache # None /\ now - fetchedAt < CacheTtl

\* A hit leaves fetched_at as it is.
FastPath(r) ==
  /\ stage[r] = "idle" /\ Fresh
  /\ startedAt' = [startedAt EXCEPT ![r] = now]
  /\ Resolve(r, cache)
  /\ UNCHANGED <<now, worldVars, cacheVars, lock, client, allowed, members, historyVars, faults>>

Miss(r) ==
  /\ stage[r] = "idle" /\ ~Fresh
  /\ startedAt' = [startedAt EXCEPT ![r] = now]
  /\ stage' = [stage EXCEPT ![r] = "lock"]
  /\ UNCHANGED <<now, worldVars, cacheVars, lock, client, allowed, members, chosen, historyVars, faults>>

\* The second look at the cache, under the lock.
FilledMeanwhile == Fresh

DoubleCheck(r) ==
  /\ stage[r] = "lock" /\ lock = None /\ FilledMeanwhile
  /\ Resolve(r, cache)
  /\ UNCHANGED <<now, worldVars, cacheVars, lock, startedAt, client, allowed, members, historyVars, faults>>

BeginFetch(r) ==
  /\ stage[r] = "lock" /\ lock = None /\ ~FilledMeanwhile
  /\ lock' = r
  /\ stage' = [stage EXCEPT ![r] = "members"]
  /\ UNCHANGED <<now, worldVars, cacheVars, startedAt, client, allowed, members, chosen, historyVars, faults>>

\* The new entry, also when it is empty.
Store(S) ==
  /\ cache' = S
  /\ fetchedAt' = now

\* SMEMBERS
ReadMembers(r) ==
  /\ stage[r] = "members"
  /\ members' = [members EXCEPT ![r] = registered]
  /\ IF registered = {}
       THEN Store({}) /\ lock' = None /\ Resolve(r, {})
       ELSE /\ stage' = [stage EXCEPT ![r] = "info"]
            /\ UNCHANGED <<cacheVars, lock, chosen>>
  /\ UNCHANGED <<now, worldVars, startedAt, client, allowed, historyVars, faults>>

\* The pipeline of XINFO GROUPS; a stream for which it fails is left out.
Healthy(r) == members[r] \ full

ReadDepths(r) ==
  /\ stage[r] = "info"
  /\ \E F \in SUBSET members[r] :
       /\ IF F = {} THEN UNCHANGED faults ELSE Fault
       /\ Store(Healthy(r) \ F)
       /\ Resolve(r, Healthy(r) \ F)
       /\ UNCHANGED worldVars
       /\ Note(now, F)
  /\ lock' = None
  /\ UNCHANGED <<now, startedAt, client, allowed, members>>

\* A Redis call raises: "async with" lets the lock go, the cache is as before.
FetchFails(r) ==
  /\ stage[r] \in {"members", "info"}
  /\ Fault
  /\ lock' = None
  /\ stage' = [stage EXCEPT ![r] = "error"]
  /\ UNCHANGED <<now, worldVars, cacheVars, startedAt, client, allowed, members, chosen, historyVars>>

----------------------------------------------------------------------------
WaitStep(r) == DoubleCheck(r) \/ BeginFetch(r) \/ ReadMembers(r) \/ ReadDepths(r) \/ FetchFails(r)

Next ==
  \/ Tick
  \/ \E k \in Streams : ChangeRegistry(k) \/ ChangeDepth(k)
  \/ \E r \in Requests : FastPath(r) \/ Miss(r) \/ WaitStep(r)

Spec == Init /\ [][Next]_vars

----------------------------------------------------------------------------
(* Properties. *)

\* How old the reply behind an answer can be: it is fetched by one request
\* and serves hits until the entry is CacheTtl old.
Recent(t) == now - t < CacheTtl + RequestTime

Routed(r) == chosen'[r] # chosen[r]

\* Whoever fetched the list, within that time a stream a request is routed to was
\* registered and was not full, and "no capacity" was right about every stream: a
\* worker that registers is not turned away from for longer (worker_router.py:168-182).
DecisionIsRecent ==
  [][\A r \in Requests :
       /\ Routed(r) => Recent(lastSeen'[chosen'[r]]) /\ Recent(lastRoom'[chosen'[r]])
       /\ stage[r] # "refused" /\ stage'[r] = "refused" => \A k \in Streams : Recent(lastBad'[k])]_vars

\* A stream of an allowed region that was available all that time: the
\* request goes to a stream no farther than it, and never leaves the allowed
\* regions; without one, "global" must be among them.
RoutedWithinRegions ==
  [][\A r \in Requests : Routed(r) =>
       IF RegionOf[chosen'[r]] \in allowed[r]
       THEN \A k \in Preferred(Streams, allowed[r]) :
              AsNear(client[r], chosen'[r], k) \/ Recent(lastBad'[k])
       ELSE /\ "global" \in allowed[r]
            /\ \A k \in Preferred(Streams, allowed[r]) : Recent(lastBad'[k])]_vars
=============================================================================
