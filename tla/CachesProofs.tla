---------------------------- MODULE CachesProofs ----------------------------
(***************************************************************************)
(* The caches of the gateway, for any lifetimes, requests, streams and     *)
(* regions: how old the configuration in a token can be, and what the      *)
(* router's decisions rest on.                                             *)
(***************************************************************************)
EXTENDS Caches, TLAPS

-----------------------------------------------------------------------------
(* SessionInit: the agents' configurations. *)

\* What a step of get_token, of the operator or of Redis is.
LEMMA InitTypes == Init => TypeOK
PROOF BY InitAssumption DEF Init, TypeOK, Never, NoVersion, Version, Stages

LEMMA InitTypesKept == TypeOK /\ [Next]_vars => TypeOK'
PROOF
<1> SUFFICES ASSUME TypeOK, [Next]_vars PROVE TypeOK'
  OBVIOUS
<1> USE InitAssumption DEF TypeOK, Never, NoVersion, Version, Stages, dbVars, cacheVars
<1>1. CASE Tick
  BY <1>1 DEF Tick
<1>2. CASE Revoke \/ CacheExpires
  BY SMTT(30), <1>2 DEF Revoke, CacheExpires
<1>3. CASE ChangeConfig
  BY <1>3 DEF ChangeConfig
<1>4. CASE Seed
  BY <1>4 DEF Seed
<1>5. ASSUME NEW r \in Requests, RequestStep(r) PROVE TypeOK'
  <2>1. CASE Begin(r)
    BY <2>1 DEF Begin, Goto
  <2>2. CASE CheckKey(r)
    BY <2>2 DEF CheckKey, Goto
  <2>3. CASE CacheHit(r)
    BY <2>3 DEF CacheHit, Goto, KeepTtl
  <2>4. CASE CacheMiss(r)
    BY <2>4 DEF CacheMiss, Goto, Fault
  <2>5. CASE ReadDb(r)
    BY <2>5 DEF ReadDb, Goto, UserAgentConfig
  <2>6. CASE Store(r)
    <3>1. faults' \in 0..MaxFaults
      BY <2>6 DEF Store, Fault
    <3>2. cached' \in Version \cup {NoVersion} /\ expiresAt' \in 0..(MaxTime + CacheTtl)
      BY <2>6 DEF Store
    <3>3. stage' \in [Requests -> Stages]
      BY <2>6 DEF Store, Goto
    <3> QED BY <2>6, <3>1, <3>2, <3>3 DEF Store
  <2>7. CASE Sign(r)
    <3>1. faults' \in 0..MaxFaults
      BY <2>7 DEF Sign, Fault
    <3>2. signedAt' \in [Requests -> 0..Never]
      BY SMTT(30), <2>7 DEF Sign
    <3>3. stage' \in [Requests -> Stages]
      BY <2>7 DEF Sign, Goto
    <3> QED BY <2>7, <3>1, <3>2, <3>3 DEF Sign
  <2> QED BY <1>5, <2>1, <2>2, <2>3, <2>4, <2>5, <2>6, <2>7 DEF RequestStep
<1>6. CASE UNCHANGED vars
  BY <1>6 DEF vars
<1> QED BY <1>1, <1>2, <1>3, <1>4, <1>5, <1>6 DEF Next

\* The variables of get_token have their types (init_controller.py).
THEOREM SessionTyped == Spec => []TypeOK
PROOF BY InitTypes, InitTypesKept, PTL DEF Spec

\* A version that is the row, or is yet to come, has not ended.
RowInv ==
  /\ \A v \in Version : endedAt[v] <= now \/ endedAt[v] = Never
  /\ version # NoVersion => \A v \in Version : v >= version => endedAt[v] = Never

\* An entry lives CacheTtl from when it was written, and what is written was the row when
\* the request that writes it read it.
EntryInv ==
  cached # NoVersion => /\ expiresAt <= now + CacheTtl
                        /\ expiresAt <= endedAt[cached] + CacheTtl + RequestTime

RequestInv(r) ==
  /\ stage[r] \in InProgress => startedAt[r] <= now /\ now <= startedAt[r] + RequestTime
  /\ stage[r] = "store" => config[r] # NoVersion /\ startedAt[r] <= endedAt[config[r]]
  /\ stage[r] = "sign" => /\ config[r] # NoVersion
                          /\ startedAt[r] < endedAt[config[r]] + CacheTtl + RequestTime
  /\ stage[r] = "done" => /\ config[r] # NoVersion /\ signedAt[r] <= now
                          /\ signedAt[r] < endedAt[config[r]] + CacheTtl + 2 * RequestTime

AgeInv == RowInv /\ EntryInv /\ \A r \in Requests : RequestInv(r)

LEMMA AgeStarts == Init => AgeInv
PROOF BY InitAssumption DEF Init, AgeInv, RowInv, EntryInv, RequestInv, InProgress, NoVersion

\* The row comes to an end: what was still the row a moment ago is no older than that.
LEMMA RowEnds ==
  ASSUME TypeOK, AgeInv, version # NoVersion, endedAt' = [endedAt EXCEPT ![version] = now],
         version' \in {version + 1, NoVersion}, version' \in Version \cup {NoVersion},
         UNCHANGED <<now, cacheVars, stage, startedAt, config, signedAt>>
  PROVE  AgeInv'
PROOF
<1> USE InitAssumption DEF TypeOK, Never, NoVersion, Version, cacheVars
<1>1. RowInv'
  BY DEF AgeInv, RowInv
<1>2. EntryInv'
  BY DEF AgeInv, EntryInv
<1>3. ASSUME NEW r \in Requests PROVE RequestInv(r)'
  BY DEF AgeInv, RequestInv, InProgress
<1> QED BY <1>1, <1>2, <1>3 DEF AgeInv

LEMMA AgeKeptByRequest ==
  ASSUME TypeOK, AgeInv, NEW r \in Requests, RequestStep(r)
  PROVE  AgeInv'
PROOF
<1> USE InitAssumption DEF TypeOK, Never, NoVersion, Version, dbVars, cacheVars, Stages
<1>1. RowInv'
  BY DEF AgeInv, RowInv, RequestStep, Begin, CheckKey, CacheHit, CacheMiss, ReadDb, Store, Sign
<1>2. EntryInv'
  <2>1. CASE Store(r)
    <3>1. startedAt[r] <= endedAt[config[r]] /\ now <= startedAt[r] + RequestTime /\ config[r] \in Version
      BY <2>1 DEF Store, AgeInv, RequestInv, InProgress
    <3>2. /\ UNCHANGED <<now, endedAt>>
          /\ \/ cached' = config[r] /\ expiresAt' = now + CacheTtl
             \/ UNCHANGED <<cached, expiresAt>>
      BY <2>1 DEF Store
    <3>3. CASE cached' = config[r] /\ expiresAt' = now + CacheTtl
      BY <3>1, <3>2, <3>3 DEF EntryInv
    <3>4. CASE UNCHANGED <<cached, expiresAt>>
      BY <3>2, <3>4 DEF AgeInv, EntryInv
    <3> QED BY <3>2, <3>3, <3>4
  <2>2. CASE ~Store(r)
    BY <2>2 DEF AgeInv, EntryInv, RequestStep, Begin, CheckKey, CacheHit, CacheMiss, ReadDb, Sign, KeepTtl
  <2> QED BY <2>1, <2>2
<1>3. ASSUME NEW q \in Requests, q # r PROVE RequestInv(q)'
  <2>1. UNCHANGED <<now, endedAt>> /\ stage'[q] = stage[q] /\ startedAt'[q] = startedAt[q]
        /\ config'[q] = config[q] /\ signedAt'[q] = signedAt[q]
    BY <1>3 DEF RequestStep, Begin, CheckKey, CacheHit, CacheMiss, ReadDb, Store, Sign, Goto, UserAgentConfig
  <2> QED BY <2>1 DEF AgeInv, RequestInv
<1>4. RequestInv(r)'
  <2> USE DEF RequestInv, InProgress, Goto
  <2>1. CASE Begin(r) \/ CheckKey(r) \/ CacheMiss(r)
    BY SMTT(30), <2>1 DEF AgeInv, Begin, CheckKey, CacheMiss
  <2>2. CASE CacheHit(r)
    BY <2>2 DEF AgeInv, EntryInv, CacheHit
  <2>3. CASE ReadDb(r)
    BY <2>3 DEF AgeInv, RowInv, ReadDb, UserAgentConfig
  <2>4. CASE Store(r)
    BY <2>4 DEF AgeInv, Store
  <2>5. CASE Sign(r)
    BY <2>5 DEF AgeInv, Sign
  <2> QED BY <2>1, <2>2, <2>3, <2>4, <2>5 DEF RequestStep
<1> QED BY <1>1, <1>2, <1>3, <1>4 DEF AgeInv

LEMMA AgeKept == TypeOK /\ AgeInv /\ [Next]_vars => AgeInv'
PROOF
<1> SUFFICES ASSUME TypeOK, AgeInv, [Next]_vars PROVE AgeInv'
  OBVIOUS
<1> USE InitAssumption
<1>1. CASE Tick
  BY <1>1 DEF Tick, TypeOK, AgeInv, RowInv, EntryInv, RequestInv, InProgress, NoVersion, Never,
              Version, dbVars, cacheVars
<1>2. CASE Revoke \/ CacheExpires
  BY <1>2 DEF Revoke, CacheExpires, AgeInv, RowInv, EntryInv, RequestInv, dbVars, cacheVars
<1>3. CASE ChangeConfig
  BY <1>3, RowEnds DEF ChangeConfig, TypeOK, NoVersion, Version
<1>4. CASE Seed
  BY <1>4, RowEnds DEF Seed
<1>5. CASE \E r \in Requests : RequestStep(r)
  BY <1>5, AgeKeptByRequest
<1>6. CASE UNCHANGED vars
  BY <1>6 DEF vars, AgeInv, RowInv, EntryInv, RequestInv, dbVars, cacheVars
<1> QED BY <1>1, <1>2, <1>3, <1>4, <1>5, <1>6 DEF Next

\* A token's tier and regions were the agent's at some time in the last lifetime of the cache
\* entry and two requests, whoever wrote the entry and whatever raced with the change
\* (init_controller.py).
THEOREM ConfigAgeIsBoundedAlways == Spec => []ConfigAgeIsBounded
PROOF
<1>1. AgeInv => ConfigAgeIsBounded
  BY DEF AgeInv, RequestInv, ConfigAgeIsBounded
<1> QED BY <1>1, InitTypes, InitTypesKept, AgeStarts, AgeKept, PTL DEF Spec

-----------------------------------------------------------------------------
(* WorkerRouter: the available streams. *)

USE DEF Router!worldVars, Router!cacheVars, Router!historyVars

\* What Resolve does to the request, and to no other.
LEMMA ResolveDoes ==
  ASSUME Router!TypeOK, NEW r \in Routes, NEW S \in SUBSET Streams, Router!Resolve(r, S)
  PROVE  /\ routeStage' \in [Routes -> Router!Stages] /\ chosen' \in [Routes -> Streams \cup {None}]
         /\ routeStage'[r] \notin Router!Waiting
         /\ \A q \in Routes \ {r} : routeStage'[q] = routeStage[q] /\ chosen'[q] = chosen[q]
         /\ routeStage'[r] = "refused" => S = {}
         /\ chosen'[r] # chosen[r] =>
              chosen'[r] \in Router!Nearest(Router!Candidates(S, allowed[r]), client[r])
PROOF
<1> USE DEF Router!TypeOK, Router!Stages, Router!Waiting
<1>1. CASE routeStage' = [routeStage EXCEPT ![r] = "refused"] /\ S = {} /\ UNCHANGED chosen
  BY <1>1
<1>2. CASE routeStage' \in {[routeStage EXCEPT ![r] = "none"], [routeStage EXCEPT ![r] = "error"]}
           /\ UNCHANGED chosen
  BY <1>2
<1>3. ASSUME NEW k \in Router!Nearest(Router!Candidates(S, allowed[r]), client[r]),
             routeStage' = [routeStage EXCEPT ![r] = "routed"],
             chosen' = [chosen EXCEPT ![r] = k]
      PROVE  routeStage' \in [Routes -> Router!Stages] /\ chosen' \in [Routes -> Streams \cup {None}]
             /\ routeStage'[r] = "routed" /\ chosen'[r] = k
             /\ \A q \in Routes \ {r} : routeStage'[q] = routeStage[q] /\ chosen'[q] = chosen[q]
  <2>1. k \in Streams
    BY DEF Router!Nearest, Router!Candidates, Router!Preferred
  <2> QED BY <1>3, <2>1
<1> QED BY <1>1, <1>2, <1>3 DEF Router!Resolve

LEMMA RouterTypes == Router!Init => Router!TypeOK
PROOF
<1> SUFFICES ASSUME Router!Init PROVE Router!TypeOK
  OBVIOUS
<1> USE RoutesAssumption DEF Router!RouterAssumption, Router!Init, Router!TypeOK
<1>1. \A p \in Places : Router!RegionesPorIp(p) \subseteq Router!Regions
  BY DEF Router!RegionesPorIp, Router!RegionesCercanas, Router!Regions
<1>2. client \in [Routes -> Router!Regions]
  BY <1>1
<1>3. \A h \in {lastSeen, lastRoom, lastBad} : h \in [Streams -> Int]
  BY DEF Router!Ages
<1> QED BY <1>2, <1>3 DEF Router!Stages

\* The history of the streams is one of times.
LEMMA NoteTyped ==
  ASSUME Router!TypeOK, NEW t \in Int, NEW F, Router!Note(t, F)
  PROVE  \A h \in {lastSeen', lastRoom', lastBad'} : h \in [Streams -> Int]
PROOF BY DEF Router!TypeOK, Router!Note

LEMMA RouterTypesKept == Router!TypeOK /\ [Router!Next]_(Router!vars) => Router!TypeOK'
PROOF
<1> SUFFICES ASSUME Router!TypeOK, [Router!Next]_(Router!vars) PROVE Router!TypeOK'
  OBVIOUS
<1> USE RoutesAssumption DEF Router!RouterAssumption
<1>1. CASE Router!Tick
  <2>1. now' \in 0..RouteTime /\ now + 1 \in Int
    BY <1>1 DEF Router!Tick, Router!TypeOK
  <2> QED BY <1>1, <2>1, NoteTyped DEF Router!Tick, Router!TypeOK
<1>2. ASSUME NEW k \in Streams, Router!ChangeRegistry(k) \/ Router!ChangeDepth(k) PROVE Router!TypeOK'
  <2>1. now \in Int
    BY DEF Router!TypeOK
  <2>2. registered' \subseteq Streams /\ full' \subseteq Streams
    BY <1>2 DEF Router!TypeOK, Router!ChangeRegistry, Router!ChangeDepth
  <2>3. \A h \in {lastSeen', lastRoom', lastBad'} : h \in [Streams -> Int]
    BY <1>2, <2>1, NoteTyped DEF Router!ChangeRegistry, Router!ChangeDepth
  <2> QED BY <1>2, <2>2, <2>3 DEF Router!TypeOK, Router!ChangeRegistry, Router!ChangeDepth
<1>3. ASSUME NEW r \in Routes,
             Router!FastPath(r) \/ Router!Miss(r) \/ Router!WaitStep(r)
      PROVE  Router!TypeOK'
  <2>1. CASE Router!FastPath(r)
    <3>1. cache \in SUBSET Streams /\ Router!Resolve(r, cache)
      BY <2>1 DEF Router!FastPath, Router!Fresh, Router!TypeOK
    <3>2. routeStage' \in [Routes -> Router!Stages] /\ chosen' \in [Routes -> Streams \cup {None}]
      BY <3>1, ResolveDoes
    <3> QED BY <2>1, <3>2 DEF Router!FastPath, Router!TypeOK
  <2>2. CASE Router!Miss(r)
    BY <2>2 DEF Router!Miss, Router!TypeOK, Router!Stages
  <2>3. CASE Router!DoubleCheck(r)
    <3>1. cache \in SUBSET Streams /\ Router!Resolve(r, cache)
      BY <2>3 DEF Router!DoubleCheck, Router!FilledMeanwhile, Router!Fresh, Router!TypeOK
    <3>2. routeStage' \in [Routes -> Router!Stages] /\ chosen' \in [Routes -> Streams \cup {None}]
      BY <3>1, ResolveDoes
    <3> QED BY <2>3, <3>2 DEF Router!DoubleCheck, Router!TypeOK
  <2>4. CASE Router!BeginFetch(r)
    BY <2>4 DEF Router!BeginFetch, Router!TypeOK, Router!Stages
  <2>5. CASE Router!ReadMembers(r)
    <3>1. members' \in [Routes -> SUBSET Streams]
      BY <2>5 DEF Router!ReadMembers, Router!TypeOK
    <3>2. CASE registered = {}
      <4>1. Router!Resolve(r, {}) /\ cache' = {} /\ fetchedAt' = now /\ lock' = None
        BY <2>5, <3>2 DEF Router!ReadMembers, Router!Store
      <4>2. routeStage' \in [Routes -> Router!Stages] /\ chosen' \in [Routes -> Streams \cup {None}]
        BY <4>1, ResolveDoes
      <4> QED BY <2>5, <3>1, <4>1, <4>2 DEF Router!ReadMembers, Router!TypeOK
    <3>3. CASE registered # {}
      BY <2>5, <3>1, <3>3 DEF Router!ReadMembers, Router!TypeOK, Router!Stages
    <3> QED BY <3>2, <3>3
  <2>6. CASE Router!ReadDepths(r)
    <3>1. PICK F \in SUBSET members[r] :
            /\ IF F = {} THEN UNCHANGED faults ELSE Router!Fault
            /\ Router!Store(Router!Healthy(r) \ F)
            /\ Router!Resolve(r, Router!Healthy(r) \ F)
            /\ UNCHANGED <<registered, full>>
            /\ Router!Note(now, F)
      BY <2>6 DEF Router!ReadDepths
    <3>2. Router!Healthy(r) \ F \in SUBSET Streams
      BY DEF Router!Healthy, Router!TypeOK
    <3>3. routeStage' \in [Routes -> Router!Stages] /\ chosen' \in [Routes -> Streams \cup {None}]
      BY <3>1, <3>2, ResolveDoes
    <3>4. \A h \in {lastSeen', lastRoom', lastBad'} : h \in [Streams -> Int]
      BY <3>1, NoteTyped DEF Router!TypeOK
    <3>5. faults' \in 0..MaxFaults
      BY <3>1 DEF Router!Fault, Router!TypeOK
    <3>6. cache' \in (SUBSET Streams) \cup {None} /\ fetchedAt' \in 0..RouteTime
      BY <3>1, <3>2 DEF Router!Store, Router!TypeOK
    <3> QED BY <2>6, <3>1, <3>3, <3>4, <3>5, <3>6 DEF Router!ReadDepths, Router!TypeOK
  <2>7. CASE Router!FetchFails(r)
    BY <2>7 DEF Router!FetchFails, Router!Fault, Router!TypeOK, Router!Stages
  <2> QED BY <1>3, <2>1, <2>2, <2>3, <2>4, <2>5, <2>6, <2>7 DEF Router!WaitStep
<1>4. CASE UNCHANGED Router!vars
  BY <1>4 DEF Router!vars, Router!TypeOK
<1> QED BY <1>1, <1>2, <1>3, <1>4 DEF Router!Next

\* What the history says of the streams as they are now.
WorldKnown ==
  \A k \in Streams :
    /\ lastSeen[k] <= now /\ lastRoom[k] <= now /\ lastBad[k] <= now
    /\ k \in registered => lastSeen[k] = now
    /\ k \notin full => lastRoom[k] = now
    /\ k \notin registered \/ k \in full => lastBad[k] = now

\* Requests are over in time; the reply to SMEMBERS was right after the request came in.
MembersKnown ==
  \A r \in Routes :
    /\ routeStage[r] \in Router!Waiting => routeStart[r] <= now /\ now <= routeStart[r] + RequestTime
    /\ routeStage[r] = "info" =>
         /\ \A k \in members[r] : lastSeen[k] >= routeStart[r]
         /\ \A k \in Streams \ members[r] : lastBad[k] >= routeStart[r]

\* The entry was right within a request of the time it was stored.
CacheKnown ==
  /\ fetchedAt <= now
  /\ cache # None =>
       /\ \A k \in cache : /\ lastSeen[k] >= fetchedAt - RequestTime
                           /\ lastRoom[k] >= fetchedAt - RequestTime
       /\ \A k \in Streams \ cache : lastBad[k] >= fetchedAt - RequestTime

RouterInv == WorldKnown /\ MembersKnown /\ CacheKnown

\* The history only moves forward.
Onward == \A k \in Streams : /\ lastSeen[k] <= lastSeen'[k]
                             /\ lastRoom[k] <= lastRoom'[k]
                             /\ lastBad[k] <= lastBad'[k]

LEMMA Noted ==
  ASSUME Router!TypeOK, WorldKnown, NEW F, Router!Note(now', F), now' \in Int, now <= now'
  PROVE  WorldKnown' /\ Onward
PROOF BY DEF Router!TypeOK, WorldKnown, Onward, Router!Note

LEMMA NothingNoted ==
  ASSUME Router!TypeOK, WorldKnown, UNCHANGED <<now, registered, full, lastSeen, lastRoom, lastBad>>
  PROVE  WorldKnown' /\ Onward
PROOF BY DEF Router!TypeOK, WorldKnown, Onward

LEMMA WorldStep ==
  ASSUME Router!TypeOK, WorldKnown, [Router!Next]_(Router!vars)
  PROVE  WorldKnown' /\ Onward /\ now <= now'
PROOF
<1>1. CASE Router!Tick
  BY <1>1, Noted DEF Router!Tick, Router!TypeOK
<1>2. ASSUME NEW k \in Streams, Router!ChangeRegistry(k) \/ Router!ChangeDepth(k)
      PROVE  WorldKnown' /\ Onward /\ now <= now'
  BY <1>2, Noted DEF Router!ChangeRegistry, Router!ChangeDepth, Router!TypeOK
<1>3. ASSUME NEW r \in Routes, Router!ReadDepths(r) PROVE WorldKnown' /\ Onward /\ now <= now'
  BY <1>3, Noted DEF Router!ReadDepths, Router!TypeOK
<1>4. ASSUME NEW r \in Routes,
             \/ Router!FastPath(r) \/ Router!Miss(r) \/ Router!DoubleCheck(r) \/ Router!BeginFetch(r)
             \/ Router!ReadMembers(r) \/ Router!FetchFails(r)
      PROVE  WorldKnown' /\ Onward /\ now <= now'
  BY <1>4, NothingNoted DEF Router!FastPath, Router!Miss, Router!DoubleCheck, Router!BeginFetch,
          Router!ReadMembers, Router!FetchFails, Router!TypeOK
<1>5. CASE UNCHANGED Router!vars
  BY <1>5, NothingNoted DEF Router!vars, Router!TypeOK
<1> QED BY <1>1, <1>2, <1>3, <1>4, <1>5 DEF Router!Next, Router!WaitStep

\* The list a decision is made from: its streams, and those it leaves out.
Sound(S) ==
  /\ \A k \in S : Router!Recent(lastSeen'[k]) /\ Router!Recent(lastRoom'[k])
  /\ \A k \in Streams \ S : Router!Recent(lastBad'[k])

LEMMA FreshIsSound ==
  ASSUME Router!TypeOK, Router!TypeOK', RouterInv, Onward, Router!Fresh
  PROVE  cache \in SUBSET Streams /\ Sound(cache)
PROOF
<1>1. cache \in SUBSET Streams /\ cache # None /\ now - fetchedAt < CacheTtl
  BY DEF Router!Fresh, Router!TypeOK
<1> USE RoutesAssumption DEF Router!RouterAssumption, Router!TypeOK, Router!Recent
<1>2. \A k \in Streams : /\ lastSeen[k] \in Int /\ lastRoom[k] \in Int /\ lastBad[k] \in Int
                         /\ lastSeen'[k] \in Int /\ lastRoom'[k] \in Int /\ lastBad'[k] \in Int
  OBVIOUS
<1>3. \A k \in cache : Router!Recent(lastSeen'[k]) /\ Router!Recent(lastRoom'[k])
  BY <1>1, <1>2 DEF RouterInv, CacheKnown, Onward
<1>4. \A k \in Streams \ cache : Router!Recent(lastBad'[k])
  BY <1>1, <1>2 DEF RouterInv, CacheKnown, Onward
<1> QED BY <1>1, <1>3, <1>4 DEF Sound

\* Every decision is made from such a list.
LEMMA DecidesFromSoundList ==
  ASSUME Router!TypeOK, Router!TypeOK', RouterInv, Router!Next, NEW r \in Routes,
         Router!Routed(r) \/ (routeStage[r] # "refused" /\ routeStage'[r] = "refused")
  PROVE  \E S \in SUBSET Streams : Router!Resolve(r, S) /\ Sound(S) /\ UNCHANGED <<client, allowed>>
PROOF
<1> USE RoutesAssumption DEF Router!RouterAssumption
<1>0. WorldKnown /\ WorldKnown' /\ Onward
  BY WorldStep DEF RouterInv
<1>1. PICK q \in Routes : Router!FastPath(q) \/ Router!DoubleCheck(q) \/ Router!ReadMembers(q) \/ Router!ReadDepths(q)
  <2>1. ~Router!Tick /\ \A k \in Streams : ~Router!ChangeRegistry(k) /\ ~Router!ChangeDepth(k)
    BY DEF Router!Tick, Router!ChangeRegistry, Router!ChangeDepth, Router!Routed
  <2>2. \A q \in Routes : ~Router!Miss(q) /\ ~Router!BeginFetch(q) /\ ~Router!FetchFails(q)
    BY DEF Router!Miss, Router!BeginFetch, Router!FetchFails, Router!Routed, Router!TypeOK, Router!Stages
  <2> QED BY <2>1, <2>2 DEF Router!Next, Router!WaitStep
<1>2. UNCHANGED <<client, allowed>>
  BY <1>1 DEF Router!FastPath, Router!DoubleCheck, Router!ReadMembers, Router!ReadDepths
<1>3. ASSUME NEW S \in SUBSET Streams, Router!Resolve(q, S), Sound(S)
      PROVE  \E T \in SUBSET Streams : Router!Resolve(r, T) /\ Sound(T) /\ UNCHANGED <<client, allowed>>
  <2>1. q = r
    BY <1>3, ResolveDoes DEF Router!Routed
  <2> QED BY <1>2, <1>3, <2>1
<1>4. CASE Router!FastPath(q) \/ Router!DoubleCheck(q)
  <2>1. Router!Fresh /\ Router!Resolve(q, cache)
    BY <1>4 DEF Router!FastPath, Router!DoubleCheck, Router!FilledMeanwhile
  <2> QED BY <1>0, <1>3, <2>1, FreshIsSound
<1>5. CASE Router!ReadMembers(q)
  <2>1. registered = {} /\ Router!Resolve(q, {})
    BY <1>5 DEF Router!ReadMembers, Router!Routed, Router!TypeOK, Router!Stages
  <2>2. \A k \in Streams : lastBad'[k] = now
    BY <1>0, <1>5, <2>1 DEF Router!ReadMembers, WorldKnown
  <2>3. Sound({})
    BY <2>2 DEF Sound, Router!Recent, Router!TypeOK
  <2> QED BY <1>3, <2>1, <2>3
<1>6. CASE Router!ReadDepths(q)
  <2>1. PICK F \in SUBSET members[q] :
          /\ Router!Resolve(q, Router!Healthy(q) \ F)
          /\ UNCHANGED <<registered, full>>
          /\ Router!Note(now, F)
    BY <1>6 DEF Router!ReadDepths
  <2> DEFINE S == Router!Healthy(q) \ F
  <2>2. S \in SUBSET Streams /\ S = (members[q] \ full) \ F
    BY DEF Router!Healthy, Router!TypeOK
  <2>3. routeStage[q] = "info" /\ now' = now
    BY <1>6 DEF Router!ReadDepths
  <2>4. /\ now <= routeStart[q] + RequestTime
        /\ \A k \in members[q] : lastSeen[k] >= routeStart[q]
        /\ \A k \in Streams \ members[q] : lastBad[k] >= routeStart[q]
    BY <2>3 DEF RouterInv, MembersKnown, Router!Waiting
  <2>5. now \in Int /\ routeStart[q] \in Int
        /\ \A k \in Streams : /\ lastSeen[k] \in Int /\ lastRoom[k] \in Int /\ lastBad[k] \in Int
                              /\ lastSeen'[k] \in Int /\ lastRoom'[k] \in Int /\ lastBad'[k] \in Int
    BY DEF Router!TypeOK
  <2>6. ASSUME NEW k \in S PROVE Router!Recent(lastSeen'[k]) /\ Router!Recent(lastRoom'[k])
    <3>1. k \in Streams /\ k \in members[q] /\ k \notin full'
      BY <2>1, <2>2
    <3>2. lastRoom'[k] = now
      BY <1>0, <2>3, <3>1 DEF WorldKnown
    <3>3. routeStart[q] <= lastSeen'[k]
      BY <1>0, <2>4, <2>5, <3>1 DEF Onward
    <3> HIDE DEF S
    <3>4. now \in Int /\ routeStart[q] \in Int /\ lastSeen'[k] \in Int
      BY <2>5, <3>1
    <3>5. Router!Recent(lastSeen'[k])
      BY <2>4, <3>3, <3>4 DEF Router!Recent
    <3>6. Router!Recent(lastRoom'[k])
      BY <3>2, <3>4 DEF Router!Recent
    <3> QED BY <3>5, <3>6
  <2>7. ASSUME NEW k \in Streams \ S PROVE Router!Recent(lastBad'[k])
    <3>1. CASE k \notin members[q]
      BY <1>0, <2>4, <2>5, <3>1 DEF Onward, Router!Recent
    <3>2. CASE k \in full
      <4>1. lastBad'[k] = now
        BY <1>0, <2>1, <2>3, <3>2 DEF WorldKnown
      <4> QED BY SMTT(30), <2>5, <4>1 DEF Router!Recent
    <3>3. CASE k \in F
      <4>1. lastBad'[k] = now
        BY <2>1, <3>3 DEF Router!Note
      <4> QED BY <2>5, <4>1 DEF Router!Recent
    <3> QED BY <2>2, <3>1, <3>2, <3>3
  <2>8. Sound(S)
    BY <2>6, <2>7 DEF Sound
  <2> QED BY <1>3, <2>1, <2>2, <2>8
<1> QED BY <1>1, <1>4, <1>5, <1>6

\* What a step does to the times of a request and to its reply.
LEMMA StepOnRequest ==
  ASSUME Router!TypeOK, MembersKnown, WorldKnown, Router!Next, NEW r \in Routes
  PROVE  /\ routeStage'[r] \in Router!Waiting => routeStart'[r] <= now' /\ now' <= routeStart'[r] + RequestTime
         /\ routeStage'[r] = "info" =>
              \/ routeStage[r] = "info" /\ routeStart'[r] = routeStart[r] /\ members'[r] = members[r]
              \/ /\ \A k \in members'[r] : k \in registered
                 /\ \A k \in Streams \ members'[r] : k \notin registered
                 /\ routeStart'[r] <= now
PROOF
<1> USE RoutesAssumption DEF Router!RouterAssumption, Router!TypeOK, Router!Waiting
<1>1. CASE Router!Tick
  BY <1>1 DEF Router!Tick, MembersKnown
<1>2. ASSUME NEW k \in Streams, Router!ChangeRegistry(k) \/ Router!ChangeDepth(k)
      PROVE  /\ UNCHANGED <<now, routeStage, routeStart, members>>
  BY <1>2 DEF Router!ChangeRegistry, Router!ChangeDepth
<1>3. ASSUME NEW k \in Streams, Router!ChangeRegistry(k) \/ Router!ChangeDepth(k)
      PROVE  /\ routeStage'[r] \in Router!Waiting => routeStart'[r] <= now' /\ now' <= routeStart'[r] + RequestTime
             /\ routeStage'[r] = "info" =>
                  routeStage[r] = "info" /\ routeStart'[r] = routeStart[r] /\ members'[r] = members[r]
  BY <1>2, <1>3 DEF MembersKnown
<1>4. ASSUME NEW q \in Routes, Router!FastPath(q) \/ Router!DoubleCheck(q) \/ Router!ReadDepths(q)
      PROVE  /\ routeStage'[r] \in Router!Waiting => routeStart'[r] <= now' /\ now' <= routeStart'[r] + RequestTime
             /\ routeStage'[r] = "info" =>
                  routeStage[r] = "info" /\ routeStart'[r] = routeStart[r] /\ members'[r] = members[r]
  <2>1. PICK S \in SUBSET Streams : Router!Resolve(q, S)
    BY <1>4 DEF Router!FastPath, Router!DoubleCheck, Router!FilledMeanwhile, Router!Fresh,
                Router!ReadDepths, Router!Healthy
  <2>2. routeStage'[q] \notin Router!Waiting /\ \A p \in Routes \ {q} : routeStage'[p] = routeStage[p]
    BY <2>1, ResolveDoes
  <2>3. UNCHANGED <<now, members>> /\ (r # q => routeStart'[r] = routeStart[r])
    BY <1>4 DEF Router!FastPath, Router!DoubleCheck, Router!ReadDepths
  <2> QED BY <2>2, <2>3 DEF MembersKnown
<1>5. ASSUME NEW q \in Routes, Router!Miss(q) \/ Router!BeginFetch(q) \/ Router!FetchFails(q)
      PROVE  /\ routeStage'[r] \in Router!Waiting => routeStart'[r] <= now' /\ now' <= routeStart'[r] + RequestTime
             /\ routeStage'[r] = "info" =>
                  routeStage[r] = "info" /\ routeStart'[r] = routeStart[r] /\ members'[r] = members[r]
  BY <1>5 DEF Router!Miss, Router!BeginFetch, Router!FetchFails, MembersKnown
<1>6. ASSUME NEW q \in Routes, Router!ReadMembers(q)
      PROVE  /\ routeStage'[r] \in Router!Waiting => routeStart'[r] <= now' /\ now' <= routeStart'[r] + RequestTime
             /\ routeStage'[r] = "info" =>
                  \/ routeStage[r] = "info" /\ routeStart'[r] = routeStart[r] /\ members'[r] = members[r]
                  \/ members'[r] = registered /\ routeStart'[r] <= now
  <2>1. UNCHANGED <<now, routeStart>> /\ routeStage[q] = "members"
        /\ members' = [members EXCEPT ![q] = registered]
    BY <1>6 DEF Router!ReadMembers
  <2>2. \/ routeStage'[q] \notin Router!Waiting /\ \A p \in Routes \ {q} : routeStage'[p] = routeStage[p]
        \/ routeStage' = [routeStage EXCEPT ![q] = "info"]
    BY <1>6, ResolveDoes DEF Router!ReadMembers
  <2> QED BY <2>1, <2>2 DEF MembersKnown
<1> QED BY <1>1, <1>3, <1>4, <1>5, <1>6 DEF Router!Next, Router!WaitStep, Router!Tick

LEMMA MembersStayKnown ==
  ASSUME Router!TypeOK, Router!TypeOK', RouterInv, Router!Next
  PROVE  MembersKnown'
PROOF
<1>1. WorldKnown' /\ Onward
  BY WorldStep DEF RouterInv
<1> SUFFICES ASSUME NEW r \in Routes, routeStage'[r] = "info"
             PROVE  /\ \A k \in members'[r] : lastSeen'[k] >= routeStart'[r]
                    /\ \A k \in Streams \ members'[r] : lastBad'[k] >= routeStart'[r]
  BY StepOnRequest DEF RouterInv, MembersKnown
<1>2. /\ members'[r] \subseteq Streams /\ routeStart'[r] \in Int /\ now \in Int
      /\ \A k \in Streams : /\ lastSeen[k] \in Int /\ lastBad[k] \in Int
                            /\ lastSeen'[k] \in Int /\ lastBad'[k] \in Int
  BY DEF Router!TypeOK
<1>3. CASE routeStage[r] = "info" /\ routeStart'[r] = routeStart[r] /\ members'[r] = members[r]
  BY <1>1, <1>2, <1>3 DEF RouterInv, MembersKnown, Onward
<1>4. CASE /\ \A k \in members'[r] : k \in registered
           /\ \A k \in Streams \ members'[r] : k \notin registered
           /\ routeStart'[r] <= now
  BY <1>1, <1>2, <1>4 DEF RouterInv, WorldKnown, Onward
<1> QED BY <1>3, <1>4, StepOnRequest DEF RouterInv

\* A list that is stored was right within a request.
LEMMA CacheStaysKnown ==
  ASSUME Router!TypeOK, Router!TypeOK', RouterInv, Router!Next
  PROVE  CacheKnown'
PROOF
<1> USE RoutesAssumption DEF Router!RouterAssumption
<1>1. WorldKnown' /\ Onward /\ now <= now'
  BY WorldStep DEF RouterInv
<1>2. /\ fetchedAt \in Int /\ now \in Int /\ now' \in Int
      /\ cache # None => cache \in SUBSET Streams
      /\ \A k \in Streams : /\ lastSeen[k] \in Int /\ lastRoom[k] \in Int /\ lastBad[k] \in Int
                            /\ lastSeen'[k] \in Int /\ lastRoom'[k] \in Int /\ lastBad'[k] \in Int
  BY DEF Router!TypeOK
<1>3. CASE UNCHANGED <<cache, fetchedAt>>
  BY <1>1, <1>2, <1>3 DEF RouterInv, CacheKnown, Onward
<1>4. ASSUME NEW q \in Routes, Router!ReadMembers(q) PROVE CacheKnown'
  <2>1. CASE registered = {}
    <3>1. cache' = {} /\ fetchedAt' = now /\ now' = now /\ registered' = {}
      BY <1>4, <2>1 DEF Router!ReadMembers, Router!Store
    <3> QED BY <1>1, <1>2, <3>1 DEF CacheKnown, WorldKnown
  <2>2. CASE registered # {}
    BY <1>3, <1>4, <2>2 DEF Router!ReadMembers
  <2> QED BY <2>1, <2>2
<1>5. ASSUME NEW q \in Routes, Router!ReadDepths(q) PROVE CacheKnown'
  <2>1. PICK F \in SUBSET members[q] :
          /\ Router!Store(Router!Healthy(q) \ F)
          /\ UNCHANGED <<registered, full>>
          /\ Router!Note(now, F)
    BY <1>5 DEF Router!ReadDepths
  <2>2. /\ cache' = (members[q] \ full) \ F /\ fetchedAt' = now
        /\ members[q] \subseteq Streams
    BY <2>1 DEF Router!Store, Router!Healthy, Router!TypeOK
  <2>3. routeStage[q] = "info" /\ now' = now
    BY <1>5 DEF Router!ReadDepths
  <2>4. /\ now <= routeStart[q] + RequestTime /\ routeStart[q] \in Int /\ RequestTime \in Nat
        /\ \A k \in members[q] : lastSeen[k] >= routeStart[q]
        /\ \A k \in Streams \ members[q] : lastBad[k] >= routeStart[q]
    BY <2>3 DEF RouterInv, MembersKnown, Router!Waiting, Router!TypeOK
  <2>5. ASSUME NEW k \in cache' PROVE lastSeen'[k] >= now - RequestTime /\ lastRoom'[k] >= now - RequestTime
    <3>1. k \in Streams /\ k \in members[q] /\ k \notin full'
      BY <2>1, <2>2
    <3>2. lastRoom'[k] = now
      BY <1>1, <2>3, <3>1 DEF WorldKnown
    <3>3. lastSeen[k] <= lastSeen'[k] /\ lastSeen[k] \in Int /\ lastSeen'[k] \in Int
      BY <1>1, <1>2, <3>1 DEF Onward
    <3>4. lastSeen[k] >= routeStart[q]
      BY <2>4, <3>1
    <3> QED BY <1>2, <2>4, <3>2, <3>3, <3>4
  <2>6. ASSUME NEW k \in Streams \ cache' PROVE lastBad'[k] >= now - RequestTime
    <3>1. CASE k \notin members[q]
      BY <1>1, <1>2, <2>4, <3>1 DEF Onward
    <3>2. CASE k \in full
      <4>1. lastBad'[k] = now
        BY <1>1, <2>1, <2>3, <3>2 DEF WorldKnown
      <4> QED BY <1>2, <2>4, <4>1
    <3>3. CASE k \in F
      <4>1. lastBad'[k] = now
        BY <2>1, <3>3 DEF Router!Note
      <4> QED BY <1>2, <2>4, <4>1
    <3> QED BY <2>2, <3>1, <3>2, <3>3
  <2> QED BY <1>2, <2>2, <2>3, <2>5, <2>6 DEF CacheKnown
<1>6. (\A q \in Routes : ~Router!ReadMembers(q) /\ ~Router!ReadDepths(q)) => UNCHANGED <<cache, fetchedAt>>
  BY DEF Router!Next, Router!WaitStep, Router!Tick, Router!ChangeRegistry, Router!ChangeDepth,
         Router!FastPath, Router!Miss, Router!DoubleCheck, Router!BeginFetch, Router!FetchFails
<1> QED BY <1>3, <1>4, <1>5, <1>6

LEMMA RouterHolds == Router!Spec => [](Router!TypeOK /\ RouterInv)
PROOF
<1>1. Router!Init => RouterInv
  BY RoutesAssumption DEF Router!RouterAssumption, Router!Init, RouterInv, WorldKnown, MembersKnown,
     CacheKnown, Router!Waiting, Router!Ages
<1>2. Router!TypeOK /\ RouterInv /\ [Router!Next]_(Router!vars) => RouterInv'
  <2> SUFFICES ASSUME Router!TypeOK, RouterInv, [Router!Next]_(Router!vars) PROVE RouterInv'
    OBVIOUS
  <2>1. Router!TypeOK'
    BY RouterTypesKept
  <2>2. CASE Router!Next
    BY <2>1, <2>2, WorldStep, MembersStayKnown, CacheStaysKnown DEF RouterInv
  <2>3. CASE UNCHANGED Router!vars
    BY <2>3 DEF Router!vars, RouterInv, WorldKnown, MembersKnown, CacheKnown
  <2> QED BY <2>2, <2>3
<1> QED BY <1>1, <1>2, RouterTypes, RouterTypesKept, PTL DEF Router!Spec

\* The variables of resolve_stream_key have their types, for any streams and regions.
THEOREM RouterTyped == Router!Spec => []Router!TypeOK
PROOF BY RouterTypes, RouterTypesKept, PTL DEF Router!Spec

\* Whoever fetched the list and however requests overlapped: a stream that is chosen was
\* registered and not full within the lifetime of the entry and one request, and a refusal
\* was right about every stream within that time (worker_router.py:168-182).
THEOREM DecisionIsRecentAlways == Router!Spec => DecisionIsRecent
PROOF
<1>1. Router!TypeOK /\ RouterInv /\ Router!TypeOK' /\ [Router!Next]_(Router!vars) =>
        [\A r \in Routes :
           /\ Router!Routed(r) =>
                Router!Recent(lastSeen'[chosen'[r]]) /\ Router!Recent(lastRoom'[chosen'[r]])
           /\ routeStage[r] # "refused" /\ routeStage'[r] = "refused" =>
                \A k \in Streams : Router!Recent(lastBad'[k])]_(Router!vars)
  <2> SUFFICES ASSUME Router!TypeOK, RouterInv, Router!TypeOK', Router!Next, NEW r \in Routes,
                      Router!Routed(r) \/ (routeStage[r] # "refused" /\ routeStage'[r] = "refused")
               PROVE  /\ Router!Routed(r) =>
                           Router!Recent(lastSeen'[chosen'[r]]) /\ Router!Recent(lastRoom'[chosen'[r]])
                      /\ routeStage[r] # "refused" /\ routeStage'[r] = "refused" =>
                           \A k \in Streams : Router!Recent(lastBad'[k])
    OBVIOUS
  <2>1. PICK S \in SUBSET Streams : Router!Resolve(r, S) /\ Sound(S)
    BY DecidesFromSoundList
  <2>2. ASSUME Router!Routed(r) PROVE chosen'[r] \in S
    BY <2>1, <2>2, ResolveDoes DEF Router!Routed, Router!Nearest, Router!Candidates, Router!Preferred
  <2>3. routeStage'[r] = "refused" => S = {}
    BY <2>1, ResolveDoes
  <2> QED BY <2>1, <2>2, <2>3 DEF Sound
<1> QED BY <1>1, RouterHolds, RouterTyped, PTL DEF Router!Spec, DecisionIsRecent, Router!DecisionIsRecent

\* A request goes to a stream of an allowed region no farther than any that was available all
\* that time, or, with "global" among the regions and none of the allowed ones available, to
\* any (worker_router.py:275-305).
THEOREM RoutedWithinRegionsAlways == Router!Spec => RoutedWithinRegions
PROOF
<1>1. Router!TypeOK /\ RouterInv /\ Router!TypeOK' /\ [Router!Next]_(Router!vars) =>
        [\A r \in Routes : Router!Routed(r) =>
           IF RegionOf[chosen'[r]] \in allowed[r]
           THEN \A k \in Router!Preferred(Streams, allowed[r]) :
                  Router!AsNear(client[r], chosen'[r], k) \/ Router!Recent(lastBad'[k])
           ELSE /\ "global" \in allowed[r]
                /\ \A k \in Router!Preferred(Streams, allowed[r]) : Router!Recent(lastBad'[k])]_(Router!vars)
  <2> SUFFICES ASSUME Router!TypeOK, RouterInv, Router!TypeOK', Router!Next, NEW r \in Routes,
                      Router!Routed(r)
               PROVE  IF RegionOf[chosen'[r]] \in allowed[r]
                      THEN \A k \in Router!Preferred(Streams, allowed[r]) :
                             Router!AsNear(client[r], chosen'[r], k) \/ Router!Recent(lastBad'[k])
                      ELSE /\ "global" \in allowed[r]
                           /\ \A k \in Router!Preferred(Streams, allowed[r]) : Router!Recent(lastBad'[k])
    OBVIOUS
  <2>1. PICK S \in SUBSET Streams : Router!Resolve(r, S) /\ Sound(S)
    BY DecidesFromSoundList
  <2> DEFINE k == chosen'[r]
             C == Router!Candidates(S, allowed[r])
  <2>2. k \in Router!Nearest(C, client[r])
    BY <2>1, ResolveDoes DEF Router!Routed
  <2>3. k \in C /\ C \subseteq S /\ \A j \in C : Router!AsNear(client[r], k, j)
    BY <2>2 DEF Router!Nearest, Router!Candidates, Router!Preferred
  <2>4. \A j \in Router!Preferred(Streams, allowed[r]) : j \in Router!Preferred(S, allowed[r]) \/ j \notin S
    BY DEF Router!Preferred
  <2>5. CASE RegionOf[k] \in allowed[r]
    <3>1. C = Router!Preferred(S, allowed[r])
      BY <2>3, <2>5 DEF Router!Candidates, Router!Preferred
    <3> QED BY <2>1, <2>3, <2>4, <2>5, <3>1 DEF Sound, Router!Preferred
  <2>6. CASE RegionOf[k] \notin allowed[r]
    <3>1. Router!Preferred(S, allowed[r]) = {} /\ "global" \in allowed[r]
      BY <2>3, <2>6 DEF Router!Candidates, Router!Preferred
    <3> QED BY <2>1, <2>4, <2>6, <3>1 DEF Sound, Router!Preferred
  <2> QED BY <2>5, <2>6
<1> QED BY <1>1, RouterHolds, RouterTyped, PTL DEF Router!Spec, RoutedWithinRegions, Router!RoutedWithinRegions

=============================================================================
