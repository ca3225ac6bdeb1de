----------------------------- MODULE IceServers -----------------------------
(***************************************************************************)
(* get_ice_servers of peer/config.py: the worker's cache of STUN and TURN  *)
(* servers over Cloudflare's API, shared by the peers a worker creates.    *)
(* A list of servers is represented by the time its credentials were       *)
(* issued.  Nothing locks the cache: peers that miss together fetch        *)
(* together, and the last one to be answered leaves its list.              *)
(***************************************************************************)
EXTENDS Integers

CONSTANTS
  Calls,         \* calls of create_peer
  IceCacheTtl,   \* ICE_CACHE_TTL
  FetchTime,     \* bound: ticks from the request to Cloudflare's answer
  MaxTime,       \* bound: the clock
  MaxFaults      \* bound: calls that raise

ASSUME IceAssumption ==
  /\ IceCacheTtl \in Nat \ {0}
  /\ FetchTime \in Nat /\ MaxTime \in Nat /\ MaxFaults \in Nat
  /\ FetchTime < IceCacheTtl   \* httpx gives up after five seconds

NoServers == -1    \* None, or the empty list: false to "if _ice_cache[...]"
PublicStun == -2   \* the built-in list without credentials

VARIABLES
  now,
  servers,     \* _ice_cache["servers"]
  expiresAt,   \* _ice_cache["expires_at"]
  fetch,       \* where a peer's get_ice_servers is: "none", "asked", "built"
  lookedAt,    \* its "now": read before the request
  config,      \* the list the peer was built with
  faults

iceVars == <<now, servers, expiresAt, fetch, lookedAt, config, faults>>

Issued == 0..MaxTime

IceTypeOK ==
  /\ now \in Issued
  /\ servers \in Issued \cup {NoServers}
  /\ expiresAt \in 0..(MaxTime + IceCacheTtl)
  /\ fetch \in [Calls -> {"none", "asked", "built"}]
  /\ lookedAt \in [Calls -> Issued]
  /\ config \in [Calls -> Issued \cup {NoServers, PublicStun}]
  /\ faults \in 0..MaxFaults

IceInit ==
  /\ now = 0
  /\ servers = NoServers /\ expiresAt = 0
  /\ fetch = [p \in Calls |-> "none"]
  /\ lookedAt = [p \in Calls |-> 0]
  /\ config = [p \in Calls |-> NoServers]
  /\ faults = 0

Fault == /\ faults < MaxFaults
         /\ faults' = faults + 1

Built(p, list) == /\ fetch' = [fetch EXCEPT ![p] = "built"]
                  /\ config' = [config EXCEPT ![p] = list]

\* An answer takes at most FetchTime.
Tick ==
  /\ now < MaxTime
  /\ \A p \in Calls : fetch[p] = "asked" => now < lookedAt[p] + FetchTime
  /\ now' = now + 1
  /\ UNCHANGED <<servers, expiresAt, fetch, lookedAt, config, faults>>

----------------------------------------------------------------------------
Hit == servers # NoServers /\ now < expiresAt

CacheHit(p) ==
  /\ fetch[p] = "none" /\ Hit
  /\ Built(p, servers)
  /\ UNCHANGED <<now, servers, expiresAt, lookedAt, faults>>

AskCloudflare(p) ==
  /\ fetch[p] = "none" /\ ~Hit
  /\ fetch' = [fetch EXCEPT ![p] = "asked"]
  /\ lookedAt' = [lookedAt EXCEPT ![p] = now]
  /\ UNCHANGED <<now, servers, expiresAt, config, faults>>

\* The lifetime counts from before the request, when no credential of the
\* answer existed yet.
LifeFromAnswer(p) == expiresAt' = now + IceCacheTtl \* mutant: a clock read after the await
SetLife(p) == expiresAt' = lookedAt[p] + IceCacheTtl

\* A list may come empty; it is stored and handed out as it is.
Answered(p) ==
  /\ fetch[p] = "asked"
  /\ \E list \in {i \in Issued : lookedAt[p] <= i /\ i <= now} \cup {NoServers} :
       /\ servers' = list
       /\ Built(p, list)
  /\ SetLife(p)
  /\ UNCHANGED <<now, lookedAt, faults>>

\* raise_for_status or the connection: the old list whatever its age, or STUN.
AskFails(p) ==
  /\ fetch[p] = "asked"
  /\ Fault
  /\ Built(p, IF servers # NoServers THEN servers ELSE PublicStun)
  /\ UNCHANGED <<now, servers, expiresAt, lookedAt>>

ConfigBuilt(p) == CacheHit(p) \/ Answered(p) \/ AskFails(p)

----------------------------------------------------------------------------
\* While Cloudflare answers, no peer is built with credentials that were
\* issued IceCacheTtl ago or earlier, however requests overlap (peer/config.py
\* 28-53); after a failed request their age is not bounded.
CachedServersAreYoung ==
  [][\A p \in Calls :
       fetch[p] # "built" /\ fetch'[p] = "built" /\ config'[p] \in Issued /\ faults' = faults
         => now - config'[p] < IceCacheTtl]_iceVars
=============================================================================
