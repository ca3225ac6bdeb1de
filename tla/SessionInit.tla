---------------------------- MODULE SessionInit ----------------------------
(***************************************************************************)
(* get_token of gateway/controllers/init_controller.py: the checks a       *)
(* session token rests on.  The public key is looked up in the database    *)
(* on every request; the agent's configuration (tier, regions) comes from  *)
(* a Redis cache first.  Meanwhile an operator revokes the key, changes    *)
(* the configuration, withdraws the agent or loads the fixtures.  One      *)
(* public key, one agent.                                                  *)
(***************************************************************************)
EXTENDS Integers, FiniteSets

CONSTANTS
  Requests,
  CacheTtl,      \* AGENT_CACHE_TTL_SECONDS
  RequestTime,   \* bound: ticks from the start of a request to its end
  MaxTime,       \* bound: the clock
  MaxVersion,    \* bound: changes of the configuration
  MaxFaults      \* bound: failed Redis calls

ASSUME InitAssumption ==
  /\ CacheTtl \in Nat \ {0}
  /\ RequestTime \in Nat /\ MaxTime \in Nat /\ MaxVersion \in Nat /\ MaxFaults \in Nat

Never == MaxTime + 1
NoVersion == 0
Version == 1..(MaxVersion + 1)

VARIABLES
  now,
  revokedAt,   \* when is_active became FALSE, or Never
  version,     \* the row of the agent's configuration; NoVersion: withdrawn
  endedAt,     \* when each version ceased to be the row, or Never
  cached,      \* agent_cfg:{pk}:{agent}, or NoVersion
  expiresAt,   \* when that key expires
  stage,       \* where the request is
  startedAt,   \* when the request came in
  config,      \* agent_config of the request
  signedAt,    \* when its token was signed, or Never
  faults

dbVars == <<revokedAt, version, endedAt>>
cacheVars == <<cached, expiresAt>>
vars == <<now, dbVars, cacheVars, stage, startedAt, config, signedAt, faults>>

Stages == {"idle", "key", "cache", "db", "store", "sign", "done", "refused"}
InProgress == {"key", "cache", "db", "store", "sign"}

TypeOK ==
  /\ now \in 0..MaxTime
  /\ revokedAt \in 0..Never
  /\ version \in Version \cup {NoVersion}
  /\ endedAt \in [Version -> 0..Never]
  /\ cached \in Version \cup {NoVersion}
  /\ expiresAt \in 0..(MaxTime + CacheTtl)
  /\ stage \in [Requests -> Stages]
  /\ startedAt \in [Requests -> 0..MaxTime]
  /\ config \in [Requests -> Version \cup {NoVersion}]
  /\ signedAt \in [Requests -> 0..Never]
  /\ faults \in 0..MaxFaults

Init ==
  /\ now = 0
  /\ revokedAt = Never
  /\ version = 1
  /\ endedAt = [v \in Version |-> Never]
  /\ cached = NoVersion
  /\ expiresAt = 0
  /\ stage = [r \in Requests |-> "idle"]
  /\ startedAt = [r \in Requests |-> 0]
  /\ config = [r \in Requests |-> NoVersion]
  /\ signedAt = [r \in Requests |-> Never]
  /\ faults = 0

Fault == /\ faults < MaxFaults
         /\ faults' = faults + 1

Goto(r, to) == stage' = [stage EXCEPT ![r] = to]

----------------------------------------------------------------------------
(* Time, the operator and Redis. *)

\* A request is over within RequestTime.
Tick ==
  /\ now < MaxTime
  /\ \A r \in Requests : stage[r] \in InProgress => now < startedAt[r] + RequestTime
  /\ now' = now + 1
  /\ UNCHANGED <<dbVars, cacheVars, stage, startedAt, config, signedAt, faults>>

Revoke ==
  /\ revokedAt = Never
  /\ revokedAt' = now
  /\ UNCHANGED <<now, version, endedAt, cacheVars, stage, startedAt, config, signedAt, faults>>

\* A new configuration replaces the row, or the agent is withdrawn.
ChangeConfig ==
  /\ version \in 1..MaxVersion
  /\ \E v \in {version + 1, NoVersion} : version' = v
  /\ endedAt' = [endedAt EXCEPT ![version] = now]
  /\ UNCHANGED <<now, revokedAt, cacheVars, stage, startedAt, config, signedAt, faults>>

\* The fixtures replace every key and every agent, in one transaction.
Seed ==
  /\ version # NoVersion
  /\ revokedAt' = IF revokedAt = Never THEN now ELSE revokedAt
  /\ version' = NoVersion
  /\ endedAt' = [endedAt EXCEPT ![version] = now]
  /\ UNCHANGED <<now, cacheVars, stage, startedAt, config, signedAt, faults>>

CacheExpires ==
  /\ cached # NoVersion /\ now >= expiresAt
  /\ cached' = NoVersion
  /\ UNCHANGED <<now, dbVars, expiresAt, stage, startedAt, config, signedAt, faults>>

----------------------------------------------------------------------------
(* get_token. *)

Begin(r) ==
  /\ stage[r] = "idle"
  /\ startedAt' = [startedAt EXCEPT ![r] = now]
  /\ Goto(r, "key")
  /\ UNCHANGED <<now, dbVars, cacheVars, config, signedAt, faults>>

\* PKRepository.check_pk
KeyActive == revokedAt = Never

CheckKey(r) ==
  /\ stage[r] = "key"
  /\ Goto(r, IF KeyActive THEN "cache" ELSE "refused")
  /\ UNCHANGED <<now, dbVars, cacheVars, startedAt, config, signedAt, faults>>

\* A hit leaves the key's time to live as it is.
ExtendTtl == expiresAt' = now + CacheTtl \* mutant: GETEX
KeepTtl == UNCHANGED expiresAt

CacheHit(r) ==
  /\ stage[r] = "cache" /\ cached # NoVersion /\ now < expiresAt
  /\ config' = [config EXCEPT ![r] = cached]
  /\ KeepTtl
  /\ Goto(r, "sign")
  /\ UNCHANGED <<now, dbVars, cached, startedAt, signedAt, faults>>

\* A miss, or a GET that raises.
CacheMiss(r) ==
  /\ stage[r] = "cache"
  /\ \/ (cached = NoVersion \/ now >= expiresAt) /\ UNCHANGED faults
     \/ Fault
  /\ Goto(r, "db")
  /\ UNCHANGED <<now, dbVars, cacheVars, startedAt, config, signedAt>>

\* UserRepository.user_agent_config: one read of one row, or nothing.
UserAgentConfig(r) == config' = [config EXCEPT ![r] = version]

\* A key without the agent is refused, and nothing is cached of it.
ReadDb(r) ==
  /\ stage[r] = "db"
  /\ UserAgentConfig(r)
  /\ Goto(r, IF config'[r] # NoVersion THEN "store" ELSE "refused")
  /\ UNCHANGED <<now, dbVars, cacheVars, startedAt, signedAt, faults>>

\* SET with ex=; a SET that raises, with or without effect, is not fatal.
Store(r) ==
  /\ stage[r] = "store"
  /\ \/ /\ cached' = config[r] /\ expiresAt' = now + CacheTtl
        /\ Fault \/ UNCHANGED faults
     \/ UNCHANGED cacheVars /\ Fault
  /\ Goto(r, "sign")
  /\ UNCHANGED <<now, dbVars, startedAt, config, signedAt>>

\* The token carries the tier and the regions of agent_config; when it
\* cannot be persisted the request fails.
Sign(r) ==
  /\ stage[r] = "sign"
  /\ \/ /\ signedAt' = [signedAt EXCEPT ![r] = now]
        /\ Goto(r, "done")
        /\ UNCHANGED faults
     \/ /\ Goto(r, "refused")
        /\ Fault
        /\ UNCHANGED signedAt
  /\ UNCHANGED <<now, dbVars, cacheVars, startedAt, config>>

----------------------------------------------------------------------------
RequestStep(r) == \/ Begin(r) \/ CheckKey(r) \/ CacheHit(r) \/ CacheMiss(r)
                  \/ ReadDb(r) \/ Store(r) \/ Sign(r)

Next == \/ Tick \/ Revoke \/ ChangeConfig \/ Seed \/ CacheExpires
        \/ \E r \in Requests : RequestStep(r)

Spec == Init /\ [][Next]_vars

----------------------------------------------------------------------------
(* Properties. *)

\* A token's configuration was the row at some time in the last CacheTtl,
\* give or take two requests: the one that filled the cache, in a race with
\* the change, and the one that hit it.
ConfigAgeIsBounded ==
  \A r \in Requests :
    stage[r] = "done" => signedAt[r] < endedAt[config[r]] + CacheTtl + 2 * RequestTime
=============================================================================
