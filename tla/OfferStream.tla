---------------------------- MODULE OfferStream ----------------------------
(***************************************************************************)
(* The Redis side of the offer path: the stream                            *)
(* webrtc:offers:{TIER}:{REGION}, its consumer group "media-workers" and   *)
(* the registry set the gateway routes by.  Redis is not part of the       *)
(* repository; every operator below is one command, as worker/worker.py    *)
(* and gateway/ issue it, and Redis executes a command atomically.         *)
(* An offer's stream id is its position, 1..MaxOffers.                     *)
(***************************************************************************)
EXTENDS Integers, Sequences, FiniteSets

CONSTANTS
  Workers,     \* consumer names; a restarted worker process is a new one
  Sessions,    \* session ids
  MaxOffers,   \* bound: offers added to the stream
  None         \* no consumer

ASSUME StreamAssumption ==
  /\ MaxOffers \in Nat \ {0}
  /\ None \notin Workers

Id == 1..MaxOffers

\* "ok": an SDP offer the peer can answer.  "bad": one of setRemoteDescription,
\* createAnswer and setLocalDescription raises.  "malformed": a KeyError.
Kinds == {"ok", "bad", "malformed"}
Offer == [session : Sessions, kind : Kinds]

\* worker.py registers the stream in "offers" (line 81) and its Lua script
\* removes it from "streams" (line 325).
RegistryKeys == {"offers", "streams"}

VARIABLES
  stream,      \* the entries added so far
  groupMade,   \* the consumer group exists
  lastId,      \* the group's last-delivered id
  pel,         \* pending entries list: the consumer an entry is assigned to
  idle,        \* pending entries delivered more than 30 s ago
  consumers,   \* consumers known to the group
  registry     \* the registry sets that contain the stream's key

streamVars == <<stream, groupMade, lastId, pel, idle, consumers, registry>>

StreamTypeOK ==
  /\ stream \in Seq(Offer)
  /\ Len(stream) \in 0..MaxOffers
  /\ groupMade \in BOOLEAN
  /\ lastId \in 0..Len(stream)
  /\ pel \in [Id -> Workers \cup {None}]
  /\ idle \in SUBSET Id
  /\ consumers \in SUBSET Workers
  /\ registry \in SUBSET RegistryKeys

StreamInit ==
  /\ stream = <<>>
  /\ groupMade = FALSE
  /\ lastId = 0
  /\ pel = [m \in Id |-> None]
  /\ idle = {}
  /\ consumers = {}
  /\ registry = {}

Sent == 1..Len(stream)
Pending == {m \in Id : pel[m] # None}

----------------------------------------------------------------------------
\* XADD of an offer by the gateway.
XAdd(s, k) ==
  /\ Len(stream) < MaxOffers
  /\ stream' = Append(stream, [session |-> s, kind |-> k])
  /\ UNCHANGED <<groupMade, lastId, pel, idle, consumers, registry>>

\* XGROUP CREATE id=0 MKSTREAM; BUSYGROUP when it exists already.
XGroupCreate ==
  /\ groupMade' = TRUE
  /\ UNCHANGED <<stream, lastId, pel, idle, consumers, registry>>

\* SADD of the stream's key.
SAdd ==
  /\ registry' = registry \cup {"offers"}
  /\ UNCHANGED <<stream, groupMade, lastId, pel, idle, consumers>>

\* Entries XREADGROUP ">" COUNT n would deliver.
NewEntries(n) == {m \in Id : lastId < m /\ m <= lastId + n /\ m <= Len(stream)}

\* last-delivered id after that.
LastIdAfter(n) == IF lastId + n <= Len(stream) THEN lastId + n ELSE Len(stream)

\* The pending list after that.
PelUnchanged(w, n) == pel \* mutant: NOACK
PelAfterRead(w, n) == [m \in Id |-> IF m \in NewEntries(n) THEN w ELSE pel[m]]

XReadGroup(w, n) ==
  /\ NewEntries(n) # {}
  /\ lastId' = LastIdAfter(n)
  /\ pel' = PelAfterRead(w, n)
  /\ consumers' = consumers \cup {w}
  /\ UNCHANGED <<stream, groupMade, idle, registry>>

\* XACK removes the entry from the pending list, whoever it is assigned to.
XAck(m) ==
  /\ pel' = [pel EXCEPT ![m] = None]
  /\ idle' = idle \ {m}
  /\ UNCHANGED <<stream, groupMade, lastId, consumers, registry>>

\* XCLAIM min_idle_time=30000 without FORCE: only an entry still pending
\* and still idle changes hands, and its idle time starts again.
Claimable(m) == m \in Pending /\ m \in idle

XClaim(w, m) ==
  /\ IF Claimable(m)
       THEN /\ pel' = [pel EXCEPT ![m] = w]
            /\ idle' = idle \ {m}
       ELSE UNCHANGED <<pel, idle>>
  /\ consumers' = consumers \cup {w}
  /\ UNCHANGED <<stream, groupMade, lastId, registry>>

\* XGROUP DELCONSUMER forgets the consumer and the entries pending for it.
XGroupDelConsumer(w) ==
  /\ pel' = [m \in Id |-> IF pel[m] = w THEN None ELSE pel[m]]
  /\ idle' = {m \in idle : pel[m] # w}
  /\ consumers' = consumers \ {w}
  /\ UNCHANGED <<stream, groupMade, lastId, registry>>

\* The 30 s of the reclaim loop pass for a pending entry.
BecomeIdle(m) ==
  /\ m \in Pending \ idle
  /\ idle' = idle \cup {m}
  /\ UNCHANGED <<stream, groupMade, lastId, pel, consumers, registry>>
=============================================================================
