# A verification project for voice-agent-plataform

TLA+ models of the parts of the platform where concurrency, failure and
ordering decide whether it works, TLC runs that check them on small instances,
and TLAPS proofs of the most important invariants for all instances. Every
definition that models code is tied to its lines in `PROJECT.json` ("map").

## 1. The system

Three tiers. A **gateway** (FastAPI, `src/gateway/`) issues session tokens and
holds the client's WebSocket. A **Redis mesh** carries offers, answers and ICE
candidates in streams. **Media workers** (`src/worker/`, one asyncio process
each) read the offers of their tier and region, answer them with an aiortc peer
and run the **voice pipeline** (`src/workflows/`, `src/pipelines/`) on its
audio. `src/fastapi/static/rtcutils/` is the **browser client**, a page with a
connect button, a status display, microphones and level displays. The rest of
`src/fastapi/` is the **monolith**, the older deployment of all of this in one
process, with near copies of the pipeline.

| Component | State it keeps | Operations | Talks to |
|---|---|---|---|
| Session initialisation (`init_controller.py`) | `agent_cfg:{pk}:{agent}` cached 24 h, `session:{id}` stored 60 s | get_token: check key, read cache or database, sign, store | database, Redis |
| Handshake and relay (`handshake_controller.py`) | per connection: answer_sent, two cursors, two loops | verify token, GETDEL, route, accept, relay both ways | Redis, router, client |
| Worker router (`worker_router.py`) | one cache entry and one lock per tier | fetch (SMEMBERS, XINFO), filter, choose by region | Redis |
| Offer stream (Redis) | entries, group `media-workers` with pending list and consumers, registry set | XADD, XREADGROUP, XACK, XPENDING, XCLAIM, DELCONSUMER, SADD, SREM | gateway, workers |
| Media worker (`worker.py`) | semaphore, running_tasks, stop_event, active_sessions | ensure_group, main loop, process_message, reclaim_abandoned, shutdown | Redis, peers |
| Peer session (`peer/factory.py`, `deps_provider.py`) | RTCPeerConnection, its task, its entry in active_sessions | create, connection state events, on_track, on_terminated | worker, aiortc, ICE servers |
| Audio pipeline runner (`audio_pipeline.py`) | the root observation of the trace | run the workflow, stop the tracks, close the peer, end the trace | peer, workflow |
| Voice pipeline (`workflows/steps.py`) | VAD state, bridge queue, LLM task and sentence queue, history, synthesis queue, output track | vad_gate, brain_bridge, stt, llm_stream, tts | STT, LLM and TTS services |
| ICE servers (`peer/config.py`, `services/ice_servers.py`) | list cached 1 h per worker | fetch with fallback | Cloudflare |
| Candidates of a session (`handshake_controller.py`, `worker.py:128`) | stream `webrtc:client:ice:{id}`, the listener's position | write, read on, add to the peer, expire | client, Redis, worker |
| Browser client (`webrtc.js`, `connect_btn.js`, `header_status.js`, `mic.js`, `audio_router.js`) | this.ws, this.pc, queue of candidates, button, display, microphones, audio graph | connect, disconnect, signaling, enable, disable, attach and rebuild | gateway, aiortc peer |
| Monolith (`src/fastapi/`) | active_connections, a socket and a peer per client | signaling, three callbacks of the peer | client, aiortc |
| Database (`gateway/db/`) | public keys, agents, their configuration | check_pk, user_agent_config, seed | session initialisation |

### What is hard about it

* **Interleaving.** Handlers of one worker share active_sessions and the
  semaphore, their peers' callbacks run in between, and several workers share
  one group. The reclaim loop works from a list that is old by the time it
  claims. Requests share the router's cache and lock. The relay loops of a
  connection end and restart independently.
* **Failure.** Any Redis call can fail before or after it took effect, and one
  that timed out is sent again and may take effect twice (`redis_db.py:18-19`); a
  worker can crash between answering and acknowledging; SIGTERM arrives with
  reads and handlers under way.
* **Time.** A token has two clocks (its `exp` and the key's `ex`). Two caches
  (configuration, streams) serve old replies. The relay times out and goes on.
* **Ordering.** Several offers may come in one session. Interruptions, speech
  and the end of the stream travel through one bounded queue. The model's text
  ends sentences and markup wherever its tokens happen to be cut.
* **Several owners of one thing.** A peer is closed by the handler of its offer,
  by a callback of its own connection and by its pipeline, and the close of one
  cancels the other. In the monolith three callbacks of a peer read its states
  and close its socket. In the page several microphone buttons drive one gain
  node, sources and taps of an audio graph are exchanged while it runs, and two
  calls of connect() write the same this.ws and this.pc, and handlers of one
  socket act on the other.

`PROJECT.json` "hazards" lists these at the lines where they bite, with the
properties that watch them, or with the reason why none does yet.

### What makes each component correct

* Worker: an offer is handled at most once, answered by one call at most and
  acknowledged only with a verdict; until then it stays pending; slots are given
  back on every path; peers that fail are closed and forgotten; SIGTERM ends the
  process after its handlers.
* Handshake: one connection per token; a valid token is not refused unused; one
  answer per client unless a send was cut, and a published answer arrives.
* Session initialisation: the configuration in a token is of bounded age.
* Candidates: whatever the client sends reaches each peer of its session, in
  order, through batches, failed reads and an expiring stream.
* Router: routed to a stream that was recently alive and not full, nearest
  among the allowed regions; refusals are recent.
* Voice gate: an utterance is whole, speech and silence are decided by their
  thresholds, nobody is hung up on who spoke or was not asked.
* Stages behind the gate: every question gets a reply, an interruption silences
  the agent, one question at a time is put to the LLM, history holds what was
  said, the end of the stream reaches every stage. Within a reply every word is
  spoken once and in order, audio arrives as it was synthesised, and the call is
  ended only when the model asked for it.
* Peer session and pipeline runner: a call that is over leaves active_sessions,
  its peer is closed, its pipeline ends, and a trace that is not ended has a
  reason.
* ICE servers: credentials are not handed out past their cache's lifetime.
* Browser: button and display agree with the peer the page has; with the
  microphone buttons off nothing is sent; the graph carries the current sources
  and no others; no socket or peer is left open behind the page's back.
* Monolith: the socket of a call that is up is closed, a dead peer is forgotten.

## 2. The modules

| Module | Models | Composes |
|---|---|---|
| `OfferStream` | the Redis commands on the offer stream, its group and the registry | |
| `MediaWorker` | all workers of a tier and region, with peers and callbacks | EXTENDS `OfferStream`; implements `OfferDelivery` |
| `OfferDelivery` | abstract: what the worker tier promises for one offer | |
| `Handshake` | token store and expiry, ws_handshake, handshake, relay loops | relies on `OfferDelivery`'s promise (two answers per offer at most) |
| `IceTrickle` | the client's candidates: gateway, ICE stream, listen_for_ice_candidates | |
| `Monolith` | the server of `fastapi/`: socket handler, peer, callbacks | |
| `SessionInit` | get_token with its cache, next to an operator who revokes, changes and seeds | |
| `WorkerRouter` | get_available_streams and resolve_stream_key for one tier | |
| `SpeechSignals` | abstract: the order of the items vad_gate yields | |
| `VadGate` | vad_gate and track_frames, frame by frame | implements `SpeechSignals` |
| `VoicePipeline` | brain_bridge, stt, llm_stream, tts, their tasks, history and output track, over many turns | EXTENDS `SpeechSignals`, its source of items |
| `SpeechOutput` | tts_worker, call_tts_stream and AudioOutputTrack: from phrases to pieces of audio | |
| `ReplyTurn` | one reply: the model's stream, sentences, tool calls, memory, the loop of llm_stream | EXTENDS `SpeechOutput`, which speaks what it says |
| `IceServers` | get_ice_servers with its cache | |
| `PeerLifecycle` | peers from create_peer to the end of their pipeline, with every close | EXTENDS `IceServers`, which a peer is built from |
| `AudioGraph` | the two WebAudio chains of the page with their taps | |
| `MicControl` | the microphone buttons and the level display | EXTENDS `AudioGraph`, whose microphone chain they switch |
| `BrowserClient` | connect button, connect() and disconnect(), signaling, status display | EXTENDS `MicControl`, which its events switch |
| `Signaling` | handshake, candidates and monolith side by side | EXTENDS `Handshake`; INSTANCEs `IceTrickle` and `Monolith` |
| `Caches` | the gateway's two caches side by side | EXTENDS `SessionInit`; INSTANCEs `WorkerRouter` |
| `MediaWorkerProofs` | the worker tier: types, delivery and its refinement, what stays pending, shutdown, sessions, slots | EXTENDS `MediaWorker` |
| `SignalingProofs` | tokens, answers and candidates | EXTENDS `Signaling` |
| `CachesProofs` | ages of configurations and of routing decisions | EXTENDS `Caches` |
| `VadGateProofs` | vad_gate: counters, buffer, hang-up, and `SpeechSignals` implemented | EXTENDS `VadGate` |
| `VoicePipelineProofs` | the stages: types, interruption, the held worker, the history | EXTENDS `VoicePipeline` |
| `ReplyTurnProofs` | one reply: text, audio, history and tool calls | EXTENDS `ReplyTurn` |
| `PeerLifecycleProofs` | the ICE cache, the types of the peers, the trace | EXTENDS `PeerLifecycle` |
| `BrowserClientProofs` | audio graph, buttons, button and display, sockets and peers | EXTENDS `BrowserClient` |
| `MCMediaWorker`, `MCPeerLifecycle`, `MCReplyTurn`, `MCMicControl`, `MCBrowserClient` | model values, symmetry, deltas of tool calls, the page's elements | |
| `MCSignaling`, `MCCaches` | model values, and the choice of the part that runs | EXTEND `Signaling` and `Caches` |

Definitions marked `\* mutant` are the deliberately broken variants that
`PROJECT.json` "mutants" puts in place of the real definition: each property of
each passing run is violated by one of them. No action uses them.

### MediaWorker and OfferStream

A handler is identified by its offer, an offer by its position in the stream
(a Redis id). `phase[w]` is where `main()` is; `want`/`batch` are the
outstanding XREADGROUP and the reply that main() has not consumed (delivery by
Redis and consumption by the worker are two steps, so SIGTERM or a lost
connection falls between them); `snapshot` is the XPENDING list the reclaim
loop iterates over; `step[m]` is where `process_message` awaits. Each `await`
on Redis or aiortc is an action boundary; what runs between two awaits is one
action. `active[w][s]` is active_sessions, holding the offer whose peer the
entry refers to, so that a replaced entry is visible. `pc[m]`, `events[m]` and
`closeTasks` are the peer connection, its undelivered state events and the
tasks on_terminated creates. `permits` is the semaphore.

`process_message` is followed from await to await: setRemoteDescription,
createAnswer and setLocalDescription are three steps (`SetRemote`,
`CreateAnswer`, `SetLocal`), and the pipeline that the first of them sets off may
close the peer before the others (`ClosedMeanwhile`). `pc[m]` goes through the
phases of that close, which the peer's own "closed" event may cut (`CutClose`); a
handler that then closes the peer returns at once or waits, by aiortc's version
(`CloseOnError`), and after a cut that wait has no end (`Stuck`).

Failed calls have both outcomes where Redis may have executed the command
(PublishFails, AckFails). redis_client repeats a call that timed out once
(`redis_db.py:18-19`): the answer's XADD may have run twice when the call returns,
and up to twice when it raises (`AddAnswers`); repeating the other commands
changes nothing, or is a lost reply (`ReadFails`) and a read after it. It is
assumed that a command that timed out takes effect before the call returns, or
never. A process that ends loses tasks, peers and callbacks
(ProcessEnds) and comes back as a new consumer, as the deployment gives it no
fixed WORKER_ID; a crashed worker therefore stays down in the model and further
workers stand for restarts. A handler's failure to build a peer ends in the
unbound `peer_session` of the except clauses (BuildFails). `shutdown()` calls a
method PeerSession does not have (ShutdownAborts).

### Handshake

One run of `ws_handshake`/`handshake` is a connection; `Init` lets every
connection name any session. `jwt`, `key`, `given` are the signed token, the
Redis key and whether the client got it. `KeyExpires` waits for the token's own
expiry because both last TOKEN_EXPIRATION_SECONDS and the key is set after the
token was signed. `Consume` is GETDEL: presence and removal are one step.
`clientLoop`/`workerLoop` are the two gathered coroutines, `Gather` the restart
by `while True`, `cursor` and `answerSent` the state that outlives a round.
The worker's loop advances the cursor (`TakeAnswer`) before it sends, and notes
the answer after it sent (`AnswerIsSent`); the deadline of 60 s may pass in
between, with the answer on its way or not (`SendIsCut`). The answer stream
expires 360 s after the last answer (`AnswersExpire`): not under a loop that is
reading, which would have read it long before. A message of an unknown type is
read and ignored, and keeps the client's loop alive as any other does. The XADD
of an offer may run twice, and up to twice when it raises; so an offer the client
sent once may have several answers.

Left out: the worker's ICE stream (aiortc gathers before it answers and never
emits a candidate, so nothing is ever written there); the comparison after GETDEL,
which a correctly signed token of this session cannot fail; the deletes in the
`finally` block, which nobody reads after the process ended.

### IceTrickle

A candidate is the number of its message; the last is the end-of-candidates
message. `log` is the Redis stream of the session: an entry is its place in it,
and says which message it carries, since a call that was sent again adds a
message twice (`Forward`). `gone` is how much of it expired,
`last[p]` the listener's `last_id` and `batch[p]` the entries of one XREAD that
are not added yet. A second offer on the socket starts a listener for a second
peer, which reads from the beginning. After `ReadFails` the listener reads on from
where it was. What aiortc
does with a candidate is not modelled: a refused one is logged and passed over.

### Monolith

One client has one handler, one socket and one peer. `ice` and `conn` are the
peer's two states; `iceRuns` and `connRuns` are the scheduled runs of their
callbacks, which read both states when they run, so a callback may see a later
state than the one it was scheduled for. The pipeline's task ends with a KeyError
at its first step (`PipelineFails`): nothing sets resources["peer_connection"].

### SessionInit

One public key and one agent. `Seed` is the fixtures' transaction, which replaces
every key and agent. Versions of the configuration row carry the time
they ended, so that "how old is what this token says" is a state predicate.
`RequestTime` bounds how many ticks a request may take; the property's bound
contains it twice, for the request that filled the cache and the one that
hit it, and is strict.

### WorkerRouter

`registered` and `full` change at any time; the history variables record when
each stream last was registered, had room or was bad, so that a decision can be
compared with the world of the last minute. `Nearest` allows any order among
equally near streams (SMEMBERS is unordered). A client's region is looked up by
degrees (`RegionesCercanas`), its streams are sorted by kilometres (`Km`), as in
the code; both are constants, and so are the places GeoIP finds. `Loggable` is
the second distance computation in the log call, which raises for unknown
regions.

### SpeechSignals and VadGate

The whole pipeline is a chain of generators, so vad_gate runs only while its
consumer waits for an item and stands still at a `yield` until the consumer
comes back. `VadGate` makes that two steps, `Yield` and `Taken`. One action per
branch of the `match` on state and verdict, which may be any that the detector
can give for a window of that size (`Verdicts`: it hears whole chunks of 512
samples, and of the code's 960 leaves out the last 448); a frame that does not
fill the detector's buffer is `Buffer`. Frames are their numbers, so "whole" and
"repeated" can be said of utterance_buf. `verdicts`, `received`, `confirmedAt`
and `handedUpTo` are history variables. `SpeechSignals` is what is left of the
gate when frames and thresholds are forgotten; it is checked and proved that
`VadGate` implements it, and `VoicePipeline` builds on it. That is the
composition: what holds of the stages for every `SpeechSignals` source holds for
the gate of the code.

Constants are in frames, the assumptions on them (`VadAssumption`,
`AskAssumption`) are what the code's 3, 10, 30, 50, 3000, 6000 satisfy.

### VoicePipeline

stt, llm_stream and tts are generators that pull each other: they are one task,
`main`, which carries an item through all stages before it takes the next. Its
value says where it is suspended: "pull" (`queue.get` of the bridge), "stt"
(transcription), "answer" (`sentence_queue.get`), "silence" (between
llm_stream's and tts's reaction to StartSpeaking). The other tasks are the
harvester (`Harvest...`), the LLM workers (`LlmWorker(t)`), tts_worker
(`TakePhrase`, `PushChunk`, `PhraseDone`) and WebRTC (`Play`). A worker is
given a queue of its own per question (`FreshQueue`, `writes`), so a late answer
of an abandoned worker is in the model and goes where the code sends it. Text
is abstracted to the turn it answers: `history` says of which turns a saved
answer consists. `silenced` and `replied` are history variables.

Left out: WarmUp, which nothing emits (`steps.py:131` is commented out); the
silence pushed after a phrase (SpeechOutput has it); the second LLM call after
tool results, since add_tools_calls raises on the ToolCallChunk objects it is
given; `message_limit` of the memory.

### SpeechOutput and ReplyTurn

VoicePipeline knows a sentence only by the turn it answers. These two follow one
reply in detail. Text is a sequence of tokens of four sorts: a word, a token that
ends like a sentence, and the opening and closing end of what one of BAD_PATTERNS
removes. A word is its position in the reply, so "once", "in order" and "inside
markup" can be said. `Token` is one round of the worker's loop; `flushed` says how
much of the reply is behind its buffer. Tool calls come as deltas with an index
and are merged by `Reduce`; `Delta` is what call_llm_stream_openai passes on. A
later delta without a name raises in the worker (`NamelessDelta`).

`SpeechOutput` counts audio in pieces of 10 ms. `ReceiveChunk` is one chunk of the
HTTP response, of any size, cut into frames and pieces; `PushPiece` is one
Queue.put, which waits while the track is full; `Hush` and `Farewell` are what the
tts stage does with StartSpeaking and EndOfStream. A sample less than a piece is
not modelled: the service's audio is taken to come in multiples of 10 ms.

### IceServers and PeerLifecycle

A list of servers is known by the time its credentials were issued. `lookedAt` is
the `now` of get_ice_servers, read before the request.

PeerLifecycle has what MediaWorker abstracts from. `notices` are scheduled runs
of on_conn_state, each of which reads connectionState when it runs, not when it
was scheduled. pc.close() is three steps, `BeginClose`, `TransportStops` (which
announces "closed") and `CloseEnds`; `closer` is the task it runs in, and if that
task is the pipeline, the "closed" it announces cancels it: `CloseCut`. A peer
that is left half closed stays so. What a second close() does while the first
runs depends on aiortc's version, so both outcomes are there. The stages may
swallow a cancellation (`CancelSwallowed`).

### AudioGraph, MicControl and BrowserClient

`AudioGraph` has the two AudioRouters with the connections WebAudio ends up with
(`wires`), built by the same connects and disconnects as `attachStream`,
`rebuild` and `connectTap`; a connection the code forgets to undo stays in the
set. The buttons of `MicControl` share the microphone's chain and its gain node;
each has its own `enabled`.

One page. A call of connect(), the socket it makes and the peer its onopen makes
share a number; `ws` and `pc` are this.ws and this.pc. Every `await` is an action
boundary, and so is each handler of a socket. `bound` are the sockets whose
handlers are still set. enable() of a microphone button suspends at the prompt
(`Enable`, `Answered`); RTC_CONNECTED and RTC_STATECHANGE are dispatched within
the step that changes the peer. The server may close a socket or send candidates
before its answer at any time. `overlapped` is a history variable: connect() was
called while another call had no socket yet, the case in which a socket does leak.

## 3. The runs

Passing runs and what they show:

| Run | Instance | Shows |
|---|---|---|
| WorkerGroup | 2 workers, 1 offer, 2 failures | through reclaims, lost replies, repeated calls, crashes and shutdowns a delivered offer is acknowledged or pending until a worker leaves; the group refines OfferDelivery |
| WorkerTasks | 1 worker, 1 slot, 2 offers of one session, 1 failure, fair | every path through the handler; slots, sessions, answers from one call; fair: SIGTERM ends the worker, unless a handler waits for a close that was cut; offers are read |
| Signaling | 2 connections (WebSocket or HTTP) of 1 session that race for its token; 1 connection that relays 1 offer and any number of other messages; each with 2 failures; 2 candidates and their end for 2 peers, batches of 2, 2 failures; 1 client of the monolith; fair | one connection per token, no valid token refused unused, one answer; answers and messages get through restarts of the loops; candidates arrive in order; the monolith closes sockets and forgets dead peers |
| Caches | 3 requests for a token, cache of 2 ticks, 1 change, 1 revocation; 2 requests for a stream, 2 streams in 2 regions, a client in Boston or nowhere, three region lists; 1 failure | staleness of a configuration is bounded; cached routing and refusals are of bounded age; nearest allowed stream |
| VadGate | windows of 2 frames, speech from 5, silence from 5, pre-roll 9, limits 7 and 12, 32 frames | every sequence of verdicts: utterances are whole, thresholds decide, hang-up only after silence; implements SpeechSignals |
| Pipeline | 2 turns, bridge of 2 and of 6, track of 1, 1 output per worker, fair | interruptions silence, one held worker, the history is of what was said, through drops, failures and cancellation; questions get replies; with room in the queue every stage ends |
| PeerLifecycle | 1 peer and 1 more call of create_peer, cache of 2 ticks, 2 failures, fair | calls that are over leave active_sessions, are closed and end; lost traces have a cause; credentials from the cache are young |
| BrowserClient | 2 calls of connect(), 1 candidate per socket, 2 microphone buttons with 1 prompt each, 1 level display of the microphone and 2 of the call | button and display tell the truth, buttons off means silence, the graph carries the current sources, nothing leaks |
| ReplyTurn | replies of 3 tokens and deltas, 3 pieces of audio, track of 2, after a purge of 1 | the reply is spoken once, what is saved is all of it, the audio is exact and gone after an interruption, only end_conversation hangs up |

Signaling and Caches put parts in one run that share no variable and no action.
`part` is chosen in the initial state and only that part moves; the others stay
in their initial states, in which none of their fair actions is enabled. So a
property of a part holds in the run if and only if it holds of the part alone,
and the liveness of one part owes nothing to the others. The handshake makes two
of the four parts of Signaling: connections of a session meet at its token and
nowhere else, as one at most gets past it, so in "token" two of them race and say
nothing afterwards, and in "relay" one is alone and says anything.

The largest runs are ReplyTurn (14.2 million states, three minutes), Caches (7.6
million) and BrowserClient (3.5 million); Signaling has 190 thousand, with nine
properties, five of them temporal.

What some of the properties promise, and on what condition:

* `SigtermEndsWorker` excepts a worker one of whose handlers is `Stuck`: in the
  second pc.close() of a peer whose first close was cut by the peer's own callback.
  Some versions of aiortc let it return, in others it waits for ever, and with it
  the gather of `worker.py:424`.
* `AnswerIsForwarded` asks that the client fall silent for 10 s again and again:
  while it sends anything at all, listen_to_client does not end, gather
  (`handshake_controller.py:249`) does not return, and a worker's loop that timed
  out is not restarted. Nor does it speak of an answer whose send the deadline cut
  (its cursor has passed it) or that expired before a round read it.
* `OneAnswer` allows one more answer for each send the deadline cut: answer_sent
  was not set then, and the next round may send the next entry.
* `AnsweredByOneCall` and `ImplementsDelivery` allow two answers for an offer, of
  one call that was sent again. `CandidatesInOrder` allows a candidate as often as
  it stands in the stream.
* `AnswerIsSavedWhole` says what is saved: all that had arrived when the stream
  ended. That the stream broke off (`call_llm.py:153`) or that the caller
  interrupted while the answer was being spoken makes no difference to the code,
  and none to the property.
* `SpeechIsExact` has three parts: until an interruption what was heard and what
  is on its way are exactly what is due; after it, no more than a beginning of
  that was heard; and nothing of it is left in the track or in hand. A hang-up
  does not purge the track, and what it holds may still be heard.

Runs that show where the code departs from what it says (`PROJECT.json`
"findings" quotes the lines):

| Run | What happens |
|---|---|
| ReclaimRetries | a claimed offer is never handled: the main loop reads only new entries |
| MarkupSpoken | what is left of a reply when the stream ends is spoken with its markup |
| RedMeansLive | with two microphone buttons on the page one stays red after the other muted the gain they share |

Departures seen while modelling, which no run is about (the models contain them):

* `shutdown()` calls peer_session.cancel_all_tasks() (`worker.py:298`), which
  PeerSession does not define: with an active session it raises, and the worker
  stays a consumer of the group although `:305` has it leave first
  (`ShutdownAborts`).
* listen_for_ice_candidates reads for as long as the process runs
  (`worker.py:132-174`): neither the end-of-candidates message nor the close of its
  peer ends it, and nobody cancels it (`WorkerEnds` is its only end).
* In the monolith a client that leaves before it is connected stays in
  active_connections (`webrtc_peer.py:93`), its audio pipeline ends with a
  KeyError, and close_all_peers, which would not work, is never called.
* `while True` restarts both relay loops of a client that has left
  (`handshake_controller.py:246`), against `:46` ("until either side signals
  done") and `:248`; the handler runs until the process ends (`Gather`).
* A pipeline that calls pc.close() itself is cancelled by the "closed" this
  announces (`factory.py:75-76`): CancelledError passes the `except Exception` of
  `audio_pipeline.py:102`, the peer stays half closed and the trace, which `:105`
  means to finalise, is never ended (`CloseCut`). `LostTraceHasCause` says that
  where this happens the connection is dead and the session removed.
* start_observation raises ahead of the try (`audio_pipeline.py:33`): nobody
  closes the peer until the client goes (`TraceFails`).
* The handler for httpx.ReadTimeout names `e`, which its clause does not bind
  (`audio_pipeline.py:62-69`): it ends in a NameError and the finally clause.
* TURN credentials are asked for 600 s (`ice_servers.py:28`) and cached for 3600 s
  (`peer/config.py:9`); when Cloudflare fails, a list of any age is used. With
  ICE_CACHE_TTL set in the environment it is a string, and `:53` raises after the
  list was stored: every call fetches, and uses the list it just stored.
* A tool call streamed in several deltas always fails: the deltas after the first
  have no name, and `steps.py:507` adds None to a string (`NamelessDelta`). The
  argument "null" is skipped there and kept by the trace (`call_llm.py:118`).
* A stream that is cancelled before its end names `final_tools` unbound
  (`call_llm.py:150`) when it is traced: the worker sees an ordinary exception
  where it expects CancelledError.
* The Silero detector is one per process (`vad.py:79`) and keeps state between
  calls: calls of concurrent sessions affect each other's verdicts. VadGate
  allows every verdict. Of a window's 960 samples the last 448 are not heard.
* The client's region is the nearest in degrees (`worker_router.py:103`), where
  a degree of longitude counts the same at every latitude, and the entry of
  "global" at (0, 0) is among the candidates: a caller in the Gulf of Guinea is
  from "global".
* Speech is written for transcription as interleaved stereo labelled mono
  (`speech_to_text.py:32-35`), while the debug file is mixed down (`steps.py:351`).
* In the page: a failed fetch leaves the button "connecting" (`FetchFails`); a
  click while connect() is fetching and one more start a second call, and one
  of the two sockets is forgotten (`NewSocket`); onclose of an old socket closes
  the new one (`OnClose`); remoteCandidatesQueue is never emptied between calls
  (`OnCandidate`); after "disconnected" a click reuses the old peer (`SetupPeer`);
  the display says SETTING UP after a hang-up while the socket is open; the
  microphone stays on after a local hang-up, against `mic.js:74`; after the user
  refused the microphone its button can be switched on and not off (`Disable`);
  RTC_CONNECTED before the first prompt is answered is not heard (`AutoEnable`);
  each connection adds another listener for chat messages (`webrtc.js:108`).
* The last worker's Lua script removes the stream from `streams:{TIER}`
  (`worker.py:325`), but it was added to `webrtc:offers:{TIER}` (`:81`), the set
  the router reads: the stream stays registered with no worker behind it, where
  `:311` and `:330` say it is removed (`DeregisterKey`).
* A second offer of a session replaces the first peer in active_sessions while
  it is open (`worker.py:203`), and on_terminated pops by session id
  (`deps_provider.py:94`): the first peer is neither counted by get_batch_size
  nor among "all active sessions" of `worker.py:295` (`EnterSession`).
* `steps.py:420-421` says that only complete, uninterrupted responses are saved.
  Errors of the model's stream are logged and the stream ends as usual
  (`call_llm.py:153`), so a partial answer is saved as a complete one
  (`StreamEnds`). The loop reads the bridge only after an answer is complete, so an
  interruption never reaches it: the answer is saved in full though it was not
  heard in full (`SaveAnswer`),
  and the clean-up of an interrupted question (`:639-644`) cannot be reached: a
  question whose answer failed stays in the history (`Apologise`).
* `steps.py:699` says synthesis is skipped when speaking_event is set; tts does
  not read that event.
* The goodbye is queued and its worker cancelled at once (`steps.py:751`,
  `:788`): it is never heard (`Farewell`). The same goes for the error phrase
  when the transcription fails, which ends the call (`TranscriptionFails`).
* vad_gate yields the class EndOfStream (`steps.py:192`), which no isinstance
  check recognises; the stages end by the sentinel instead (`DropSignal`).
* QueueFull is not imported (`steps.py:268`): on a full queue the sentinel is not
  sent, and `PipelineEnds` is stated of a queue with room (`LargeBridge`).
* Every tool but end_conversation ends the answer with the error phrase:
  add_tools_calls (`in_memory.py:57`) expects dicts (`ToolCalled`).
* The pre-roll of 50 frames is longer than the 30 silent frames that end an
  utterance: one that follows at once repeats up to 17 frames of the earlier
  one's speech (`RepeatsLessThanPreRoll` bounds what is repeated).
* False starts do not reset the silence counter (`steps.py:198-201`): noise below
  START_FRAMES does not keep a call alive (`FalseStart`).
* stt and tts catch a CancelledError without telling their own cancellation from
  that of the task they wait for (`steps.py:370`, `:765`): a pipeline cancelled at
  that moment goes on (`EmptyTranscript`, `StopSpeaking`).

* `docs/3.tier.decouple.architecture.txt:37` says a worker finishes its active
  calls when it drains; `worker.py:422-425` waits for handlers, which end when
  the answer is out, not for calls (`HandlersEnded`).
* The HTTP handshake uses a name it does not define
  (`handshake_controller.py:325`), after the token was taken: it always fails.
* The configuration cache lasts 86400 s (`init_controller.py:19`), a session's
  copy 60 s (`:93`): what a new session gets may be a day old.
* `worker_router.py:285` and `:301` compute the chosen stream's distance for a
  log line and raise for a region without coordinates, although `:116` treats
  such a region as merely far away (`Loggable`).
* A stream whose region is literally "global" is preferred over a nearer one
  when an agent allows "global" and nothing else (`worker_router.py:277`),
  where `:130` calls it "a last resort".

### Bounds, and why they are enough

Names of bounds are marked "bound" where they are declared. Two workers suffice
for every race over an entry (claim against acknowledgement, leave against
read); a third could only repeat one of them. Two offers are needed for a
slot to be contended and for a session's entry to be replaced (WorkerTasks lets
both come from one session). `MaxFaults` caps failed calls, failed connections
and crashes together: with two, a failure and a crash meet in WorkerGroup. The
code's 5, 5 and 10 in get_batch_size are constants (`Headroom`, `MidBatch`,
`FullBatch`) because a slot bound of 1 or 2 would otherwise always count as
nearly full; WorkerTasks sets `Headroom` to 0 so that batches of two occur. In
Handshake two connections contend for one token, over either transport, and one
connection's messages other than its one offer are not bounded in number, only in
how many wait to be read; two failures let the offer, or its answer, be added
twice and the loops fail as well. A second session would be
independent of the first: connections of different sessions share no state. The
clock of SessionInit runs two cache lifetimes, so that an entry is filled, goes
stale, is filled again and is stale once more when the third request hits it;
that of WorkerRouter runs one and a half: filled, stale and filled again while
the world changes in between. VadGate's thresholds keep the order of the code's
and are no multiples of the window, so rounding matters; 32 frames hold an
utterance, a second one within the first's pre-roll, and both limits on
inactivity. Two turns are what an interruption needs: one to be silenced, one to
be answered. A bridge of 2 is full in the Pipeline run, which exercises drops
and the lost sentinel; a bridge of 6, which is `MaxAsk` + 5, is the smallest
that is never full, and the code's has room for ten. `PipelineEnds`, which the
lost sentinel breaks, is stated of the large one. A track of one chunk blocks
the synthesis.

PeerLifecycle needs a second call only as a rival for the cache: peers share
nothing else. Two failures are a failed step of the offer and a failed fetch or
trace. BrowserClient needs two calls of connect() for every overlap of sockets
and peers, a candidate that comes before or after the answer, and one
prompt per button at a time; a third call starts where the second may have been
left. Two candidates and the end of candidates, one of them twice, in batches of
two leave entries for a second read.
ReplyTurn's three chunks are markup with a word in it, or a sentence between two
others, or two deltas of one call with one of another between them; frames of
two pieces leave a remainder, and a track of 2 that is replaced by one of 1 is
full before and after a purge. MarkupSpoken needs two tokens.

Deadlock checking is off in every run: these systems legitimately come to rest
(all workers ended, all requests answered, clocks at their bound). What must
not come to rest is stated as liveness.

### Fairness

Weak fairness only, on steps the event loop or Redis owes: a task that is ready
is run, an awaited call returns or raises, a wait with a timeout ends. In
MediaWorker no fairness is assumed of clients, the network, peers, the operator
or of a worker being started, and none that a close which was cut comes to its end; in Handshake none of clients and of the worker
tier. In PeerLifecycle the event loop runs what is scheduled, aiortc's close
goes on, and the source of a pipeline ends once its peer is not open any more
(aiortc stops the receivers when a close begins); nothing is assumed of the
client, of fetches, or of a cancellation. In IceTrickle the listener's reads
return and what they return is added; nothing is assumed of the page or the
gateway. In Monolith the handler's task and the scheduled callbacks run. The
router, the gate, the reply and the page have no fairness: what is said of them
is safety. In VoicePipeline the harvester and `main` are fair: a ready task
runs, a transcription, a tool and a wait with a time-out end. Nothing is assumed
of the user, the LLM, the synthesis or the listener, so the replies are due even
if the LLM never says a word. Redis clients have a socket timeout
(`dbs_clients/redis_db.py`), which is why calls end.

## 4. What is proved

Every invariant and every action property the passing runs check is proved,
and so are both refinements, for every value of the constants that satisfies the
named assumptions: any number of workers, offers, connections, peers, turns and
buttons, any lifetimes, sizes and thresholds, replies and audio of any length.
The bounds on the clock, on calls and on failures are constants too, so what is
proved does not depend on how many failures there are.

The assumptions are types and orders of constants: `StreamAssumption`,
`WorkerAssumption`, `HandshakeAssumption`, `IceAssumption` (one of candidates, one
of servers), `InitAssumption`, `RouterAssumption`, `SignalsAssumption`,
`VadAssumption`, `AskAssumption`, `PipelineAssumption`, `SpeechAssumption`,
`ReplyAssumption`, `PeerAssumption`, `MicAssumption`, `ClientAssumption`. Every
run evaluates those of its modules. What is proved of a part holds in the run of
several parts, where one part moves and the others stand still.

Few of the invariants are inductive as they stand. What each needed is said
below; where the strengthening says something about the code that a reader
should know, it is the more interesting half of the proof.

### MediaWorkerProofs

* `TypeCorrect`: types, one lemma per action; the semaphore never goes below 0.
* `DeliveryCorrect`: `DeliveryInv`, the inductive invariant of the offer path.
  It has three parts. `DeliveredOnce`: an offer lies beyond lastId, in one
  reply, or in one handler. That excludes a second handler, which is what makes
  "answered by one call" inductive. `AnswerFollowsStep`: before the handler comes
  to its XADD the offer has no answer, and behind a successful one it has some,
  however often it ran. `AckedSettled`: acknowledged offers have their verdict
  and are off the pending list. None of the consequences is inductive alone.
* `AckMeansVerdictAlways`, `AnsweredByOneCallAlways`, `AckedNeverPendingAlways`:
  consequences; the second is a property of WorkerTasks, the other two are
  in the modules and in no run, since `ImplementsDelivery` contains them.
* `UnsettledStaysPendingAlways`: with it that only a worker that was told to stop
  gets to the call that removes a consumer.
* `WorkersImplementDelivery`: `Spec => Delivery!Spec`. `StatusFacts` reads the
  abstract status off the concrete state under `DeliveryInv`; each action then
  maps to one abstract step (`PublishMaps`, `DeliverMaps`, `AnswerMaps`,
  `AcknowledgeMaps`, `DelConsumerMaps`) or to a stutter (`ClaimMaps`,
  `MappedFrame`). It needs one more invariant, `AckedBehind`: the handler of an
  acknowledged offer is past its acknowledgement, so neither an answer nor a
  second acknowledgement follows.
* `ShutdownAfterHandlersAlways`: by `ShutdownInv`, which ties replies and
  handlers to the phases "loop" and "drain".
* `NoZombieSessionAlways`: by `SessionInv`, which adds that an entry of
  active_sessions is filed under its offer's own worker and session. Without it
  the pop by session id could leave the entry of the peer that ended.
* `PermitsConservedAlways`: by `SlotsInv` over the worker's handlers that hold
  the semaphore, counted with the library's cardinality theorems.

### SignalingProofs

* `HandshakeTypeCorrect`.
* `OneConnectionPerToken`, `TokenHonoured`: by `TokenInv`, which adds that a key
  in Redis has no holder yet and that nothing exists of a token before it is
  issued. With it GETDEL sets a holder at most once per session.
* `OneAnswerAlways`: by `AnswerInv` together with `TokenInv`. `answerSent` is set
  once more answers were got than sends were cut; an answer about to be sent lies
  behind the cursor and none was noted; an answer has an offer before it, and the
  holder of a session does not change once set.
* `CandidatesInOrderAlways`: by `TrickleInv`. The entries of the stream carry
  messages in their order, though not one each (`LogInOrder`); what a listener was given rises
  and is not beyond its cursor, and the cursor passed none but what was given or
  had expired (`Given`); the batch it holds begins right after the cursor and has
  no hole but what expired (`Held`); a listener that was not started stands at
  the beginning (`Cursor`). `BatchIsABeginning` says of COUNT that it takes the
  first entries.

### CachesProofs

* `SessionTyped`, `RouterTyped`.
* `ConfigAgeIsBoundedAlways`: by `AgeInv`. The row in force has not ended
  (`RowInv`); an entry's expiry is at most the cache's lifetime and one request
  after its version ended, since the request that wrote it had read the version
  while it was in force (`EntryInv`); and so by stages what each request holds
  (`RequestInv`). That is where the second RequestTime of the bound comes from.
* `DecisionIsRecentAlways`, `RoutedWithinRegionsAlways`: by `RouterInv`. The
  history variables are up to date (`WorldKnown`); members read by a request are
  sound since the request began (`MembersKnown`); and the entry is sound since one
  request before it was stored (`CacheKnown`), whichever request stored it and
  however many waited for the lock. `DecidesFromSoundList` then says that every
  way to a decision goes through a sound list.

### VadGateProofs

* `VadTypeCorrect`; `ContiguousAlways`: utterance_buf holds consecutive frames
  that end with the latest; with the length it had when speech began this gives
  `RepeatsLessThanPreRollAlways`.
* `HangUpAfterSilenceAlways`: by `Accounts`, which ties the silence counter to
  the frames received since the last hand-over.
* `SpeechIsDecidedAlways`, `UtteranceIsWholeAlways`: by `CountersAgree`. The code
  counts frames in steps of a window, the property counts windows: in "starting"
  there is a k with starting_count = k windows, the last k verdicts are speech, the
  one before is not, and the buffer was begun at the first of them; likewise for
  "stopping". `WindowsReach` is the arithmetic: k windows reach a threshold just if k
  is at least its quotient, rounded up.
* `GateImplementsSignals`: `Spec => Signals!SignalsSpec`, each branch one step
  of `SpeechSignals` or a stutter. This is where `AskAssumption` is needed: that
  the questions fit in before the hang-up follows from the counter growing by
  one window per question.

### VoicePipelineProofs

* `PipelineTypeCorrect`: types, together with `BusyWithATurn` (an item that
  speaks of a turn names one, and the answer loop reads the queue of its turn).
* `InterruptionSilencesAlways`: `Pending` says nothing of the bridge, so it is
  not inductive. `OneTurnInBridge`: the bridge holds items of one turn only,
  that of the last StartSpeaking put. `StartIsHandled`: either that
  StartSpeaking is still at the head, or the stages have been silenced for it.
  So whatever main takes next is of the turn it was silenced for.
* `RunningWorkerIsHeldAlways`: by `OneUtterance` (one utterance at a time between
  gate and main) and `Announced` (while a question is held, what the user says
  next comes behind its StartSpeaking). So no utterance is taken with a worker
  held, and a question is never put over a running one.
* `HistoryIsOfOneTurnAlways`: by `HistoryInv`, on top of both. A queue is written
  by the worker of its own question only (`OwnQueues`), so a late sentence of an
  abandoned worker ends where nobody reads; an utterance on its way is of a turn
  later than all in the history (`UtteranceIsNew`); the answer in the making
  follows its question (`QuestionIsLast`).

### ReplyTurnProofs

The part with the most lemmas, as it is about sequences: what FlattenSeq,
`Mapped`, `Without` and prefixes do to each other. `Without` is the model's own
filter, a fold: SelectSeq takes its test as an operator, which the provers cannot
instantiate.
Induction over data is done where it is needed by the least number that does
not have the property (`Least`, `UpTo`), over sets and not over operators.

* `AnswerIsSavedWholeAlways`: by `AnswerInv`, `OnceInv` and `WholeInv`. While the
  loop collects, full_response is what was said, apologies left out; said and
  queued together are the reply outside markup up to the worker's buffer; and an
  "end" in the queue lies behind the whole reply, or behind the error or the calls
  that end the loop before it is reached.
* `EndsOnlyWhenAskedAlways`: by `CallsInv`: what the worker holds of a call is
  the concatenation of what its deltas brought, in their order, whatever deltas
  of others lie between (`Collecting`), and so are the calls handed over
  (`OnTheirWay`).
* `SpeechIsExactAlways`: by `SpeechInv`. Heard, track and pieces in hand, silence
  left out, are together exactly what is due of the phrases (`Exact`); phrases are
  taken in order (`InTurn`); after an interruption nobody speaks, and the track is
  purged and stays so unless the call was hung up (`Silent`).
* `ReplyIsSpokenOnceAlways`: by `QueueInv` and `OnceInv`: what was said and what is
  queued rise through the part of the reply behind the worker's buffer, and
  agree with it outside markup. What a bad pattern matches depends only on what
  was matched before it, so later tokens do not change earlier decisions.

### PeerLifecycleProofs

* `PeersTyped`.
* `CachedServersAreYoungAlways`: by `CacheIsYoung`: an entry's expiry lies at most
  the lifetime after its list was issued, and no request is older than the HTTP
  time-out; the expiry counts from the `now` read before the request, and so is
  early, not late.
* `LostTraceHasCauseAlways`: by `TraceInv`: only a task of a dead, removed session
  is ever cancelled, a trace is opened by the pipeline that runs, and a peer that
  was not built is in no offer, set or task.

### BrowserClientProofs

* `PageTyped`.
* `SourceIsHeard`: `GraphInv` says the wires are those of the two chains, exactly.
  Every exchange of streams unplugs what the old source had, and nothing else.
* `ButtonsMute` (the buttons alone, under any connections) and `AllOffIsMuted` (on
  the page): by `MicInv`.
* `PageIsTruthful`: by `PeersInv`: all peers but this.pc are closed, so the events
  that reach button and display are those of the page's peer.
* `NoPeerIsLeft`: by `SocketsInv`: until calls of connect() overlap, one at most
  is on its way to a socket, and none is open while it is.

The types and the inductive invariants are in no run's list of properties: what
they say is covered by the theorems. The strengthenings were model-checked before
they were proved.

### Only model-checked

* **Liveness**: `SigtermEndsWorker`, `OfferIsRead`, `AnswerIsForwarded`,
  `MessageIsRead`, `CandidateArrives`, `SocketIsClosed`, `DeadPeerIsForgotten`,
  `EveryQuestionGetsAReply`, `PipelineEnds`, `EndedCallIsReleased`. They rest on
  fairness, that is on ENABLED, which the prover does not support. `Monolith`,
  whose two properties are of this kind, therefore has no theorem.
* **The violations** of section 3, which are counterexamples.

## 5. What is not modelled, and the plan

* **The rest of the monolith** (`src/fastapi/` without its page and its
  signaling). Its pipeline, detector, LLM call and tools are near copies of
  `src/workflows/`, but its audio_pipeline looks up
  resources["peer_connection"], which is never set, and ends there: the copies
  are never reached. `media_worker.py` is not started, `routes/twilio.py` uses
  names nobody defines.
* **The worker's candidates** (`handshake_controller.py:210-228`): aiortc gathers
  before it answers and emits none, so nothing is ever written to their stream.
* **The HTTP handshake behind its undefined name**
  (`handshake_controller.py:332-403`) is unreachable.
* **The page's** chat window, toasts, audio element and drawing, and connectHTTP,
  which nothing calls.
* **Pure data and I/O**: the prompt text, formats of the STT, LLM and TTS services,
  audio processing, the database schema, clients of Redis and Postgres,
  container files and model serving (`src/vllm/`), scripts under `__main__`.

The map covers some 23 % of the repository's lines of Python, JavaScript and HTML.
Most of what it leaves out cannot run or decides nothing: the monolith's copies
of the pipeline, its tools and its services (`src/fastapi/`, 2500 lines, near
copies of `src/workflows/` that are never reached), the page's markup, chat window
and toasts (2000), prompts and their builder (400), code that nothing imports
(`stt/openai.py` and its copy, `tts/google_tts.py`; 450), and self tests.

To be proved next: the safety half of what is only model-checked (for `Monolith`,
that a socket is closed by its own call; for `IceTrickle`, that a listener's next
read brings what its cursor has not passed), and an abstract specification of the
reply that `ReplyTurn` implements, as `SpeechSignals` is of the gate. To be
modelled next: the composition of router and stream, that is, what "full" means
when entries are pending for crashed workers or not read at all.
