----------------------------- MODULE AudioGraph -----------------------------
(***************************************************************************)
(* The page's two WebAudio chains (audio_router.js): the microphone's,     *)
(* through a gain node to the track that is sent, and the remote track's,  *)
(* straight to the speakers.  An AudioRouter keeps a source and a set of   *)
(* taps and wires nodes as it is told; "wires" is what WebAudio ends up    *)
(* with.  A node is a pair of its sort and its owner.                      *)
(***************************************************************************)
CONSTANTS
  MicDisplays,      \* <audio-viz source="mic"> elements of the page
  RemoteDisplays    \* <audio-viz source="remote"> elements

VARIABLES
  source,   \* the source of each router, or NoSource
  taps,     \* analysers
  wires     \* connections between nodes

audioVars == <<source, taps, wires>>

Routers == {"mic", "remote"}
NoSource == <<"none", "page">>
WarmUp == <<"warmup", "page">>
MicOf(button) == <<"mic", button>>
TrackOf(call) == <<"call", call>>
IsSource(node) == node[1] \in {"warmup", "mic", "call"}

Gain == <<"gain", "mic">>
Sink(r) == <<"sink", r>>
Analysers(r) == {<<"display", d>> : d \in IF r = "mic" THEN MicDisplays ELSE RemoteDisplays}

\* this.nodes: the gain node of the microphone, none for the remote track.
Nodes(r) == IF r = "mic" THEN {Gain} ELSE {}
Last(r, from) == IF r = "mic" THEN Gain ELSE from

Feeds(r, from, ends) == {<<Last(r, from), end>> : end \in ends}
Chain(r, from, ends) == {<<from, n>> : n \in Nodes(r)} \cup Feeds(r, from, ends)

\* After the scripts have run: the warm-up oscillator feeds the microphone's
\* chain and the displays have found it.
AudioInit ==
  /\ source = [r \in Routers |-> IF r = "mic" THEN WarmUp ELSE NoSource]
  /\ taps = [r \in Routers |-> IF r = "mic" THEN Analysers(r) ELSE {}]
  /\ wires = Chain("mic", WarmUp, Analysers("mic") \cup {Sink("mic")})

\* Node.disconnect() removes the wires that leave a node.
KeepOld(ws, old) == ws \* mutant: attachStream without source.disconnect()
Unplug(ws, old) == {w \in ws : w[1] # old}

Rebuild(r, ws, from) ==
  {w \in ws : w[1] \notin Nodes(r) \cup taps[r]} \cup Chain(r, from, taps[r] \cup {Sink(r)})

\* attachStream with its rebuild; ROUTER_REBUILT has every display of the
\* router connect its analyser, and the caller may add one of its own.
AttachStream(r, from, own) ==
  /\ source' = [source EXCEPT ![r] = from]
  /\ taps' = [taps EXCEPT ![r] = @ \cup Analysers(r) \cup own]
  /\ wires' = Rebuild(r, Unplug(wires, source[r]), from)
                \cup Feeds(r, from, (Analysers(r) \cup own) \ taps[r])

----------------------------------------------------------------------------
\* Of all sources the current one of each chain is heard, and only that: no
\* earlier call in the speakers and no other microphone by the peer is left
\* plugged in, nothing reaches the peer but through the gain node, and what is
\* attached is wired to its end and to every analyser that ever was connected,
\* however often streams are exchanged (audio_router.js:32-38, 57-115).
CurrentSourceIsHeard ==
  /\ \A w \in wires : /\ IsSource(w[1]) => \E r \in Routers : source[r] = w[1]
                      /\ w[2] = Sink("mic") => w[1] = Gain
  /\ \A r \in Routers :
       source[r] # NoSource => Chain(r, source[r], taps[r] \cup {Sink(r)}) \subseteq wires
=============================================================================
