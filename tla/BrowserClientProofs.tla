------------------------ MODULE BrowserClientProofs ------------------------
(***************************************************************************)
(* The page proved for every number of buttons, displays, calls and        *)
(* candidates: the two audio chains (AudioGraph), the microphone buttons   *)
(* (MicControl) and the page around them (BrowserClient).  The audio       *)
(* variables, those of the buttons and those of the page are proved apart, *)
(* since each action changes few of them.                                  *)
(***************************************************************************)
EXTENDS BrowserClient, TLAPS

----------------------------------------------------------------------------
(* The audio graph. *)

\* What is plugged in when the source of r is attached: its chain and no more.
Plugged(r) == IF source[r] = NoSource THEN {} ELSE Chain(r, source[r], taps[r] \cup {Sink(r)})

Sources(r) == IF r = "mic" THEN {WarmUp} \cup {MicOf(b) : b \in Buttons}
              ELSE {NoSource} \cup {TrackOf(c) : c \in Calls}

IsAnalyser(node) == node[1] \in {"display", "glow"}

\* The wires are those of the two chains, exactly; an exchange of streams then
\* removes all the old source had and nothing of the other chain.
GraphInv ==
  /\ source = [r \in Routers |-> source[r]] /\ taps = [r \in Routers |-> taps[r]]
  /\ \A r \in Routers : source[r] \in Sources(r)
  /\ \A r \in Routers : \A t \in taps[r] : IsAnalyser(t)
  /\ wires = Plugged("mic") \cup Plugged("remote")

\* The sources of the two chains are never the same node, and neither is one
\* of the nodes a chain goes through.
LEMMA SourceSorts ==
  /\ \A s \in Sources("mic") : s[1] \in {"warmup", "mic"}
  /\ \A s \in Sources("remote") : s[1] \in {"none", "call"}
  /\ NoSource \notin Sources("mic")
  /\ Gain[1] = "gain" /\ \A r : Sink(r)[1] = "sink"
  BY DEF Sources, WarmUp, MicOf, NoSource, TrackOf, Gain, Sink

LEMMA AnalyserSorts == \A r : \A t \in Analysers(r) : IsAnalyser(t)
  BY DEF Analysers, IsAnalyser

LEMMA GraphStarts == AudioInit => GraphInv
<1> SUFFICES ASSUME AudioInit PROVE GraphInv
  OBVIOUS
<1>1. source["mic"] = WarmUp /\ source["remote"] = NoSource
  BY DEF AudioInit, Routers
<1>2. taps["mic"] = Analysers("mic") /\ taps["remote"] = {}
  BY DEF AudioInit, Routers
<1>3. WarmUp # NoSource
  BY DEF WarmUp, NoSource
<1>4. wires = Plugged("mic") \cup Plugged("remote")
  BY <1>1, <1>2, <1>3 DEF AudioInit, Plugged
<1>5. \A r \in Routers : source[r] \in Sources(r)
  BY <1>1 DEF Routers, Sources
<1>6. \A r \in Routers : \A t \in taps[r] : IsAnalyser(t)
  BY <1>2, AnalyserSorts DEF Routers
<1> QED
  BY <1>4, <1>5, <1>6 DEF AudioInit, GraphInv

\* attachStream with its rebuild puts exactly the new chain in place of the old one.
LEMMA AttachKeepsGraph ==
  ASSUME GraphInv, NEW r \in Routers, NEW from \in Sources(r), from # NoSource,
         NEW own, \A t \in own : IsAnalyser(t),
         AttachStream(r, from, own)
  PROVE  GraphInv'
<1> DEFINE new == taps[r] \cup Analysers(r) \cup own
<1>1. source' = [source EXCEPT ![r] = from] /\ taps' = [taps EXCEPT ![r] = new]
  BY DEF AttachStream, GraphInv
<1>2. /\ source'[r] = from /\ taps'[r] = new
      /\ \A q \in Routers \ {r} : source'[q] = source[q] /\ taps'[q] = taps[q]
      /\ source' = [q \in Routers |-> source'[q]] /\ taps' = [q \in Routers |-> taps'[q]]
  BY <1>1 DEF GraphInv
<1>3. Plugged(r)' = Chain(r, from, new \cup {Sink(r)})
  BY <1>2 DEF Plugged
<1>4. \A q \in Routers \ {r} : Plugged(q)' = Plugged(q)
  BY <1>2 DEF Plugged
<1>5. wires' = Rebuild(r, Unplug(wires, source[r]), from)
                 \cup Feeds(r, from, (Analysers(r) \cup own) \ taps[r])
  BY DEF AttachStream
<1>6. wires' = Plugged("mic")' \cup Plugged("remote")'
  <2>1. CASE r = "mic"
    <3>1. Plugged("remote")' = Plugged("remote")
      BY <2>1, <1>4 DEF Routers
    <3>2. \A w \in Plugged("remote") : w[1] = source["remote"] /\ w[1][1] = "call"
      BY SourceSorts DEF Plugged, Chain, Nodes, Feeds, Last, GraphInv, Routers, Sources, TrackOf
    <3>3. \A w \in Plugged("mic") : w[1] = source["mic"] \/ w[1] = Gain
      BY DEF Plugged, Chain, Nodes, Feeds, Last
    <3>4. source["mic"][1] \in {"warmup", "mic"}
      BY SourceSorts DEF GraphInv, Routers
    <3>5. {w \in Unplug(wires, source["mic"]) : w[1] \notin Nodes("mic") \cup taps["mic"]}
            = Plugged("remote")
      BY <3>2, <3>3, <3>4, SourceSorts DEF Unplug, Nodes, GraphInv, IsAnalyser, Routers
    <3>6. wires' = Plugged("remote") \cup Chain("mic", from, taps["mic"] \cup {Sink("mic")})
                     \cup Feeds("mic", from, (Analysers("mic") \cup own) \ taps["mic"])
      BY <2>1, <1>5, <3>5 DEF Rebuild
    <3>7. Chain("mic", from, new \cup {Sink("mic")})
            = Chain("mic", from, taps["mic"] \cup {Sink("mic")})
                \cup Feeds("mic", from, (Analysers("mic") \cup own) \ taps["mic"])
      BY <2>1 DEF Chain, Feeds
    <3> QED
      BY <2>1, <1>3, <3>1, <3>6, <3>7
  <2>2. CASE r = "remote"
    <3>1. Plugged("mic")' = Plugged("mic")
      BY <2>2, <1>4 DEF Routers
    <3>2. \A w \in Plugged("remote") : w[1] = source["remote"]
      BY DEF Plugged, Chain, Nodes, Feeds, Last
    <3>3. \A w \in Plugged("mic") : w[1][1] \in {"warmup", "mic", "gain"}
      BY SourceSorts DEF Plugged, Chain, Nodes, Feeds, Last, GraphInv, Routers
    <3>4. source["remote"][1] \in {"none", "call"}
      BY SourceSorts DEF GraphInv, Routers
    <3>5. {w \in Unplug(wires, source["remote"]) : w[1] \notin Nodes("remote") \cup taps["remote"]}
            = Plugged("mic")
      BY <3>2, <3>3, <3>4 DEF Unplug, Nodes, GraphInv, IsAnalyser, Routers
    <3>6. wires' = Plugged("mic") \cup Chain("remote", from, taps["remote"] \cup {Sink("remote")})
                     \cup Feeds("remote", from, (Analysers("remote") \cup own) \ taps["remote"])
      BY <2>2, <1>5, <3>5 DEF Rebuild
    <3>7. Chain("remote", from, new \cup {Sink("remote")})
            = Chain("remote", from, taps["remote"] \cup {Sink("remote")})
                \cup Feeds("remote", from, (Analysers("remote") \cup own) \ taps["remote"])
      BY <2>2 DEF Chain, Feeds
    <3> QED
      BY <2>2, <1>3, <3>1, <3>6, <3>7
  <2> QED
    BY <2>1, <2>2 DEF Routers
<1>7. \A q \in Routers : source'[q] \in Sources(q)'
  BY <1>2 DEF GraphInv, Sources
<1>8. \A q \in Routers : \A t \in taps'[q] : IsAnalyser(t)
  BY <1>2, AnalyserSorts DEF GraphInv
<1> QED
  BY <1>2, <1>6, <1>7, <1>8 DEF GraphInv, IsAnalyser

\* The graph's part of CurrentSourceIsHeard, in one state.
LEMMA GraphIsHeard == GraphInv => CurrentSourceIsHeard
<1> SUFFICES ASSUME GraphInv PROVE CurrentSourceIsHeard
  OBVIOUS
<1>1. ASSUME NEW w \in wires, IsSource(w[1])
      PROVE  \E r \in Routers : source[r] = w[1]
  BY <1>1, SourceSorts
     DEF GraphInv, Plugged, Chain, Nodes, Feeds, Last, IsSource, Routers
<1>2. ASSUME NEW w \in wires, w[2] = Sink("mic")
      PROVE  w[1] = Gain
  <2>1. w \in Plugged("mic") \/ w \in Plugged("remote")
    BY DEF GraphInv
  <2>2. Gain # Sink("mic") /\ Sink("remote") # Sink("mic")
    BY DEF Gain, Sink
  <2>3. Sink("mic") \notin taps["remote"]
    BY SourceSorts DEF GraphInv, IsAnalyser, Routers
  <2> QED
    BY <1>2, <2>1, <2>2, <2>3 DEF Plugged, Chain, Nodes, Feeds, Last
<1>3. ASSUME NEW r \in Routers, source[r] # NoSource
      PROVE  Chain(r, source[r], taps[r] \cup {Sink(r)}) \subseteq wires
  BY <1>3 DEF GraphInv, Plugged, Routers
<1> QED
  BY <1>1, <1>2, <1>3 DEF CurrentSourceIsHeard

----------------------------------------------------------------------------
(* The microphone buttons. *)

\* The gain is 1 and the level shown only while some button is on: what turns
\* the last one off mutes.
SwitchInv == MicTypeOK /\ MutedWhenAllOff

MicInv == GraphInv /\ SwitchInv

LEMMA MicStarts == MicInit => MicInv
<1> SUFFICES ASSUME MicInit PROVE MicInv
  OBVIOUS
<1>1. asking \in [Buttons -> 0..MaxAsks]
  BY MicAssumption DEF MicInit
<1>2. level \in BOOLEAN /\ ~level
  BY DEF MicInit
<1>3. SwitchInv
  BY <1>1, <1>2 DEF MicInit, SwitchInv, MicTypeOK, MutedWhenAllOff
<1> QED
  BY <1>3, GraphStarts DEF MicInit, MicInv

LEMMA GrantedKeepsGraph ==
  ASSUME GraphInv, NEW b \in Buttons, Granted(b)
  PROVE  GraphInv'
<1>1. MicOf(b) \in Sources("mic") /\ MicOf(b) # NoSource
  BY DEF Sources, MicOf, NoSource
<1>2. \A t \in {<<"glow", b>>} : IsAnalyser(t)
  BY DEF IsAnalyser
<1> QED
  BY <1>1, <1>2, AttachKeepsGraph DEF Granted, Routers

LEMMA SameGraph ==
  ASSUME GraphInv, UNCHANGED audioVars
  PROVE  GraphInv'
  BY DEF GraphInv, audioVars, Plugged, Sources, Chain, Feeds, Nodes, Last, Sink, IsAnalyser

\* Calls of enable() in flight stay within their bound.
LEMMA AskIsBounded ==
  ASSUME asking \in [Buttons -> 0..MaxAsks], NEW bs, Ask(bs)
  PROVE  asking' \in [Buttons -> 0..MaxAsks]
<1>1. ASSUME NEW b \in Buttons
      PROVE  (IF b \in bs /\ asking[b] < MaxAsks THEN asking[b] + 1 ELSE asking[b]) \in 0..MaxAsks
  BY MicAssumption
<1> QED
  BY <1>1 DEF Ask

LEMMA EnableKeepsSwitches ==
  ASSUME SwitchInv, NEW bs \in SUBSET Buttons, Enable(bs)
  PROVE  SwitchInv'
<1>1. asking' \in [Buttons -> 0..MaxAsks]
  BY AskIsBounded DEF SwitchInv, MicTypeOK, Enable
<1>2. MutedWhenAllOff'
  BY DEF SwitchInv, MicTypeOK, MutedWhenAllOff, Enable, SwitchOn, LevelHears
<1> QED
  BY <1>1, <1>2 DEF SwitchInv, MicTypeOK, Enable, SwitchOn, LevelHears

LEMMA DisableKeepsSwitches ==
  ASSUME SwitchInv, NEW bs \in SUBSET Buttons, Disable(bs)
  PROVE  SwitchInv'
  BY DEF SwitchInv, MicTypeOK, MutedWhenAllOff, Disable, SwitchOff, LevelHears

LEMMA BootKeepsMic ==
  ASSUME MicInv, NEW b \in Buttons, Boot(b)
  PROVE  MicInv'
<1>1. GraphInv'
  BY GrantedKeepsGraph, SameGraph DEF MicInv, Boot, Refused
<1>2. SwitchInv'
  BY DEF MicInv, SwitchInv, MicTypeOK, MutedWhenAllOff, Boot, Granted, Refused
<1> QED
  BY <1>1, <1>2 DEF MicInv

LEMMA AnsweredKeepsMic ==
  ASSUME MicInv, NEW b \in Buttons, Answered(b)
  PROVE  MicInv'
<1>1. GraphInv'
  BY GrantedKeepsGraph, SameGraph DEF MicInv, Answered, Refused
<1>2. asking' \in [Buttons -> 0..MaxAsks]
  BY MicAssumption DEF MicInv, SwitchInv, MicTypeOK, Answered
<1>3. /\ enabled' = enabled \cup {b} /\ gain' = 1 /\ red' \in SUBSET Buttons
      /\ level' \in BOOLEAN /\ booted' = booted /\ streams' \in SUBSET Buttons
  BY DEF MicInv, SwitchInv, MicTypeOK, Answered, Granted, Refused, SwitchOn, LevelHears
<1>4. SwitchInv'
  BY <1>2, <1>3 DEF MicInv, SwitchInv, MicTypeOK, MutedWhenAllOff
<1> QED
  BY <1>1, <1>4 DEF MicInv

LEMMA EnableKeepsMic ==
  ASSUME MicInv, NEW bs \in SUBSET Buttons, Enable(bs)
  PROVE  MicInv'
  BY EnableKeepsSwitches, SameGraph DEF MicInv, Enable

LEMMA DisableKeepsMic ==
  ASSUME MicInv, NEW bs \in SUBSET Buttons, Disable(bs)
  PROVE  MicInv'
  BY DisableKeepsSwitches, SameGraph DEF MicInv, Disable

LEMMA SameMic ==
  ASSUME MicInv, UNCHANGED micVars
  PROVE  MicInv'
<1>1. GraphInv'
  BY SameGraph DEF MicInv, micVars
<1>2. SwitchInv'
  BY DEF MicInv, SwitchInv, MicTypeOK, MutedWhenAllOff, micVars, switchVars
<1> QED
  BY <1>1, <1>2 DEF MicInv

LEMMA MicStepKeepsMic == MicInv /\ MicStep => MicInv'
<1> SUFFICES ASSUME MicInv, NEW b \in Buttons, Boot(b) \/ Answered(b) \/ Toggle(b)
             PROVE  MicInv'
  BY DEF MicStep
<1>1. CASE Toggle(b)
  BY <1>1, EnableKeepsMic, DisableKeepsMic DEF Toggle
<1> QED
  BY <1>1, BootKeepsMic, AnsweredKeepsMic

\* The buttons without the rest of the page, too, mute when all are off.
LEMMA ConnectionKeepsMic ==
  ASSUME MicInv
  PROVE  /\ AutoEnable => MicInv'
         /\ Disable(booted) => MicInv'
         /\ \A state : AutoDisable(state) => MicInv'
<1>1. booted \in SUBSET Buttons /\ booted \ enabled \in SUBSET Buttons
  BY DEF MicInv, SwitchInv, MicTypeOK
<1> QED
  BY <1>1, EnableKeepsMic, DisableKeepsMic, SameMic DEF AutoEnable, AutoDisable

\* The buttons alone, whatever connections come and go: with every button off
\* nothing is heard of the microphone.
THEOREM ButtonsMute == MicSpec => []MutedWhenAllOff
<1>1. MicInv /\ [MicStep \/ AutoEnable \/ Disable(booted)]_micVars => MicInv'
  BY MicStepKeepsMic, ConnectionKeepsMic, SameMic
<1>2. MicInv => MutedWhenAllOff
  BY DEF MicInv, SwitchInv
<1> QED
  BY <1>1, <1>2, MicStarts, PTL DEF MicSpec

----------------------------------------------------------------------------
(* The page. *)

PageTypeOK ==
  /\ button \in {"offline", "connecting", "connected"}
  /\ shown \in {"offline", "connecting", "connected"}
  /\ wsOpen \in BOOLEAN /\ overlapped \in BOOLEAN
  /\ stage \in [Calls -> Stages]
  /\ ws \in Calls \cup {0} /\ pc \in Calls \cup {0}
  /\ socket \in [Calls -> {"none", "connecting", "open", "closed"}]
  /\ rtc \in [Calls -> {"none", "new", "connected", "disconnected", "failed", "closed"}]
  /\ bound \subseteq Calls /\ offering \subseteq Calls
  /\ described \subseteq Calls /\ asked \subseteq Calls
  /\ madeOn \in [Calls -> Calls \cup {0}] /\ target \in [Calls -> Calls \cup {0}]
  /\ answer \in [Calls -> {"none", "setting", "flushing", "over"}]
  /\ candidates \in [Calls -> 0..MaxCandidates]
  /\ queue \in Nat

\* Whoever goes on after an await goes on with a peer, not with null.
NumberInv ==
  /\ \A c \in Calls : answer[c] = "setting" => target[c] \in Calls
  /\ \A c \in Calls : stage[c] = "offering" => madeOn[c] \in Calls

\* All peers but this.pc are closed, so that the state of the page is its state.
PeersInv ==
  /\ PageTellsTheTruth
  /\ \A c \in Calls : rtc[c] \in {"none", "closed"} \/ c = pc

\* Until calls of connect() overlap, one at most is on its way to a socket, and
\* none is open while it is: the click has closed the last.
SocketsInv ==
  overlapped \/
    /\ \A c \in Calls : socket[c] \in {"none", "closed"} \/ c = ws
    /\ \A c, d \in Calls : NoSocketYet(c) /\ NoSocketYet(d) => c = d
    /\ \A c \in Calls : NoSocketYet(c) => \A k \in Calls : socket[k] \in {"none", "closed"}

PageInv == PageTypeOK /\ NumberInv /\ PeersInv /\ SocketsInv
IndInv == MicInv /\ PageInv

LEMMA Numbers == 0..MaxCalls = Calls \cup {0} /\ 0 \notin Calls
  BY ClientAssumption DEF Calls

LEMMA PageStarts == Init => PageInv
<1> SUFFICES ASSUME Init PROVE PageInv
  OBVIOUS
<1> USE DEF Init
<1>1. PageTypeOK
  <2>1. overlapped \in BOOLEAN /\ wsOpen \in BOOLEAN
    OBVIOUS
  <2>2. candidates \in [Calls -> 0..MaxCandidates]
    BY ClientAssumption
  <2> QED
    BY <2>1, <2>2 DEF PageTypeOK, Stages
<1>2. PageTellsTheTruth
  BY DEF PageTellsTheTruth, Connected
<1> QED
  BY <1>1, <1>2 DEF PageInv, NumberInv, PeersInv, SocketsInv, NoSocketYet

\* A step that leaves the page's variables alone but for the queue of
\* candidates and what has become of answers that nobody waits for.
LEMMA SamePage ==
  ASSUME PageInv, UNCHANGED <<button, shown, wsOpen, sockVars, peerVars, target>>,
         queue' \in Nat,
         candidates' \in [Calls -> 0..MaxCandidates],
         answer' \in [Calls -> {"none", "setting", "flushing", "over"}],
         \A c \in Calls : answer'[c] = "setting" => answer[c] = "setting"
  PROVE  PageInv'
<1> USE DEF sockVars, peerVars
<1>1. PageTypeOK'
  BY DEF PageInv, PageTypeOK
<1>2. NumberInv'
  BY DEF PageInv, NumberInv
<1>3. PeersInv'
  BY DEF PageInv, PeersInv, PageTellsTheTruth, Connected
<1>4. SocketsInv'
  BY DEF PageInv, SocketsInv, NoSocketYet
<1> QED
  BY <1>1, <1>2, <1>3, <1>4 DEF PageInv

\* The peers' part is about what the page shows and its peers, no more, and the
\* sockets' about calls and their sockets.
LEMMA SamePeers ==
  ASSUME PeersInv, UNCHANGED <<button, shown, pc, rtc>>
  PROVE  PeersInv'
  BY DEF PeersInv, PageTellsTheTruth, Connected

LEMMA SameSockets ==
  ASSUME SocketsInv, UNCHANGED <<overlapped, socket, ws, stage>>
  PROVE  SocketsInv'
  BY DEF SocketsInv, NoSocketYet

\* A call that goes on without a socket, or ends, starts no race.
LEMMA GoingOn ==
  ASSUME PageTypeOK, SocketsInv, NEW c \in Calls, NEW to \in Stages, Goto(c, to),
         NoSocketYet(c) \/ to \notin {"token", "servers"},
         UNCHANGED <<overlapped, socket, ws>>
  PROVE  SocketsInv'
  BY DEF PageTypeOK, SocketsInv, NoSocketYet, Goto

LEMMA DisconnectKeepsPeers ==
  ASSUME PageTypeOK, PeersInv, Disconnect, button' # "connected", wsOpen' = wsOpen
  PROVE  /\ PeersInv'
         /\ shown' \in {"offline", "connecting", "connected"}
         /\ pc' \in Calls \cup {0}
         /\ rtc' \in [Calls -> {"none", "new", "connected", "disconnected", "failed", "closed"}]
         /\ UNCHANGED <<offering, described>>
<1>1. CASE pc = 0
  BY <1>1 DEF Disconnect, peerVars, PeersInv, PageTellsTheTruth, Connected, PageTypeOK
<1>2. CASE pc # 0
  BY <1>2 DEF Disconnect, DropPc, Shows, PeersInv, PageTellsTheTruth, Connected, PageTypeOK
<1> QED
  BY <1>1, <1>2

----------------------------------------------------------------------------
(* The page's actions. *)

LEMMA RtcChangesKeepsPage == PageInv /\ RtcChanges => PageInv'
<1> SUFFICES ASSUME PageInv, RtcChanges PROVE PageInv'
  OBVIOUS
<1> USE DEF sockVars, signalVars
<1>1. pc \in Calls /\ pc # 0
  BY DEF RtcChanges, PageInv, PageTypeOK
<1>2. /\ PeersInv'
      /\ button' \in {"offline", "connecting", "connected"}
      /\ shown' \in {"offline", "connecting", "connected"}
      /\ pc' \in Calls \cup {0}
      /\ rtc' \in [Calls -> {"none", "new", "connected", "disconnected", "failed", "closed"}]
      /\ UNCHANGED <<offering, described>>
  <2>1. CASE rtc[pc] \in {"new", "disconnected"} /\ rtc' = [rtc EXCEPT ![pc] = "connected"]
             /\ ButtonHears("connected") /\ Shows(TRUE, wsOpen)
             /\ UNCHANGED <<pc, offering, described>>
    BY <1>1, <2>1 DEF ButtonHears, Shows, PageInv, PageTypeOK, PeersInv, PageTellsTheTruth, Connected
  <2>2. CASE rtc[pc] = "connected" /\ rtc' = [rtc EXCEPT ![pc] = "disconnected"]
             /\ ButtonHears("disconnected") /\ Shows(FALSE, wsOpen)
             /\ UNCHANGED <<pc, offering, described>>
    BY <1>1, <2>2 DEF ButtonHears, Shows, PageInv, PageTypeOK, PeersInv, PageTellsTheTruth, Connected
  <2>3. CASE ButtonHears("failed") /\ Disconnect
    <3>1. button' = "offline" /\ wsOpen' = wsOpen
      BY <2>3 DEF ButtonHears, RtcChanges
    <3> QED
      BY <2>3, <3>1, DisconnectKeepsPeers DEF PageInv
  <2> QED
    BY <2>1, <2>2, <2>3 DEF RtcChanges
<1>3. PageTypeOK'
  BY <1>2 DEF RtcChanges, PageInv, PageTypeOK
<1>4. NumberInv'
  BY DEF RtcChanges, PageInv, NumberInv
<1>5. SocketsInv'
  BY SameSockets DEF RtcChanges, PageInv
<1> QED
  BY <1>2, <1>3, <1>4, <1>5 DEF PageInv

LEMMA ClickAgainKeepsPage == PageInv /\ ClickAgain => PageInv'
<1> SUFFICES ASSUME PageInv, ClickAgain PROVE PageInv'
  OBVIOUS
<1> USE DEF sockVars, signalVars
<1>1. /\ PeersInv'
      /\ shown' \in {"offline", "connecting", "connected"}
      /\ pc' \in Calls \cup {0}
      /\ rtc' \in [Calls -> {"none", "new", "connected", "disconnected", "failed", "closed"}]
      /\ UNCHANGED <<offering, described>>
  BY DisconnectKeepsPeers DEF ClickAgain, PageInv
<1>2. PageTypeOK'
  BY <1>1 DEF ClickAgain, PageInv, PageTypeOK
<1>3. NumberInv'
  BY DEF ClickAgain, PageInv, NumberInv
<1>4. SocketsInv'
  BY SameSockets DEF ClickAgain, PageInv
<1> QED
  BY <1>1, <1>2, <1>3, <1>4 DEF PageInv

\* Of the sockets the click leaves none open, unless connect() calls overlap.
LEMMA ClickKeepsPage ==
  ASSUME PageInv, NEW c \in Calls, Click(c)
  PROVE  PageInv'
<1> USE DEF Click, Goto, Rebind, peerVars, signalVars
<1>1. PageTypeOK'
  <2>1. overlapped' \in BOOLEAN
    OBVIOUS
  <2>2. stage' \in [Calls -> Stages] /\ bound' \subseteq Calls
    BY DEF PageInv, PageTypeOK, Stages
  <2>3. socket' \in [Calls -> {"none", "connecting", "open", "closed"}]
    BY DEF PageInv, PageTypeOK
  <2> QED
    BY <2>1, <2>2, <2>3 DEF PageInv, PageTypeOK
<1>2. NumberInv'
  BY DEF PageInv, NumberInv, PageTypeOK
<1>3. PeersInv'
  BY DEF PageInv, PeersInv, PageTellsTheTruth, Connected
<1>4. SocketsInv'
  <2> SUFFICES ASSUME ~overlapped' PROVE SocketsInv'
    BY DEF SocketsInv
  <2>1. ~overlapped /\ \A k \in Calls : ~NoSocketYet(k)
    OBVIOUS
  <2>2. \A k \in Calls : socket'[k] \in {"none", "closed"}
    BY <2>1 DEF PageInv, SocketsInv
  <2>3. \A k \in Calls : NoSocketYet(k)' => k = c
    BY <2>1 DEF NoSocketYet, PageInv, PageTypeOK
  <2> QED
    BY <2>2, <2>3 DEF SocketsInv
<1> QED
  BY <1>1, <1>2, <1>3, <1>4 DEF PageInv

LEMMA FetchKeepsPage ==
  ASSUME PageInv, NEW c \in Calls, GotToken(c) \/ FetchFails(c)
  PROVE  PageInv'
<1>1. PICK to \in {"servers", "over"} :
        /\ NoSocketYet(c) /\ Goto(c, to)
        /\ UNCHANGED <<pageVars, ws, socket, bound, asked, madeOn, overlapped, peerVars, signalVars>>
  BY DEF GotToken, FetchFails, NoSocketYet
<1> USE DEF pageVars, peerVars, signalVars
<1>2. PageTypeOK'
  BY <1>1 DEF Goto, PageInv, PageTypeOK, Stages
<1>3. NumberInv'
  BY <1>1 DEF Goto, PageInv, NumberInv, PageTypeOK
<1>4. PeersInv'
  BY <1>1, SamePeers DEF PageInv
<1>5. SocketsInv'
  BY <1>1, GoingOn DEF PageInv, Stages
<1> QED
  BY <1>2, <1>3, <1>4, <1>5 DEF PageInv

\* The new socket is the one this.ws holds, and all the others are closed.
LEMMA NewSocketKeepsPage ==
  ASSUME PageInv, NEW c \in Calls, NewSocket(c)
  PROVE  PageInv'
<1> USE DEF NewSocket, Goto, pageVars, peerVars, signalVars
<1>1. PageTypeOK'
  BY DEF PageInv, PageTypeOK, Stages
<1>2. NumberInv'
  BY DEF PageInv, NumberInv, PageTypeOK
<1>3. PeersInv'
  BY SamePeers DEF PageInv
<1>4. SocketsInv'
  <2> SUFFICES ASSUME ~overlapped' PROVE SocketsInv'
    BY DEF SocketsInv
  <2>1. NoSocketYet(c) /\ ~overlapped
    BY DEF NoSocketYet
  <2>2. \A k \in Calls : socket'[k] \in {"none", "closed"} \/ k = ws'
    BY <2>1 DEF PageInv, SocketsInv, PageTypeOK
  <2>3. \A k \in Calls : ~NoSocketYet(k)'
    BY <2>1 DEF PageInv, SocketsInv, NoSocketYet, PageTypeOK
  <2> QED
    BY <2>2, <2>3 DEF SocketsInv
<1> QED
  BY <1>1, <1>2, <1>3, <1>4 DEF PageInv

\* A second peer is not made while there is one.
LEMMA OnOpenKeepsPage ==
  ASSUME PageInv, NEW c \in Calls, OnOpen(c)
  PROVE  PageInv'
<1> USE DEF OnOpen, SetupPeer, Goto, pageVars, signalVars
<1>1. pc' \in Calls /\ pc' # 0
  BY Numbers DEF PageInv, PageTypeOK
<1>2. PageTypeOK'
  BY <1>1 DEF PageInv, PageTypeOK, Stages
<1>3. NumberInv'
  BY <1>1 DEF PageInv, NumberInv, PageTypeOK
<1>4. PeersInv'
  <2>1. CASE pc = 0
    <3>1. rtc' = [rtc EXCEPT ![c] = "new"] /\ pc' = c /\ UNCHANGED <<button, shown>>
      BY <2>1
    <3>2. button # "connected" /\ shown # "connected" /\ ~Connected'
      <4>1. ~Connected
        BY <2>1 DEF Connected
      <4>2. rtc'[pc'] = "new"
        BY <3>1 DEF PageInv, PageTypeOK
      <4>3. button # "connected" /\ shown # "connected"
        BY <4>1 DEF PageInv, PeersInv, PageTellsTheTruth
      <4>4. ~Connected'
        BY <4>2 DEF Connected
      <4> QED
        BY <4>3, <4>4
    <3>3. PageTellsTheTruth'
      <4>1. button' # "connected" /\ shown' # "connected"
        BY <3>1, <3>2
      <4> QED
        BY <3>2, <4>1 DEF PageTellsTheTruth
    <3>4. \A d \in Calls : rtc'[d] \in {"none", "closed"} \/ d = pc'
      BY <2>1, <3>1, Numbers DEF PageInv, PeersInv, PageTypeOK
    <3> QED
      BY <3>3, <3>4 DEF PeersInv
  <2>2. CASE pc # 0
    BY <2>2, SamePeers DEF PageInv
  <2> QED
    BY <2>1, <2>2
<1>5. SocketsInv'
  <2> SUFFICES ASSUME ~overlapped' PROVE SocketsInv'
    BY DEF SocketsInv
  <2>1. c = ws /\ \A k \in Calls : ~NoSocketYet(k)
    BY DEF PageInv, SocketsInv
  <2> QED
    BY <2>1 DEF PageInv, SocketsInv, NoSocketYet, PageTypeOK
<1> QED
  BY <1>2, <1>3, <1>4, <1>5 DEF PageInv

LEMMA OfferMadeKeepsPage ==
  ASSUME PageInv, NEW c \in Calls, OfferMade(c)
  PROVE  PageInv'
<1> USE DEF OfferMade, Goto, signalVars
<1>1. PageTypeOK'
  <2>1. offering' \subseteq Calls /\ asked' \subseteq Calls
    BY DEF LocalOffer, OfferSent, PageInv, PageTypeOK, NumberInv
  <2>2. shown' \in {"offline", "connecting", "connected"} /\ wsOpen' \in BOOLEAN
    BY DEF HearSocket, Shows, PageInv, PageTypeOK
  <2> QED
    BY <2>1, <2>2 DEF PageInv, PageTypeOK, Stages
<1>2. NumberInv'
  BY DEF PageInv, NumberInv, PageTypeOK
<1>3. PeersInv'
  BY DEF HearSocket, Shows, PageInv, PeersInv, PageTellsTheTruth, Connected
<1>4. SocketsInv'
  BY GoingOn DEF PageInv, Stages
<1> QED
  BY <1>1, <1>2, <1>3, <1>4 DEF PageInv

LEMMA OnCloseKeepsPage ==
  ASSUME PageInv, NEW c \in Calls, OnClose(c)
  PROVE  PageInv'
<1> USE DEF OnClose, peerVars, signalVars
<1>1. PageTypeOK'
  <2>1. shown' \in {"offline", "connecting", "connected"} /\ wsOpen' \in BOOLEAN
    BY DEF HearSocket, Shows, PageInv, PageTypeOK
  <2>2. socket' \in [Calls -> {"none", "connecting", "open", "closed"}]
    BY DEF PageInv, PageTypeOK
  <2> QED
    BY <2>1, <2>2 DEF PageInv, PageTypeOK
<1>2. NumberInv'
  BY DEF PageInv, NumberInv
<1>3. PeersInv'
  BY DEF HearSocket, Shows, PageInv, PeersInv, PageTellsTheTruth, Connected
<1>4. SocketsInv'
  BY DEF PageInv, SocketsInv, NoSocketYet
<1> QED
  BY <1>1, <1>2, <1>3, <1>4 DEF PageInv

LEMMA OnAnswerKeepsPage ==
  ASSUME PageInv, NEW c \in Calls, OnAnswer(c)
  PROVE  PageInv'
<1> USE DEF OnAnswer, pageVars, sockVars
<1>1. PageTypeOK'
  BY DEF PageInv, PageTypeOK
<1>2. NumberInv'
  BY DEF PageInv, NumberInv, PageTypeOK
<1>3. PeersInv'
  BY SamePeers DEF PageInv
<1>4. SocketsInv'
  BY SameSockets DEF PageInv
<1> QED
  BY <1>1, <1>2, <1>3, <1>4 DEF PageInv

LEMMA DescriptionSetKeepsPage ==
  ASSUME PageInv, NEW c \in Calls, DescriptionSet(c)
  PROVE  PageInv'
<1> USE DEF DescriptionSet, pageVars, sockVars
<1>1. PageTypeOK'
  BY DEF PageInv, PageTypeOK, NumberInv
<1>2. NumberInv'
  BY DEF PageInv, NumberInv, PageTypeOK
<1>3. PeersInv'
  BY SamePeers DEF PageInv
<1>4. SocketsInv'
  BY SameSockets DEF PageInv
<1> QED
  BY <1>1, <1>2, <1>3, <1>4 DEF PageInv

LEMMA FlushKeepsPage ==
  ASSUME PageInv, NEW c \in Calls, Flush(c)
  PROVE  PageInv'
<1>1. queue' \in Nat
  BY DEF Flush, PageInv, PageTypeOK
<1>2. /\ answer' \in [Calls -> {"none", "setting", "flushing", "over"}]
      /\ \A d \in Calls : answer'[d] = "setting" => answer[d] = "setting"
  BY DEF Flush, PageInv, PageTypeOK
<1> QED
  BY <1>1, <1>2, SamePage DEF Flush, pageVars, PageInv, PageTypeOK

LEMMA OnCandidateKeepsPage ==
  ASSUME PageInv, NEW c \in Calls, OnCandidate(c)
  PROVE  PageInv'
<1>1. queue' \in Nat
  BY DEF OnCandidate, PageInv, PageTypeOK
<1>2. candidates' \in [Calls -> 0..MaxCandidates]
  BY ClientAssumption DEF OnCandidate, PageInv, PageTypeOK
<1> QED
  BY <1>1, <1>2, SamePage DEF OnCandidate, pageVars, PageInv, PageTypeOK

----------------------------------------------------------------------------
(* The page and its microphone together. *)

\* handleRemoteTrack, once the description of a peer is set.
LEMMA DescriptionSetKeepsMic ==
  ASSUME IndInv, NEW c \in Calls, DescriptionSet(c)
  PROVE  MicInv'
<1>1. CASE UNCHANGED audioVars
  BY <1>1, SameMic DEF DescriptionSet, IndInv, micVars
<1>2. CASE RemoteTrack(target[c])
  <2>1. target[c] \in Calls
    BY DEF DescriptionSet, IndInv, PageInv, NumberInv
  <2>2. TrackOf(target[c]) \in Sources("remote") /\ TrackOf(target[c]) # NoSource
    BY <2>1 DEF Sources, TrackOf, NoSource
  <2>3. GraphInv'
    BY <1>2, <2>2, AttachKeepsGraph DEF RemoteTrack, Routers, IndInv, MicInv
  <2>4. SwitchInv'
    BY DEF DescriptionSet, switchVars, IndInv, MicInv, SwitchInv, MicTypeOK, MutedWhenAllOff
  <2> QED
    BY <2>3, <2>4 DEF MicInv
<1> QED
  BY <1>1, <1>2 DEF DescriptionSet

LEMMA RtcChangesKeepsMic == IndInv /\ RtcChanges => MicInv'
  BY ConnectionKeepsMic DEF IndInv, RtcChanges

LEMMA IndInvStarts == Init => IndInv
  BY MicStarts, PageStarts DEF Init, IndInv

LEMMA IndInvIsInductive == IndInv /\ [Next]_vars => IndInv'
<1> SUFFICES ASSUME IndInv, [Next]_vars PROVE IndInv'
  OBVIOUS
<1>1. CASE RtcChanges
  BY <1>1, RtcChangesKeepsPage, RtcChangesKeepsMic DEF IndInv
<1>2. CASE ClickAgain
  BY <1>2, ClickAgainKeepsPage, SameMic DEF IndInv, ClickAgain
<1>3. ASSUME NEW c \in Calls,
             \/ Click(c) \/ GotToken(c) \/ NewSocket(c) \/ FetchFails(c)
             \/ OnOpen(c) \/ OfferMade(c) \/ OnClose(c)
             \/ OnAnswer(c) \/ DescriptionSet(c) \/ Flush(c) \/ OnCandidate(c)
      PROVE  IndInv'
  <2>1. PageInv'
    BY <1>3, ClickKeepsPage, FetchKeepsPage, NewSocketKeepsPage, OnOpenKeepsPage,
       OfferMadeKeepsPage, OnCloseKeepsPage, OnAnswerKeepsPage, DescriptionSetKeepsPage,
       FlushKeepsPage, OnCandidateKeepsPage DEF IndInv
  <2>2. CASE DescriptionSet(c)
    BY <2>1, <2>2, DescriptionSetKeepsMic DEF IndInv
  <2>3. CASE ~DescriptionSet(c)
    <3>1. UNCHANGED micVars
      BY <1>3, <2>3 DEF Click, GotToken, NewSocket, FetchFails, OnOpen, OfferMade, OnClose,
                        OnAnswer, Flush, OnCandidate
    <3> QED
      BY <2>1, <3>1, SameMic DEF IndInv
  <2> QED
    BY <2>2, <2>3
<1>4. CASE MicStep /\ UNCHANGED <<pageVars, sockVars, peerVars, signalVars>>
  <2>1. PageInv'
    BY <1>4, SamePage DEF IndInv, PageInv, PageTypeOK, pageVars, signalVars
  <2> QED
    BY <1>4, <2>1, MicStepKeepsMic DEF IndInv
<1>5. CASE UNCHANGED vars
  <2>1. PageInv'
    BY <1>5, SamePage DEF vars, IndInv, PageInv, PageTypeOK, pageVars, signalVars
  <2> QED
    BY <1>5, <2>1, SameMic DEF vars, IndInv
<1> QED
  BY <1>1, <1>2, <1>3, <1>4, <1>5 DEF Next

LEMMA PageIsInvariant == Spec => []IndInv
  BY IndInvStarts, IndInvIsInductive, PTL DEF Spec

----------------------------------------------------------------------------
(* The results. *)

\* Every variable of the page has its type.
THEOREM PageTyped == Spec => []TypeOK
<1>1. IndInv => TypeOK
  BY Numbers DEF IndInv, MicInv, SwitchInv, PageInv, PageTypeOK, TypeOK
<1> QED
  BY <1>1, PageIsInvariant, PTL

\* The current source of each chain is heard and no other, however streams are
\* exchanged (audio_router.js:32-38, 57-115).
THEOREM SourceIsHeard == Spec => []CurrentSourceIsHeard
<1>1. IndInv => CurrentSourceIsHeard
  BY GraphIsHeard DEF IndInv, MicInv
<1> QED
  BY <1>1, PageIsInvariant, PTL

\* With every button off nothing of the microphone is sent or shown, also
\* while connections come and go (mic.js:12-118).
THEOREM AllOffIsMuted == Spec => []MutedWhenAllOff
<1>1. IndInv => MutedWhenAllOff
  BY DEF IndInv, MicInv, SwitchInv
<1> QED
  BY <1>1, PageIsInvariant, PTL

\* Button and display say "connected" when the page's peer is, and only then
\* (connect_btn.js:41-82, webrtc.js:204-329).
THEOREM PageIsTruthful == Spec => []PageTellsTheTruth
<1>1. IndInv => PageTellsTheTruth
  BY DEF IndInv, PageInv, PeersInv
<1> QED
  BY <1>1, PageIsInvariant, PTL

\* All peers but the page's are closed; so are all sockets but this.ws, unless
\* calls of connect() overlapped (webrtc.js:44-57, 138-152, 204-220, 336-343).
THEOREM NoPeerIsLeft == Spec => []NothingIsLeaked
<1>1. IndInv => NothingIsLeaked
  BY DEF IndInv, PageInv, PeersInv, SocketsInv, NothingIsLeaked
<1> QED
  BY <1>1, PageIsInvariant, PTL
=============================================================================
