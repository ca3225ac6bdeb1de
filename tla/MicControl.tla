----------------------------- MODULE MicControl -----------------------------
(***************************************************************************)
(* The microphone buttons of the page (mic.js): <mic-controller> elements  *)
(* that share one chain of the audio graph with its gain node, and the     *)
(* level display of the microphone (audio.visualizer.js).  enable()        *)
(* suspends while the user is asked for the microphone; whatever else      *)
(* happens meanwhile runs in between.  Left out is the wait for a          *)
(* suspended audio context, which any click ends.                          *)
(***************************************************************************)
EXTENDS AudioGraph, Naturals

CONSTANTS
  Buttons,   \* the <mic-controller> elements
  MaxAsks    \* bound: enable() calls of a button in flight

ASSUME MicAssumption == MaxAsks \in Nat

VARIABLES
  booted,    \* buttons past the initMic of connectedCallback: they listen
  enabled,   \* buttons with this.enabled
  streams,   \* buttons with this.micStream, and so an analyser
  red,       \* buttons that show "recording"
  gain,      \* the gain node, after its ramp
  level,     \* the level display has its attribute "active" and draws
  asking     \* enable() calls of each button that wait for the user

switchVars == <<booted, enabled, streams, red, gain, level, asking>>
micVars == <<switchVars, audioVars>>

MicTypeOK ==
  /\ {booted, enabled, streams, red} \subseteq SUBSET Buttons
  /\ gain \in {0, 1}
  /\ level \in BOOLEAN
  /\ asking \in [Buttons -> 0..MaxAsks]

MicInit ==
  /\ AudioInit
  /\ booted = {} /\ enabled = {} /\ streams = {} /\ red = {}
  /\ gain = 0
  /\ level = FALSE
  /\ asking = [b \in Buttons |-> 0]

\* getUserMedia has given a stream.
Granted(b) == /\ streams' = streams \cup {b}
              /\ AttachStream("mic", MicOf(b), {<<"glow", b>>})

Refused == UNCHANGED <<streams, audioVars>>

\* connectedCallback: the first initMic, update(), the listeners.  A microphone
\* that is not switched on starts muted, another one's gain included.
Boot(b) ==
  /\ b \notin booted
  /\ booted' = booted \cup {b}
  /\ \/ Granted(b) /\ gain' = IF b \in enabled THEN gain ELSE 0
     \/ Refused /\ UNCHANGED gain
  /\ red' = IF b \in enabled THEN red \cup {b} ELSE red \ {b}
  /\ UNCHANGED <<enabled, level, asking>>

\* updateState of the level display, on MIC_UNMUTE and MIC_MUTE.
LevelHears(active) == level' = active

\* The end of enable().
SwitchOn(bs) == /\ enabled' = enabled \cup bs
                /\ red' = red \cup bs
                /\ gain' = IF bs # {} THEN 1 ELSE gain
                /\ LevelHears(level \/ bs # {})

\* enable(): initMic has nothing to do where there is a stream.
Ask(bs) == asking' = [b \in Buttons |-> IF b \in bs /\ asking[b] < MaxAsks THEN asking[b] + 1 ELSE asking[b]]

Enable(bs) == /\ SwitchOn(bs \cap streams)
              /\ Ask(bs \ streams)
              /\ UNCHANGED <<booted, streams, audioVars>>

\* The user answers.  Without an analyser the shadow loop throws: past the
\* gain, ahead of MIC_UNMUTE and update().
Answered(b) ==
  /\ asking[b] > 0
  /\ asking' = [asking EXCEPT ![b] = @ - 1]
  /\ \/ Granted(b) /\ SwitchOn({b})
     \/ /\ Refused
        /\ IF b \in streams THEN SwitchOn({b})
           ELSE enabled' = enabled \cup {b} /\ gain' = 1 /\ UNCHANGED <<red, level>>
  /\ UNCHANGED booted

\* disable(): without a stream nothing happens.
LeaveGain(bs) == /\ enabled' = enabled \ bs /\ red' = red \ bs \* mutant: the button only
                 /\ LevelHears(level /\ bs = {})
                 /\ UNCHANGED gain
SwitchOff(bs) == /\ enabled' = enabled \ bs /\ red' = red \ bs
                 /\ LevelHears(level /\ bs = {})
                 /\ gain' = IF bs # {} THEN 0 ELSE gain

Disable(bs) == /\ SwitchOff(bs \cap streams)
               /\ UNCHANGED <<booted, streams, asking, audioVars>>

Toggle(b) == IF b \in enabled THEN Disable({b})
             ELSE (b \in streams \/ asking[b] < MaxAsks) /\ Enable({b})

\* RTC_CONNECTED: every button that is off; at the bound a call is left out.
AutoEnable == Enable(booted \ enabled)

\* RTC_STATECHANGE.
AutoDisable(state) ==
  IF state \in {"disconnected", "failed"} THEN Disable(booted) ELSE UNCHANGED micVars

MicStep == \E b \in Buttons : Boot(b) \/ Answered(b) \/ Toggle(b)

\* The buttons without the rest of the page: connections come and go.
MicSpec == MicInit /\ [][MicStep \/ AutoEnable \/ Disable(booted)]_micVars

----------------------------------------------------------------------------
Heard == gain = 1 /\ \E b \in Buttons : source["mic"] = MicOf(b)

\* With every button off the peer hears nothing and no level is shown,
\* however prompts, clicks and connection events of several buttons interleave
\* (mic.js:12-118).
MutedWhenAllOff == enabled = {} => gain = 0 /\ ~level

\* What mic.js:154-156 says of a button: it is red when the microphone is live.
\* Red for a microphone that is muted is the other's doing.
RedMeansLive == red # {} => Heard
=============================================================================
