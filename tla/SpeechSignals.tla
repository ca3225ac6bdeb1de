---------------------------- MODULE SpeechSignals ----------------------------
(***************************************************************************)
(* What vad_gate (src/workflows/steps.py:115) promises the stages behind   *)
(* it: the order of the items it yields.  The generator runs only when its *)
(* consumer asks for the next item, so at most one item is on its way.     *)
(* VadGate implements this specification; VoicePipeline takes it for the   *)
(* source of its items.                                                    *)
(***************************************************************************)
EXTENDS Naturals

CONSTANTS
  MaxAsk,    \* MAX_ASK_USER: how often a silent user is asked
  MaxTurns   \* bound: how often the user speaks

ASSUME SignalsAssumption == MaxAsk \in Nat /\ MaxTurns \in Nat

VARIABLES
  mode,      \* "quiet", "talking", "handing" (between the two yields), "ended"
  turn,      \* number of times the user began to speak
  asks,      \* AskUserStillThere since the user last spoke
  emitted    \* the item yielded and not yet taken, or NoItem

signalVars == <<mode, turn, asks, emitted>>

Kinds  == {"start", "end", "utterance", "ask", "hangup"}
Item(kind, t) == [kind |-> kind, turn |-> t]
NoItem == Item("none", 0)

SignalsTypeOK ==
  /\ mode \in {"quiet", "talking", "handing", "ended"}
  /\ turn \in 0..MaxTurns
  /\ asks \in 0..MaxAsk
  /\ emitted \in [kind : Kinds, turn : 0..MaxTurns] \cup {NoItem}

SignalsInit == mode = "quiet" /\ turn = 0 /\ asks = 0 /\ emitted = NoItem

Yield(kind, t) == emitted = NoItem /\ emitted' = Item(kind, t)

\* The user has been speaking long enough to count.
StartSpeaking ==
  /\ mode = "quiet" /\ mode' = "talking"
  /\ turn < MaxTurns /\ turn' = turn + 1
  /\ asks' = 0
  /\ Yield("start", turn + 1)

\* He has been silent long enough: the signal first ...
EndSpeaking ==
  /\ mode = "talking" /\ mode' = "handing"
  /\ Yield("end", turn)
  /\ UNCHANGED <<turn, asks>>

\* ... then what he said.
HandOver ==
  /\ mode = "handing" /\ mode' = "quiet"
  /\ Yield("utterance", turn)
  /\ UNCHANGED <<turn, asks>>

AskUser ==
  /\ mode = "quiet" /\ asks < MaxAsk
  /\ asks' = asks + 1
  /\ Yield("ask", turn)
  /\ UNCHANGED <<mode, turn>>

\* Nobody is hung up on who has not been asked since he last spoke.
HangUp ==
  /\ mode = "quiet" /\ asks = MaxAsk
  /\ mode' = "ended"
  /\ Yield("hangup", turn)
  /\ UNCHANGED <<turn, asks>>

\* The track ends; an utterance that is complete is still handed over.
TrackEnds ==
  /\ mode \in {"quiet", "talking"} /\ emitted = NoItem
  /\ mode' = "ended"
  /\ UNCHANGED <<turn, asks, emitted>>

\* The consumer comes back for the next item.
Taken == emitted # NoItem /\ emitted' = NoItem /\ UNCHANGED <<mode, turn, asks>>

Speak == StartSpeaking \/ EndSpeaking \/ HandOver \/ AskUser \/ HangUp \/ TrackEnds

SignalsSpec == SignalsInit /\ [][Speak \/ Taken]_signalVars
=============================================================================
