------------------------------- MODULE VadGate -------------------------------
(***************************************************************************)
(* vad_gate (src/workflows/steps.py:115): cuts the frames of the incoming  *)
(* track (track_frames, steps.py:70) into utterances.  Frames are numbered *)
(* in the order they arrive; every Accum frames the speech detector gives  *)
(* a verdict, any of Verdicts.  A yield is two steps: the item is emitted, *)
(* and the consumer takes it (Taken) before the generator goes on.  No     *)
(* WarmUp or AskUserStillThere is in the source: track_frames yields       *)
(* frames only.                                                            *)
(***************************************************************************)
EXTENDS Integers, Sequences

CONSTANTS
  Accum,            \* SILERO_ACCUM
  StartFrames,      \* START_FRAMES
  StopFrames,       \* STOP_FRAMES
  PreRoll,          \* PRE_ROLL_LEN
  InactivityFrames, \* INACTIVITY_FRAMES
  InactivityStop,   \* INACTIVITY_STOP
  MaxAsk,           \* MAX_ASK_USER
  MaxFrames         \* bound: frames received

\* Of the thresholds: speech and pause take more than one window, the window fits
\* in the pre-roll, ...
ASSUME VadAssumption ==
  /\ Accum \in Nat \ {0} /\ StartFrames \in Nat /\ StopFrames \in Nat /\ PreRoll \in Nat
  /\ InactivityFrames \in Nat \ {0} /\ InactivityStop \in Nat
  /\ MaxAsk \in Nat /\ MaxFrames \in Nat
  /\ Accum < StartFrames /\ Accum < StopFrames /\ Accum <= PreRoll

\* ... and every question fits between the two limits on inactivity.
ASSUME AskAssumption == InactivityFrames + MaxAsk * Accum <= InactivityStop

VARIABLES
  state,            \* VADState: "quiet", "starting", "speaking", "stopping"
  phase,            \* "running", "handing" (between the two yields), "ended"
  silero_buf,       \* number of frames in it
  starting_count, stopping_count,
  silence,          \* consecutive_silence_counter
  ask_user,
  utterance_buf,    \* frame numbers
  emitted,          \* the item yielded and not yet taken
  turn,
  received,         \* history: frames so far
  verdicts,         \* history: what the detector said of each window
  confirmedAt,      \* history: received at the last StartSpeaking
  handedUpTo        \* history: last frame of the last utterance

counters == <<starting_count, stopping_count, silence, ask_user>>
vars == <<state, phase, silero_buf, counters, utterance_buf, emitted, turn,
          received, verdicts, confirmedAt, handedUpTo>>

NoItem == [kind |-> "none", turn |-> 0]

Init ==
  /\ state = "quiet" /\ phase = "running" /\ silero_buf = 0
  /\ starting_count = 0 /\ stopping_count = 0 /\ silence = 0 /\ ask_user = 0
  /\ utterance_buf = <<>> /\ emitted = NoItem /\ turn = 0
  /\ received = 0 /\ verdicts = <<>> /\ confirmedAt = 0 /\ handedUpTo = 0

-----------------------------------------------------------------------------

Yield(kind, t) == emitted' = [kind |-> kind, turn |-> t]

Receive ==
  /\ phase = "running" /\ emitted = NoItem
  /\ received < MaxFrames /\ received' = received + 1

\* pre_roll_history: a deque that keeps the last PreRoll frames.
PreRollHistory ==
  LET n == IF received' < PreRoll THEN received' ELSE PreRoll
  IN  [i \in 1..n |-> received' - n + i]

\* mutant: the frames that arrive while STARTING are not kept
CollectedOnceSpeaking ==
  IF state \in {"quiet", "starting"} THEN utterance_buf ELSE Append(utterance_buf, received')

\* A frame of an utterance is kept in every state but QUIET.
Collected == IF state = "quiet" THEN utterance_buf ELSE Append(utterance_buf, received')

\* Too few frames for the detector yet.
Buffer ==
  /\ Receive /\ silero_buf + 1 < Accum
  /\ silero_buf' = silero_buf + 1
  /\ utterance_buf' = Collected
  /\ UNCHANGED <<state, phase, counters, emitted, turn, verdicts, confirmedAt, handedUpTo>>

\* What the detector can say of a window.  Of a frame of 20 ms, 320 samples are
\* left at 16 kHz; only whole chunks of 512 are heard, one of them is enough.
Samples == 320 * Accum
Verdicts == {FALSE} \cup {TRUE : chunk \in 1..(Samples \div 512)}

Evaluate(confident) ==
  /\ Receive /\ silero_buf + 1 >= Accum
  /\ confident \in Verdicts
  /\ silero_buf' = 0
  /\ verdicts' = Append(verdicts, confident)
  /\ UNCHANGED handedUpTo

BeginStarting ==
  /\ Evaluate(TRUE) /\ state = "quiet"
  /\ state' = "starting" /\ starting_count' = Accum
  /\ utterance_buf' = PreRollHistory
  /\ UNCHANGED <<phase, stopping_count, silence, ask_user, emitted, turn, confirmedAt>>

KeepStarting ==
  /\ Evaluate(TRUE) /\ state = "starting"
  /\ starting_count' = starting_count + Accum /\ starting_count' < StartFrames
  /\ utterance_buf' = Collected
  /\ UNCHANGED <<state, phase, stopping_count, silence, ask_user, emitted, turn, confirmedAt>>

\* mutant: the questions asked before the user spoke still count
ConfirmSpeechKeepsAsks ==
  /\ Evaluate(TRUE) /\ state = "starting"
  /\ starting_count' = starting_count + Accum /\ starting_count' >= StartFrames
  /\ state' = "speaking" /\ silence' = 0
  /\ utterance_buf' = Collected
  /\ turn' = turn + 1 /\ confirmedAt' = received'
  /\ Yield("start", turn + 1)
  /\ UNCHANGED <<phase, stopping_count, ask_user>>

\* yield StartSpeaking()
ConfirmSpeech ==
  /\ Evaluate(TRUE) /\ state = "starting"
  /\ starting_count' = starting_count + Accum /\ starting_count' >= StartFrames
  /\ state' = "speaking" /\ silence' = 0 /\ ask_user' = 0
  /\ utterance_buf' = Collected
  /\ turn' = turn + 1 /\ confirmedAt' = received'
  /\ Yield("start", turn + 1)
  /\ UNCHANGED <<phase, stopping_count>>

StillSpeaking ==
  /\ Evaluate(TRUE) /\ state = "speaking"
  /\ utterance_buf' = Collected
  /\ UNCHANGED <<state, phase, counters, emitted, turn, confirmedAt>>

\* mutant: speech during the pause does not stop the count
PauseGoesOn ==
  /\ Evaluate(TRUE) /\ state = "stopping"
  /\ utterance_buf' = Collected
  /\ UNCHANGED <<state, phase, counters, emitted, turn, confirmedAt>>

ResumeSpeaking ==
  /\ Evaluate(TRUE) /\ state = "stopping"
  /\ state' = "speaking" /\ stopping_count' = 0
  /\ utterance_buf' = Collected
  /\ UNCHANGED <<phase, starting_count, silence, ask_user, emitted, turn, confirmedAt>>

\* A window without speech while QUIET.
QuietWindow ==
  /\ Evaluate(FALSE) /\ state = "quiet"
  /\ silence' = silence + Accum
  /\ UNCHANGED <<state, starting_count, stopping_count, utterance_buf, turn, confirmedAt>>

StayQuiet ==
  /\ QuietWindow
  /\ silence' < InactivityStop
  /\ ask_user >= MaxAsk \/ silence' < InactivityFrames
  /\ UNCHANGED <<phase, ask_user, emitted>>

AskUserStillThere ==
  /\ QuietWindow
  /\ silence' < InactivityStop
  /\ ask_user < MaxAsk /\ silence' >= InactivityFrames
  /\ ask_user' = ask_user + 1
  /\ Yield("ask", turn)
  /\ UNCHANGED phase

\* mutant: the hang-up takes the limit of the question
HardStopAtFirstLimit ==
  /\ QuietWindow
  /\ silence' >= InactivityFrames
  /\ phase' = "ended"
  /\ Yield("hangup", turn)
  /\ UNCHANGED ask_user

\* yield EndOfStream; return
HardStop ==
  /\ QuietWindow
  /\ silence' >= InactivityStop
  /\ phase' = "ended"
  /\ Yield("hangup", turn)
  /\ UNCHANGED ask_user

FalseStart ==
  /\ Evaluate(FALSE) /\ state = "starting"
  /\ state' = "quiet" /\ starting_count' = 0 /\ utterance_buf' = <<>>
  /\ UNCHANGED <<phase, stopping_count, silence, ask_user, emitted, turn, confirmedAt>>

BeginStopping ==
  /\ Evaluate(FALSE) /\ state = "speaking"
  /\ state' = "stopping" /\ stopping_count' = Accum
  /\ utterance_buf' = Collected
  /\ UNCHANGED <<phase, starting_count, silence, ask_user, emitted, turn, confirmedAt>>

KeepStopping ==
  /\ Evaluate(FALSE) /\ state = "stopping"
  /\ stopping_count' = stopping_count + Accum /\ stopping_count' < StopFrames
  /\ utterance_buf' = Collected
  /\ UNCHANGED <<state, phase, starting_count, silence, ask_user, emitted, turn, confirmedAt>>

\* yield EndSpeaking()
EndUtterance ==
  /\ Evaluate(FALSE) /\ state = "stopping"
  /\ stopping_count' = stopping_count + Accum /\ stopping_count' >= StopFrames
  /\ state' = "quiet" /\ phase' = "handing"
  /\ utterance_buf' = Collected
  /\ Yield("end", turn)
  /\ UNCHANGED <<starting_count, silence, ask_user, turn, confirmedAt>>

\* yield utterance_buf, and the resets that follow before the next frame.
HandOver ==
  /\ phase = "handing" /\ emitted = NoItem
  /\ phase' = "running"
  /\ handedUpTo' = received
  /\ utterance_buf' = <<>>
  /\ starting_count' = 0 /\ stopping_count' = 0 /\ silence' = 0
  /\ Yield("utterance", turn)
  /\ UNCHANGED <<state, silero_buf, ask_user, turn, received, verdicts, confirmedAt>>

\* track_frames stops: no audio for 120 s, cancelled, or the connection is lost.
TrackEnds ==
  /\ phase = "running" /\ emitted = NoItem
  /\ phase' = "ended"
  /\ UNCHANGED <<state, silero_buf, counters, utterance_buf, emitted, turn,
                 received, verdicts, confirmedAt, handedUpTo>>

\* The bridge asks for the next item.
Taken ==
  /\ emitted # NoItem /\ emitted' = NoItem
  /\ UNCHANGED <<state, phase, silero_buf, counters, utterance_buf, turn,
                 received, verdicts, confirmedAt, handedUpTo>>

Speech  == BeginStarting \/ KeepStarting \/ ConfirmSpeech \/ StillSpeaking \/ ResumeSpeaking
Silence == \/ StayQuiet \/ AskUserStillThere \/ HardStop
           \/ FalseStart \/ BeginStopping \/ KeepStopping \/ EndUtterance
Next == Buffer \/ Speech \/ Silence \/ HandOver \/ TrackEnds \/ Taken

Spec == Init /\ [][Next]_vars

-----------------------------------------------------------------------------

TypeOK ==
  /\ state \in {"quiet", "starting", "speaking", "stopping"}
  /\ phase \in {"running", "handing", "ended"}
  /\ silero_buf \in 0..(Accum - 1)
  /\ starting_count \in Nat /\ stopping_count \in Nat /\ silence \in Nat /\ ask_user \in Nat
  /\ utterance_buf \in Seq(Nat)
  /\ emitted \in [kind : {"none", "start", "end", "utterance", "ask", "hangup"}, turn : Nat]
  /\ turn \in Nat /\ received \in Nat /\ confirmedAt \in Nat /\ handedUpTo \in Nat
  /\ verdicts \in Seq(BOOLEAN)

\* Windows the detector needs before a threshold in frames is reached.
Windows(frames) == (frames + Accum - 1) \div Accum

\* The last n verdicts, all of which are v.
Run(v, n) ==
  /\ n <= Len(verdicts)
  /\ \A i \in Len(verdicts) - n + 1 .. Len(verdicts) : verdicts[i] = v

InUtterance == state \in {"speaking", "stopping"} \/ phase = "handing"

\* What is transcribed is what was said: the buffer holds every frame from the
\* pre-roll before the first window of speech up to the latest one, in order and
\* each once (steps.py:144-184).
UtteranceIsWhole ==
  InUtterance =>
    LET firstWindow == confirmedAt - (Windows(StartFrames) - 1) * Accum
        first       == IF firstWindow > PreRoll THEN firstWindow - PreRoll + 1 ELSE 1
    IN  utterance_buf = [i \in 1..(received - first + 1) |-> first + i - 1]

\* A user is neither interrupted by a noise nor kept waiting: StartSpeaking is due
\* exactly when speech has lasted START_FRAMES, the end of the utterance exactly when
\* silence has lasted STOP_FRAMES; the counters agree with the verdicts
\* (steps.py:171-184, 202-213).
SpeechIsDecided ==
  /\ confirmedAt = received /\ turn > 0 /\ silero_buf = 0 => Run(TRUE, Windows(StartFrames))
  /\ state = "starting" => ~Run(TRUE, Windows(StartFrames))
  /\ phase = "handing" => Run(FALSE, Windows(StopFrames))
  /\ state \in {"speaking", "stopping"} => ~Run(FALSE, Windows(StopFrames))

\* Of an utterance that follows another closely, the pre-roll repeats less than
\* PRE_ROLL_LEN frames of the earlier one (steps.py:168: the history is not
\* cleared when an utterance is handed over).
RepeatsLessThanPreRoll ==
  utterance_buf # <<>> => handedUpTo - utterance_buf[1] < PreRoll - Accum

\* The call is ended for inactivity only when nobody has spoken for INACTIVITY_STOP
\* frames since the last utterance (steps.py:188-193).
HangUpAfterSilence ==
  [][phase' = "ended" /\ emitted' # NoItem => received' - handedUpTo >= InactivityStop]_vars

mode == CASE phase = "ended" -> "ended"
          [] phase = "handing" -> "handing"
          [] phase = "running" -> IF state \in {"speaking", "stopping"} THEN "talking" ELSE "quiet"

Signals == INSTANCE SpeechSignals WITH asks <- ask_user, MaxTurns <- MaxFrames

\* The stages behind the gate get each utterance between its StartSpeaking and the
\* next one, and no hang-up without the question before it.
ImplementsSignals == Signals!SignalsSpec
=============================================================================
