---------------------------- MODULE VadGateProofs ----------------------------
(***************************************************************************)
(* vad_gate for any thresholds that satisfy VadAssumption and any number   *)
(* of frames: its types, the overlap of successive utterances, the         *)
(* hang-up, and that it implements SpeechSignals.                          *)
(***************************************************************************)
EXTENDS VadGate, TLAPS

USE DEF vars, counters

LEMMA VadTypes == Init => TypeOK
PROOF BY VadAssumption DEF Init, TypeOK, NoItem

LEMMA VadTypesKept == TypeOK /\ [Next]_vars => TypeOK'
PROOF
<1> USE VadAssumption
<1>1. TypeOK /\ [Next]_vars => TypeOK'
  <2> SUFFICES ASSUME TypeOK, [Next]_vars PROVE TypeOK'
    OBVIOUS
  <2> USE DEF TypeOK
  <2>1. CASE Buffer
    BY <2>1 DEF Buffer, Receive, Collected
  <2>2. CASE BeginStarting
    <3>1. PreRollHistory \in Seq(Nat)
      BY <2>2 DEF BeginStarting, Evaluate, Receive, PreRollHistory
    <3> QED BY <2>2, <3>1 DEF BeginStarting, Evaluate, Receive
  <2>3. CASE KeepStarting
    BY <2>3 DEF KeepStarting, Evaluate, Receive, Collected
  <2>4. CASE ConfirmSpeech
    BY <2>4 DEF ConfirmSpeech, Evaluate, Receive, Collected, Yield
  <2>5. CASE StillSpeaking
    BY <2>5 DEF StillSpeaking, Evaluate, Receive, Collected
  <2>6. CASE ResumeSpeaking
    BY <2>6 DEF ResumeSpeaking, Evaluate, Receive, Collected
  <2>7. CASE StayQuiet
    BY <2>7 DEF StayQuiet, QuietWindow, Evaluate, Receive
  <2>8. CASE AskUserStillThere
    BY <2>8 DEF AskUserStillThere, QuietWindow, Evaluate, Receive, Yield
  <2>9. CASE HardStop
    BY <2>9 DEF HardStop, QuietWindow, Evaluate, Receive, Yield
  <2>10. CASE FalseStart
    BY <2>10 DEF FalseStart, Evaluate, Receive
  <2>11. CASE BeginStopping
    BY <2>11 DEF BeginStopping, Evaluate, Receive, Collected
  <2>12. CASE KeepStopping
    BY <2>12 DEF KeepStopping, Evaluate, Receive, Collected
  <2>13. CASE EndUtterance
    BY <2>13 DEF EndUtterance, Evaluate, Receive, Collected, Yield
  <2>14. CASE HandOver
    BY <2>14 DEF HandOver, Yield
  <2>15. CASE TrackEnds
    BY <2>15 DEF TrackEnds
  <2>16. CASE Taken
    BY <2>16 DEF Taken, NoItem
  <2>17. CASE UNCHANGED vars
    BY <2>17
  <2> QED
    BY <2>1, <2>2, <2>3, <2>4, <2>5, <2>6, <2>7, <2>8, <2>9, <2>10, <2>11, <2>12, <2>13,
       <2>14, <2>15, <2>16, <2>17 DEF Next, Speech, Silence
<1> QED BY <1>1

\* The variables have their types (vad_gate's locals).
THEOREM VadTypeCorrect == Spec => []TypeOK
PROOF BY VadTypes, VadTypesKept, PTL DEF Spec

-----------------------------------------------------------------------------
(* How the counters relate to the frames received. *)

Accounts ==
  /\ received <= MaxFrames /\ turn <= received
  /\ handedUpTo + silero_buf <= received
  /\ silence + silero_buf <= received - handedUpTo
  /\ ask_user <= MaxAsk
  /\ phase = "handing" => state = "quiet" /\ silero_buf = 0
  /\ ask_user < MaxAsk => silence < InactivityFrames + ask_user * Accum

\* Another question is another window.
LEMMA AskProduct ==
  /\ \A a \in Nat : a * Accum \in Nat /\ (a + 1) * Accum = a * Accum + Accum
  /\ \A a, b \in Nat : a < b => a * Accum + Accum <= b * Accum
PROOF
<1> USE VadAssumption
<1>1. \A a \in Nat : a * Accum \in Nat /\ (a + 1) * Accum = a * Accum + Accum
  OBVIOUS
<1>2. ASSUME NEW a \in Nat, NEW b \in Nat, a < b PROVE a * Accum + Accum <= b * Accum
  <2> DEFINE d == b - (a + 1)
  <2>1. d \in Nat /\ b = (a + 1) + d
    BY <1>2
  <2>2. b * Accum = (a + 1) * Accum + d * Accum
    BY <2>1
  <2>3. d * Accum \in Nat
    BY <2>1
  <2> QED BY <2>2, <2>3, <1>1
<1> QED BY <1>1, <1>2

LEMMA AccountsStart == Init => Accounts
PROOF BY VadAssumption, AskProduct DEF Init, Accounts

\* All questions are asked by the time the second limit is reached.
LEMMA AskedBeforeHardStop == TypeOK /\ Accounts /\ HardStop => ask_user = MaxAsk
PROOF
<1> SUFFICES ASSUME TypeOK, Accounts, HardStop, ask_user < MaxAsk PROVE FALSE
  BY VadAssumption DEF TypeOK, Accounts
<1> USE VadAssumption DEF TypeOK, Accounts
<1> DEFINE asked == ask_user * Accum
           all   == MaxAsk * Accum
<1>1. asked \in Nat /\ all \in Nat /\ asked + Accum <= all
  BY AskProduct
<1>2. silence < InactivityFrames + asked
  OBVIOUS
<1>3. silence + Accum >= InactivityStop
  BY DEF HardStop, QuietWindow
<1>4. InactivityFrames + all <= InactivityStop
  BY AskAssumption
<1> HIDE DEF asked, all
<1> QED BY <1>1, <1>2, <1>3, <1>4

LEMMA AccountsKept == TypeOK /\ Accounts /\ [Next]_vars => Accounts'
PROOF
<1> SUFFICES ASSUME TypeOK, Accounts, [Next]_vars PROVE Accounts'
  OBVIOUS
<1> USE VadAssumption DEF TypeOK, Accounts
<1>1. CASE Buffer
  BY <1>1 DEF Buffer, Receive
<1>2. CASE Speech
  <2>1. CASE BeginStarting
    BY <2>1 DEF BeginStarting, Evaluate, Receive
  <2>2. CASE KeepStarting
    BY <2>2 DEF KeepStarting, Evaluate, Receive
  <2>3. CASE ConfirmSpeech
    BY <2>3, AskProduct DEF ConfirmSpeech, Evaluate, Receive
  <2>4. CASE StillSpeaking
    BY <2>4 DEF StillSpeaking, Evaluate, Receive
  <2>5. CASE ResumeSpeaking
    BY <2>5 DEF ResumeSpeaking, Evaluate, Receive
  <2> QED BY <1>2, <2>1, <2>2, <2>3, <2>4, <2>5 DEF Speech
<1>3. CASE Silence
  <2>1. CASE StayQuiet
    <3>1. ask_user * Accum \in Nat
      BY AskProduct
    <3> QED BY <2>1, <3>1 DEF StayQuiet, QuietWindow, Evaluate, Receive
  <2>2. CASE AskUserStillThere
    BY <2>2, AskProduct DEF AskUserStillThere, QuietWindow, Evaluate, Receive
  <2>3. CASE HardStop
    <3>1. ask_user = MaxAsk
      BY <2>3, AskedBeforeHardStop
    <3>2. ask_user * Accum \in Nat
      BY AskProduct
    <3> QED BY <2>3, <3>1, <3>2 DEF HardStop, QuietWindow, Evaluate, Receive
  <2>4. CASE FalseStart
    BY <2>4 DEF FalseStart, Evaluate, Receive
  <2>5. CASE BeginStopping
    BY <2>5 DEF BeginStopping, Evaluate, Receive
  <2>6. CASE KeepStopping
    BY <2>6 DEF KeepStopping, Evaluate, Receive
  <2>7. CASE EndUtterance
    BY <2>7 DEF EndUtterance, Evaluate, Receive
  <2> QED BY <1>3, <2>1, <2>2, <2>3, <2>4, <2>5, <2>6, <2>7 DEF Silence
<1>4. CASE HandOver
  BY <1>4, AskProduct DEF HandOver
<1>5. CASE TrackEnds
  BY <1>5 DEF TrackEnds
<1>6. CASE Taken
  BY <1>6 DEF Taken
<1>7. CASE UNCHANGED vars
  BY <1>7
<1> QED BY <1>1, <1>2, <1>3, <1>4, <1>5, <1>6, <1>7 DEF Next

LEMMA AccountsHold == Spec => [](TypeOK /\ Accounts)
PROOF BY VadTypes, VadTypesKept, AccountsStart, AccountsKept, PTL DEF Spec

\* Nobody is hung up on within INACTIVITY_STOP frames of his last utterance.
THEOREM HangUpAfterSilenceAlways == Spec => HangUpAfterSilence
PROOF
<1>1. TypeOK /\ Accounts /\ [Next]_vars =>
        [phase' = "ended" /\ emitted' # NoItem => received' - handedUpTo >= InactivityStop]_vars
  <2> SUFFICES ASSUME TypeOK, Accounts, Next, phase' = "ended", emitted' # NoItem
               PROVE  received' - handedUpTo >= InactivityStop
    OBVIOUS
  <2> USE VadAssumption DEF TypeOK, Accounts
  <2>1. CASE HardStop
    BY <2>1 DEF HardStop, QuietWindow, Evaluate, Receive
  <2>2. CASE Speech \/ Buffer
    BY <2>2 DEF Speech, Buffer, BeginStarting, KeepStarting, ConfirmSpeech, StillSpeaking,
                ResumeSpeaking, Evaluate, Receive
  <2>3. CASE Silence /\ ~HardStop
    BY <2>3 DEF Silence, StayQuiet, AskUserStillThere, QuietWindow, FalseStart, BeginStopping,
                KeepStopping, EndUtterance, Evaluate, Receive
  <2>4. CASE HandOver \/ TrackEnds \/ Taken
    BY <2>4 DEF HandOver, TrackEnds, Taken
  <2> QED BY <2>1, <2>2, <2>3, <2>4 DEF Next, Silence
<1> QED BY <1>1, AccountsHold, PTL DEF Spec, HangUpAfterSilence

-----------------------------------------------------------------------------
(* What utterance_buf holds. *)

\* In every state but QUIET the buffer holds frames, without a gap up to the latest one;
\* the same while the utterance is being handed over.
Contiguous ==
  /\ (phase = "running" /\ state # "quiet") \/ phase = "handing" => utterance_buf # <<>>
  /\ phase = "running" /\ state = "quiet" => utterance_buf = <<>>
  /\ \A i \in DOMAIN utterance_buf : utterance_buf[i] = received - Len(utterance_buf) + i

BufferInv == Contiguous /\ RepeatsLessThanPreRoll

\* A frame appended to a buffer without gaps.
LEMMA AppendFrame ==
  ASSUME TypeOK, BufferInv, utterance_buf # <<>>, received' = received + 1,
         utterance_buf' = Append(utterance_buf, received'), handedUpTo' = handedUpTo
  PROVE  /\ utterance_buf' # <<>>
         /\ \A i \in DOMAIN utterance_buf' : utterance_buf'[i] = received' - Len(utterance_buf') + i
         /\ RepeatsLessThanPreRoll'
PROOF
<1> USE VadAssumption DEF TypeOK
<1>1. /\ Len(utterance_buf') = Len(utterance_buf) + 1
      /\ Len(utterance_buf) \in Nat /\ Len(utterance_buf) >= 1
      /\ DOMAIN utterance_buf = 1..Len(utterance_buf)
      /\ DOMAIN utterance_buf' = 1..(Len(utterance_buf) + 1)
  OBVIOUS
<1>2. \A i \in 1..Len(utterance_buf) : utterance_buf'[i] = utterance_buf[i]
  OBVIOUS
<1>3. utterance_buf'[Len(utterance_buf) + 1] = received'
  OBVIOUS
<1>4. \A i \in DOMAIN utterance_buf' : utterance_buf'[i] = received' - Len(utterance_buf') + i
  BY <1>1, <1>2, <1>3 DEF BufferInv, Contiguous
<1>5. utterance_buf' # <<>> /\ utterance_buf'[1] = utterance_buf[1]
  BY <1>1, <1>2
<1> QED BY <1>4, <1>5 DEF BufferInv, RepeatsLessThanPreRoll

\* The history a new utterance begins with.
LEMMA HistoryBegins ==
  ASSUME TypeOK, Accounts, BeginStarting
  PROVE  /\ utterance_buf' # <<>>
         /\ \A i \in DOMAIN utterance_buf' : utterance_buf'[i] = received' - Len(utterance_buf') + i
         /\ RepeatsLessThanPreRoll'
PROOF
<1> USE VadAssumption DEF TypeOK, Accounts
<1> DEFINE n == IF received' < PreRoll THEN received' ELSE PreRoll
<1>1. /\ received' = received + 1 /\ handedUpTo' = handedUpTo
      /\ silero_buf + 1 >= Accum
      /\ utterance_buf' = [i \in 1..n |-> received' - n + i]
  BY DEF BeginStarting, Evaluate, Receive, PreRollHistory
<1>2. n \in Nat /\ n >= 1 /\ n <= received' /\ n <= PreRoll
  BY <1>1
<1>3. Len(utterance_buf') = n /\ DOMAIN utterance_buf' = 1..n
  BY <1>1, <1>2
<1>4. handedUpTo + Accum <= received'
  BY <1>1
<1>5. utterance_buf'[1] = received' - n + 1
  BY <1>1, <1>2
<1>6. handedUpTo' - utterance_buf'[1] < PreRoll - Accum
  BY <1>1, <1>2, <1>4, <1>5
<1>7. utterance_buf' # <<>>
  BY <1>2, <1>3
<1> QED BY <1>1, <1>2, <1>3, <1>6, <1>7 DEF RepeatsLessThanPreRoll

LEMMA BufferKept == TypeOK /\ Accounts /\ BufferInv /\ [Next]_vars => BufferInv'
PROOF
<1> SUFFICES ASSUME TypeOK, Accounts, BufferInv, [Next]_vars PROVE BufferInv'
  OBVIOUS
<1> DEFINE Grows == /\ state # "quiet" /\ phase = "running"
                    /\ received' = received + 1
                    /\ utterance_buf' = Append(utterance_buf, received')
                    /\ handedUpTo' = handedUpTo
<1>1. CASE BeginStarting
  BY <1>1, HistoryBegins DEF BeginStarting, Evaluate, Receive, BufferInv, Contiguous
<1>2. ASSUME Grows, (state' # "quiet" /\ phase' = "running") \/ phase' = "handing" PROVE BufferInv'
  BY <1>2, AppendFrame DEF BufferInv, Contiguous
<1>3. CASE KeepStarting \/ ConfirmSpeech \/ StillSpeaking \/ ResumeSpeaking
  BY <1>2, <1>3 DEF KeepStarting, ConfirmSpeech, StillSpeaking, ResumeSpeaking, Evaluate, Receive, Collected
<1>4. CASE BeginStopping \/ KeepStopping \/ EndUtterance
  BY <1>2, <1>4 DEF BeginStopping, KeepStopping, EndUtterance, Evaluate, Receive, Collected
<1>5. CASE Buffer /\ state # "quiet"
  BY <1>2, <1>5 DEF Buffer, Receive, Collected
<1>6. CASE Buffer /\ state = "quiet"
  BY <1>6 DEF Buffer, Receive, Collected, BufferInv, Contiguous, RepeatsLessThanPreRoll
<1>7. CASE StayQuiet \/ AskUserStillThere \/ HardStop
  <2>1. /\ utterance_buf' = <<>> /\ state' = "quiet" /\ phase' \in {"running", "ended"}
        /\ received' = received + 1
    BY <1>7 DEF StayQuiet, AskUserStillThere, HardStop, QuietWindow, Evaluate, Receive,
                BufferInv, Contiguous
  <2> QED BY <2>1 DEF BufferInv, Contiguous, RepeatsLessThanPreRoll
<1>8. CASE FalseStart
  BY <1>8 DEF FalseStart, Evaluate, Receive, BufferInv, Contiguous, RepeatsLessThanPreRoll
<1>9. CASE HandOver
  BY <1>9 DEF HandOver, Accounts, BufferInv, Contiguous, RepeatsLessThanPreRoll
<1>10. CASE TrackEnds
  BY <1>10 DEF TrackEnds, BufferInv, Contiguous, RepeatsLessThanPreRoll
<1>11. CASE Taken \/ UNCHANGED vars
  BY <1>11 DEF Taken, BufferInv, Contiguous, RepeatsLessThanPreRoll
<1> QED BY <1>1, <1>3, <1>4, <1>5, <1>6, <1>7, <1>8, <1>9, <1>10, <1>11 DEF Next, Speech, Silence

LEMMA BufferHolds == Spec => []BufferInv
PROOF
<1>1. Init => BufferInv
  BY DEF Init, BufferInv, Contiguous, RepeatsLessThanPreRoll
<1> QED BY <1>1, AccountsHold, BufferKept, PTL DEF Spec

\* What is handed over ends with the latest frame and has neither gap nor repetition.
THEOREM ContiguousAlways == Spec => []Contiguous
PROOF BY BufferHolds, PTL DEF BufferInv

\* Two utterances in close succession share less than the pre-roll.
THEOREM RepeatsLessThanPreRollAlways == Spec => []RepeatsLessThanPreRoll
PROOF BY BufferHolds, PTL DEF BufferInv

-----------------------------------------------------------------------------
(* The counters and the verdicts. *)

\* The verdicts end in exactly n windows with the verdict v.
EndsIn(v, n) ==
  /\ Run(v, n)
  /\ n < Len(verdicts) => verdicts[Len(verdicts) - n] # v

\* The utterance was begun at frame number window: it holds the pre-roll up to there,
\* and all that followed.
BegunAt(window) ==
  /\ window \in Nat \ {0} /\ window <= received
  /\ Len(utterance_buf) = received - window + (IF window < PreRoll THEN window ELSE PreRoll)

\* The frame at which the first of the last k windows was complete.
WindowsAgo(k) == received - silero_buf - (k - 1) * Accum

\* starting_count stands for k windows of speech, the first of which began the utterance.
SpeechLasts(k) ==
  /\ starting_count = k * Accum /\ starting_count < StartFrames
  /\ EndsIn(TRUE, k)
  /\ BegunAt(WindowsAgo(k))

\* stopping_count stands for k windows of silence.
PauseLasts(k) ==
  /\ stopping_count = k * Accum /\ stopping_count < StopFrames
  /\ EndsIn(FALSE, k)

StartNeeds == Windows(StartFrames)
StopNeeds  == Windows(StopFrames)

CountersAgree ==
  /\ state = "starting" => \E k \in Nat \ {0} : SpeechLasts(k)
  /\ state = "stopping" => \E k \in Nat \ {0} : PauseLasts(k)
  /\ state = "speaking" => Run(TRUE, 1)
  /\ state = "quiet" /\ verdicts # <<>> => Run(FALSE, 1)
  /\ phase = "handing" => Run(FALSE, StopNeeds)
  /\ confirmedAt <= received
  /\ confirmedAt = received /\ turn > 0 /\ silero_buf = 0 => Run(TRUE, StartNeeds)
  /\ InUtterance => BegunAt(confirmedAt - (StartNeeds - 1) * Accum)

\* The smallest number of windows that reaches a threshold.
LEMMA WindowsReach ==
  ASSUME NEW frames \in Nat, Accum < frames
  PROVE  /\ Windows(frames) \in Nat /\ Windows(frames) >= 2
         /\ \A k \in Nat : k * Accum >= frames <=> k >= Windows(frames)
PROOF
<1> USE VadAssumption
<1> DEFINE w == Windows(frames)
<1>1. /\ w \in Nat
      /\ w * Accum <= frames + Accum - 1
      /\ frames + Accum - 1 < w * Accum + Accum
  BY DEF Windows
<1> HIDE DEF w
<1>2. ASSUME NEW k \in Nat, k >= w PROVE k * Accum >= frames
  <2>1. k = w \/ w < k
    BY <1>1, <1>2
  <2>2. w * Accum \in Nat /\ k * Accum \in Nat
    BY <1>1, AskProduct
  <2>3. w * Accum <= k * Accum
    BY <1>1, <2>1, <2>2, AskProduct
  <2> QED BY <1>1, <2>2, <2>3
<1>3. ASSUME NEW k \in Nat, k < w PROVE k * Accum < frames
  <2>1. k * Accum + Accum <= w * Accum /\ k * Accum \in Nat /\ w * Accum \in Nat
    BY <1>1, <1>3, AskProduct
  <2> QED BY <1>1, <2>1
<1>4. w >= 2
  <2>1. 0 * Accum = 0 /\ 1 * Accum = Accum
    OBVIOUS
  <2>2. w # 0 /\ w # 1
    BY <1>2, <1>1, <2>1
  <2> QED BY <1>1, <2>2
<1>5. \A k \in Nat : k * Accum >= frames <=> k >= w
  <2> TAKE k \in Nat
  <2>1. k * Accum \in Nat
    BY AskProduct
  <2> QED BY <1>1, <1>2, <1>3, <2>1
<1> QED BY <1>1, <1>4, <1>5 DEF w

LEMMA Thresholds ==
  /\ StartNeeds \in Nat /\ StartNeeds >= 2
  /\ \A k \in Nat : k * Accum >= StartFrames <=> k >= StartNeeds
  /\ StopNeeds \in Nat /\ StopNeeds >= 2
  /\ \A k \in Nat : k * Accum >= StopFrames <=> k >= StopNeeds
PROOF BY WindowsReach, VadAssumption DEF StartNeeds, StopNeeds

\* One more verdict.
LEMMA VerdictAppended ==
  ASSUME TypeOK, NEW b \in BOOLEAN, verdicts' = Append(verdicts, b)
  PROVE  /\ Run(b, 1)'
         /\ \A n \in Nat : EndsIn(b, n) => EndsIn(b, n + 1)'
         /\ verdicts = <<>> \/ Run(~b, 1) => EndsIn(b, 1)'
         /\ verdicts' # <<>>
PROOF
<1> USE DEF TypeOK
<1>1. /\ Len(verdicts') = Len(verdicts) + 1 /\ Len(verdicts) \in Nat
      /\ verdicts'[Len(verdicts) + 1] = b
      /\ \A i \in 1..Len(verdicts) : verdicts'[i] = verdicts[i]
  OBVIOUS
<1>2. Run(b, 1)'
  BY <1>1 DEF Run
<1>3. ASSUME NEW n \in Nat, EndsIn(b, n) PROVE EndsIn(b, n + 1)'
  <2>1. n <= Len(verdicts) /\ \A i \in Len(verdicts) - n + 1 .. Len(verdicts) : verdicts[i] = b
    BY <1>3 DEF EndsIn, Run
  <2>2. Run(b, n + 1)'
    BY <1>1, <2>1 DEF Run
  <2>3. n + 1 < Len(verdicts') => verdicts'[Len(verdicts') - (n + 1)] # b
    BY <1>1, <1>3 DEF EndsIn
  <2> QED BY <2>2, <2>3 DEF EndsIn
<1>4. ASSUME verdicts = <<>> \/ Run(~b, 1) PROVE EndsIn(b, 1)'
  <2>1. 1 < Len(verdicts') => Len(verdicts) >= 1 /\ verdicts'[Len(verdicts') - 1] = verdicts[Len(verdicts)]
    BY <1>1
  <2>2. Len(verdicts) >= 1 => verdicts[Len(verdicts)] = ~b
    BY <1>1, <1>4 DEF Run
  <2> QED BY <1>2, <2>1, <2>2 DEF EndsIn
<1>5. verdicts' # <<>>
  BY <1>1
<1> QED BY <1>2, <1>3, <1>4, <1>5

\* One more frame in the buffer.
LEMMA FrameKept ==
  ASSUME TypeOK, NEW window \in Int, BegunAt(window), received' = received + 1,
         utterance_buf' = Append(utterance_buf, received')
  PROVE  BegunAt(window)'
PROOF
<1>1. Len(utterance_buf) \in Nat /\ Len(utterance_buf') = Len(utterance_buf) + 1
  BY DEF TypeOK
<1>2. window \in Nat \ {0} /\ window <= received' /\ received' = received + 1 /\ received \in Nat
  BY DEF TypeOK, BegunAt
<1>3. Len(utterance_buf) = received - window + (IF window < PreRoll THEN window ELSE PreRoll)
  BY DEF BegunAt
<1>4. Len(utterance_buf') = received' - window + (IF window < PreRoll THEN window ELSE PreRoll)
  BY <1>1, <1>2, <1>3, VadAssumption
<1> QED BY <1>2, <1>4 DEF BegunAt

\* One more window, or one more frame of it.
LEMMA WindowsAgoKept ==
  ASSUME TypeOK, NEW k \in Nat \ {0}, received' = received + 1
  PROVE  /\ WindowsAgo(k) \in Int
         /\ silero_buf' = silero_buf + 1 => WindowsAgo(k)' = WindowsAgo(k)
         /\ silero_buf' = 0 /\ silero_buf + 1 >= Accum => WindowsAgo(k + 1)' = WindowsAgo(k)
PROOF
<1> USE VadAssumption DEF TypeOK
<1> DEFINE before == (k - 1) * Accum
<1>1. before \in Nat /\ k * Accum = before + Accum
  <2>1. k - 1 \in Nat /\ (k - 1) + 1 = k
    OBVIOUS
  <2> QED BY <2>1, AskProduct
<1>2. /\ WindowsAgo(k) = received - silero_buf - before
      /\ WindowsAgo(k)' = received' - silero_buf' - before
      /\ WindowsAgo(k + 1)' = received' - silero_buf' - k * Accum
  BY DEF WindowsAgo
<1> HIDE DEF before
<1> QED BY <1>1, <1>2

\* A frame that brings no confirmation comes after the last one.
LEMMA LaterThanConfirmed ==
  ASSUME TypeOK, CountersAgree, received' = received + 1, confirmedAt' = confirmedAt
  PROVE  confirmedAt' <= received' /\ confirmedAt' # received'
PROOF BY DEF TypeOK, CountersAgree

\* A step that takes one frame and keeps it, but is no confirmation.
LEMMA FrameOfUtterance ==
  ASSUME TypeOK, CountersAgree, InUtterance, received' = received + 1,
         utterance_buf' = Append(utterance_buf, received'), confirmedAt' = confirmedAt
  PROVE  BegunAt(confirmedAt - (StartNeeds - 1) * Accum)'
PROOF
<1>1. PICK w \in Int : w = confirmedAt - (StartNeeds - 1) * Accum
  BY Thresholds, VadAssumption DEF TypeOK
<1>2. BegunAt(w)'
  BY <1>1, FrameKept DEF CountersAgree
<1>3. (confirmedAt - (StartNeeds - 1) * Accum)' = w
  BY <1>1 DEF StartNeeds, Windows
<1> QED BY <1>2, <1>3 DEF BegunAt

\* A frame before the window is full.
LEMMA CountersKeptByBuffer == TypeOK /\ Accounts /\ CountersAgree /\ Buffer => CountersAgree'
PROOF
<1> SUFFICES ASSUME TypeOK, Accounts, CountersAgree, Buffer PROVE CountersAgree'
  OBVIOUS
<1>1. /\ phase = "running" /\ phase' = phase /\ state' = state
      /\ received' = received + 1 /\ silero_buf' = silero_buf + 1
      /\ starting_count' = starting_count /\ stopping_count' = stopping_count
      /\ verdicts' = verdicts /\ confirmedAt' = confirmedAt
      /\ state # "quiet" => utterance_buf' = Append(utterance_buf, received')
  BY DEF Buffer, Receive, Collected
<1>2. ASSUME state = "starting" PROVE \E k \in Nat \ {0} : SpeechLasts(k)'
  <2>1. PICK k \in Nat \ {0} : SpeechLasts(k)
    BY <1>2 DEF CountersAgree
  <2>2. PICK w \in Int : w = WindowsAgo(k)
    BY <1>1, WindowsAgoKept
  <2>3. BegunAt(w)' /\ WindowsAgo(k)' = w
    BY <1>1, <1>2, <2>1, <2>2, FrameKept, WindowsAgoKept DEF SpeechLasts
  <2>4. BegunAt(WindowsAgo(k))'
    BY <2>3 DEF BegunAt
  <2>5. EndsIn(TRUE, k)'
    BY <1>1, <2>1 DEF SpeechLasts, EndsIn, Run
  <2> QED BY <1>1, <2>1, <2>4, <2>5 DEF SpeechLasts
<1>3. ASSUME state = "stopping" PROVE \E k \in Nat \ {0} : PauseLasts(k)'
  BY <1>1, <1>3 DEF CountersAgree, PauseLasts, EndsIn, Run
<1>4. /\ state' = "speaking" => Run(TRUE, 1)'
      /\ state' = "quiet" /\ verdicts' # <<>> => Run(FALSE, 1)'
  BY <1>1 DEF CountersAgree, Run
<1>5. InUtterance' => BegunAt(confirmedAt - (StartNeeds - 1) * Accum)'
  BY <1>1, FrameOfUtterance DEF InUtterance
<1> QED BY <1>1, <1>2, <1>3, <1>4, <1>5, LaterThanConfirmed DEF CountersAgree

\* A window of speech.
LEMMA CountersKeptBySpeech == TypeOK /\ Accounts /\ CountersAgree /\ Speech => CountersAgree'
PROOF
<1> SUFFICES ASSUME TypeOK, Accounts, CountersAgree, Speech PROVE CountersAgree'
  OBVIOUS
<1>1. /\ phase = "running" /\ phase' = phase
      /\ received' = received + 1 /\ silero_buf' = 0 /\ silero_buf + 1 >= Accum
      /\ verdicts' = Append(verdicts, TRUE)
  BY DEF Speech, BeginStarting, KeepStarting, ConfirmSpeech, StillSpeaking, ResumeSpeaking,
         Evaluate, Receive
<1>2. /\ Run(TRUE, 1)' /\ verdicts' # <<>>
      /\ \A n \in Nat : EndsIn(TRUE, n) => EndsIn(TRUE, n + 1)'
      /\ verdicts = <<>> \/ Run(FALSE, 1) => EndsIn(TRUE, 1)'
  BY <1>1, VerdictAppended
<1>3. CASE BeginStarting
  <2>1. /\ state = "quiet" /\ state' = "starting" /\ starting_count' = Accum
        /\ confirmedAt' = confirmedAt /\ utterance_buf' = PreRollHistory
    BY <1>3 DEF BeginStarting
  <2>2. Len(utterance_buf') = IF received' < PreRoll THEN received' ELSE PreRoll
    BY <1>1, <2>1, VadAssumption DEF PreRollHistory, TypeOK
  <2>3. WindowsAgo(1)' = received'
    BY <1>1, VadAssumption DEF WindowsAgo, TypeOK
  <2>4. BegunAt(WindowsAgo(1))'
    BY <1>1, <2>2, <2>3, VadAssumption DEF BegunAt, TypeOK
  <2>5. EndsIn(TRUE, 1)'
    BY <1>2, <2>1 DEF CountersAgree
  <2>6. Accum = 1 * Accum
    BY VadAssumption
  <2>7. SpeechLasts(1)'
    BY <2>1, <2>4, <2>5, <2>6, VadAssumption DEF SpeechLasts
  <2>8. \E k \in Nat \ {0} : SpeechLasts(k)'
    BY <2>7
  <2> QED BY <1>1, <2>1, <2>8, LaterThanConfirmed DEF CountersAgree, InUtterance
<1>4. CASE KeepStarting \/ ConfirmSpeech
  <2>1. /\ state = "starting" /\ starting_count' = starting_count + Accum
        /\ utterance_buf' = Append(utterance_buf, received')
    BY <1>4 DEF KeepStarting, ConfirmSpeech, Collected
  <2>2. PICK k \in Nat \ {0} : SpeechLasts(k)
    BY <2>1 DEF CountersAgree
  <2>3. PICK w \in Int : w = WindowsAgo(k)
    BY <1>1, WindowsAgoKept
  <2>4. BegunAt(w)' /\ WindowsAgo(k + 1)' = w
    BY <1>1, <2>1, <2>2, <2>3, FrameKept, WindowsAgoKept DEF SpeechLasts
  <2>5. EndsIn(TRUE, k + 1)'
    BY <1>2, <2>2 DEF SpeechLasts
  <2>6. /\ starting_count = k * Accum /\ starting_count < StartFrames
        /\ starting_count' = (k + 1) * Accum
    BY <2>1, <2>2, AskProduct DEF SpeechLasts
  <2>7. CASE KeepStarting
    <3>1. state' = "starting" /\ starting_count' < StartFrames /\ confirmedAt' = confirmedAt
      BY <2>7 DEF KeepStarting
    <3>2. BegunAt(WindowsAgo(k + 1))'
      BY <2>4 DEF BegunAt
    <3>3. SpeechLasts(k + 1)'
      BY <2>5, <2>6, <3>1, <3>2 DEF SpeechLasts
    <3>4. \E n \in Nat \ {0} : SpeechLasts(n)'
      BY <3>3
    <3> QED BY <1>1, <3>1, <3>4, LaterThanConfirmed DEF CountersAgree, InUtterance
  <2>8. CASE ConfirmSpeech
    <3>1. /\ state' = "speaking" /\ starting_count' >= StartFrames /\ confirmedAt' = received'
      BY <2>8 DEF ConfirmSpeech
    <3>2. k + 1 = StartNeeds
      BY <2>6, <3>1, Thresholds, VadAssumption
    <3>3. Run(TRUE, StartNeeds)'
      BY <2>5, <3>2 DEF EndsIn, StartNeeds, Windows, Run
    <3>4. (confirmedAt - (StartNeeds - 1) * Accum)' = w
      <4>1. (confirmedAt - (StartNeeds - 1) * Accum)' = confirmedAt' - (StartNeeds - 1) * Accum
        BY DEF StartNeeds, Windows
      <4>2. w = received' - 0 - (StartNeeds - 1) * Accum
        BY <1>1, <2>4, <3>2 DEF WindowsAgo
      <4>3. received' - 0 = received'
        BY <1>1 DEF TypeOK
      <4> QED BY <3>1, <4>1, <4>2, <4>3
    <3>5. BegunAt(confirmedAt - (StartNeeds - 1) * Accum)'
      BY <2>4, <3>4 DEF BegunAt
    <3>6. confirmedAt' <= received'
      BY <1>1, <3>1 DEF TypeOK
    <3> QED BY <1>1, <1>2, <3>1, <3>3, <3>5, <3>6 DEF CountersAgree
  <2> QED BY <1>4, <2>7, <2>8
<1>5. CASE StillSpeaking \/ ResumeSpeaking
  <2>1. /\ state' = "speaking" /\ InUtterance /\ confirmedAt' = confirmedAt
        /\ utterance_buf' = Append(utterance_buf, received')
    BY <1>5 DEF StillSpeaking, ResumeSpeaking, Collected, InUtterance
  <2>2. BegunAt(confirmedAt - (StartNeeds - 1) * Accum)'
    BY <1>1, <2>1, FrameOfUtterance
  <2> QED BY <1>1, <1>2, <2>1, <2>2, LaterThanConfirmed DEF CountersAgree
<1> QED BY <1>3, <1>4, <1>5 DEF Speech

\* A window without speech.
LEMMA CountersKeptBySilence == TypeOK /\ Accounts /\ CountersAgree /\ Silence => CountersAgree'
PROOF
<1> SUFFICES ASSUME TypeOK, Accounts, CountersAgree, Silence PROVE CountersAgree'
  OBVIOUS
<1>1. /\ phase = "running"
      /\ received' = received + 1 /\ confirmedAt' = confirmedAt
      /\ verdicts' = Append(verdicts, FALSE)
  BY DEF Silence, StayQuiet, AskUserStillThere, HardStop, QuietWindow, FalseStart, BeginStopping,
         KeepStopping, EndUtterance, Evaluate, Receive
<1>2. /\ Run(FALSE, 1)' /\ verdicts' # <<>>
      /\ \A n \in Nat : EndsIn(FALSE, n) => EndsIn(FALSE, n + 1)'
      /\ Run(TRUE, 1) => EndsIn(FALSE, 1)'
  BY <1>1, VerdictAppended
<1>3. CASE StayQuiet \/ AskUserStillThere \/ HardStop \/ FalseStart
  <2>1. state' = "quiet" /\ phase' \in {"running", "ended"}
    BY <1>1, <1>3 DEF StayQuiet, AskUserStillThere, HardStop, QuietWindow, FalseStart
  <2> QED BY <1>1, <1>2, <2>1, LaterThanConfirmed DEF CountersAgree, InUtterance
<1>4. CASE BeginStopping \/ KeepStopping \/ EndUtterance
  <2>1. InUtterance /\ utterance_buf' = Append(utterance_buf, received')
    BY <1>4 DEF BeginStopping, KeepStopping, EndUtterance, Collected, InUtterance
  <2>2. BegunAt(confirmedAt - (StartNeeds - 1) * Accum)'
    BY <1>1, <2>1, FrameOfUtterance
  <2>3. CASE BeginStopping
    <3>1. /\ state = "speaking" /\ state' = "stopping" /\ stopping_count' = Accum /\ phase' = phase
      BY <2>3 DEF BeginStopping
    <3>2. EndsIn(FALSE, 1)'
      BY <1>2, <3>1 DEF CountersAgree
    <3>3. Accum = 1 * Accum
      BY VadAssumption
    <3>4. PauseLasts(1)'
      BY <3>1, <3>2, <3>3, VadAssumption DEF PauseLasts
    <3>5. \E k \in Nat \ {0} : PauseLasts(k)'
      BY <3>4
    <3> QED BY <1>1, <2>2, <3>1, <3>5, LaterThanConfirmed DEF CountersAgree
  <2>4. CASE KeepStopping \/ EndUtterance
    <3>1. (state = "stopping" /\ stopping_count' = stopping_count + Accum) \/ EndUtterance
      BY <2>4 DEF KeepStopping
    <3>2. PICK k \in Nat \ {0} : PauseLasts(k)
      BY <2>4 DEF KeepStopping, EndUtterance, CountersAgree
    <3>3. EndsIn(FALSE, k + 1)' /\ stopping_count + Accum = (k + 1) * Accum
      BY <1>2, <3>2, AskProduct DEF PauseLasts
    <3>4. CASE KeepStopping
      <4>1. /\ state' = "stopping" /\ stopping_count' < StopFrames /\ phase' = phase
            /\ stopping_count' = stopping_count + Accum
        BY <3>4 DEF KeepStopping
      <4>2. PauseLasts(k + 1)'
        BY <3>3, <4>1 DEF PauseLasts
      <4>3. \E n \in Nat \ {0} : PauseLasts(n)'
        BY <4>2
      <4> QED BY <1>1, <2>2, <4>1, <4>3, LaterThanConfirmed DEF CountersAgree
    <3>5. CASE EndUtterance
      <4>1. state' = "quiet" /\ phase' = "handing" /\ stopping_count + Accum >= StopFrames
        BY <3>5 DEF EndUtterance
      <4>2. stopping_count = k * Accum /\ stopping_count < StopFrames
        BY <3>2 DEF PauseLasts
      <4>3. k + 1 = StopNeeds
        BY <3>3, <4>1, <4>2, Thresholds, VadAssumption
      <4>4. Run(FALSE, StopNeeds)'
        BY <3>3, <4>3 DEF EndsIn, StopNeeds, Windows, Run
      <4> QED BY <1>1, <1>2, <2>2, <4>1, <4>4, LaterThanConfirmed DEF CountersAgree
    <3> QED BY <2>4, <3>4, <3>5
  <2> QED BY <1>4, <2>3, <2>4
<1> QED BY <1>3, <1>4 DEF Silence

\* The steps that take no frame.
LEMMA CountersKeptElse ==
  TypeOK /\ Accounts /\ CountersAgree /\ (HandOver \/ TrackEnds \/ Taken \/ UNCHANGED vars)
    => CountersAgree'
PROOF
<1> SUFFICES ASSUME TypeOK, Accounts, CountersAgree, HandOver \/ TrackEnds \/ Taken \/ UNCHANGED vars
             PROVE  CountersAgree'
  OBVIOUS
<1>1. /\ state' = state /\ received' = received /\ silero_buf' = silero_buf
      /\ verdicts' = verdicts /\ confirmedAt' = confirmedAt /\ turn' = turn
  BY DEF HandOver, TrackEnds, Taken
<1>2. \A v \in BOOLEAN, n \in Nat : Run(v, n) => Run(v, n)'
  BY <1>1 DEF Run
<1>3. /\ state = "speaking" => Run(TRUE, 1)'
      /\ state = "quiet" /\ verdicts # <<>> => Run(FALSE, 1)'
      /\ confirmedAt = received /\ turn > 0 /\ silero_buf = 0 => Run(TRUE, StartNeeds)'
  BY <1>2, Thresholds DEF CountersAgree, StartNeeds, Windows
<1>4. CASE HandOver
  <2>1. state = "quiet" /\ phase' = "running"
    BY <1>4 DEF HandOver, Accounts
  <2> QED BY <1>1, <1>3, <2>1 DEF CountersAgree, InUtterance
<1>5. CASE TrackEnds \/ Taken \/ UNCHANGED vars
  <2>1. /\ utterance_buf' = utterance_buf /\ phase' \in {phase, "ended"}
        /\ starting_count' = starting_count /\ stopping_count' = stopping_count
    BY <1>5 DEF TrackEnds, Taken
  <2>2. ASSUME state = "starting" PROVE \E k \in Nat \ {0} : SpeechLasts(k)'
    <3>1. PICK k \in Nat \ {0} : SpeechLasts(k)
      BY <2>2 DEF CountersAgree
    <3> QED BY <1>1, <2>1, <3>1 DEF SpeechLasts, EndsIn, Run, BegunAt, WindowsAgo
  <2>3. ASSUME state = "stopping" PROVE \E k \in Nat \ {0} : PauseLasts(k)'
    <3>1. PICK k \in Nat \ {0} : PauseLasts(k)
      BY <2>3 DEF CountersAgree
    <3> QED BY <1>1, <2>1, <3>1 DEF PauseLasts, EndsIn, Run
  <2>4. phase' = "handing" => Run(FALSE, StopNeeds)'
    BY <1>2, <2>1, Thresholds DEF CountersAgree, StopNeeds, Windows
  <2>5. InUtterance' => BegunAt(confirmedAt - (StartNeeds - 1) * Accum)'
    BY <1>1, <2>1 DEF CountersAgree, InUtterance, BegunAt, StartNeeds, Windows
  <2> QED BY <1>1, <1>3, <2>2, <2>3, <2>4, <2>5 DEF CountersAgree
<1> QED BY <1>4, <1>5

LEMMA CountersHold == Spec => [](TypeOK /\ CountersAgree)
PROOF
<1>1. Init => CountersAgree
  BY DEF Init, CountersAgree, InUtterance
<1>2. TypeOK /\ Accounts /\ CountersAgree /\ [Next]_vars => CountersAgree'
  BY CountersKeptByBuffer, CountersKeptBySpeech, CountersKeptBySilence, CountersKeptElse DEF Next
<1> QED BY <1>1, <1>2, AccountsHold, PTL DEF Spec

\* Speech is confirmed after exactly the windows that make START_FRAMES, an utterance ended
\* after exactly those that make STOP_FRAMES, neither earlier nor later (steps.py:171, 202).
THEOREM SpeechIsDecidedAlways == Spec => []SpeechIsDecided
PROOF
<1>1. TypeOK /\ CountersAgree => SpeechIsDecided
  <2> SUFFICES ASSUME TypeOK, CountersAgree PROVE SpeechIsDecided
    OBVIOUS
  <2> USE DEF TypeOK
  <2>1. ASSUME NEW v \in BOOLEAN, NEW k \in Nat, NEW n \in Nat, EndsIn(v, k), k < n
        PROVE  ~Run(v, n)
    BY <2>1 DEF EndsIn, Run
  <2>2. ASSUME state = "starting" PROVE ~Run(TRUE, StartNeeds)
    <3>1. PICK k \in Nat \ {0} : SpeechLasts(k)
      BY <2>2 DEF CountersAgree
    <3>2. k < StartNeeds
      BY <3>1, Thresholds, VadAssumption DEF SpeechLasts
    <3> QED BY <2>1, <3>1, <3>2, Thresholds DEF SpeechLasts
  <2>3. ASSUME state = "stopping" PROVE ~Run(FALSE, StopNeeds)
    <3>1. PICK k \in Nat \ {0} : PauseLasts(k)
      BY <2>3 DEF CountersAgree
    <3>2. k < StopNeeds
      BY <3>1, Thresholds, VadAssumption DEF PauseLasts
    <3> QED BY <2>1, <3>1, <3>2, Thresholds DEF PauseLasts
  <2>4. ASSUME state = "speaking" PROVE ~Run(FALSE, StopNeeds)
    <3>1. Len(verdicts) \in Nat /\ Len(verdicts) >= 1 /\ verdicts[Len(verdicts)] = TRUE
      BY <2>4 DEF CountersAgree, Run
    <3> QED BY <3>1, Thresholds DEF Run
  <2> QED BY <2>2, <2>3, <2>4 DEF CountersAgree, SpeechIsDecided, StartNeeds, StopNeeds
<1> QED BY <1>1, CountersHold, PTL

\* The buffer of an utterance holds the pre-roll before the first window of its speech, and
\* every frame since, in order and each once (steps.py:144-184).
THEOREM UtteranceIsWholeAlways == Spec => []UtteranceIsWhole
PROOF
<1>1. TypeOK /\ CountersAgree /\ BufferInv => UtteranceIsWhole
  <2> SUFFICES ASSUME TypeOK, CountersAgree, BufferInv, InUtterance PROVE UtteranceIsWhole
    BY DEF UtteranceIsWhole
  <2> DEFINE window == confirmedAt - (StartNeeds - 1) * Accum
             first  == IF window > PreRoll THEN window - PreRoll + 1 ELSE 1
  <2>1. BegunAt(window)
    BY DEF CountersAgree
  <2>2. window \in Nat \ {0} /\ window <= received /\ received \in Nat
        /\ Len(utterance_buf) = received - window + (IF window < PreRoll THEN window ELSE PreRoll)
    BY <2>1 DEF BegunAt, TypeOK
  <2> HIDE DEF window
  <2>3. first \in Nat /\ Len(utterance_buf) = received - first + 1
    BY <2>2, VadAssumption
  <2>4. DOMAIN utterance_buf = 1..(received - first + 1)
    BY <2>3 DEF TypeOK
  <2>5. \A i \in 1..(received - first + 1) : utterance_buf[i] = first + i - 1
    <3> SUFFICES ASSUME NEW i \in 1..(received - first + 1) PROVE utterance_buf[i] = first + i - 1
      OBVIOUS
    <3>1. utterance_buf[i] = received - Len(utterance_buf) + i
      BY <2>4 DEF BufferInv, Contiguous
    <3> HIDE DEF first
    <3> QED BY <2>2, <2>3, <3>1
  <2>6. utterance_buf = [i \in 1..(received - first + 1) |-> first + i - 1]
    BY <2>4, <2>5 DEF TypeOK
  <2> QED BY <2>6 DEF UtteranceIsWhole, window, StartNeeds
<1> QED BY <1>1, CountersHold, BufferHolds, PTL

-----------------------------------------------------------------------------
(* vad_gate implements SpeechSignals. *)

LEMMA MapsInit == Init => Signals!SignalsInit
PROOF BY DEF Init, Signals!SignalsInit, mode, NoItem, Signals!NoItem, Signals!Item

\* Steps between two yields.
LEMMA SilentSteps ==
  TypeOK /\ (Buffer \/ BeginStarting \/ KeepStarting \/ StillSpeaking \/ ResumeSpeaking \/ StayQuiet
               \/ FalseStart \/ BeginStopping \/ KeepStopping \/ UNCHANGED vars)
    => UNCHANGED Signals!signalVars
PROOF
<1> USE DEF TypeOK, Signals!signalVars, mode, Evaluate, Receive
<1>1. Buffer \/ UNCHANGED vars => UNCHANGED Signals!signalVars
  BY DEF Buffer
<1>2. TypeOK /\ (BeginStarting \/ KeepStarting \/ StillSpeaking) => UNCHANGED Signals!signalVars
  BY DEF BeginStarting, KeepStarting, StillSpeaking
<1>3. TypeOK /\ (ResumeSpeaking \/ BeginStopping \/ KeepStopping) => UNCHANGED Signals!signalVars
  BY DEF ResumeSpeaking, BeginStopping, KeepStopping
<1>4. TypeOK /\ (StayQuiet \/ FalseStart) => UNCHANGED Signals!signalVars
  BY DEF StayQuiet, QuietWindow, FalseStart
<1> QED BY <1>1, <1>2, <1>3, <1>4

\* Every yield is one of the signals' steps.
LEMMA YieldsMap ==
  ASSUME TypeOK, Accounts
  PROVE  /\ ConfirmSpeech => Signals!StartSpeaking
         /\ EndUtterance => Signals!EndSpeaking
         /\ HandOver => Signals!HandOver
         /\ AskUserStillThere => Signals!AskUser
         /\ HardStop => Signals!HangUp
         /\ TrackEnds => Signals!TrackEnds
         /\ Taken => Signals!Taken
PROOF
<1> USE VadAssumption
    DEF TypeOK, Accounts, mode, Evaluate, Receive, Yield, Signals!Yield, Signals!Item, NoItem, Signals!NoItem
<1>1. ConfirmSpeech => Signals!StartSpeaking
  BY SMTT(30) DEF ConfirmSpeech, Signals!StartSpeaking
<1>2. EndUtterance => Signals!EndSpeaking
  BY DEF EndUtterance, Signals!EndSpeaking
<1>3. HandOver => Signals!HandOver
  BY DEF HandOver, Signals!HandOver
<1>4. AskUserStillThere => Signals!AskUser
  BY DEF AskUserStillThere, QuietWindow, Signals!AskUser
<1>5. HardStop => Signals!HangUp
  BY AskedBeforeHardStop DEF HardStop, QuietWindow, Signals!HangUp
<1>6. TrackEnds => Signals!TrackEnds
  BY DEF TrackEnds, Signals!TrackEnds
<1>7. Taken => Signals!Taken
  BY DEF Taken, Signals!Taken
<1> QED BY <1>1, <1>2, <1>3, <1>4, <1>5, <1>6, <1>7

\* Utterances come between their StartSpeaking and the next, the hang-up after the question.
THEOREM GateImplementsSignals == Spec => ImplementsSignals
PROOF
<1>1. TypeOK /\ Accounts /\ [Next]_vars => [Signals!Speak \/ Signals!Taken]_(Signals!signalVars)
  <2> SUFFICES ASSUME TypeOK, Accounts, [Next]_vars
               PROVE  Signals!Speak \/ Signals!Taken \/ UNCHANGED Signals!signalVars
    OBVIOUS
  <2> QED BY YieldsMap, SilentSteps DEF Next, Speech, Silence, Signals!Speak
<1> QED BY <1>1, MapsInit, AccountsHold, PTL DEF Spec, ImplementsSignals, Signals!SignalsSpec

=============================================================================
