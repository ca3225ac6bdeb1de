---------------------------- MODULE SpeechOutput ----------------------------
(***************************************************************************)
(* From a phrase to what the caller hears: tts_worker and the end of the   *)
(* tts stage in src/workflows/steps.py, call_tts_stream in                 *)
(* utils/text_to_speech.py and AudioOutputTrack in audio_track.py.  Audio  *)
(* is counted in pieces of 10 ms, the size the track works with.           *)
(* VoicePipeline says which turn a phrase belongs to; here it is which     *)
(* part of which phrase gets where.                                        *)
(***************************************************************************)
EXTENDS Integers, Sequences, SequencesExt

CONSTANTS
  FrameParts,  \* pieces of 10 ms in a frame of call_tts_stream: 2
  Pause,       \* silent pieces after a phrase: 20
  TrackRoom,   \* maxsize of the track's queue: 100
  PurgedRoom,  \* maxsize after a purge: 50
  MaxAudio     \* bound: pieces of audio the service sends, over all phrases

ASSUME SpeechAssumption ==
  /\ {FrameParts, TrackRoom, PurgedRoom} \subseteq Nat \ {0}
  /\ Pause \in Nat /\ MaxAudio \in Nat

VARIABLES
  phrases,   \* history: all phrases tts was given, each the words it consists of
  received,  \* history: how much audio of each phrase arrived
  complete,  \* history: the phrases that came to their end with a part of a frame
  heard,     \* history: the audio the track handed out, without the silence
  cutOff,    \* history: the caller has interrupted
  tts_queue, \* the phrases waiting, by their number in phrases
  taken,     \* the phrase tts_worker took last
  voice,     \* tts_worker: "idle", "stream" (waits for audio), "rest" (pushes the
             \* last of a phrase), "ended"
  pieces,    \* what it has still to push
  track,     \* the track's queue
  room       \* the maxsize of that queue

speechVars == <<phrases, received, complete, heard, cutOff, tts_queue, taken, voice,
                pieces, track, room>>

SpeechInit ==
  /\ phrases = <<>> /\ received = <<>> /\ complete = {}
  /\ heard = <<>> /\ cutOff = FALSE
  /\ tts_queue = <<>> /\ taken = 0 /\ voice = "idle"
  /\ pieces = <<>> /\ track = <<>> /\ room = TrackRoom

\* s without its elements in S.
Without(s, S) == FlattenSeq([i \in DOMAIN s |-> IF s[i] \in S THEN <<>> ELSE <<s[i]>>])

\* A piece is the phrase and the part of it; silence is no part of a phrase.
Part(p, k)  == <<p, k>>
Silence(n)  == [i \in 1..n |-> Part(0, 0)]
Audible(s)  == Without(s, {Part(0, 0)})
Parts(p, a, b) == [i \in 1..(b - a) |-> Part(p, a + i)]

-----------------------------------------------------------------------------
\* A phrase is the words of the model's reply it consists of, by their positions, or
\* one of the program's own.
OwnPhrase == <<0>>
Goodbye   == <<0, 0>>

\* The tts stage is given something to say.
Say(words) ==
  /\ phrases'   = Append(phrases, words)
  /\ received'  = Append(received, 0)
  /\ tts_queue' = Append(tts_queue, Len(phrases) + 1)

\* The queue of the track is replaced by a smaller one.
KeepTrack == UNCHANGED track /\ room' = PurgedRoom \* mutant: the items move to the new queue
Purge == track' = <<>> /\ room' = PurgedRoom

\* ... or is interrupted: the queue is cleared, the worker cancelled and started again and
\* the track purged.
Hush ==
  /\ tts_queue' = <<>> /\ voice' = "idle" /\ pieces' = <<>>
  /\ Purge
  /\ cutOff' = TRUE

\* EndOfStream: the goodbye is queued and the worker cancelled before it can take it.
Farewell ==
  /\ Say(Goodbye)
  /\ voice' = "ended" /\ pieces' = <<>>
  /\ UNCHANGED <<track, room>>
  /\ cutOff' = TRUE

-----------------------------------------------------------------------------
\* tts_worker with call_tts_stream.

Worker == UNCHANGED <<phrases, heard, cutOff, room>>

TakePhrase ==
  /\ voice = "idle" /\ tts_queue # <<>>
  /\ taken' = Head(tts_queue) /\ tts_queue' = Tail(tts_queue)
  /\ voice' = "stream"
  /\ UNCHANGED <<received, complete, pieces, track>>
  /\ Worker

\* What is in the buffer of call_tts_stream: all but the whole frames.
Whole(n) == n - (n % FrameParts)
Buffered == received[taken] % FrameParts

Waiting == voice = "stream" /\ pieces = <<>>

\* The service sends however much it likes; push_pcm_bytes cuts the frames into pieces.
ReceiveChunk ==
  /\ Waiting
  /\ \E n \in 1..MaxAudio :
       /\ FoldSeq(+, 0, received) + n <= MaxAudio
       /\ received' = [received EXCEPT ![taken] = @ + n]
       /\ pieces' = Parts(taken, Whole(received[taken]), Whole(received[taken] + n))
  /\ UNCHANGED <<complete, tts_queue, taken, voice, track>>
  /\ Worker

\* What is left when the response ends, filled up to a frame.
NoFinalFlush == <<>> \* mutant
LastFrame ==
  IF Buffered = 0 THEN <<>>
  ELSE Parts(taken, Whole(received[taken]), received[taken]) \o Silence(FrameParts - Buffered)

ResponseEnds ==
  /\ Waiting
  /\ pieces' = LastFrame \o (IF received[taken] > 0 THEN Silence(Pause) ELSE <<>>)
  /\ complete' = IF Buffered = 0 THEN complete ELSE complete \cup {taken}
  /\ voice' = IF pieces' = <<>> THEN "idle" ELSE "rest"
  /\ UNCHANGED <<received, tts_queue, taken, track>>
  /\ Worker

\* The call raises: the error is logged, what is in the buffer is lost.
SynthesisFails ==
  /\ Waiting
  /\ voice' = "idle"
  /\ UNCHANGED <<received, complete, tts_queue, taken, pieces, track>>
  /\ Worker

\* Queue.put waits while the queue is full.
PushPiece ==
  /\ pieces # <<>> /\ Len(track) < room
  /\ track' = Append(track, Head(pieces))
  /\ pieces' = Tail(pieces)
  /\ voice' = IF voice = "rest" /\ Len(pieces) = 1 THEN "idle" ELSE voice
  /\ UNCHANGED <<received, complete, tts_queue, taken>>
  /\ Worker

\* AudioOutputTrack.recv; with nothing queued it hands out silence.
Recv ==
  /\ track # <<>>
  /\ track' = Tail(track)
  /\ heard' = heard \o Audible(<<Head(track)>>)
  /\ UNCHANGED <<phrases, received, complete, cutOff, tts_queue, taken, voice, pieces, room>>

SpeechStep ==
  \/ TakePhrase \/ ReceiveChunk \/ ResponseEnds \/ SynthesisFails \/ PushPiece \/ Recv

-----------------------------------------------------------------------------
SpeechTypeOK ==
  /\ Len(received) = Len(phrases) /\ FoldSeq(+, 0, received) <= MaxAudio
  /\ taken \in 0..Len(phrases)
  /\ voice \in {"idle", "stream", "rest", "ended"}
  /\ room \in {TrackRoom, PurgedRoom} /\ Len(track) <= TrackRoom

\* Phrase by phrase, what the caller is to hear of it: the whole frames, and what is
\* left behind them unless the response broke off.
Due == FlattenSeq([p \in DOMAIN phrases |->
         Parts(p, 0, IF p \in complete THEN received[p] ELSE Whole(received[p]))])

\* Through chunks of any size, frames of 20 ms and pieces of 10 ms, padding, a full queue
\* and failing calls, no audio is lost, repeated or put out of order between the service
\* and the caller.  A call that is hung up keeps what is in the track, an interruption
\* leaves nothing of it to be heard
\* (text_to_speech.py:121-141, audio_track.py:44-88, steps.py:709-733, 755-770).
HungUp == voice = "ended"
SpeechIsExact ==
  /\ ~cutOff => heard \o Audible(track \o pieces) = Due
  /\ cutOff => IsPrefix(heard \o Audible(track), Due)
  /\ cutOff /\ ~HungUp => Audible(track \o pieces) = <<>>
=============================================================================
