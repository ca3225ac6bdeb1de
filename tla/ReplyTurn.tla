------------------------------ MODULE ReplyTurn ------------------------------
(***************************************************************************)
(* One question to the model, from the chunks of its stream to what the    *)
(* caller hears: call_llm_stream_openai in utils/call_llm.py, the worker   *)
(* of llm_stream and its loop in steps.py, InMemoryMemory, execute_tool    *)
(* and EndConversationTool, with SpeechOutput behind them.  VoicePipeline  *)
(* has the same tasks over many questions and knows a sentence only by its *)
(* question; here every token and every delta of a tool call is followed.  *)
(*                                                                         *)
(* Text is a sequence of tokens.  "stop" stands for a token that ends like *)
(* a sentence, "open" and "close" for the two ends of what BAD_PATTERNS    *)
(* removes; white space is left out.  A word is known by its position in   *)
(* the reply.                                                              *)
(***************************************************************************)
EXTENDS SpeechOutput, FiniteSets

CONSTANTS
  None,
  Functions,  \* what a delta of a tool call carries: a tool's name, "" when it has no
              \* function, and a chunk of arguments
  MaxChunks   \* bound: chunks of a reply, its tokens and the deltas of its tool calls

ASSUME ReplyAssumption == MaxChunks \in Nat /\ None \notin {"stop", "tool_calls"}

VARIABLES
  stage,          \* llm_stream: "asked", "over" (waits for the next item), "ended"
  timeout_curr,   \* seconds
  reply,          \* the tokens so far
  flushed,        \* how many of them are behind the worker's buffer
  deltas,         \* history: the deltas so far
  tool_calls_acc, \* the worker's calls, in the order their indices came up
  finish,         \* the finish reason, or None
  worker,         \* "running", "done"
  sentence_queue,
  full_response,  \* words
  history         \* message_history: what each message says

replyVars == <<reply, flushed, deltas, tool_calls_acc, finish, worker>>
loopVars  == <<stage, timeout_curr, full_response, history>>
vars == <<speechVars, replyVars, loopVars, sentence_queue>>

Tokens   == {"word", "stop", "open", "close"}
Question == <<>>

Init ==
  /\ SpeechInit
  /\ stage = "asked" /\ timeout_curr = 2
  /\ reply = <<>> /\ flushed = 0 /\ deltas = <<>> /\ tool_calls_acc = <<>> /\ finish = None
  /\ worker = "running"
  /\ sentence_queue = <<>> /\ full_response = <<>>
  /\ history = <<Question>>

-----------------------------------------------------------------------------
\* Text.

\* What a pattern matches in the positions from a on: from an opening token to the first
\* closing one.
Matched(r, a) ==
  {p \in a..Len(r) : \E o \in a..p, c \in p..Len(r) :
     r[o] = "open" /\ r[c] = "close" /\ \A j \in o..(c - 1) : r[j] # "close"}

\* The words of the buffer ...
Raw(r, a) == [i \in 1..(Len(r) - a + 1) |-> a + i - 1]

\* ... and what is left of them when they are sanitised.
Sanitized(r, a) == Without(Raw(r, a), Matched(r, a))

-----------------------------------------------------------------------------
\* The worker, reading from call_llm_stream_openai, which passes on every chunk at once.

Sentence(words) == [kind |-> "sentence", words |-> words, calls |-> <<>>]
Calls(acc)      == [kind |-> "calls", words |-> <<>>, calls |-> acc]
Signal(k)       == [kind |-> k, words |-> <<>>, calls |-> <<>>]

Sentences(words) == IF words = <<>> THEN <<>> ELSE <<Sentence(words)>>

Streaming ==
  /\ worker = "running" /\ finish = None
  /\ UNCHANGED <<speechVars, loopVars>>

MoreChunks == Len(reply) + Len(deltas) < MaxChunks

\* A sentence is sanitised and queued unless nothing is left of it; in either case the
\* buffer is empty after it.
Token ==
  /\ Streaming /\ MoreChunks
  /\ \E k \in Tokens : reply' = Append(reply, k)
  /\ IF Last(reply') = "stop"
       THEN /\ sentence_queue' = sentence_queue \o Sentences(Sanitized(reply', flushed + 1))
            /\ flushed' = Len(reply')
       ELSE UNCHANGED <<sentence_queue, flushed>>
  /\ UNCHANGED <<deltas, tool_calls_acc, finish, worker>>

\* Where in acc the call of a delta is; one behind the last when its index is new.
FirstSlot(acc, d) == 1 \* mutant: one call at a time
Slot(acc, d) ==
  IF \E i \in DOMAIN acc : acc[i].index = d.index
  THEN CHOOSE i \in DOMAIN acc : acc[i].index = d.index
  ELSE Len(acc) + 1

\* Names and argument chunks are appended, but for the argument "null".
Merge(call, d) ==
  [call EXCEPT !.name = IF d.name = "" THEN @ ELSE Append(@, d.name),
               !.args = IF d.arg \in {"", "null"} THEN @ ELSE Append(@, d.arg)]

Reduce(acc, d) ==
  LET i == Slot(acc, d)
  IN  IF i \in DOMAIN acc THEN [acc EXCEPT ![i] = Merge(@, d)]
      ELSE Append(acc, Merge([index |-> d.index, name |-> <<>>, args |-> <<>>], d))

Delta(i, f) == [index |-> i, name |-> f.name, arg |-> f.arg]

ToolDelta ==
  /\ Streaming /\ MoreChunks
  /\ \E i \in 1..(Len(tool_calls_acc) + 1), f \in Functions :
       /\ deltas' = Append(deltas, Delta(i, f))
       /\ tool_calls_acc' = Reduce(tool_calls_acc, Delta(i, f))
  /\ UNCHANGED <<reply, flushed, finish, worker, sentence_queue>>

\* A later delta of a call has a function without a name: None cannot be added to a string.
NamelessDelta ==
  /\ Streaming
  /\ tool_calls_acc # <<>>
  /\ worker' = "done"
  /\ sentence_queue' = sentence_queue \o <<Signal("error"), Signal("end")>>
  /\ UNCHANGED <<reply, flushed, deltas, tool_calls_acc, finish>>

FinishReason ==
  /\ Streaming
  /\ \/ /\ finish' = "stop"
        /\ UNCHANGED <<sentence_queue, tool_calls_acc>>
     \/ /\ finish' = "tool_calls"
        /\ sentence_queue' = Append(sentence_queue, Calls(tool_calls_acc))
        /\ tool_calls_acc' = <<>>
  /\ UNCHANGED <<reply, flushed, deltas, worker>>

\* What is in the buffer when the stream ends is queued as it is.
NothingLeft == <<>> \* mutant
Remainder == Sentences(Raw(reply, flushed + 1))

\* The stream ends, or fails: call_llm_stream_openai logs the error and ends as well.
StreamEnds ==
  /\ worker = "running"
  /\ worker' = "done"
  /\ sentence_queue' = sentence_queue \o Remainder \o <<Signal("end")>>
  /\ flushed' = Len(reply)
  /\ UNCHANGED <<speechVars, loopVars, reply, deltas, tool_calls_acc, finish>>

-----------------------------------------------------------------------------
\* Tools.

\* EndConversationTool.forward: its argument is "true" by default, and the first half of a
\* JSON text and its second say "true" as well.
Confirmed(args) == args \in {<<>>, <<"head", "tail">>}

\* execute_tool: the registry holds end_conversation; half a JSON text is an error.
HangsUp(call) == call.name = <<"end_conversation">> /\ Confirmed(call.args)

-----------------------------------------------------------------------------
\* The loop of llm_stream over sentence_queue.

Get(kind) ==
  /\ stage = "asked" /\ sentence_queue # <<>>
  /\ Head(sentence_queue).kind = kind
  /\ sentence_queue' = Tail(sentence_queue)
  /\ UNCHANGED <<reply, flushed, deltas, tool_calls_acc, finish>>

Saying(words) ==
  /\ Say(words)
  /\ UNCHANGED <<complete, heard, cutOff, taken, voice, pieces, track, room>>

LastOnly(words) == words \* mutant
Collect(words) == full_response \o words

NextSentence ==
  /\ Get("sentence")
  /\ full_response' = Collect(Head(sentence_queue).words)
  /\ Saying(Head(sentence_queue).words)
  /\ UNCHANGED <<stage, timeout_curr, history, worker>>

\* The loop ends with a phrase that is not recorded.
Apologise ==
  /\ Saying(OwnPhrase)
  /\ stage' = "over"
  /\ UNCHANGED <<timeout_curr, full_response, history, worker>>

\* The answer is saved; add_ai_message raises for an empty one.
SaveAnswer ==
  /\ Get("end") /\ full_response # <<>>
  /\ history' = Append(history, full_response)
  /\ stage' = "over"
  /\ UNCHANGED <<speechVars, timeout_curr, full_response, worker>>

NoAnswer     == Get("end") /\ full_response = <<>> /\ Apologise
WorkerFailed == Get("error") /\ Apologise

\* The result of one of the calls is EndOfStream: the stages end, the worker is cancelled.
EndConversation ==
  /\ Get("calls")
  /\ \E i \in DOMAIN Head(sentence_queue).calls : HangsUp(Head(sentence_queue).calls[i])
  /\ history' = Append(history, Goodbye)
  /\ Farewell
  /\ stage' = "ended" /\ worker' = "done"
  /\ UNCHANGED <<complete, heard, taken, timeout_curr, full_response>>

\* Any other results: add_tools_calls is given ToolCallChunks, wants dicts and raises.
ToolsCalled ==
  /\ Get("calls")
  /\ \A i \in DOMAIN Head(sentence_queue).calls : ~HangsUp(Head(sentence_queue).calls[i])
  /\ Apologise

Waited ==
  /\ stage = "asked" /\ sentence_queue = <<>>
  /\ UNCHANGED <<replyVars, sentence_queue>>

KeepWaiting ==
  /\ Waited /\ timeout_curr < 5
  /\ timeout_curr' = timeout_curr + 2
  /\ Saying(OwnPhrase)
  /\ UNCHANGED <<stage, full_response, history>>

\* The worker is left running.
GiveUp == Waited /\ timeout_curr >= 5 /\ Apologise

\* StartSpeaking, once llm_stream asks for its next item: the worker is cancelled, its queue
\* forgotten and the tts stage silenced.
Interrupt ==
  /\ stage = "over" /\ ~cutOff
  /\ Hush
  /\ worker' = "done" /\ sentence_queue' = <<>>
  /\ UNCHANGED <<phrases, received, complete, heard, taken, loopVars, reply, flushed,
                 deltas, tool_calls_acc, finish>>

-----------------------------------------------------------------------------
WorkerStep == Token \/ ToolDelta \/ NamelessDelta \/ FinishReason \/ StreamEnds
LoopStep   == \/ NextSentence \/ SaveAnswer \/ NoAnswer \/ WorkerFailed \/ EndConversation
              \/ ToolsCalled \/ KeepWaiting \/ GiveUp \/ Interrupt

Next ==
  \/ WorkerStep
  \/ LoopStep
  \/ SpeechStep /\ UNCHANGED <<replyVars, loopVars, sentence_queue>>

Spec == Init /\ [][Next]_vars

-----------------------------------------------------------------------------
TypeOK ==
  /\ SpeechTypeOK
  /\ stage \in {"asked", "over", "ended"} /\ timeout_curr \in {2, 4, 6}
  /\ reply \in Seq(Tokens) /\ flushed \in 0..Len(reply)
  /\ Len(deltas) <= MaxChunks /\ finish \in {None, "stop", "tool_calls"}
  /\ worker \in {"running", "done"}

\* The words of the reply that were handed to the tts stage, and those on their way.
OwnPhrases == {OwnPhrase, Goodbye}
Said   == FlattenSeq(Without(phrases, OwnPhrases))
Queued == FlattenSeq([i \in DOMAIN sentence_queue |-> sentence_queue[i].words])

\* The words a caller should hear, up to position n.
Plain(n) == Without([i \in 1..n |-> i], Matched(reply, 1))

Answered == Len(history) = 2 /\ history[2] \notin OwnPhrases

\* However the reply is split into tokens, sentences and markup, what is spoken of it is in
\* order and without repetition, and no word outside markup is left out while the answer is
\* being given or after it was saved (steps.py:461-485, 543-545, 647-648).
ReplyIsSpokenOnce ==
  LET words == Said \o Queued
  IN  /\ \A i \in DOMAIN words : i > 1 => words[i - 1] < words[i]
      /\ stage = "asked" \/ Answered =>
           Without(words, Matched(reply, 1)) = Plain(flushed)

\* What the model will be told it answered is what was handed to the tts stage, with every
\* word outside markup that arrived before the stream ended, and nothing is saved of a reply
\* that went on to tools.  An answer that is not saved ended with an apology.  Whether the
\* caller heard it to the end, or the stream broke off, makes no difference to the code
\* (call_llm.py:153, steps.py:591-669), unlike what it says at steps.py:420-421.
AnswerIsSavedWhole ==
  /\ Answered => /\ history[2] = Said /\ finish # "tool_calls"
                 /\ Without(Said, Matched(reply, 1)) = Plain(Len(reply))
  /\ stage = "over" /\ ~Answered => Last(phrases) = OwnPhrase

\* What the model sent under one index, without what says nothing.
Sent(i, field, nothing) ==
  FlattenSeq([j \in DOMAIN deltas |->
    IF deltas[j].index = i /\ deltas[j][field] \notin nothing THEN <<deltas[j][field]>> ELSE <<>>])

NamesSent(i)     == Sent(i, "name", {""})
ArgumentsSent(i) == Sent(i, "arg", {"", "null"})

\* The call is ended only if the model called end_conversation and confirmed it in that very
\* call, also when the deltas of several calls are mixed (steps.py:489-541, 601-612,
\* tool_executor.py:12-28, endtool.py:21-34).
EndsOnlyWhenAsked ==
  stage = "ended" =>
    \E i \in 1..MaxChunks : NamesSent(i) = <<"end_conversation">> /\ Confirmed(ArgumentsSent(i))

\* Nothing BAD_PATTERNS describes is spoken.  It is: what is left when the stream ends is not
\* sanitised (steps.py:543-545).
NoMarkupIsSpoken == \A i \in DOMAIN Said : Said[i] \notin Matched(reply, 1)
=============================================================================
