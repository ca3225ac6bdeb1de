-------------------------- MODULE SignalingProofs --------------------------
(***************************************************************************)
(* Theorems about Handshake, for any number of connections, sessions and   *)
(* messages.                                                               *)
(***************************************************************************)
EXTENDS Signaling, FiniteSetTheorems, SequenceTheorems, WellFoundedInduction, TLAPS

USE DEF Stages, Admitted, Messages

LEMMA InitTypes == Init => TypeOK
<1> SUFFICES ASSUME Init PROVE TypeOK
    OBVIOUS
<1>1. via \in [Conns -> {"ws", "http"}]
  BY HandshakeAssumption DEF Init, HandshakeAssumption
<1>2. faults \in 0..MaxFaults
  BY HandshakeAssumption DEF Init, HandshakeAssumption
<1>3. inbox \in [Conns -> Seq(Messages)]
  <2>1. <<>> \in Seq(Messages)
    OBVIOUS
  <2>2. QED
    BY <2>1 DEF Init
<1>4. QED
  BY <1>1, <1>2, <1>3 DEF Init, TypeOK, TokenTypeOK, HandlerTypeOK, RelayTypeOK

LEMMA CountUp ==
  ASSUME NEW S, NEW f \in [S -> Nat], NEW x \in S, NEW n \in Nat
  PROVE  [f EXCEPT ![x] = f[x] + n] \in [S -> Nat]
<1> DEFINE g == [f EXCEPT ![x] = f[x] + n]
<1>1. ASSUME NEW y \in S PROVE g[y] \in Nat
  <2>1. f[x] \in Nat /\ f[y] \in Nat
    OBVIOUS
  <2>2. CASE y = x
    BY <2>1, <2>2
  <2>3. CASE y # x
    BY <2>1, <2>3
  <2>4. QED
    BY <2>2, <2>3
<1>2. QED
  BY <1>1

LEMMA FaultType == TypeOK /\ Fault => faults' \in 0..MaxFaults
BY HandshakeAssumption DEF TypeOK, Fault, HandshakeAssumption

LEMMA Unchanged ==
  ASSUME TypeOK
  PROVE  /\ UNCHANGED tokenVars => TokenTypeOK'
         /\ UNCHANGED <<stage, sess, via, up>> => HandlerTypeOK'
         /\ UNCHANGED <<clientVars, workerVars, answerVars>> => RelayTypeOK'
         /\ UNCHANGED faults => faults' \in 0..MaxFaults
BY DEF TypeOK, TokenTypeOK, HandlerTypeOK, RelayTypeOK, tokenVars, clientVars, workerVars, answerVars

\* A relay loop's step keeps the types of everything it changes.
LEMMA RelayTypes ==
  ASSUME TypeOK, NEW c \in Conns,
         ClientLoopStep(c) \/ WorkerLoopStep(c) \/ Gather(c)
  PROVE  TypeOK'
<1> USE DEF clientVars, workerVars, answerVars
<1>0. TokenTypeOK' /\ HandlerTypeOK'
  BY Unchanged
  DEF ClientLoopStep, Receive, ReceiveEnds, WorkerLoopStep, Poll, AnswerIsSent, SendIsCut,
      PollFails, PollTimesOut, Gather
<1>a. sess[c] \in Sessions /\ RelayTypeOK
  BY DEF TypeOK, HandlerTypeOK
<1>1. CASE Receive(c)
  <2>1. inbox' \in [Conns -> Seq(Messages)]
    <3>1. inbox[c] \in Seq(Messages) /\ inbox[c] # <<>>
      BY <1>1, <1>a DEF RelayTypeOK, Receive
    <3>2. Tail(inbox[c]) \in Seq(Messages)
      BY <3>1
    <3>3. QED
      BY <1>1, <1>a, <3>2 DEF RelayTypeOK, Receive
  <2>2. faults' \in 0..MaxFaults
    BY <1>1, FaultType, Unchanged DEF Receive
  <2>3. offers' \in [Sessions -> Nat]
    <3>1. offers' = offers \/ \E n \in 0..2 : AddOffers(c, n)
      BY <1>1 DEF Receive
    <3>2. ASSUME NEW n \in 0..2, AddOffers(c, n) PROVE offers' \in [Sessions -> Nat]
      <4>1. n \in Nat /\ offers \in [Sessions -> Nat]
        BY <1>a DEF RelayTypeOK
      <4> QED BY <1>a, <3>2, <4>1, CountUp DEF AddOffers
    <3> QED BY <1>a, <3>1, <3>2 DEF RelayTypeOK
  <2>4. clientLoop' \in [Conns -> {"listen", "done"}]
    BY <1>1, <1>a DEF RelayTypeOK, Receive, EndClientLoop
  <2>5. UNCHANGED <<sent, workerVars, answerVars>>
    BY <1>1 DEF Receive
  <2>6. QED
    BY <1>0, <1>a, <2>1, <2>2, <2>3, <2>4, <2>5 DEF TypeOK, RelayTypeOK
<1>2. CASE ReceiveEnds(c)
  <2>1. RelayTypeOK'
    BY <1>2, <1>a DEF RelayTypeOK, ReceiveEnds, EndClientLoop
  <2>2. QED
    BY <1>0, <1>2, <2>1, Unchanged DEF TypeOK, ReceiveEnds
<1>3. CASE Poll(c)
  <2>1. cursor' \in [Conns -> Nat]
    <3>1. cursor' = [cursor EXCEPT ![c] = ReadUpTo(c) + 1] \/ cursor' = [cursor EXCEPT ![c] = answers[sess[c]]]
      BY <1>3 DEF Poll, TakeAnswer, SkipAnswers
    <3>2. ReadUpTo(c) + 1 \in Nat /\ answers[sess[c]] \in Nat
      BY <1>a DEF RelayTypeOK, ReadUpTo
    <3>3. QED
      BY <1>a, <3>1, <3>2 DEF RelayTypeOK
  <2>2. workerLoop' \in [Conns -> {"poll", "send", "done"}]
    BY <1>3, <1>a DEF RelayTypeOK, Poll, TakeAnswer, SkipAnswers, GoWorkerLoop
  <2>3. UNCHANGED <<clientVars, answerSent, got, cut, answerVars, faults>>
    BY <1>3 DEF Poll
  <2>4. QED
    BY <1>0, <1>a, <2>1, <2>2, <2>3, Unchanged DEF TypeOK, RelayTypeOK
<1>4. CASE PollFails(c) \/ PollTimesOut(c)
  <2>1. RelayTypeOK'
    BY <1>4, <1>a DEF RelayTypeOK, PollFails, PollTimesOut, GoWorkerLoop
  <2>2. QED
    BY <1>0, <1>4, <2>1, FaultType, Unchanged DEF TypeOK, PollFails, PollTimesOut
<1>5. CASE AnswerIsSent(c) \/ SendIsCut(c)
  <2>1. got' \in [Conns -> Nat]
    <3>1. got' = got \/ got' = [got EXCEPT ![c] = got[c] + 1]
      BY <1>5 DEF AnswerIsSent, SendIsCut, ClientGets
    <3>2. 1 \in Nat /\ got \in [Conns -> Nat]
      BY <1>a DEF RelayTypeOK
    <3>3. QED
      BY <3>1, <3>2, CountUp
  <2>2. cut' \in [Conns -> Nat]
    <3>1. cut' = cut \/ cut' = [cut EXCEPT ![c] = cut[c] + 1]
      BY <1>5 DEF AnswerIsSent, SendIsCut
    <3>2. 1 \in Nat /\ cut \in [Conns -> Nat]
      BY <1>a DEF RelayTypeOK
    <3>3. QED
      BY <3>1, <3>2, CountUp
  <2>3. answerSent' \in [Conns -> BOOLEAN]
    BY <1>5, <1>a DEF RelayTypeOK, AnswerIsSent, SendIsCut, NoteAnswer
  <2>4. workerLoop' \in [Conns -> {"poll", "send", "done"}]
    BY <1>5, <1>a DEF RelayTypeOK, AnswerIsSent, SendIsCut, GoWorkerLoop
  <2>5. UNCHANGED <<clientVars, cursor, answerVars, faults>>
    BY <1>5 DEF AnswerIsSent, SendIsCut
  <2>6. QED
    BY <1>0, <1>a, <2>1, <2>2, <2>3, <2>4, <2>5, Unchanged DEF TypeOK, RelayTypeOK
<1>6. CASE Gather(c)
  <2>1. RelayTypeOK'
    BY <1>6, <1>a DEF RelayTypeOK, Gather, RoundFrom, GoWorkerLoop
  <2>2. QED
    BY <1>0, <1>6, <2>1, Unchanged DEF TypeOK, Gather
<1>7. QED
  BY <1>1, <1>2, <1>3, <1>4, <1>5, <1>6 DEF ClientLoopStep, WorkerLoopStep

\* So does a step of the token, of the handler before the relay, of the
\* client or of the worker tier.
LEMMA OtherTypes ==
  ASSUME TypeOK,
         \/ \E s \in Sessions : \/ IssueToken(s) \/ PersistFails(s)
                                \/ JwtExpires(s) \/ KeyExpires(s)
                                \/ WorkerAnswers(s) \/ AnswersExpire(s)
         \/ \E c \in Conns : ClientStep(c) \/ HandlerStep(c)
         \/ GatewayEnds
  PROVE  TypeOK'
<1>0. TokenTypeOK /\ HandlerTypeOK /\ RelayTypeOK
  BY DEF TypeOK
<1>1. ASSUME NEW s \in Sessions, IssueToken(s) \/ PersistFails(s) \/ JwtExpires(s) \/ KeyExpires(s)
      PROVE  TypeOK'
  <2>1. TokenTypeOK'
    BY <1>0, <1>1 DEF TokenTypeOK, IssueToken, PersistFails, JwtExpires, KeyExpires
  <2>2. QED
    BY <1>1, <2>1, FaultType, Unchanged
    DEF TypeOK, IssueToken, PersistFails, JwtExpires, KeyExpires
<1>2. ASSUME NEW s \in Sessions, WorkerAnswers(s) \/ AnswersExpire(s) PROVE TypeOK'
  <2>0. answers \in [Sessions -> Nat] /\ expired \in [Sessions -> Nat] /\ 1 \in Nat
    BY <1>0 DEF RelayTypeOK
  <2>1. answers' \in [Sessions -> Nat] /\ expired' \in [Sessions -> Nat]
    <3>1. CASE WorkerAnswers(s)
      BY <2>0, <3>1, CountUp DEF WorkerAnswers
    <3>2. CASE AnswersExpire(s)
      BY <2>0, <3>2 DEF AnswersExpire
    <3>3. QED
      BY <1>2, <3>1, <3>2
  <2>2. RelayTypeOK'
    BY <1>0, <1>2, <2>1 DEF RelayTypeOK, WorkerAnswers, AnswersExpire, clientVars, workerVars
  <2>3. QED
    BY <1>2, <2>2, Unchanged DEF TypeOK, WorkerAnswers, AnswersExpire
<1>3. ASSUME NEW c \in Conns, Connect(c) \/ ClientDisconnects(c) \/ Route(c) \/ Accept(c)
      PROVE  TypeOK'
  <2>1. HandlerTypeOK'
    BY <1>0, <1>3 DEF HandlerTypeOK, Connect, ClientDisconnects, Route, Accept, Goto
  <2>2. QED
    BY <1>3, <2>1, Unchanged DEF TypeOK, Connect, ClientDisconnects, Route, Accept
<1>4. ASSUME NEW c \in Conns, NEW msg \in Messages, ClientSends(c, msg) PROVE TypeOK'
  <2>1. inbox' \in [Conns -> Seq(Messages)]
    BY <1>0, <1>4 DEF RelayTypeOK, ClientSends
  <2>2. sent' \in [Conns -> Nat]
    <3>1. sent' = sent \/ sent' = [sent EXCEPT ![c] = sent[c] + 1]
      BY <1>4 DEF ClientSends
    <3>2. 1 \in Nat /\ sent \in [Conns -> Nat]
      BY <1>0 DEF RelayTypeOK
    <3>3. QED
      BY <3>1, <3>2, CountUp
  <2>3. RelayTypeOK'
    BY <1>0, <1>4, <2>1, <2>2 DEF RelayTypeOK, ClientSends, workerVars, answerVars
  <2>4. QED
    BY <1>4, <2>3, Unchanged DEF TypeOK, ClientSends
<1>5. ASSUME NEW c \in Conns, Consume(c) \/ ConsumeFails(c) PROVE TypeOK'
  <2>1. stage' \in [Conns -> Stages] /\ UNCHANGED <<sess, via, up>>
    BY <1>0, <1>5 DEF HandlerTypeOK, Consume, ConsumeFails, Goto
  <2>2. HandlerTypeOK'
    BY <1>0, <2>1 DEF HandlerTypeOK
  <2>3. key' \in [Sessions -> BOOLEAN] /\ holder' \in [Sessions -> Conns \cup {None}]
    BY <1>0, <1>5 DEF TokenTypeOK, Consume, ConsumeFails, TakeKey, AfterGetDel
  <2>4. TokenTypeOK'
    BY <1>0, <1>5, <2>3 DEF TokenTypeOK, Consume, ConsumeFails
  <2>5. QED
    BY <1>5, <2>2, <2>4, FaultType, Unchanged DEF TypeOK, Consume, ConsumeFails
<1>6. CASE GatewayEnds
  <2>1. stage' \in [Conns -> Stages] /\ up' \in [Conns -> BOOLEAN]
    BY <1>0, <1>6 DEF HandlerTypeOK, GatewayEnds
  <2>2. HandlerTypeOK'
    BY <1>0, <1>6, <2>1 DEF HandlerTypeOK, GatewayEnds
  <2>3. QED
    BY <1>6, <2>2, FaultType, Unchanged DEF TypeOK, GatewayEnds
<1>7. QED
  BY <1>1, <1>2, <1>3, <1>4, <1>5, <1>6 DEF ClientStep, HandlerStep

LEMMA NextTypes == TypeOK /\ [Next]_vars => TypeOK'
<1> SUFFICES ASSUME TypeOK, [Next]_vars PROVE TypeOK'
    OBVIOUS
<1>1. CASE Next
  BY <1>1, RelayTypes, OtherTypes DEF Next
<1>2. CASE UNCHANGED vars
  BY <1>2, Unchanged DEF TypeOK, vars
<1>3. QED
  BY <1>1, <1>2

\* Type correctness of the gateway's handshakes.
THEOREM HandshakeTypeCorrect == Spec => []TypeOK
BY InitTypes, NextTypes, PTL DEF Spec

----------------------------------------------------------------------------
(* The token. *)

LEMMA InitToken == Init => TokenInv
BY HandshakeAssumption
DEF Init, TokenInv, OnlyHolderAdmitted, ValidTokenIsHonoured, HandshakeAssumption

\* Steps that leave the token and the handler's stage alone.
LEMMA RelayKeepsToken ==
  ASSUME TokenInv, UNCHANGED <<tokenVars, stage, sess>>
  PROVE  TokenInv'
BY DEF TokenInv, OnlyHolderAdmitted, ValidTokenIsHonoured, tokenVars

LEMMA NextToken == TypeOK /\ TokenInv /\ [Next]_vars => TokenInv'
<1> SUFFICES ASSUME TypeOK, TokenInv, [Next]_vars PROVE TokenInv'
    OBVIOUS
<1> USE DEF TokenInv, OnlyHolderAdmitted, ValidTokenIsHonoured, TypeOK, TokenTypeOK, HandlerTypeOK
<1>1. ASSUME NEW s \in Sessions, IssueToken(s) \/ PersistFails(s) PROVE TokenInv'
  BY <1>1, HandshakeAssumption DEF IssueToken, PersistFails, HandshakeAssumption
<1>2. ASSUME NEW s \in Sessions, JwtExpires(s) PROVE TokenInv'
  BY <1>2 DEF JwtExpires
<1>3. ASSUME NEW s \in Sessions, KeyExpires(s) PROVE TokenInv'
  BY <1>3 DEF KeyExpires, KeyTtlOver
<1>4. ASSUME NEW s \in Sessions, WorkerAnswers(s) \/ AnswersExpire(s) PROVE TokenInv'
  BY <1>4, RelayKeepsToken DEF WorkerAnswers, AnswersExpire
<1>5. ASSUME NEW c \in Conns, Connect(c) PROVE TokenInv'
  BY <1>5 DEF Connect, Goto, tokenVars
<1>6. ASSUME NEW c \in Conns, Consume(c) PROVE TokenInv'
  BY <1>6, HandshakeAssumption DEF Consume, TakeKey, AfterGetDel, Goto, HandshakeAssumption
<1>7. ASSUME NEW c \in Conns, ConsumeFails(c) PROVE TokenInv'
  BY <1>7, HandshakeAssumption DEF ConsumeFails, TakeKey, AfterGetDel, Goto, HandshakeAssumption
<1>8. ASSUME NEW c \in Conns, Route(c) \/ Accept(c) PROVE TokenInv'
  BY <1>8 DEF Route, Accept, Goto, tokenVars
<1>9. ASSUME NEW c \in Conns, ClientDisconnects(c) \/ ClientLoopStep(c) \/ WorkerLoopStep(c) \/ Gather(c)
      PROVE  TokenInv'
  BY <1>9, RelayKeepsToken
  DEF ClientDisconnects, ClientLoopStep, Receive, ReceiveEnds, WorkerLoopStep, Poll, AnswerIsSent,
      SendIsCut, PollFails, PollTimesOut, Gather
<1>10. ASSUME NEW c \in Conns, NEW msg \in Messages, ClientSends(c, msg) PROVE TokenInv'
  BY <1>10, RelayKeepsToken DEF ClientSends
<1>11. CASE GatewayEnds
  BY <1>11 DEF GatewayEnds, tokenVars
<1>12. CASE UNCHANGED vars
  BY <1>12, RelayKeepsToken DEF vars
<1>13. QED
  BY <1>1, <1>2, <1>3, <1>4, <1>5, <1>6, <1>7, <1>8, <1>9, <1>10, <1>11, <1>12
  DEF Next, ClientStep, HandlerStep

LEMMA TokenCorrect == Spec => []TokenInv
BY InitTypes, NextTypes, InitToken, NextToken, PTL DEF Spec

\* One connection at most gets past the token check of a session, for any
\* number of connections that present its token concurrently.
THEOREM OneConnectionPerToken == Spec => []OnlyHolderAdmitted
BY TokenCorrect, PTL DEF TokenInv

\* A token that was handed out and is not expired is refused only when some
\* connection has used it.
THEOREM TokenHonoured == Spec => []ValidTokenIsHonoured
BY TokenCorrect, PTL DEF TokenInv

----------------------------------------------------------------------------
(* The answer. *)

LEMMA InitAnswer == Init => AnswerInv
BY DEF Init, AnswerInv, OneAnswer

LEMMA AnswerTypes ==
  TypeOK => /\ \A c \in Conns : got[c] \in Nat /\ cut[c] \in Nat /\ cursor[c] \in Nat /\ sess[c] \in Sessions
            /\ \A s \in Sessions : offers[s] \in Nat /\ answers[s] \in Nat /\ expired[s] \in Nat
BY DEF TypeOK, HandlerTypeOK, RelayTypeOK

\* Steps that change none of what AnswerInv speaks of but the offers.
LEMMA KeepsAnswer ==
  ASSUME TypeOK, AnswerInv,
         UNCHANGED <<workerLoop, cursor, answerSent, got, cut, answers, sess, holder>>,
         \A s \in Sessions : offers'[s] \in Nat /\ offers'[s] >= offers[s]
  PROVE  AnswerInv'
BY AnswerTypes DEF AnswerInv, OneAnswer

\* Steps of one connection's worker loop.
LEMMA LoopKeepsAnswer ==
  ASSUME TypeOK, AnswerInv, NEW c \in Conns,
         UNCHANGED <<offers, answers, sess, holder>>,
         \A d \in Conns \ {c} :
           /\ got'[d] = got[d] /\ cut'[d] = cut[d] /\ cursor'[d] = cursor[d]
           /\ answerSent'[d] = answerSent[d] /\ workerLoop'[d] = workerLoop[d],
         got'[c] <= cut'[c] + 1 /\ got'[c] <= cursor'[c],
         got'[c] > 0 => offers[sess[c]] > 0 /\ holder[sess[c]] = c,
         got'[c] > cut'[c] => answerSent'[c],
         workerLoop'[c] = "send" =>
            /\ ~answerSent'[c] /\ got'[c] < cursor'[c]
            /\ offers[sess[c]] > 0 /\ holder[sess[c]] = c
  PROVE  AnswerInv'
<1>1. OneAnswer'
  BY DEF AnswerInv, OneAnswer
<1>2. QED
  BY <1>1 DEF AnswerInv

\* The holder of a session's token that got an answer stays the holder: the
\* key is gone for good.
LEMMA NextAnswer == TypeOK /\ TokenInv /\ AnswerInv /\ [Next]_vars => AnswerInv'
<1> SUFFICES ASSUME TypeOK, TokenInv, AnswerInv, [Next]_vars PROVE AnswerInv'
    OBVIOUS
<1>0. \A s \in Sessions : offers[s] \in Nat /\ offers[s] >= offers[s]
  BY AnswerTypes
<1> USE <1>0 DEF clientVars, workerVars, answerVars, tokenVars
<1>1. ASSUME NEW s \in Sessions,
             IssueToken(s) \/ PersistFails(s) \/ JwtExpires(s) \/ KeyExpires(s) \/ AnswersExpire(s)
      PROVE  AnswerInv'
  BY <1>1, KeepsAnswer DEF IssueToken, PersistFails, JwtExpires, KeyExpires, AnswersExpire
<1>2. ASSUME NEW s \in Sessions, WorkerAnswers(s) PROVE AnswerInv'
  <2>1. UNCHANGED <<clientVars, workerVars, sess, holder>>
    BY <1>2 DEF WorkerAnswers
  <2>2. \A t \in Sessions : answers'[t] > 0 => offers[t] > 0
    BY <1>2, AnswerTypes DEF WorkerAnswers, AnswerInv, TypeOK, RelayTypeOK
  <2>3. QED
    BY <2>1, <2>2 DEF AnswerInv, OneAnswer
<1>3. ASSUME NEW c \in Conns, Connect(c) \/ ClientDisconnects(c) \/ Route(c) \/ Accept(c)
      PROVE  AnswerInv'
  BY <1>3, KeepsAnswer DEF Connect, ClientDisconnects, Route, Accept
<1>4. ASSUME NEW c \in Conns, NEW msg \in Messages, ClientSends(c, msg) PROVE AnswerInv'
  BY <1>4, KeepsAnswer DEF ClientSends
<1>5. ASSUME NEW c \in Conns, Consume(c) \/ ConsumeFails(c) PROVE AnswerInv'
  <2>1. CASE UNCHANGED holder
    BY <1>5, <2>1, KeepsAnswer DEF Consume, ConsumeFails
  <2>2. CASE TakeKey(c)
    <3>1. \A d \in Conns : got[d] > 0 \/ workerLoop[d] = "send" => sess[d] # sess[c]
      BY <2>2, HandshakeAssumption, AnswerTypes
      DEF TakeKey, TokenInv, AnswerInv, OneAnswer, HandshakeAssumption
    <3>2. UNCHANGED <<workerVars, answers, offers, sess>>
      BY <1>5 DEF Consume, ConsumeFails
    <3>3. \A s \in Sessions : s # sess[c] => holder'[s] = holder[s]
      BY <2>2 DEF TakeKey, TypeOK, TokenTypeOK
    <3>4. QED
      BY <3>1, <3>2, <3>3, AnswerTypes DEF AnswerInv, OneAnswer
  <2>3. QED
    BY <1>5, <2>1, <2>2 DEF Consume, ConsumeFails
<1>6. ASSUME NEW c \in Conns, Receive(c) PROVE AnswerInv'
  <2>1. \A s \in Sessions : offers'[s] \in Nat /\ offers'[s] >= offers[s]
    <3>1. offers' = offers \/ \E n \in 0..2 : AddOffers(c, n)
      BY <1>6 DEF Receive
    <3>2. ASSUME NEW n \in 0..2, AddOffers(c, n), NEW s \in Sessions
          PROVE  offers'[s] \in Nat /\ offers'[s] >= offers[s]
      BY <3>2, AnswerTypes DEF AddOffers, TypeOK, RelayTypeOK
    <3>3. QED
      BY <3>1, <3>2
  <2>2. QED
    BY <1>6, <2>1, KeepsAnswer DEF Receive
<1>7. ASSUME NEW c \in Conns, ReceiveEnds(c) PROVE AnswerInv'
  BY <1>7, KeepsAnswer DEF ReceiveEnds
<1>8. ASSUME NEW c \in Conns, PollFails(c) \/ PollTimesOut(c) \/ Gather(c) PROVE AnswerInv'
  <2>1. workerLoop' \in {[workerLoop EXCEPT ![c] = "done"], [workerLoop EXCEPT ![c] = "poll"]}
    BY <1>8 DEF PollFails, PollTimesOut, Gather, GoWorkerLoop
  <2>2. \A d \in Conns : workerLoop'[d] = "send" => workerLoop[d] = "send"
    BY <2>1 DEF TypeOK, RelayTypeOK
  <2>3. UNCHANGED <<cursor, answerSent, got, cut, offers, answers, sess, holder>>
    BY <1>8 DEF PollFails, PollTimesOut, Gather, RoundFrom, TypeOK, RelayTypeOK
  <2>4. QED
    BY <2>2, <2>3 DEF AnswerInv, OneAnswer
<1>9. ASSUME NEW c \in Conns, Poll(c) PROVE AnswerInv'
  <2>1. /\ UNCHANGED <<offers, answers, sess, holder, answerSent, got, cut>>
        /\ stage[c] = "open" /\ workerLoop[c] = "poll" /\ ReadUpTo(c) < answers[sess[c]]
    BY <1>9 DEF Poll, Unread
  <2>2. ReadUpTo(c) \in Nat /\ cursor[c] <= ReadUpTo(c)
    BY AnswerTypes DEF ReadUpTo
  <2>3. offers[sess[c]] > 0 /\ holder[sess[c]] = c
    <3>1. answers[sess[c]] > 0
      BY <2>1, <2>2, AnswerTypes
    <3>2. QED
      BY <2>1, <3>1, AnswerTypes DEF TokenInv, OnlyHolderAdmitted, AnswerInv
  <2>4. /\ got[c] <= cut[c] + 1 /\ got[c] <= cursor[c]
        /\ got[c] > cut[c] => answerSent[c]
    BY DEF AnswerInv, OneAnswer
  <2>5. \A d \in Conns \ {c} : cursor'[d] = cursor[d] /\ workerLoop'[d] = workerLoop[d]
    BY <1>9 DEF Poll, TakeAnswer, SkipAnswers, GoWorkerLoop, TypeOK, RelayTypeOK
  <2>6. /\ cursor'[c] > cursor[c]
        /\ workerLoop'[c] = "send" => ~answerSent[c]
    <3>1. CASE TakeAnswer(c)
      BY <2>2, <3>1, AnswerTypes DEF TakeAnswer, GoWorkerLoop, TypeOK, RelayTypeOK
    <3>2. CASE SkipAnswers(c)
      BY <2>1, <2>2, <3>2, AnswerTypes DEF SkipAnswers, TypeOK, RelayTypeOK
    <3>3. QED
      BY <1>9, <3>1, <3>2 DEF Poll
  <2>7. cursor' = [cursor EXCEPT ![c] = ReadUpTo(c) + 1] \/ cursor' = [cursor EXCEPT ![c] = answers[sess[c]]]
    BY <1>9 DEF Poll, TakeAnswer, SkipAnswers
  <2>8. cursor'[c] \in Nat
    BY <2>2, <2>7, AnswerTypes DEF TypeOK, RelayTypeOK
  <2>10. got[c] \in Nat /\ cursor[c] \in Nat
    BY AnswerTypes
  <2>11. got[c] <= cursor'[c] /\ got[c] < cursor'[c]
    BY <2>4, <2>6, <2>8, <2>10
  <2>9. QED
    BY <2>1, <2>3, <2>4, <2>5, <2>6, <2>11, LoopKeepsAnswer
<1>10. ASSUME NEW c \in Conns, AnswerIsSent(c) \/ SendIsCut(c) PROVE AnswerInv'
  <2>1. /\ UNCHANGED <<offers, answers, sess, holder, cursor>>
        /\ workerLoop[c] = "send" /\ workerLoop'[c] = "done"
    BY <1>10 DEF AnswerIsSent, SendIsCut, GoWorkerLoop, TypeOK, RelayTypeOK
  <2>2. /\ ~answerSent[c] /\ got[c] < cursor[c] /\ got[c] <= cut[c]
        /\ offers[sess[c]] > 0 /\ holder[sess[c]] = c
    BY <2>1, AnswerTypes DEF AnswerInv
  <2>3. got'[c] \in {got[c], got[c] + 1} /\ cut'[c] \in {cut[c], cut[c] + 1}
    BY <1>10 DEF AnswerIsSent, SendIsCut, ClientGets, TypeOK, RelayTypeOK
  <2>4. \A d \in Conns \ {c} :
           /\ got'[d] = got[d] /\ cut'[d] = cut[d] /\ cursor'[d] = cursor[d]
           /\ answerSent'[d] = answerSent[d] /\ workerLoop'[d] = workerLoop[d]
    BY <1>10
    DEF AnswerIsSent, SendIsCut, ClientGets, NoteAnswer, GoWorkerLoop, TypeOK, RelayTypeOK
  <2>5. got'[c] > cut'[c] => answerSent'[c]
    <3>1. CASE SendIsCut(c)
      <4>1. cut'[c] = cut[c] + 1
        BY <3>1 DEF SendIsCut, TypeOK, RelayTypeOK
      <4>2. QED
        BY <2>2, <2>3, <4>1, AnswerTypes
    <3>2. CASE AnswerIsSent(c)
      <4>1. cut'[c] = cut[c] /\ (got'[c] = got[c] \/ answerSent'[c])
        BY <3>2 DEF AnswerIsSent, NoteAnswer, TypeOK, RelayTypeOK
      <4>2. QED
        BY <2>2, <4>1, AnswerTypes
    <3>3. QED
      BY <1>10, <3>1, <3>2
  <2>6. got'[c] <= cut'[c] + 1 /\ got'[c] <= cursor'[c]
    BY <2>1, <2>2, <2>3, AnswerTypes
  <2>7. QED
    BY <2>1, <2>2, <2>4, <2>5, <2>6, LoopKeepsAnswer
<1>11. CASE GatewayEnds
  BY <1>11, KeepsAnswer DEF GatewayEnds
<1>12. CASE UNCHANGED vars
  BY <1>12, KeepsAnswer DEF vars
<1>13. QED
  BY <1>1, <1>2, <1>3, <1>4, <1>5, <1>6, <1>7, <1>8, <1>9, <1>10, <1>11, <1>12
  DEF Next, ClientStep, HandlerStep, ClientLoopStep, WorkerLoopStep

\* For any number of offers, restarts and calls that run twice, a connection delivers
\* one answer to its client, and one more for each send that the deadline cut; it is
\* the holder of the session's token, and an offer of that session was there first.
THEOREM OneAnswerAlways == Spec => []OneAnswer
<1>1. AnswerInv => OneAnswer
  BY DEF AnswerInv
<1>2. QED
  BY <1>1, InitTypes, NextTypes, InitToken, NextToken, InitAnswer, NextAnswer, PTL DEF Spec
----------------------------------------------------------------------------
(* IceTrickle: the client's candidates. *)

USE DEF Trickle!streamVars, Trickle!listenVars

Precedes == {pair \in Nat \X Nat : pair[1] < pair[2]}

\* A set of numbers that is not empty has a least element.
LEMMA Least ==
  ASSUME NEW S \in SUBSET Nat, S # {}
  PROVE  \E i \in S : \A j \in S : i <= j
<1>1. IsWellFoundedOn(Precedes, Nat)
  <2>1. OpToRel(<, Nat) = Precedes
    BY Zenon DEF OpToRel, Precedes
  <2> QED BY <2>1, NatLessThanWellFounded, Zenon
<1>2. PICK i \in S : \A j \in S : ~(<<j, i>> \in Precedes)
  BY <1>1, WFMin, Zenon
<1>3. ASSUME NEW j \in S PROVE ~(j < i)
  BY <1>2 DEF Precedes
<1> QED BY <1>3

LEMMA MinIsLeast ==
  ASSUME NEW S \in SUBSET Nat, S # {}
  PROVE  Trickle!Min(S) \in S /\ \A j \in S : Trickle!Min(S) <= j
BY Least DEF Trickle!Min

\* The entries of the stream.
Entries == 1..Len(log)

LEMMA EntriesAreNumbers ==
  ASSUME Trickle!TypeOK
  PROVE  /\ Len(log) \in Nat /\ DOMAIN log = Entries /\ Entries \subseteq Nat
         /\ gatewayRead \in Nat /\ gone \in Nat /\ gone <= Len(log)
         /\ \A S \in SUBSET Entries : IsFiniteSet(S)
<1>1. Trickle!End \in Nat
  BY TrickleAssumption DEF Trickle!IceAssumption, Trickle!End
<1>2. Len(log) \in Nat /\ DOMAIN log = Entries
  <2>1. log \in Seq(1..gatewayRead)
    BY DEF Trickle!TypeOK
  <2> QED BY <2>1, LenProperties DEF Entries
<1>3. IsFiniteSet(Entries)
  BY <1>2, FS_Interval DEF Entries
<1>4. ASSUME NEW S \in SUBSET Entries PROVE IsFiniteSet(S)
  BY <1>3, FS_Subset
<1>5. gatewayRead \in Nat /\ gone \in Nat /\ gone <= Len(log)
  BY <1>1, <1>2 DEF Trickle!TypeOK
<1> QED BY <1>2, <1>4, <1>5 DEF Entries

LEMMA CountIsCardinality == \A S : Trickle!Cardinality(S) = Cardinality(S)
BY DEF Trickle!Cardinality, Cardinality

\* A batch is a beginning of what is there, and not empty when something is.
LEMMA BatchIsABeginning ==
  ASSUME Trickle!TypeOK, NEW S \in SUBSET Entries
  PROVE  /\ Trickle!FirstOf(S) \subseteq S
         /\ \A i \in Trickle!FirstOf(S), j \in S : j < i => j \in Trickle!FirstOf(S)
         /\ S # {} => Trickle!FirstOf(S) # {}
<1> DEFINE UpTo(i) == {j \in S : j <= i}
<1>1. S \subseteq Nat /\ IsFiniteSet(S)
  BY EntriesAreNumbers
<1>2. \A i : i \in Trickle!FirstOf(S) <=> i \in S /\ Cardinality(UpTo(i)) <= Count
  BY CountIsCardinality DEF Trickle!FirstOf
<1>3. \A i \in S : IsFiniteSet(UpTo(i)) /\ Cardinality(UpTo(i)) \in Nat
  BY <1>1, FS_Subset, FS_CardinalityType
<1>4. ASSUME NEW i \in Trickle!FirstOf(S), NEW j \in S, j < i PROVE j \in Trickle!FirstOf(S)
  <2>1. i \in S /\ Cardinality(UpTo(i)) <= Count /\ i \in Nat /\ j \in Nat
    BY <1>1, <1>2
  <2>2. \A k \in S : k \in Nat
    BY <1>1
  <2>3. UpTo(j) \subseteq UpTo(i)
    <3>1. ASSUME NEW k \in S, k <= j PROVE k <= i
      BY <1>4, <2>1, <2>2, <3>1
    <3> QED BY <3>1
  <2> HIDE DEF UpTo
  <2>4. Cardinality(UpTo(j)) <= Cardinality(UpTo(i))
    BY <1>3, <2>1, <2>3, FS_Subset
  <2>5. Cardinality(UpTo(j)) <= Count
    BY <1>3, <2>1, <2>4, TrickleAssumption DEF Trickle!IceAssumption
  <2> QED BY <1>2, <2>5
<1>5. ASSUME S # {} PROVE Trickle!FirstOf(S) # {}
  <2>1. PICK i \in S : \A j \in S : i <= j
    BY <1>1, <1>5, Least
  <2>2. UpTo(i) = {i}
    <3>1. \A k \in S : k \in Nat
      BY <1>1
    <3> QED BY <2>1, <3>1
  <2>3. Cardinality(UpTo(i)) <= Count
    <3>1. Cardinality(UpTo(i)) = 1
      BY <2>2, FS_Singleton
    <3>2. Count \in Nat \ {0}
      BY TrickleAssumption DEF Trickle!IceAssumption
    <3> HIDE DEF UpTo
    <3> QED BY <3>1, <3>2
  <2> QED BY <1>2, <2>3
<1> QED BY <1>2, <1>4, <1>5

LEMMA TrickleTypes == Trickle!Init => Trickle!TypeOK
<1> SUFFICES ASSUME Trickle!Init PROVE Trickle!TypeOK
  OBVIOUS
<1>1. Trickle!End \in Nat
  BY TrickleAssumption DEF Trickle!IceAssumption, Trickle!End
<1>2. log = <<>> /\ Len(log) = 0 /\ log \in Seq(1..gatewayRead)
  BY DEF Trickle!Init
<1>3. \A p \in IcePeers : tried[p] \in Seq(1..Len(log))
  BY DEF Trickle!Init
<1> QED BY <1>1, <1>2, <1>3, TrickleAssumption DEF Trickle!IceAssumption, Trickle!Init, Trickle!TypeOK

LEMMA Counters ==
  Trickle!TypeOK => /\ pageSent \in 0..Trickle!End /\ gatewayRead \in 0..Trickle!End
                    /\ gatewayRead <= pageSent /\ Trickle!End \in Nat
BY TrickleAssumption DEF Trickle!TypeOK, Trickle!IceAssumption, Trickle!End

LEMMA NewAreEntries ==
  ASSUME Trickle!TypeOK, NEW p \in IcePeers
  PROVE  /\ Trickle!New(p) \subseteq Entries /\ batch[p] \subseteq Entries
         /\ batch[p] \subseteq Nat /\ last[p] \in Nat /\ last[p] <= Len(log)
<1>1. batch[p] \subseteq Entries /\ last[p] \in 0..Len(log)
  BY DEF Trickle!TypeOK, Entries
<1> QED BY <1>1, EntriesAreNumbers DEF Trickle!New

\* What the gateway adds comes after the last entry and holds a later candidate.
LEMMA Growth ==
  ASSUME Trickle!TypeOK, Trickle!Forward
  PROVE  /\ log' \in Seq(1..gatewayRead') /\ Len(log') \in Nat /\ Len(log) <= Len(log')
         /\ \A e \in Entries : log'[e] = log[e]
         /\ \A e \in 1..Len(log') : Len(log) < e => log'[e] = gatewayRead'
<1>1. /\ log \in Seq(1..gatewayRead) /\ gatewayRead \in Nat /\ gatewayRead' = gatewayRead + 1
  BY EntriesAreNumbers DEF Trickle!Forward, Trickle!TypeOK
<1>2. log \in Seq(1..gatewayRead') /\ gatewayRead' \in 1..gatewayRead'
  <2>1. 1..gatewayRead \subseteq 1..gatewayRead'
    BY <1>1
  <2> QED BY <1>1, <2>1
<1> DEFINE x == gatewayRead'
<1>3. log' \in {log, Append(log, x), log \o <<x, x>>}
  BY DEF Trickle!Forward
<1> HIDE DEF x
<1>4. log \in Seq(1..x) /\ x \in 1..x
  BY <1>2 DEF x
<1>5. CASE log' = log
  BY <1>4, <1>5 DEF Entries, x
<1>6. CASE log' = Append(log, x)
  BY <1>4, <1>6 DEF Entries, x
<1>7. CASE log' = log \o <<x, x>>
  <2>1. <<x, x>> \in Seq(1..x) /\ Len(<<x, x>>) = 2
    BY <1>4
  <2>2. /\ log' \in Seq(1..x) /\ Len(log') = Len(log) + 2
        /\ \A e \in 1..(Len(log) + 2) :
             log'[e] = IF e <= Len(log) THEN log[e] ELSE <<x, x>>[e - Len(log)]
    BY <1>4, <1>7, <2>1, ConcatProperties
  <2>3. ASSUME NEW e \in 1..Len(log'), Len(log) < e PROVE log'[e] = x
    <3>1. e - Len(log) \in 1..2
      BY <1>4, <2>2, <2>3
    <3>2. log'[e] = <<x, x>>[e - Len(log)]
      BY <1>4, <2>2, <2>3
    <3> QED BY <3>1, <3>2
  <2> QED BY <1>4, <2>2, <2>3 DEF Entries, x
<1> QED BY <1>3, <1>5, <1>6, <1>7

\* A listener that works on a batch has one.
BatchToAdd == \A p \in IcePeers : listener[p] = "add" => batch[p] # {}

LEMMA TrickleTypesKept ==
  ASSUME Trickle!TypeOK, BatchToAdd, [Trickle!Next]_(Trickle!vars)
  PROVE  Trickle!TypeOK'
<1> USE EntriesAreNumbers, TrickleAssumption DEF Trickle!IceAssumption
<1>1. CASE Trickle!SendCandidate \/ Trickle!Expire \/ Trickle!GatewayEnds
  <2>1. /\ pageSent' \in 0..Trickle!End /\ gatewayRead' = gatewayRead /\ gatewayRead <= pageSent'
    <3>1. CASE Trickle!SendCandidate
      BY <3>1, Counters DEF Trickle!SendCandidate
    <3>2. CASE Trickle!Expire \/ Trickle!GatewayEnds
      BY <3>2, Counters DEF Trickle!Expire, Trickle!GatewayEnds
    <3> QED BY <1>1, <3>1, <3>2
  <2>2. UNCHANGED <<log, listener, last, batch, tried, iceFaults>>
    BY <1>1 DEF Trickle!SendCandidate, Trickle!Expire, Trickle!GatewayEnds
  <2>3. gateway \in BOOLEAN /\ gateway' \in {gateway, FALSE} /\ gone' \in {gone, Len(log)}
    BY <1>1 DEF Trickle!SendCandidate, Trickle!Expire, Trickle!GatewayEnds, Trickle!TypeOK
  <2>4. gone' \in 0..Len(log)
    BY <2>3
  <2> QED BY <2>1, <2>2, <2>3, <2>4, Counters DEF Trickle!TypeOK
<1>2. CASE Trickle!Forward
  <2>1. /\ gatewayRead' = gatewayRead + 1 /\ gatewayRead < pageSent /\ pageSent' = pageSent
        /\ iceFaults' \in 0..MaxIceFaults
        /\ UNCHANGED <<gone, gateway, listener, last, batch, tried>>
    BY <1>2 DEF Trickle!Forward, Trickle!Fault, Trickle!TypeOK
  <2>2. log' \in Seq(1..gatewayRead') /\ Len(log') \in Nat /\ Len(log) <= Len(log')
    BY <1>2, Growth
  <2>3. gatewayRead' \in 0..Trickle!End /\ gatewayRead' <= pageSent'
    BY <2>1, Counters
  <2>4. 1..Len(log) \subseteq 1..Len(log') /\ 0..Len(log) \subseteq 0..Len(log')
    BY <2>2
  <2>5. /\ gone' \in 0..Len(log')
        /\ last' \in [IcePeers -> 0..Len(log')]
        /\ batch' \in [IcePeers -> SUBSET (1..Len(log'))]
    BY <2>1, <2>4 DEF Trickle!TypeOK
  <2>6. tried' \in [IcePeers -> Seq(1..Len(log'))]
    <3>1. \A q \in Seq(1..Len(log)) : q \in Seq(1..Len(log'))
      BY <2>4
    <3> QED BY <2>1, <3>1 DEF Trickle!TypeOK
  <2> QED BY <2>1, <2>2, <2>3, <2>5, <2>6, Counters DEF Trickle!TypeOK
<1>3. ASSUME NEW p \in IcePeers, Trickle!StartPeer(p) PROVE Trickle!TypeOK'
  BY <1>3 DEF Trickle!StartPeer, Trickle!FirstId, Trickle!TypeOK
<1>4. ASSUME NEW p \in IcePeers, Trickle!Read(p) PROVE Trickle!TypeOK'
  <2>1. Trickle!FirstOf(Trickle!New(p)) \in SUBSET (1..Len(log))
    BY NewAreEntries, BatchIsABeginning DEF Entries
  <2> QED BY <1>4, <2>1 DEF Trickle!Read, Trickle!TypeOK
<1>5. ASSUME NEW p \in IcePeers, Trickle!ReadFails(p) \/ Trickle!WorkerEnds(p) PROVE Trickle!TypeOK'
  <2>1. iceFaults' \in 0..MaxIceFaults
    BY <1>5 DEF Trickle!ReadFails, Trickle!WorkerEnds, Trickle!Fault, Trickle!TypeOK
  <2>2. listener' \in [IcePeers -> {"none", "read", "add", "ended"}]
    BY <1>5 DEF Trickle!ReadFails, Trickle!KeepListener, Trickle!WorkerEnds, Trickle!TypeOK
  <2>3. batch' \in [IcePeers -> SUBSET (1..Len(log))]
    BY <1>5 DEF Trickle!ReadFails, Trickle!WorkerEnds, Trickle!TypeOK
  <2> QED BY <1>5, <2>1, <2>2, <2>3 DEF Trickle!ReadFails, Trickle!WorkerEnds, Trickle!TypeOK
<1>6. ASSUME NEW p \in IcePeers, Trickle!Add(p) PROVE Trickle!TypeOK'
  <2>1. Trickle!Min(batch[p]) \in 1..Len(log)
    BY <1>6, MinIsLeast, NewAreEntries DEF BatchToAdd, Trickle!Add, Entries
  <2>2. tried' \in [IcePeers -> Seq(1..Len(log))]
    BY <1>6, <2>1 DEF Trickle!Add, Trickle!TypeOK
  <2>3. last' \in [IcePeers -> 0..Len(log)] /\ batch' \in [IcePeers -> SUBSET (1..Len(log))]
    BY <1>6, <2>1 DEF Trickle!Add, Trickle!Advance, Trickle!TypeOK
  <2> QED BY <1>6, <2>2, <2>3 DEF Trickle!Add, Trickle!TypeOK
<1>7. CASE UNCHANGED Trickle!vars
  BY <1>7 DEF Trickle!vars, Trickle!TypeOK
<1> QED BY <1>1, <1>2, <1>3, <1>4, <1>5, <1>6, <1>7 DEF Trickle!Next

\* What one listener was given, what it holds and where its cursor is: a batch
\* starts right after the cursor and has no hole but the entries that had gone.
Given(p) ==
  /\ \A i, j \in DOMAIN tried[p] : i < j => tried[p][i] < tried[p][j]
  /\ \A i \in DOMAIN tried[p] : tried[p][i] <= last[p]
  /\ \A e \in Entries : e <= last[p] => e \in Trickle!Range(tried[p]) \/ e <= gone
Held(p) ==
  /\ \A e \in batch[p] : last[p] < e
  /\ \A e \in batch[p], f \in Entries : last[p] < f /\ f < e => f \in batch[p] \/ f <= gone
Cursor(p) == listener[p] = "none" => tried[p] = <<>> /\ last[p] = 0 /\ batch[p] = {}
\* The stream holds the candidates in the order of the page.
LogInOrder == \A e, f \in Entries : e < f => log[e] <= log[f]
TrickleInv ==
  /\ Trickle!TypeOK /\ LogInOrder /\ BatchToAdd
  /\ \A p \in IcePeers : Given(p) /\ Held(p) /\ Cursor(p)

LEMMA TrickleInit == Trickle!Init => TrickleInv
<1> SUFFICES ASSUME Trickle!Init PROVE TrickleInv
  OBVIOUS
<1>1. Trickle!TypeOK
  BY TrickleTypes
<1>2. Entries = {}
  BY DEF Trickle!Init, Entries
<1>3. \A p \in IcePeers : Given(p) /\ Held(p) /\ Cursor(p)
  BY <1>2 DEF Trickle!Init, Given, Held, Cursor
<1>4. LogInOrder /\ BatchToAdd
  BY <1>2 DEF Trickle!Init, BatchToAdd, LogInOrder
<1> QED BY <1>1, <1>3, <1>4 DEF TrickleInv

\* The gateway only adds after the last entry, and entries go from the oldest.
StreamGrows == Len(log') \in Nat /\ Len(log) <= Len(log') /\ gone' \in {gone, Len(log)}

LEMMA ListenerUndisturbed ==
  ASSUME TrickleInv, StreamGrows, NEW p \in IcePeers,
         last'[p] = last[p], batch'[p] = batch[p], tried'[p] = tried[p],
         listener'[p] = "none" => listener[p] = "none"
  PROVE  Given(p)' /\ Held(p)' /\ Cursor(p)'
<1>1. /\ Trickle!TypeOK /\ Len(log) \in Nat /\ gone \in Nat /\ gone <= Len(log)
      /\ last[p] \in Nat /\ last[p] <= Len(log) /\ batch[p] \subseteq Entries
      /\ Given(p) /\ Held(p) /\ Cursor(p)
  BY EntriesAreNumbers, NewAreEntries DEF TrickleInv
<1>2. gone' \in Nat /\ gone <= gone'
  BY <1>1 DEF StreamGrows
<1>3. ASSUME NEW e \in Entries', e <= Len(log) PROVE e \in Entries
  BY <1>1, <1>3 DEF StreamGrows, Entries
<1>4. \A e \in Entries' : e \in Nat
  BY DEF StreamGrows, Entries
<1>5. Given(p)'
  <2>1. ASSUME NEW e \in Entries', e <= last[p] PROVE e \in Trickle!Range(tried[p]) \/ e <= gone'
    <3>1. e \in Entries
      BY <1>1, <1>3, <1>4, <2>1
    <3> QED BY <1>1, <1>2, <1>4, <2>1, <3>1 DEF Given
  <2>2. /\ \A i, j \in DOMAIN tried'[p] : i < j => tried'[p][i] < tried'[p][j]
        /\ \A i \in DOMAIN tried'[p] : tried'[p][i] <= last'[p]
    BY <1>1 DEF Given
  <2> QED BY <2>1, <2>2 DEF Given
<1>6. Held(p)'
  <2>1. \A e \in batch'[p] : last'[p] < e
    BY <1>1 DEF Held
  <2>2. ASSUME NEW e \in batch[p], NEW f \in Entries', last[p] < f, f < e
        PROVE  f \in batch[p] \/ f <= gone'
    <3>1. e \in Nat /\ e <= Len(log)
      BY <1>1 DEF Entries
    <3>2. f \in Entries
      BY <1>1, <1>3, <1>4, <2>2, <3>1
    <3> QED BY <1>1, <1>2, <1>4, <2>2, <3>2 DEF Held
  <2> QED BY <2>1, <2>2 DEF Held
<1>7. Cursor(p)'
  BY <1>1 DEF Cursor
<1> QED BY <1>5, <1>6, <1>7

\* A batch is read right after the cursor, and passes no entry that is there.
LEMMA ReadHolds ==
  ASSUME TrickleInv, NEW p \in IcePeers, Trickle!Read(p)
  PROVE  Given(p)' /\ Held(p)' /\ Cursor(p)' /\ batch'[p] # {}
<1> DEFINE new == Trickle!New(p)
           first == Trickle!FirstOf(new)
<1>1. /\ UNCHANGED <<last, tried, log, gone>> /\ new # {}
      /\ batch'[p] = first /\ listener'[p] = "add"
  BY DEF Trickle!Read, TrickleInv, Trickle!TypeOK
<1>2. Trickle!TypeOK
  BY DEF TrickleInv
<1>3. new \in SUBSET Entries
  BY <1>2, NewAreEntries
<1>4. /\ first \subseteq new /\ first # {}
      /\ \A i \in first, j \in new : j < i => j \in first
  BY <1>1, <1>2, <1>3, BatchIsABeginning
<1>5. \A e : e \in new <=> e \in Entries /\ e > gone /\ e > last[p]
  BY <1>2, EntriesAreNumbers DEF Trickle!New
<1>6. \A e \in Entries : e \in Nat
  BY <1>2, EntriesAreNumbers
<1>7. gone \in Nat /\ last[p] \in Nat
  BY <1>2, NewAreEntries, EntriesAreNumbers
<1> HIDE DEF new, first
<1>8. Held(p)'
  <2>1. \A e \in first : last[p] < e
    BY <1>4, <1>5, <1>6, <1>7
  <2>2. ASSUME NEW e \in first, NEW f \in Entries, last[p] < f, f < e
        PROVE  f \in first \/ f <= gone
    BY <1>4, <1>5, <1>6, <1>7, <2>2
  <2>3. Entries' = Entries
    BY <1>1 DEF Entries
  <2> QED BY <1>1, <2>1, <2>2, <2>3 DEF Held
<1>9. Given(p)' /\ Cursor(p)'
  BY <1>1 DEF TrickleInv, Given, Cursor, Entries
<1> QED BY <1>1, <1>4, <1>8, <1>9

\* The least entry of the batch is the next one: none lies between it and the
\* cursor.
LEMMA AddGives ==
  ASSUME TrickleInv, NEW p \in IcePeers, Trickle!Add(p)
  PROVE  Given(p)' /\ Held(p)' /\ Cursor(p)' /\ (listener'[p] = "add" => batch'[p] # {})
<1> DEFINE next == Trickle!Min(batch[p])
<1>1. Trickle!TypeOK /\ batch[p] # {} /\ Given(p) /\ Held(p) /\ Cursor(p)
  BY DEF Trickle!Add, TrickleInv, BatchToAdd
<1>2. /\ batch[p] \subseteq Nat /\ batch[p] \subseteq Entries /\ Entries \subseteq Nat
      /\ gone \in Nat /\ last[p] \in Nat
  BY <1>1, NewAreEntries, EntriesAreNumbers
<1>3. next \in batch[p] /\ \A j \in batch[p] : next <= j
  BY <1>1, <1>2, MinIsLeast
<1>4. tried[p] \in Seq(Entries) /\ next \in Entries
  BY <1>1, <1>2, <1>3 DEF Trickle!TypeOK, Entries
<1>5. /\ last'[p] = next /\ tried'[p] = Append(tried[p], next) /\ batch'[p] = batch[p] \ {next}
      /\ UNCHANGED <<log, gone>> /\ Entries' = Entries
      /\ listener'[p] = IF batch'[p] = {} THEN "read" ELSE "add"
  BY <1>1 DEF Trickle!Add, Trickle!Advance, Trickle!TypeOK, Entries
<1>6. next \in Entries /\ next \in Nat /\ last[p] < next
  BY <1>1, <1>2, <1>3 DEF Held
<1> HIDE DEF next
<1>7. PICK n \in Nat : n = Len(tried[p])
  BY <1>4
<1>8. /\ DOMAIN tried[p] = 1..n /\ DOMAIN tried'[p] = 1..(n + 1)
      /\ \A i \in 1..n : tried'[p][i] = tried[p][i] /\ tried[p][i] \in Nat
      /\ tried'[p][n + 1] = next
  <2>1. DOMAIN tried[p] = 1..n /\ \A i \in 1..n : tried[p][i] \in Nat
    <3>1. tried[p] \in [1..n -> Entries]
      BY <1>4, <1>7
    <3> QED BY <1>2, <3>1
  <2>2. /\ DOMAIN tried'[p] = 1..(n + 1) /\ tried'[p][n + 1] = next
        /\ \A i \in 1..n : tried'[p][i] = tried[p][i]
    BY <1>4, <1>5, <1>7
  <2> QED BY <2>1, <2>2
<1>9. \A i \in 1..n : tried[p][i] <= last[p]
  BY <1>1, <1>8 DEF Given
<1>10. Given(p)'
  <2>1. \A i, j \in DOMAIN tried'[p] : i < j => tried'[p][i] < tried'[p][j]
    <3> SUFFICES ASSUME NEW i \in 1..(n + 1), NEW j \in 1..(n + 1), i < j
                 PROVE  tried'[p][i] < tried'[p][j]
      BY <1>8
    <3>1. CASE j = n + 1
      BY <1>2, <1>6, <1>8, <1>9, <3>1
    <3>2. CASE j # n + 1
      <4>1. i \in 1..n /\ j \in 1..n
        BY <3>2
      <4> QED BY <1>1, <1>8, <4>1 DEF Given
    <3> QED BY <3>1, <3>2
  <2>2. \A i \in DOMAIN tried'[p] : tried'[p][i] <= last'[p]
    <3> SUFFICES ASSUME NEW i \in 1..(n + 1) PROVE tried'[p][i] <= next
      BY <1>5, <1>8
    <3>1. CASE i = n + 1
      BY <1>6, <1>8, <3>1
    <3>2. CASE i # n + 1
      <4>1. i \in 1..n
        BY <3>2
      <4> QED BY <1>2, <1>6, <1>8, <1>9, <4>1
    <3> QED BY <3>1, <3>2
  <2>3. ASSUME NEW i \in Entries, i <= next
        PROVE  i \in Trickle!Range(tried'[p]) \/ i <= gone
    <3>1. \A k \in 1..(n + 1) : tried'[p][k] \in Trickle!Range(tried'[p])
      BY <1>8 DEF Trickle!Range
    <3>2. CASE i = next
      BY <1>8, <3>1, <3>2
    <3>3. CASE i <= last[p]
      <4>1. i \in Trickle!Range(tried[p]) \/ i <= gone
        BY <1>1, <3>3 DEF Given
      <4>2. ASSUME i \in Trickle!Range(tried[p]) PROVE i \in Trickle!Range(tried'[p])
        <5>1. PICK k \in 1..n : i = tried[p][k]
          BY <1>8, <4>2 DEF Trickle!Range
        <5>2. k \in 1..(n + 1)
          BY <1>7
        <5> QED BY <1>8, <3>1, <5>1, <5>2
      <4> QED BY <4>1, <4>2
    <3>4. CASE last[p] < i /\ i < next
      <4>1. i \in batch[p] \/ i <= gone
        BY <1>1, <1>3, <3>4 DEF Held
      <4> QED BY <1>2, <1>3, <1>6, <3>4, <4>1
    <3> QED BY <1>2, <1>6, <2>3, <3>2, <3>3, <3>4
  <2> QED BY <1>5, <2>1, <2>2, <2>3 DEF Given
<1>11. Held(p)'
  <2>2. \A i \in batch[p] \ {next} : next < i
    BY <1>2, <1>3, <1>6
  <2>3. ASSUME NEW i \in batch[p] \ {next}, NEW j \in Entries, next < j, j < i
        PROVE  j \in batch[p] \ {next} \/ j <= gone
    <3>1. last[p] < j /\ j # next
      BY <1>2, <1>6, <2>3
    <3> QED BY <1>1, <2>3, <3>1 DEF Held
  <2> QED BY <1>5, <2>2, <2>3 DEF Held
<1>12. Cursor(p)'
  BY <1>5 DEF Cursor
<1> QED BY <1>5, <1>10, <1>11, <1>12

LEMMA TrickleNext == TrickleInv /\ [Trickle!Next]_(Trickle!vars) => TrickleInv'
<1> SUFFICES ASSUME TrickleInv, [Trickle!Next]_(Trickle!vars) PROVE TrickleInv'
  OBVIOUS
<1>1. Trickle!TypeOK /\ BatchToAdd /\ LogInOrder
  BY DEF TrickleInv
<1>2. Trickle!TypeOK'
  BY <1>1, TrickleTypesKept
<1>3. Len(log) \in Nat
  BY <1>1, EntriesAreNumbers
<1> DEFINE Others(q) == \A p \in IcePeers \ {q} :
                          /\ last'[p] = last[p] /\ batch'[p] = batch[p]
                          /\ tried'[p] = tried[p] /\ listener'[p] = listener[p]
           Kept(p) == /\ Given(p)' /\ Held(p)' /\ Cursor(p)'
                      /\ listener'[p] = "add" => batch'[p] # {}
<1>4. ASSUME StreamGrows, LogInOrder', UNCHANGED <<listener, last, batch, tried>> PROVE TrickleInv'
  <2>1. \A p \in IcePeers : Kept(p)
    BY <1>1, <1>4, ListenerUndisturbed DEF BatchToAdd
  <2> QED BY <1>2, <1>4, <2>1 DEF TrickleInv, BatchToAdd
<1>5. ASSUME NEW q \in IcePeers, UNCHANGED <<log, gone>>, Others(q), Kept(q)
      PROVE  TrickleInv'
  <2>1. StreamGrows /\ LogInOrder'
    BY <1>1, <1>3, <1>5 DEF StreamGrows, LogInOrder, Entries
  <2>2. ASSUME NEW p \in IcePeers \ {q} PROVE Kept(p)
    BY <1>1, <1>5, <2>1, <2>2, ListenerUndisturbed DEF BatchToAdd
  <2>3. \A p \in IcePeers : Kept(p)
    BY <1>5, <2>2
  <2> QED BY <1>2, <2>1, <2>3 DEF TrickleInv, BatchToAdd
<1>6. CASE Trickle!SendCandidate
  BY <1>1, <1>3, <1>4, <1>6 DEF Trickle!SendCandidate, StreamGrows, LogInOrder, Entries
<1>7. CASE Trickle!Forward
  <2>1. StreamGrows
    BY <1>1, <1>7, Growth DEF Trickle!Forward, StreamGrows
  <2>2. LogInOrder'
    <3> SUFFICES ASSUME NEW e \in Entries', NEW f \in Entries', e < f
                 PROVE  log'[e] <= log'[f]
      BY DEF LogInOrder
    <3>1. log' \in Seq(1..gatewayRead') /\ Len(log') \in Nat /\ gatewayRead' \in Nat
      BY <1>1, <1>7, Growth, EntriesAreNumbers DEF Trickle!Forward
    <3>2. log'[e] \in 1..gatewayRead' /\ e \in Nat /\ f \in Nat
      BY <3>1 DEF Entries
    <3>3. CASE Len(log) < f
      <4>1. log'[f] = gatewayRead'
        BY <1>1, <1>7, <3>3, Growth DEF Entries
      <4> QED BY <3>1, <3>2, <4>1
    <3>4. CASE f <= Len(log)
      <4>1. e \in Entries /\ f \in Entries
        BY <1>3, <3>1, <3>2, <3>4 DEF Entries
      <4>2. log'[e] = log[e] /\ log'[f] = log[f]
        BY <1>1, <1>7, <4>1, Growth
      <4> QED BY <1>1, <4>1, <4>2 DEF LogInOrder
    <3> QED BY <1>3, <3>2, <3>3, <3>4
  <2> QED BY <1>4, <1>7, <2>1, <2>2 DEF Trickle!Forward
<1>8. CASE Trickle!Expire \/ Trickle!GatewayEnds
  <2>1. UNCHANGED <<log, listener, last, batch, tried>> /\ gone' \in {gone, Len(log)}
    BY <1>8 DEF Trickle!Expire, Trickle!GatewayEnds
  <2>2. StreamGrows /\ LogInOrder'
    BY <1>1, <1>3, <2>1 DEF StreamGrows, LogInOrder, Entries
  <2> QED BY <1>4, <2>1, <2>2
<1>9. ASSUME NEW q \in IcePeers, Trickle!StartPeer(q) PROVE TrickleInv'
  <2>1. Others(q) /\ UNCHANGED <<log, gone>>
    BY <1>1, <1>9 DEF Trickle!StartPeer, Trickle!TypeOK
  <2>2. /\ listener'[q] = "read" /\ last'[q] = last[q] /\ batch'[q] = batch[q] /\ tried'[q] = tried[q]
    BY <1>1, <1>9 DEF Trickle!StartPeer, Trickle!FirstId, Trickle!TypeOK, TrickleInv, Cursor
  <2>3. StreamGrows
    BY <1>3, <2>1 DEF StreamGrows
  <2>4. Kept(q)
    BY <2>2, <2>3, ListenerUndisturbed
  <2> QED BY <1>5, <2>1, <2>4
<1>10. ASSUME NEW q \in IcePeers, Trickle!Read(q) PROVE TrickleInv'
  <2>1. Others(q) /\ UNCHANGED <<log, gone>>
    BY <1>1, <1>10 DEF Trickle!Read, Trickle!TypeOK
  <2> QED BY <1>5, <1>10, <2>1, ReadHolds
<1>11. ASSUME NEW q \in IcePeers, Trickle!ReadFails(q) PROVE TrickleInv'
  <2>1. StreamGrows /\ LogInOrder' /\ UNCHANGED <<listener, last, batch, tried>>
    BY <1>1, <1>3, <1>11 DEF Trickle!ReadFails, Trickle!KeepListener, StreamGrows, LogInOrder, Entries
  <2> QED BY <1>4, <2>1
<1>12. ASSUME NEW q \in IcePeers, Trickle!Add(q) PROVE TrickleInv'
  <2>1. Others(q) /\ UNCHANGED <<log, gone>>
    BY <1>1, <1>12 DEF Trickle!Add, Trickle!Advance, Trickle!TypeOK
  <2> QED BY <1>5, <1>12, <2>1, AddGives
<1>13. ASSUME NEW q \in IcePeers, Trickle!WorkerEnds(q) PROVE TrickleInv'
  <2>1. Others(q) /\ UNCHANGED <<log, gone, last, tried>>
    BY <1>1, <1>13 DEF Trickle!WorkerEnds, Trickle!TypeOK
  <2>2. listener'[q] = "ended" /\ batch'[q] = {}
    BY <1>1, <1>13 DEF Trickle!WorkerEnds, Trickle!TypeOK
  <2>3. Given(q) /\ Cursor(q)
    BY DEF TrickleInv
  <2>4. Given(q)' /\ Held(q)' /\ Cursor(q)'
    BY <2>1, <2>2, <2>3 DEF Given, Held, Cursor, Entries
  <2> QED BY <1>5, <2>1, <2>2, <2>4
<1>14. CASE UNCHANGED Trickle!vars
  BY <1>1, <1>3, <1>4, <1>14 DEF Trickle!vars, StreamGrows, LogInOrder, Entries
<1> QED BY <1>6, <1>7, <1>8, <1>9, <1>10, <1>11, <1>12, <1>13, <1>14 DEF Trickle!Next

\* Whatever calls fail or run twice, however late a listener starts and however many of
\* a batch are still to be taken, a peer is given the entries of the stream each once
\* and the candidates in the order of the page, and its cursor passes none that is
\* there without handing it over (handshake_controller.py:158-163, worker.py:132-168).
THEOREM CandidatesInOrderAlways == Trickle!Spec => []CandidatesInOrder
<1>1. ASSUME TrickleInv PROVE CandidatesInOrder
  <2> SUFFICES ASSUME NEW p \in IcePeers
               PROVE  /\ \A i, j \in DOMAIN tried[p] : i < j =>
                           tried[p][i] < tried[p][j] /\ log[tried[p][i]] <= log[tried[p][j]]
                      /\ \A e \in DOMAIN log :
                           e <= last[p] => e \in Trickle!Range(tried[p]) \/ e <= gone
    BY DEF CandidatesInOrder, Trickle!CandidatesInOrder
  <2>1. DOMAIN log = Entries /\ Given(p) /\ LogInOrder
    BY <1>1, EntriesAreNumbers DEF TrickleInv
  <2>2. \A i \in DOMAIN tried[p] : tried[p][i] \in Entries
    <3>1. tried[p] \in Seq(Entries)
      BY <1>1 DEF TrickleInv, Trickle!TypeOK, Entries
    <3> QED BY <3>1
  <2>3. ASSUME NEW i \in DOMAIN tried[p], NEW j \in DOMAIN tried[p], i < j
        PROVE  tried[p][i] < tried[p][j] /\ log[tried[p][i]] <= log[tried[p][j]]
    <3>1. tried[p][i] < tried[p][j]
      BY <2>1, <2>3 DEF Given
    <3> QED BY <2>1, <2>2, <3>1 DEF LogInOrder
  <2> QED BY <2>1, <2>3 DEF Given
<1>2. QED
  BY <1>1, TrickleInit, TrickleNext, PTL DEF Trickle!Spec
=============================================================================
