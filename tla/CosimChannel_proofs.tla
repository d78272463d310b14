------------------------ MODULE CosimChannel_proofs ------------------------
(***************************************************************************)
(* Theorems about CosimChannel for every number of requests and lines: its *)
(* types, which answer a call takes, and what a read returns.              *)
(***************************************************************************)
EXTENDS CosimChannel, SequenceTheorems, TLAPS

-----------------------------------------------------------------------------
(* The inductive invariant.                                                *)

W == IF Waiting THEN 1 ELSE 0

(* The request before the oldest one whose answer is still to be taken.    *)
Base == issued - abandoned - W

(* Answers and requests in the socket are numbered on from Base without a  *)
(* gap.  As long as both ends are there, they are those given up and the   *)
(* one waited for.                                                         *)
NumberedAnswers == \A i \in 1..Len(answers) : answers[i].id = Base + i

NumberedRequests == \A j \in 1..Len(requests) : requests[j].id = Base + Len(answers) + j

PairInv ==
  aligned =>
    /\ NumberedAnswers
    /\ sim = "up" => NumberedRequests
    /\ sim = "up" /\ sock = "open" => Len(answers) + Len(requests) = abandoned + W

(* Turns still to come are paid for by the bound; only an open socket has  *)
(* a call waiting.                                                         *)
CallInv ==
  Waiting => /\ sock = "open"
             /\ call.op \in Ops /\ call.lines # 0 /\ call.left # 0
             /\ issued + call.left - 1 <= MaxReq

(* The payload of an answer without an error is that of its operation.     *)
PayloadOf(a) == a.status = 0 => \E n \in Nat : a.len = RespLen(a.op, n)

AnswerInv == \A i \in 1..Len(answers) : PayloadOf(answers[i])

ChannelInv == ChannelTypeOK /\ PairInv /\ CallInv /\ AnswerInv /\ ReadsAreAnsweredByReads

-----------------------------------------------------------------------------
(* Appending to a sequence of a type and taking its head off.              *)

LEMMA AppendFacts ==
  ASSUME NEW S, NEW s \in Seq(S), NEW e \in S
  PROVE  /\ Append(s, e) \in Seq(S)
         /\ Len(Append(s, e)) = Len(s) + 1 /\ Len(s) \in Nat
         /\ \A i \in 1..Len(s) : Append(s, e)[i] = s[i]
         /\ Append(s, e)[Len(s) + 1] = e
BY AppendProperties, LenProperties

LEMMA TailFacts ==
  ASSUME NEW S, NEW s \in Seq(S), s # <<>>
  PROVE  /\ Tail(s) \in Seq(S) /\ Len(Tail(s)) = Len(s) - 1
         /\ \A i \in 1..Len(Tail(s)) : Tail(s)[i] = s[i + 1]
         /\ Head(s) = s[1] /\ Head(s) \in S
         /\ Len(s) \in Nat \ {0}
<1>1. Tail(s) \in Seq(S) /\ Head(s) \in S /\ Len(Tail(s)) = Len(s) - 1
  BY HeadTailProperties
<1>2. \A i \in 1..Len(Tail(s)) : Tail(s)[i] = s[i + 1]
  BY HeadTailProperties
<1>3. Len(s) \in Nat \ {0}
  BY EmptySeq
<1>4. Head(s) = s[1]
  OBVIOUS
<1> QED BY <1>1, <1>2, <1>3, <1>4

LEMMA ShiftIndex ==
  ASSUME NEW n \in Nat \ {0}, NEW k \in 1..(n - 1)
  PROVE  k + 1 \in 1..n
OBVIOUS

LEMMA Bounds == MaxReq \in Nat /\ MaxLines \in Nat \ {0}
BY ChannelAssumption

LEMMA LineTimes == \A n \in Nat : n * Line \in Nat /\ n * Line # 1 /\ (n # 0 => n * Line # 0)
BY DEF Line

LEMMA RespLenType == \A op \in Ops \cup {"QUIT"}, n \in Nat : RespLen(op, n) \in Nat
BY LineTimes DEF RespLen, Ops, Word

LEMMA Types ==
  ASSUME ChannelTypeOK
  PROVE  /\ issued \in Nat /\ abandoned \in Nat /\ call \in Call_ /\ last \in End_
         /\ requests \in Seq(Request_) /\ answers \in Seq(Answer_)
         /\ call.op \in Ops \cup {"none"} /\ call.lines \in Nat /\ call.left \in Nat
         /\ Len(requests) \in Nat /\ Len(answers) \in Nat
         /\ W \in {0, 1} /\ Base \in Int
<1>1. issued \in 0..MaxReq /\ abandoned \in Nat /\ call \in Call_ /\ last \in End_
  BY DEF ChannelTypeOK, HostTypeOK
<1>2. requests \in Seq(Request_) /\ answers \in Seq(Answer_)
  BY DEF ChannelTypeOK, WireTypeOK
<1>3. Len(requests) \in Nat /\ Len(answers) \in Nat
  BY <1>2, LenProperties
<1>4. call.op \in Ops \cup {"none"} /\ call.lines \in Nat /\ call.left \in Nat
  BY <1>1 DEF Call_
<1>5. issued \in Nat
  BY <1>1, Bounds
<1>6. W \in {0, 1}
  BY DEF W
<1>7. Base \in Int
  BY <1>1, <1>5, <1>6 DEF Base
<1> QED BY <1>1, <1>2, <1>3, <1>4, <1>5, <1>6, <1>7

LEMMA RequestType ==
  ASSUME ChannelTypeOK, NEW op \in Ops \cup {"QUIT"}, NEW n \in Nat
  PROVE  Request(op, n) \in Request_ /\ Request(op, n).id = issued + 1
BY Types DEF Request, Request_

LEMMA RaisedType ==
  ASSUME ChannelTypeOK, NEW c \in Call_, NEW how \in {"none", "ok", "error", "timeout"}
  PROVE  /\ Raised(c, how) \in End_
         /\ Raised(c, how).how = how
BY Types DEF Raised, End_, Call_

(* An answer's fields, and the number and type of the oldest one.          *)
LEMMA HeadAnswer ==
  ASSUME ChannelInv, answers # <<>>
  PROVE  /\ Head(answers) \in Answer_ /\ PayloadOf(Head(answers))
         /\ aligned => Head(answers).id = Base + 1
<1>1. Head(answers) = answers[1] /\ Head(answers) \in Answer_ /\ 1 \in 1..Len(answers)
  BY Types, TailFacts DEF ChannelInv
<1> QED BY <1>1 DEF ChannelInv, AnswerInv, PairInv, NumberedAnswers

(* A read takes an answer only if its length is right, and no two          *)
(* operations have answers of one length but those without any.            *)
LEMMA AcceptedRead ==
  ASSUME ChannelInv, Waiting, answers # <<>>, Accepts(call, Head(answers)),
         call.op \in {"RD32", "DMA_RD"}
  PROVE  Head(answers).op = call.op /\ Head(answers).len = RespLen(call.op, call.lines)
<1> DEFINE a == Head(answers)
<1>1. a \in Answer_ /\ PayloadOf(a) /\ a.op \in Ops
  BY HeadAnswer DEF Answer_
<1>2. a.status = 0 /\ a.len = RespLen(call.op, call.lines)
  BY DEF Accepts
<1>3. PICK n \in Nat : a.len = RespLen(a.op, n)
  BY <1>1, <1>2 DEF PayloadOf
<1>4. call.lines \in Nat /\ call.lines # 0
  BY Types DEF ChannelInv, CallInv
<1>5. RespLen("RD32", call.lines) = 1 /\ RespLen("DMA_RD", call.lines) = call.lines * Line
  BY DEF RespLen, Word
<1>6. /\ a.op = "RD32" => a.len = 1
      /\ a.op = "DMA_RD" => a.len = n * Line
      /\ a.op \in {"WR32", "DMA_WR"} => a.len = 0
  BY <1>3 DEF RespLen, Word
<1>7. CASE call.op = "RD32"
  BY <1>1, <1>2, <1>5, <1>6, <1>7, LineTimes DEF Ops
<1>8. CASE call.op = "DMA_RD"
  BY <1>1, <1>2, <1>4, <1>5, <1>6, <1>8, LineTimes DEF Ops
<1> QED BY <1>7, <1>8

-----------------------------------------------------------------------------
LEMMA InitInv == ChannelInit => ChannelInv
<1> SUFFICES ASSUME ChannelInit PROVE ChannelInv
  OBVIOUS
<1>1. HostTypeOK
  BY Bounds DEF ChannelInit, HostTypeOK, Call_, End_, NoCall, NoEnd
<1>2. WireTypeOK
  BY EmptySeq DEF ChannelInit, WireTypeOK
<1>3. \A i \in 1..Len(answers) : FALSE
  BY DEF ChannelInit
<1>4. \A i \in 1..Len(requests) : FALSE
  BY DEF ChannelInit
<1>5. ~Waiting /\ W = 0
  BY DEF ChannelInit, Waiting, W
<1>6. PairInv
  BY <1>3, <1>4, <1>5 DEF ChannelInit, PairInv, NumberedAnswers, NumberedRequests
<1>7. CallInv /\ AnswerInv
  BY <1>3, <1>5 DEF CallInv, AnswerInv
<1>8. ReadsAreAnsweredByReads
  BY DEF ChannelInit, NoEnd, ReadsAreAnsweredByReads
<1> QED BY <1>1, <1>2, <1>6, <1>7, <1>8 DEF ChannelInv, ChannelTypeOK

-----------------------------------------------------------------------------
(* Every step keeps the types and the calls.                               *)

LEMMA NextTypes == ChannelInv /\ ChannelNext => ChannelTypeOK' /\ CallInv'
<1> SUFFICES ASSUME ChannelInv, ChannelNext PROVE ChannelTypeOK' /\ CallInv'
  OBVIOUS
<1> USE DEF ChannelTypeOK
<1>t. ChannelTypeOK /\ CallInv
  BY DEF ChannelInv
<1>n. NoCall \in Call_ /\ NoEnd \in End_
  BY DEF NoCall, Call_, NoEnd, End_
<1>0. ASSUME call' = NoCall, UNCHANGED <<sock, issued>>, last' \in End_, aligned' \in BOOLEAN,
             abandoned' \in Nat
      PROVE  HostTypeOK' /\ CallInv'
  BY <1>0, <1>t, <1>n DEF HostTypeOK, CallInv, Waiting
<1>1. ASSUME NEW op \in Ops, NEW n \in 1..MaxLines, SendCmd(op, n)
      PROVE  ChannelTypeOK' /\ CallInv'
  <2> DEFINE c == [op |-> op, lines |-> n, left |-> Turns(op, n)]
             r == Request(op, IF op = "DMA_WR" THEN 1 ELSE n)
  <2>0. n \in Nat /\ n # 0
    BY Bounds
  <2>1. Turns(op, n) \in Nat /\ Turns(op, n) # 0
    BY <2>0 DEF Turns
  <2>2. c \in Call_ /\ c # NoCall
    BY <2>0, <2>1 DEF Call_, NoCall
  <2>3. CASE sock = "open" /\ sim = "up"
    <3>1. requests' = Append(requests, r) /\ issued' = issued + 1 /\ call' = c
          /\ UNCHANGED <<last, sock, sim, answers, aligned, abandoned>>
      BY <1>1, <2>3 DEF SendCmd
    <3>2. r \in Request_
      BY <1>t, <2>0, RequestType
    <3>3. requests' \in Seq(Request_)
      BY <3>1, <3>2, <1>t, Types, AppendFacts
    <3>4. issued + Turns(op, n) <= MaxReq /\ issued \in Nat
      BY <1>1, <1>t, Types DEF SendCmd
    <3>5. issued' \in 0..MaxReq /\ issued' + c.left - 1 <= MaxReq
      BY <3>1, <3>4, <2>1, Bounds
    <3>6. HostTypeOK' /\ WireTypeOK'
      BY <3>1, <3>3, <3>5, <2>2, <1>t DEF HostTypeOK, WireTypeOK
    <3>7. CallInv'
      BY <3>1, <3>5, <2>0, <2>1, <2>3 DEF CallInv
    <3> QED BY <3>6, <3>7
  <2>4. CASE ~(sock = "open" /\ sim = "up")
    <3>1. /\ last' = Raised(c, "error")
          /\ UNCHANGED <<requests, issued, call, sock, sim, answers, aligned, abandoned>>
      BY <1>1, <2>4 DEF SendCmd
    <3>2. last' \in End_
      BY <3>1, <2>2, <1>t, RaisedType
    <3> QED BY <3>1, <3>2, <1>t DEF HostTypeOK, WireTypeOK, CallInv, Waiting
  <2> QED BY <2>3, <2>4
<1>2. CASE RecvResp
  <2> DEFINE a    == Head(answers)
             more == Accepts(call, a) /\ call.left > 1
  <2>1. a \in Answer_ /\ Tail(answers) \in Seq(Answer_)
    BY <1>2, <1>t, Types, TailFacts DEF RecvResp
  <2>2. CASE more /\ sim = "up"
    <3>1. /\ requests' = Append(requests, Request(call.op, 1)) /\ issued' = issued + 1
          /\ call' = [call EXCEPT !.left = @ - 1] /\ answers' = Tail(answers)
          /\ UNCHANGED <<last, sock, sim, aligned, abandoned>>
      BY <1>2, <2>2 DEF RecvResp
    <3>2. /\ call \in Call_ /\ call.op \in Ops /\ call.lines # 0 /\ issued + call.left - 1 <= MaxReq
          /\ call.left \in Nat /\ call.left > 1 /\ issued \in Nat /\ sock = "open"
      BY <1>2, <2>2, <1>t, Types DEF RecvResp, CallInv
    <3>3. /\ call' \in Call_ /\ call'.op = call.op /\ call'.lines = call.lines
          /\ call'.left = call.left - 1
      <4>1. call.left - 1 \in Nat
        BY <3>2
      <4> QED BY <4>1, <3>1, <3>2 DEF Call_
    <3>4. issued' \in 0..MaxReq /\ issued' + call'.left - 1 <= MaxReq /\ call'.left # 0
      BY <3>1, <3>2, <3>3, Bounds
    <3>5. requests' \in Seq(Request_)
      <4>1. Request(call.op, 1) \in Request_
        BY <3>2, <1>t, RequestType
      <4> QED BY <4>1, <3>1, <1>t, Types, AppendFacts
    <3>6. HostTypeOK' /\ WireTypeOK'
      BY <3>1, <3>3, <3>4, <3>5, <2>1, <1>t DEF HostTypeOK, WireTypeOK
    <3>7. CallInv'
      BY <3>1, <3>2, <3>3, <3>4 DEF CallInv
    <3> QED BY <3>6, <3>7
  <2>3. CASE ~(more /\ sim = "up")
    <3>1. /\ call' = NoCall /\ answers' = Tail(answers)
          /\ last' = IF more THEN Raised(call, "error") ELSE EndedBy(call, a)
          /\ UNCHANGED <<requests, issued, sock, sim, aligned, abandoned>>
      BY <1>2, <2>3 DEF RecvResp
    <3>2. Raised(call, "error") \in End_
      BY <1>t, Types, RaisedType
    <3>3. EndedBy(call, a) \in End_
      BY <2>1, <1>t, Types DEF EndedBy, End_, Answer_
    <3>4. HostTypeOK' /\ CallInv'
      BY <3>1, <3>2, <3>3, <1>0, <1>t DEF HostTypeOK
    <3> QED BY <3>1, <3>4, <2>1, <1>t DEF WireTypeOK
  <2> QED BY <2>2, <2>3
<1>3. CASE RecvTimeout \/ RecvTimeoutInFrame \/ RecvGarbage \/ PeerClosed
  <2>1. /\ call' = NoCall /\ UNCHANGED <<sock, sim, requests, answers, issued>>
        /\ abandoned' \in {abandoned, abandoned + 1} /\ aligned' \in {aligned, FALSE}
        /\ \E how \in {"none", "ok", "error", "timeout"} : last' = Raised(call, how)
    BY <1>3 DEF RecvTimeout, RecvTimeoutInFrame, RecvGarbage, PeerClosed
  <2>2. last' \in End_ /\ abandoned' \in Nat
    BY <2>1, <1>t, Types, RaisedType
  <2>3. aligned' \in BOOLEAN
    BY <2>1, <1>t DEF HostTypeOK
  <2> QED BY <2>1, <2>2, <2>3, <1>0, <1>t DEF WireTypeOK
<1>4. CASE Quit
  <2>1. Append(requests, Request("QUIT", 0)) \in Seq(Request_)
    BY <1>t, Types, RequestType, AppendFacts
  <2> QED BY <1>4, <2>1, <1>t DEF Quit, HostTypeOK, WireTypeOK, CallInv, Waiting
<1>5. CASE SimServes
  <2>1. Head(requests) \in Request_ /\ Tail(requests) \in Seq(Request_)
    BY <1>5, <1>t, Types, TailFacts DEF SimServes
  <2>2. ASSUME Head(requests).op # "QUIT", NEW status \in {0, 1}
        PROVE  Append(answers, Response(Head(requests), status)) \in Seq(Answer_)
    <3>1. RespLen(Head(requests).op, Head(requests).lines) \in Nat
      BY <2>1, RespLenType DEF Request_
    <3>2. Response(Head(requests), status) \in Answer_
      BY <2>1, <2>2, <3>1 DEF Response, Request_, Answer_
    <3> QED BY <3>2, <1>t, Types, AppendFacts
  <2>3. WireTypeOK'
    BY <1>5, <2>1, <2>2, <1>t DEF SimServes, WireTypeOK
  <2> QED BY <1>5, <2>3, <1>t DEF SimServes, hostVars, HostTypeOK, CallInv, Waiting
<1>6. CASE SimDies
  BY <1>6, <1>t DEF SimDies, hostVars, HostTypeOK, WireTypeOK, CallInv, Waiting
<1>7. CASE SessionOver
  BY <1>7, <1>t DEF SessionOver, channelVars, HostTypeOK, WireTypeOK, CallInv, Waiting
<1> QED BY <1>1, <1>2, <1>3, <1>4, <1>5, <1>6, <1>7 DEF ChannelNext, HostCalls, Recv

(* Every step keeps the payloads and what reads have returned.             *)

LEMMA NextAnswers == ChannelInv /\ ChannelNext => AnswerInv'
<1> SUFFICES ASSUME ChannelInv, ChannelNext PROVE AnswerInv'
  OBVIOUS
<1>t. ChannelTypeOK /\ AnswerInv
  BY DEF ChannelInv
<1>1. ASSUME UNCHANGED answers PROVE AnswerInv'
  BY <1>1, <1>t DEF AnswerInv, PayloadOf
<1>2. CASE RecvResp
  <2>1. /\ answers' = Tail(answers) /\ Len(answers) \in Nat \ {0}
        /\ Len(Tail(answers)) = Len(answers) - 1
        /\ \A i \in 1..Len(Tail(answers)) : Tail(answers)[i] = answers[i + 1]
    BY <1>2, <1>t, Types, TailFacts DEF RecvResp
  <2>2. \A i \in 1..Len(answers') : i + 1 \in 1..Len(answers) /\ answers'[i] = answers[i + 1]
    BY <2>1, ShiftIndex
  <2> QED BY <2>2, <1>t DEF AnswerInv, PayloadOf
<1>3. CASE SimServes
  <2> DEFINE r == Head(requests)
  <2>1. r \in Request_
    BY <1>3, <1>t, Types, TailFacts DEF SimServes
  <2>2. CASE r.op = "QUIT"
    BY <1>1, <1>3, <2>2 DEF SimServes
  <2>3. CASE r.op # "QUIT"
    <3>1. PICK status \in {0, 1} : answers' = Append(answers, Response(r, status))
      BY <1>3, <2>3 DEF SimServes
    <3>2. Response(r, status) \in Answer_ /\ PayloadOf(Response(r, status))
      <4>1. RespLen(r.op, r.lines) \in Nat /\ r.lines \in Nat
        BY <2>1, RespLenType DEF Request_
      <4> QED BY <4>1, <2>1, <2>3 DEF Response, Request_, Answer_, PayloadOf
    <3>3. /\ Len(answers') = Len(answers) + 1 /\ Len(answers) \in Nat
          /\ \A i \in 1..Len(answers) : answers'[i] = answers[i]
          /\ answers'[Len(answers) + 1] = Response(r, status)
      BY <3>1, <3>2, <1>t, Types, AppendFacts
    <3>4. \A i \in 1..Len(answers') : i \in 1..Len(answers) \/ i = Len(answers) + 1
      BY <3>3
    <3> QED BY <3>2, <3>3, <3>4, <1>t DEF AnswerInv, PayloadOf
  <2> QED BY <2>2, <2>3
<1>4. CASE ~RecvResp /\ ~SimServes
  <2>1. UNCHANGED answers
    BY <1>4 DEF ChannelNext, HostCalls, SendCmd, Recv, RecvTimeout, RecvTimeoutInFrame, RecvGarbage,
                PeerClosed, Quit, SimDies, SessionOver, hostVars, channelVars
  <2> QED BY <2>1, <1>1
<1> QED BY <1>2, <1>3, <1>4

LEMMA NextReads == ChannelInv /\ ChannelNext => ReadsAreAnsweredByReads'
<1> SUFFICES ASSUME ChannelInv, ChannelNext PROVE ReadsAreAnsweredByReads'
  OBVIOUS
<1>t. ChannelTypeOK /\ ReadsAreAnsweredByReads
  BY DEF ChannelInv
<1>1. ASSUME UNCHANGED <<aligned, last>> PROVE ReadsAreAnsweredByReads'
  BY <1>1, <1>t DEF ReadsAreAnsweredByReads
<1>2. ASSUME NEW c, NEW how, how # "ok", last' = Raised(c, how) PROVE ReadsAreAnsweredByReads'
  BY <1>2 DEF ReadsAreAnsweredByReads, Raised
<1>3. CASE HostCalls
  BY <1>1, <1>2, <1>3 DEF HostCalls, SendCmd
<1>4. CASE RecvResp
  <2>1. CASE last' = EndedBy(call, Head(answers)) /\ aligned' = aligned
    BY <1>4, <2>1, AcceptedRead DEF RecvResp, EndedBy, ReadsAreAnsweredByReads
  <2> QED BY <1>1, <1>2, <1>4, <2>1 DEF RecvResp
<1>5. CASE RecvGarbage
  BY <1>5 DEF RecvGarbage, ReadsAreAnsweredByReads
<1>6. CASE RecvTimeout \/ RecvTimeoutInFrame \/ PeerClosed
  BY <1>2, <1>6 DEF RecvTimeout, RecvTimeoutInFrame, PeerClosed
<1>7. CASE Quit \/ SimServes \/ SimDies \/ SessionOver
  BY <1>1, <1>7 DEF Quit, SimServes, SimDies, SessionOver, hostVars, channelVars
<1> QED BY <1>3, <1>4, <1>5, <1>6, <1>7 DEF ChannelNext, Recv

-----------------------------------------------------------------------------
(* Every step keeps the numbering.  The steps differ in how they move the  *)
(* two queues and Base; these lemmas say what moving them leaves.          *)

(* A new request.                                                          *)
LEMMA SendKeepsNumbers ==
  ASSUME ChannelTypeOK, ChannelTypeOK', NEW r \in Request_, requests' = Append(requests, r),
         r.id = Base' + Len(answers') + Len(requests) + 1,
         Base' + Len(answers') = Base + Len(answers), NumberedRequests
  PROVE  NumberedRequests' /\ Len(requests') = Len(requests) + 1
<1>1. /\ Len(requests') = Len(requests) + 1 /\ Len(requests) \in Nat
      /\ \A i \in 1..Len(requests) : requests'[i] = requests[i]
      /\ requests'[Len(requests) + 1] = r
  BY Types, AppendFacts
<1>2. ASSUME NEW j \in 1..Len(requests') PROVE requests'[j].id = Base' + Len(answers') + j
  <2>1. CASE j \in 1..Len(requests)
    <3>1. requests'[j].id = Base + Len(answers) + j
      BY <2>1, <1>1 DEF NumberedRequests
    <3> QED BY <3>1
  <2>2. CASE j = Len(requests) + 1
    <3>1. Base' + Len(answers') \in Int
      BY Types
    <3> QED BY <2>2, <1>1, <3>1
  <2>3. j \in 1..Len(requests) \/ j = Len(requests) + 1
    BY <1>1
  <2> QED BY <2>1, <2>2, <2>3
<1> QED BY <1>1, <1>2 DEF NumberedRequests

(* An answer taken.                                                        *)
LEMMA TakeKeepsAnswers ==
  ASSUME ChannelTypeOK, answers # <<>>, answers' = Tail(answers), Base' = Base + 1, NumberedAnswers
  PROVE  NumberedAnswers' /\ Len(answers') = Len(answers) - 1
<1>1. /\ Len(answers') = Len(answers) - 1 /\ Len(answers) \in Nat \ {0}
      /\ \A i \in 1..Len(answers') : answers'[i] = answers[i + 1]
  BY Types, TailFacts
<1>2. \A i \in 1..Len(answers') : i + 1 \in 1..Len(answers) /\ Base + (i + 1) = Base' + i
  BY <1>1, Types, ShiftIndex
<1> QED BY <1>1, <1>2 DEF NumberedAnswers

(* A request served.                                                       *)
LEMMA ServeKeepsNumbers ==
  ASSUME ChannelTypeOK, requests # <<>>, requests' = Tail(requests),
         NEW status \in {0, 1}, Head(requests).op # "QUIT",
         answers' = Append(answers, Response(Head(requests), status)),
         Base' = Base, NumberedAnswers, NumberedRequests
  PROVE  /\ NumberedAnswers' /\ NumberedRequests'
         /\ Len(answers') + Len(requests') = Len(answers) + Len(requests)
<1> DEFINE r == Head(requests)
           a == Response(r, status)
<1>1. /\ Len(requests') = Len(requests) - 1 /\ Len(requests) \in Nat \ {0}
      /\ \A i \in 1..Len(requests') : requests'[i] = requests[i + 1]
      /\ r = requests[1] /\ r \in Request_
  BY Types, TailFacts
<1>2. a \in Answer_ /\ a.id = r.id
  <2>1. RespLen(r.op, r.lines) \in Nat
    BY <1>1, RespLenType DEF Request_
  <2> QED BY <2>1, <1>1 DEF Response, Request_, Answer_
<1>3. /\ Len(answers') = Len(answers) + 1 /\ Len(answers) \in Nat
      /\ \A i \in 1..Len(answers) : answers'[i] = answers[i]
      /\ answers'[Len(answers) + 1] = a
  BY <1>2, Types, AppendFacts
<1>4. 1 \in 1..Len(requests)
  BY <1>1
<1>5. a.id = Base + Len(answers) + 1
  BY <1>1, <1>2, <1>4 DEF NumberedRequests
<1>6. ASSUME NEW i \in 1..Len(answers') PROVE answers'[i].id = Base' + i
  <2>1. i \in 1..Len(answers) \/ i = Len(answers) + 1
    BY <1>3
  <2> QED BY <2>1, <1>3, <1>5, Types DEF NumberedAnswers
<1>7. ASSUME NEW j \in 1..Len(requests') PROVE requests'[j].id = Base' + Len(answers') + j
  <2>1. j + 1 \in 1..Len(requests)
    BY <1>1, ShiftIndex
  <2>2. Base + Len(answers) + (j + 1) = Base' + Len(answers') + j
    BY <1>3, Types
  <2> QED BY <2>1, <2>2, <1>1 DEF NumberedRequests
<1>8. Len(answers') + Len(requests') = Len(answers) + Len(requests)
  BY <1>1, <1>3
<1> QED BY <1>6, <1>7, <1>8 DEF NumberedAnswers, NumberedRequests

LEMMA NextPair == ChannelInv /\ ChannelNext /\ ChannelTypeOK' => PairInv'
<1> SUFFICES ASSUME ChannelInv, ChannelNext, ChannelTypeOK' PROVE PairInv'
  OBVIOUS
<1>t. ChannelTypeOK /\ PairInv /\ CallInv
  BY DEF ChannelInv
<1>1. ASSUME NEW op \in Ops, NEW n \in 1..MaxLines, SendCmd(op, n)
      PROVE  PairInv'
  <2> DEFINE r == Request(op, IF op = "DMA_WR" THEN 1 ELSE n)
  <2>1. CASE sock = "open" /\ sim = "up"
    <3>1. /\ requests' = Append(requests, r) /\ issued' = issued + 1
          /\ call' = [op |-> op, lines |-> n, left |-> Turns(op, n)]
          /\ ~Waiting /\ UNCHANGED <<sock, sim, answers, aligned, abandoned>>
      BY <1>1, <2>1 DEF SendCmd
    <3>2. W = 0 /\ W' = 1
      <4>1. op # "none"
        BY DEF Ops
      <4>2. call' # NoCall
        BY <4>1, <3>1 DEF NoCall
      <4> QED BY <4>2, <3>1 DEF W, Waiting
    <3>3. Base' = Base
      BY <3>1, <3>2, <1>t, Types DEF Base
    <3>4. r \in Request_ /\ r.id = issued + 1
      BY Bounds, <1>t, RequestType
    <3>5. aligned => /\ NumberedAnswers /\ NumberedRequests
                     /\ Len(answers) + Len(requests) = abandoned
      BY <2>1, <3>2, <1>t, Types DEF PairInv
    <3>6. aligned => r.id = Base' + Len(answers') + Len(requests) + 1
      <4>1. Base' = issued - abandoned /\ Len(answers') = Len(answers)
        BY <3>1, <3>2, <3>3, <1>t, Types DEF Base
      <4>2. Len(answers) + Len(requests) = abandoned =>
              issued + 1 = issued - abandoned + Len(answers) + Len(requests) + 1
        BY <1>t, Types
      <4> QED BY <4>1, <4>2, <3>4, <3>5
    <3>7. aligned => NumberedRequests' /\ Len(requests') = Len(requests) + 1
      BY <3>1, <3>3, <3>4, <3>5, <3>6, <1>t, SendKeepsNumbers
    <3>8. aligned => NumberedAnswers'
      BY <3>1, <3>3, <3>5 DEF NumberedAnswers
    <3>9. aligned => Len(answers') + Len(requests') = abandoned' + W'
      BY <3>1, <3>2, <3>5, <3>7, <1>t, Types
    <3> QED BY <3>1, <3>7, <3>8, <3>9 DEF PairInv
  <2>2. CASE ~(sock = "open" /\ sim = "up")
    <3>1. UNCHANGED <<requests, issued, call, sock, sim, answers, aligned, abandoned>>
      BY <1>1, <2>2 DEF SendCmd
    <3> QED BY <3>1, <1>t DEF PairInv, NumberedAnswers, NumberedRequests, Base, W, Waiting
  <2> QED BY <2>1, <2>2
<1>2. CASE RecvResp
  <2> DEFINE a    == Head(answers)
             more == Accepts(call, a) /\ call.left > 1
  <2>1. aligned /\ Waiting /\ answers # <<>> /\ answers' = Tail(answers) /\ W = 1
        /\ UNCHANGED <<sock, sim, aligned, abandoned>>
    BY <1>2 DEF RecvResp, W
  <2>2. CASE more /\ sim = "up"
    <3>1. /\ requests' = Append(requests, Request(call.op, 1)) /\ issued' = issued + 1
          /\ call' = [call EXCEPT !.left = @ - 1]
      BY <1>2, <2>2 DEF RecvResp
    <3>2. call.op \in Ops /\ sock = "open"
      BY <2>1, <1>t DEF CallInv
    <3>3. W' = 1
      <4>1. call \in Call_ /\ call.op # "none"
        BY <3>2, <1>t, Types DEF Ops
      <4>2. call'.op = call.op
        BY <4>1, <3>1 DEF Call_
      <4>3. call' # NoCall
        BY <4>1, <4>2 DEF NoCall
      <4> QED BY <4>3 DEF W, Waiting
    <3>4. Base' = Base + 1
      BY <2>1, <3>1, <3>3, <1>t, Types DEF Base
    <3>5. NumberedAnswers' /\ Len(answers') = Len(answers) - 1
      BY <2>1, <3>4, <1>t, TakeKeepsAnswers DEF PairInv
    <3>6. Request(call.op, 1) \in Request_ /\ Request(call.op, 1).id = issued + 1
      BY <3>2, <1>t, RequestType
    <3>7. NumberedRequests /\ Len(answers) + Len(requests) = abandoned + 1
      BY <2>1, <2>2, <3>2, <1>t DEF PairInv
    <3>8. Base' + Len(answers') = Base + Len(answers)
      BY <3>4, <3>5, <1>t, Types
    <3>9. Request(call.op, 1).id = Base' + Len(answers') + Len(requests) + 1
      BY <2>1, <3>6, <3>7, <3>8, <1>t, Types DEF Base
    <3>10. NumberedRequests' /\ Len(requests') = Len(requests) + 1
      BY <3>1, <3>6, <3>7, <3>8, <3>9, <1>t, SendKeepsNumbers
    <3>11. Len(answers') + Len(requests') = abandoned' + W'
      BY <2>1, <3>3, <3>5, <3>7, <3>10, <1>t, Types
    <3> QED BY <3>5, <3>10, <3>11 DEF PairInv
  <2>3. CASE ~(more /\ sim = "up")
    <3>1. call' = NoCall /\ UNCHANGED <<requests, issued>>
      BY <1>2, <2>3 DEF RecvResp
    <3>2. W' = 0
      BY <3>1 DEF W, Waiting
    <3>3. Base' = Base + 1
      BY <2>1, <3>1, <3>2, <1>t, Types DEF Base
    <3>4. NumberedAnswers' /\ Len(answers') = Len(answers) - 1
      BY <2>1, <3>3, <1>t, TakeKeepsAnswers DEF PairInv
    <3>5. Base' + Len(answers') = Base + Len(answers)
      BY <3>3, <3>4, <1>t, Types
    <3>6. sim = "up" => NumberedRequests'
      BY <2>1, <3>1, <3>5, <1>t DEF PairInv, NumberedRequests
    <3>7. sim = "up" /\ sock = "open" => Len(answers') + Len(requests') = abandoned' + W'
      BY <2>1, <3>1, <3>2, <3>4, <1>t, Types DEF PairInv
    <3> QED BY <2>1, <3>4, <3>6, <3>7 DEF PairInv
  <2> QED BY <2>2, <2>3
<1>3. CASE RecvTimeout
  <2>1. /\ Waiting /\ call' = NoCall /\ abandoned' = abandoned + 1
        /\ UNCHANGED <<sock, sim, requests, answers, issued, aligned>>
    BY <1>3 DEF RecvTimeout
  <2>2. W = 1 /\ W' = 0
    BY <2>1 DEF W, Waiting
  <2>3. Base' = Base /\ abandoned' + W' = abandoned + W
    BY <2>1, <2>2, <1>t, Types DEF Base
  <2> QED BY <2>1, <2>3, <1>t DEF PairInv, NumberedAnswers, NumberedRequests
<1>4. CASE RecvTimeoutInFrame \/ RecvGarbage
  BY <1>4 DEF RecvTimeoutInFrame, RecvGarbage, PairInv
<1>5. CASE PeerClosed
  <2>1. answers' = <<>> /\ sim' = "down"
    BY <1>5 DEF PeerClosed
  <2>2. \A i \in 1..Len(answers') : FALSE
    BY <2>1
  <2> QED BY <2>1, <2>2 DEF PairInv, NumberedAnswers
<1>6. CASE Quit
  <2>1. /\ ~Waiting /\ sock = "open" /\ sock' = "closed"
        /\ UNCHANGED <<sim, answers, issued, call, aligned, abandoned>>
    BY <1>6 DEF Quit
  <2>2. W = 0 /\ Base' = Base
    BY <2>1 DEF W, Waiting, Base
  <2>3. CASE sim = "up"
    <3>1. requests' = Append(requests, Request("QUIT", 0))
      BY <1>6, <2>3 DEF Quit
    <3>2. Request("QUIT", 0) \in Request_ /\ Request("QUIT", 0).id = issued + 1
      BY <1>t, RequestType
    <3>3. aligned => NumberedRequests /\ Len(answers) + Len(requests) = abandoned
      BY <2>1, <2>2, <2>3, <1>t, Types DEF PairInv
    <3>4. aligned => Request("QUIT", 0).id = Base' + Len(answers') + Len(requests) + 1
      BY <2>1, <2>2, <3>2, <3>3, <1>t, Types DEF Base
    <3>5. aligned => NumberedRequests'
      BY <2>1, <2>2, <3>1, <3>2, <3>3, <3>4, <1>t, SendKeepsNumbers
    <3> QED BY <2>1, <2>2, <3>5, <1>t DEF PairInv, NumberedAnswers
  <2>4. CASE sim # "up"
    BY <2>1, <2>2, <2>4, <1>t DEF PairInv, NumberedAnswers
  <2> QED BY <2>3, <2>4
<1>7. CASE SimServes
  <2> DEFINE r == Head(requests)
  <2>1. sim = "up" /\ requests # <<>> /\ requests' = Tail(requests)
        /\ UNCHANGED <<issued, sock, call, aligned, abandoned>>
    BY <1>7 DEF SimServes, hostVars
  <2>2. W' = W /\ Base' = Base
    BY <2>1 DEF W, Waiting, Base
  <2>3. CASE r.op = "QUIT"
    <3>1. sim' = "down" /\ answers' = answers
      BY <1>7, <2>3 DEF SimServes
    <3> QED BY <2>1, <2>2, <3>1, <1>t DEF PairInv, NumberedAnswers
  <2>4. CASE r.op # "QUIT"
    <3>1. PICK status \in {0, 1} : answers' = Append(answers, Response(r, status))
      BY <1>7, <2>4 DEF SimServes
    <3>2. sim' = sim
      BY <1>7, <2>4 DEF SimServes
    <3>3. aligned => /\ NumberedAnswers' /\ NumberedRequests'
                     /\ Len(answers') + Len(requests') = Len(answers) + Len(requests)
      BY <2>1, <2>2, <2>4, <3>1, <1>t, ServeKeepsNumbers DEF PairInv
    <3> QED BY <2>1, <2>2, <3>2, <3>3, <1>t DEF PairInv
  <2> QED BY <2>3, <2>4
<1>8. CASE SimDies
  <2>1. sim' = "down" /\ UNCHANGED <<answers, issued, call, aligned, abandoned>>
    BY <1>8 DEF SimDies, hostVars
  <2> QED BY <2>1, <1>t DEF PairInv, NumberedAnswers, Base, W, Waiting
<1>9. CASE SessionOver
  BY <1>9, <1>t DEF SessionOver, channelVars, PairInv, NumberedAnswers, NumberedRequests, Base, W,
                    Waiting
<1> QED BY <1>1, <1>2, <1>3, <1>4, <1>5, <1>6, <1>7, <1>8, <1>9 DEF ChannelNext, HostCalls, Recv

-----------------------------------------------------------------------------
LEMMA StutterInv == ChannelInv /\ UNCHANGED channelVars => ChannelInv'
BY DEF channelVars, ChannelInv, ChannelTypeOK, HostTypeOK, WireTypeOK, PairInv, CallInv, AnswerInv,
       ReadsAreAnsweredByReads, NumberedAnswers, NumberedRequests, Base, W, Waiting, PayloadOf

(* ChannelInv is an invariant of the host and the simulator.               *)
THEOREM InvHolds == ChannelSpec => []ChannelInv
<1>1. ChannelInv /\ [ChannelNext]_channelVars => ChannelInv'
  BY NextTypes, NextAnswers, NextReads, NextPair, StutterInv DEF ChannelInv
<1> QED BY InitInv, <1>1, PTL DEF ChannelSpec

(* The variables of both ends of the socket keep their types.              *)
THEOREM ChannelTypeCorrect == ChannelSpec => []ChannelTypeOK
<1>1. ChannelInv => ChannelTypeOK
  BY DEF ChannelInv
<1> QED BY <1>1, InvHolds, PTL

(* As long as no timeout struck inside a frame, recv_resp of cosim.py      *)
(* takes the answer of the request as many requests back as waits were     *)
(* given up: its own while there was no timeout, never again after one.    *)
THEOREM AnswersLag == ChannelSpec => []AnswersLagByTimeouts
<1>1. ChannelInv => AnswersLagByTimeouts
  <2> SUFFICES ASSUME ChannelInv, aligned, Waiting, answers # <<>>
               PROVE  Head(answers).id = issued - abandoned
    BY DEF AnswersLagByTimeouts
  <2>1. Head(answers).id = Base + 1 /\ W = 1
    BY HeadAnswer DEF W
  <2> QED BY <2>1, Types DEF Base, ChannelInv
<1> QED BY <1>1, InvHolds, PTL

(* read32 and C2H.read return only what a read of the same operation and   *)
(* size was answered with, also when answers are late.                     *)
THEOREM ReadsGetReads == ChannelSpec => []ReadsAreAnsweredByReads
<1>1. ChannelInv => ReadsAreAnsweredByReads
  BY DEF ChannelInv
<1> QED BY <1>1, InvHolds, PTL
=============================================================================
