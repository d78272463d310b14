---------------------------- MODULE CosimChannel ----------------------------
(***************************************************************************)
(* The socket between the host driver and the co-simulation                *)
(* (src/host/cosim.py).  A call of XdmaCosimBar, XdmaCosimH2C or           *)
(* XdmaCosimC2H is one request and one response per turn.  A response      *)
(* carries a status and a length and nothing that says which request it    *)
(* answers: the caller takes whatever is next in the socket.               *)
(*                                                                         *)
(* The simulator (external) reads one request after the other, answers     *)
(* each in its own time, may answer with an error, and may die.  A recv    *)
(* that runs into the socket's timeout raises; its caller may go on with   *)
(* the next call on the same socket, as run_kernel.py main does, and the   *)
(* late answer stays.                                                      *)
(***************************************************************************)
EXTENDS Integers, Sequences

CONSTANTS
  MaxReq,     \* bound on the requests of a run
  MaxLines    \* bound on the 64-byte lines of one DMA call

ASSUME ChannelAssumption == MaxReq \in Nat /\ MaxLines \in Nat \ {0}

VARIABLES
  sock,       \* CosimSocket._sock: "open", or "closed" for None
  sim,        \* the simulator: "up" or "down"
  requests,   \* requests sent and not yet read by the simulator
  answers,    \* responses in the host's receive buffer
  issued,     \* requests sent so far; the newest request has this id
  call,       \* the call that is waiting in recv_resp, or NoCall
  aligned,    \* the next byte in the socket is the first of a header
  abandoned,  \* waits given up by a timeout
  last        \* how the last call ended

hostVars    == <<sock, call, aligned, abandoned, last>>
channelVars == <<sock, sim, requests, answers, issued, call, aligned, abandoned, last>>

Ops == {"WR32", "RD32", "DMA_WR", "DMA_RD"}

(* Lengths count 4-byte words; a DMA line has 16.                          *)
Word == 1
Line == 16

(* The response payload of a request that succeeds.                        *)
RespLen(op, n) == CASE op = "RD32"   -> Word
                    [] op = "DMA_RD" -> n * Line
                    [] OTHER         -> 0

(* A DMA write goes line by line, so its call has several turns; a DMA     *)
(* read asks for all its lines at once.                                    *)
Turns(op, n) == IF op = "DMA_WR" THEN n ELSE 1

NoCall == [op |-> "none", lines |-> 0, left |-> 0]
NoEnd  == [op |-> "none", lines |-> 0, how |-> "none", id |-> 0, by |-> 0,
           byOp |-> "none", len |-> 0]
Waiting == call # NoCall

ChannelInit ==
  /\ sock = "open" /\ sim = "up"
  /\ requests = <<>> /\ answers = <<>>
  /\ issued = 0
  /\ call = NoCall
  /\ aligned = TRUE /\ abandoned = 0
  /\ last = NoEnd

(* How a call ends without a response: an exception for its caller.        *)
Raised(c, how) == [op |-> c.op, lines |-> c.lines, how |-> how, id |-> issued, by |-> 0,
                   byOp |-> "none", len |-> 0]

Request(op, n) == [id |-> issued + 1, op |-> op, lines |-> n]

(***************************************************************************)
(* The host.                                                               *)
(***************************************************************************)

(* send_cmd of the first turn.  If the simulator has gone, or the socket   *)
(* was closed, it raises.                                                  *)
SendCmd(op, n) ==
  /\ ~Waiting /\ issued + Turns(op, n) <= MaxReq
  /\ LET c == [op |-> op, lines |-> n, left |-> Turns(op, n)]
     IN  IF sock = "open" /\ sim = "up"
         THEN /\ requests' = Append(requests, Request(op, IF op = "DMA_WR" THEN 1 ELSE n))
              /\ issued' = issued + 1
              /\ call' = c
              /\ UNCHANGED <<last, sock>>
         ELSE /\ last' = Raised(c, "error")
              /\ UNCHANGED <<requests, issued, call, sock>>
  /\ UNCHANGED <<sim, answers, aligned, abandoned>>

(* Mutation of Accepts: a read trusts the length it is given.              *)
AcceptsAnyLength(c, a) == a.status = 0

(* What the wrappers ask of a response: status 0, and of a read the length *)
(* it asked for.  A write looks at the status only.                        *)
Accepts(c, a) ==
  /\ a.status = 0
  /\ c.op \in {"RD32", "DMA_RD"} => a.len = RespLen(c.op, c.lines)

EndedBy(c, a) ==
  [op |-> c.op, lines |-> c.lines, how |-> IF Accepts(c, a) THEN "ok" ELSE "error",
   id |-> issued, by |-> a.id, byOp |-> a.op, len |-> a.len]

(* recv_resp gets a whole frame.  A DMA write with lines left then sends   *)
(* its next line, unless the response was an error or the simulator is     *)
(* gone.                                                                   *)
RecvResp ==
  /\ Waiting /\ aligned /\ answers # <<>>
  /\ LET a    == Head(answers)
         more == Accepts(call, a) /\ call.left > 1
     IN  /\ answers' = Tail(answers)
         /\ IF more /\ sim = "up"
            THEN /\ requests' = Append(requests, Request(call.op, 1))
                 /\ issued' = issued + 1
                 /\ call' = [call EXCEPT !.left = @ - 1]
                 /\ UNCHANGED last
            ELSE /\ call' = NoCall
                 /\ last' = IF more THEN Raised(call, "error") ELSE EndedBy(call, a)
                 /\ UNCHANGED <<requests, issued>>
  /\ UNCHANGED <<sock, sim, aligned, abandoned>>

(* Mutation of RecvTimeout: a timeout sends the request again and waits on. *)
RecvTimeoutResends ==
  /\ Waiting /\ answers = <<>> /\ sim = "up" /\ issued < MaxReq
  /\ requests' = Append(requests, Request(call.op, call.lines))
  /\ issued' = issued + 1
  /\ UNCHANGED <<sock, sim, answers, call, aligned, abandoned, last>>

(* The socket's timeout strikes before anything has come.                  *)
RecvTimeout ==
  /\ Waiting /\ answers = <<>> /\ sim = "up"
  /\ call' = NoCall
  /\ abandoned' = abandoned + 1
  /\ last' = Raised(call, "timeout")
  /\ UNCHANGED <<sock, sim, requests, answers, issued, aligned>>

(* It strikes while a frame is arriving: the bytes that _recv_exact has    *)
(* in its buffer are lost, and the next recv begins inside the frame.      *)
RecvTimeoutInFrame ==
  /\ Waiting /\ Len(answers) = 1 /\ sim = "up"
  /\ aligned' = FALSE
  /\ call' = NoCall
  /\ abandoned' = abandoned + 1
  /\ last' = Raised(call, "timeout")
  /\ UNCHANGED <<sock, sim, requests, answers, issued>>

(* recv_resp inside a frame takes some five bytes for a header: the status *)
(* and the length may be anything, and the recv may also never get as many *)
(* bytes as that length says.                                              *)
RecvGarbage ==
  /\ Waiting /\ ~aligned
  /\ call' = NoCall
  /\ \E how \in {"ok", "error", "timeout"} : last' = Raised(call, how)
  /\ UNCHANGED <<sock, sim, requests, answers, issued, aligned, abandoned>>

(* Mutation of PeerClosed: no check for the empty chunk, so recv is called for ever. *)
PeerClosedUnnoticed ==
  /\ Waiting /\ answers = <<>> /\ sim = "down"
  /\ UNCHANGED channelVars

(* recv returns no bytes: the simulator has closed its end.                *)
PeerClosed ==
  /\ Waiting /\ answers = <<>> /\ sim = "down"
  /\ call' = NoCall
  /\ last' = Raised(call, "error")
  /\ UNCHANGED <<sock, sim, requests, answers, issued, aligned, abandoned>>

(* Mutation of Quit: the socket is closed without QUIT.                    *)
QuitSilently ==
  /\ ~Waiting /\ sock = "open"
  /\ sock' = "closed"
  /\ UNCHANGED <<sim, requests, answers, issued, call, aligned, abandoned, last>>

(* CosimSocket.quit, from MiniDice.close: QUIT if it can be sent, then     *)
(* close, whatever was still to come.                                      *)
Quit ==
  /\ ~Waiting /\ sock = "open"
  /\ requests' = IF sim = "up"
                 THEN Append(requests, Request("QUIT", 0))
                 ELSE requests
  /\ sock' = "closed"
  /\ UNCHANGED <<sim, answers, issued, call, aligned, abandoned, last>>

(***************************************************************************)
(* The simulator.                                                          *)
(***************************************************************************)
Response(r, status) ==
  [id |-> r.id, op |-> r.op, status |-> status,
   len |-> IF status = 0 THEN RespLen(r.op, r.lines) ELSE 0]

SimServes ==
  /\ sim = "up" /\ requests # <<>>
  /\ requests' = Tail(requests)
  /\ IF Head(requests).op = "QUIT"
     THEN sim' = "down" /\ UNCHANGED answers
     ELSE /\ \E status \in {0, 1} : answers' = Append(answers, Response(Head(requests), status))
          /\ UNCHANGED sim
  /\ UNCHANGED <<issued, hostVars>>

SimDies ==
  /\ sim = "up"
  /\ sim' = "down"
  /\ UNCHANGED <<requests, answers, issued, hostVars>>

-----------------------------------------------------------------------------
(* The session is over.                                                    *)
SessionOver == ~Waiting /\ sock = "closed" /\ sim = "down" /\ UNCHANGED channelVars

HostCalls == \E op \in Ops, n \in 1..MaxLines : (op \in {"WR32", "RD32"} => n = 1) /\ SendCmd(op, n)
Recv      == RecvResp \/ RecvTimeout \/ RecvTimeoutInFrame \/ RecvGarbage \/ PeerClosed

ChannelNext == HostCalls \/ Recv \/ Quit \/ SimServes \/ SimDies \/ SessionOver

(* The host's process runs and the socket has a timeout, so a recv ends;   *)
(* the simulator reads what it is sent.  Nothing makes the host call.      *)
ChannelSpec == ChannelInit /\ [][ChannelNext]_channelVars
                 /\ WF_channelVars(Recv) /\ WF_channelVars(SimServes)

-----------------------------------------------------------------------------
Request_  == [id : Nat, op : Ops \cup {"QUIT"}, lines : Nat]
Answer_   == [id : Nat, op : Ops, status : {0, 1}, len : Nat]
End_      == [op : Ops \cup {"none"}, lines : Nat, how : {"none", "ok", "error", "timeout"},
              id : Nat, by : Nat, byOp : Ops \cup {"none"}, len : Nat]
Call_     == [op : Ops \cup {"none"}, lines : Nat, left : Nat]

HostTypeOK ==
  /\ sock \in {"open", "closed"}
  /\ issued \in 0..MaxReq /\ abandoned \in Nat
  /\ call \in Call_ /\ last \in End_
  /\ aligned \in BOOLEAN

WireTypeOK ==
  /\ sim \in {"up", "down"}
  /\ requests \in Seq(Request_) /\ answers \in Seq(Answer_)

ChannelTypeOK == HostTypeOK /\ WireTypeOK

(* The framing has no ids, so pairing rests on counting: as long as no     *)
(* timeout struck inside a frame, the answer a call takes is that of the   *)
(* request made as many requests before as waits were given up, never of   *)
(* another and never twice (cosim.py, recv_resp).  Without a timeout it is *)
(* the call's own; after one, no later call of the session gets its own    *)
(* answer again.                                                           *)
AnswersLagByTimeouts ==
  aligned /\ Waiting /\ answers # <<>> => Head(answers).id = issued - abandoned

(* What the checks of read32 and C2H.read buy: even when answers are late, *)
(* a read returns only what a read of the same size was answered with,     *)
(* never the ack of a write or another operation's data.                   *)
ReadsAreAnsweredByReads ==
  aligned /\ last.how = "ok" /\ last.op \in {"RD32", "DMA_RD"} =>
    /\ last.byOp = last.op
    /\ last.len = RespLen(last.op, last.lines)

(* A call never hangs the host: with a socket timeout it ends, whatever    *)
(* the simulator does.                                                     *)
EveryCallReturns == Waiting ~> ~Waiting

(* Closing the driver ends the simulation, also when calls failed before   *)
(* or requests nobody waits for are still queued (MiniDice.close).         *)
CloseStopsSim == (sock = "closed") ~> (sim = "down")
=============================================================================
