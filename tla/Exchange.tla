------------------------------- MODULE Exchange -------------------------------
(***************************************************************************)
(* One connection of the data plane after its handshake: what _handle_tcp  *)
(* and _handle_l3 (gateway.py) make of the frames a peer writes, what they *)
(* send back, and what fetch and send_l3 (client.py) make of that.  The    *)
(* gateway is done reading before it answers and the client is done        *)
(* writing before it reads, so one codec at a time is in use: first the    *)
(* gateway's, then the client's.  What payloads say (options, HTTP,        *)
(* addresses of a packet) is a choice made where the code looks at it.     *)
(***************************************************************************)
EXTENDS FrameCodec

CONSTANTS GatewayFrames,  \* [tcp |-> 64, l3 |-> 2]
          ClientFrames,   \* [tcp |-> 1024, l3 |-> 2]
          MaxRequest,     \* MAX_HTTP_REQUEST, in units
          MaxResponse,    \* MAX_HTTP_RESPONSE, in units
          ChunkSizes      \* what the resource may send at once, in units

Modes == {"tcp", "l3"}

(* The handlers use stream 1; a control payload is one unit.               *)
ASSUME ExchangeAssumption ==
  /\ 1 \in Streams
  /\ MaxPayload >= 1
  /\ GatewayFrames \in [Modes -> Limits]
  /\ ClientFrames \in [Modes -> Limits]
  /\ MaxRequest \in Nat /\ MaxResponse \in Nat
  /\ ChunkSizes \subseteq 1..MaxPayload

VARIABLES mode,       \* the mode of the handshake
          gw,         \* where the gateway's handler is, or how it ended
          asked,      \* history: what the peer had written by then
          forwarded,  \* the request frames sent on to the resource
          answered,   \* chunks the resource has sent
          client,     \* where the client is, or how its call ended
          cut         \* the connection broke before the gateway closed it

exchangeVars == <<mode, gw, asked, forwarded, answered, client, cut>>
vars == <<codecVars, exchangeVars>>

(* The handler's ends: "refused" for the frames, "declined" for what their *)
(* payloads say, "expired" for want of them, "failed" at the resource,     *)
(* "stopped" before and "finished" at the end of the resource's answer.    *)
Serving == {"collect", "complete", "accepted", "relay"}
Ended == {"refused", "declined", "expired", "failed", "stopped", "finished"}

ExchangeTypeOK ==
  /\ CodecTypeOK
  /\ mode \in Modes
  /\ gw \in Serving \cup Ended
  /\ asked \in Seq(Frames)
  /\ forwarded \in Seq(Frames)
  /\ answered \in 0..MaxSent
  /\ client \in {"waiting", "decoding", "finishing", "returned", "rejected", "failed"}
  /\ cut \in BOOLEAN

Init ==
  /\ CodecInit
  /\ mode \in Modes
  /\ limit = GatewayFrames[mode]
  /\ gw = "collect"
  /\ asked = <<>>
  /\ forwarded = <<>>
  /\ answered = 0
  /\ client = "waiting"
  /\ cut = FALSE

-----------------------------------------------------------------------------
(* The request.                                                            *)
PeerWrites(f) == gw = "collect" /\ Write(f) /\ UNCHANGED exchangeVars
Receive(n) == gw = "collect" /\ Feed(n) /\ UNCHANGED exchangeVars
DecodeRequest == gw = "collect" /\ Decode /\ UNCHANGED exchangeVars

GatewayGoes(place) ==
  /\ gw' = place
  /\ UNCHANGED <<mode, asked, forwarded, answered, client, cut>>

RejectRequest == gw = "collect" /\ Reject /\ GatewayGoes("refused")

BodyUnits(fs) == PayloadUnits(fs, 2, Len(fs))

CompleteRequest(fs) == \E i \in 2..Len(fs) : "FIN" \in fs[i].flags

(* Mutant: the limit is applied to each frame.                             *)
PassesEachFrame(fs) ==
  /\ Len(fs) >= 1 => fs[1].type = "TCP_OPEN" /\ fs[1].sid = 1
  /\ \A i \in 2..Len(fs) : fs[i].type = "TCP_DATA" /\ fs[i].sid = 1 /\ "RST" \notin fs[i].flags
                           /\ fs[i].size <= MaxRequest

(* The loop over the frames returns at none of them; fs are all so far.    *)
Passes(fs) ==
  /\ Len(fs) >= 1 => fs[1].type = "TCP_OPEN" /\ fs[1].sid = 1
  /\ \A i \in 2..Len(fs) : fs[i].type = "TCP_DATA" /\ fs[i].sid = 1 /\ "RST" \notin fs[i].flags
  /\ BodyUnits(fs) <= MaxRequest

(* The options of the open frame may be wrong.                             *)
TcpVerdicts(fs) ==
  IF ~Passes(fs) THEN {"refused"}
  ELSE {IF CompleteRequest(fs) THEN "complete" ELSE "collect"}
         \cup (IF delivered = <<>> /\ fs # <<>> THEN {"declined"} ELSE {})

(* Mutant: a piece without a whole packet ends the connection.             *)
L3VerdictsHasty(fs) ==
  CASE fs = <<>> -> {"refused"}
    [] fs # <<>> /\ fs[1].type = "L3_DATA" /\ fs[1].sid = 1 -> {"accepted", "declined"}
    [] OTHER -> {"refused"}

(* The first packet decides: its form, its route and its source.           *)
L3Verdicts(fs) ==
  CASE fs = <<>> -> {"collect"}
    [] fs # <<>> /\ fs[1].type = "L3_DATA" /\ fs[1].sid = 1 -> {"accepted", "declined"}
    [] OTHER -> {"refused"}

TakeFrames ==
  /\ gw = "collect"
  /\ ReturnFrames
  /\ \E verdict \in IF mode = "tcp" THEN TcpVerdicts(delivered \o batch)
                                    ELSE L3Verdicts(delivered \o batch) :
       GatewayGoes(verdict)

(* Ten seconds, with finish() failing or nothing opened; an end of file or *)
(* a receive that fails.                                                   *)
Expire ==
  /\ gw = "collect"
  /\ \/ mode = "tcp" /\ Finish
     \/ status = "open" /\ UNCHANGED codecVars
  /\ GatewayGoes("expired")

(* finish(), then _valid_http_request().                                   *)
FinishRequest ==
  /\ gw = "complete"
  /\ Finish
  /\ \E verdict \in IF CleanEnd THEN {"accepted", "declined"} ELSE {"refused"} :
       GatewayGoes(verdict)

-----------------------------------------------------------------------------
(* The answer.                                                             *)
Reply(type, sid, seq, size, flags) ==
  [magic |-> TRUE, type |-> type, sid |-> sid, seq |-> seq, size |-> size, flags |-> flags]

(* The first frame of the answer, which a codec of the client will read.   *)
StartAnswer(f) ==
  /\ limit' = ClientFrames[mode]
  /\ sent' = <<f>>
  /\ written' = Units(f)
  /\ arrived' = 0
  /\ status' = "open"
  /\ consumed' = 0
  /\ nextSeq' = [s \in Streams |-> 0]
  /\ kind' = [s \in Streams |-> "none"]
  /\ closed' = {}
  /\ connClosed' = FALSE
  /\ count' = 0
  /\ batch' = <<>>
  /\ delivered' = <<>>

Dial ==
  /\ gw = "accepted" /\ mode = "tcp"
  /\ StartAnswer(Reply("TCP_OPEN", 1, 0, 1, {}))
  /\ gw' = "relay"
  /\ asked' = sent
  /\ forwarded' = Tail(delivered)
  /\ UNCHANGED <<mode, answered, client, cut>>

DialFailed ==
  /\ gw = "accepted" /\ mode = "tcp"
  /\ GatewayGoes("failed")
  /\ UNCHANGED codecVars

AcknowledgePacket ==
  /\ gw = "accepted" /\ mode = "l3"
  /\ StartAnswer(Reply("PONG", 0, 0, 1, {}))
  /\ GatewayGoes("finished")

(* Mutant: data frames are numbered from 0 again.                          *)
RelayChunkFromZero ==
  /\ gw = "relay" /\ client = "waiting"
  /\ \E n \in ChunkSizes : Write(Reply("TCP_DATA", 1, answered, n, {}))
  /\ answered' = answered + 1
  /\ UNCHANGED <<mode, gw, asked, forwarded, client, cut>>

RelayChunk ==
  /\ gw = "relay" /\ client = "waiting"
  /\ \E n \in ChunkSizes : Write(Reply("TCP_DATA", 1, answered + 1, n, {}))
  /\ answered' = answered + 1
  /\ UNCHANGED <<mode, gw, asked, forwarded, client, cut>>

(* The resource closed its end.                                            *)
RelayFin ==
  /\ gw = "relay" /\ client = "waiting"
  /\ Write(Reply("TCP_DATA", 1, answered + 1, 0, {"FIN"}))
  /\ GatewayGoes("finished")

(* Mutant: the relay ends every stream in the same way.                    *)
RelayStopFin ==
  /\ gw = "relay" /\ client = "waiting"
  /\ Write(Reply("TCP_DATA", 1, answered + 1, 0, {"FIN"}))
  /\ GatewayGoes("stopped")

(* The deadline, the end of the session, an error; or a chunk over the     *)
(* limit, which is dropped.                                                *)
RelayStop ==
  /\ gw = "relay" /\ client = "waiting"
  /\ gw' = "stopped"
  /\ \E lost \in {0, 1} : answered' = answered + lost
  /\ UNCHANGED <<codecVars, mode, asked, forwarded, client, cut>>

-----------------------------------------------------------------------------
(* The client.  _read_all() reads to the end of the stream, which a        *)
(* connection that is cut has too, and feeds everything at once.           *)
Answering == gw \in {"relay", "stopped", "finished"}
ClientGoes(place) == client' = place /\ UNCHANGED <<mode, gw, asked, forwarded, answered>>

ReadAll(n) ==
  /\ Answering /\ client = "waiting"
  /\ n <= MaxResponse
  /\ Feed(n)
  /\ \/ gw # "relay" /\ n = written /\ cut' = FALSE
     \/ cut' = TRUE
  /\ ClientGoes("decoding")

(* More than MAX_HTTP_RESPONSE, frame headers included.                    *)
ReadOverLimit ==
  /\ Answering /\ client = "waiting"
  /\ written > MaxResponse
  /\ ClientGoes("rejected")
  /\ UNCHANGED <<codecVars, cut>>

(* A timeout or a reset.                                                   *)
ReadFails ==
  /\ Answering /\ client = "waiting"
  /\ ClientGoes("failed")
  /\ UNCHANGED <<codecVars, cut>>

DecodeResponse == client = "decoding" /\ Decode /\ UNCHANGED exchangeVars

RejectResponse ==
  /\ client = "decoding"
  /\ Reject
  /\ ClientGoes("rejected")
  /\ UNCHANGED cut

TakeResponse ==
  /\ client = "decoding"
  /\ ReturnFrames
  /\ ClientGoes("finishing")
  /\ UNCHANGED cut

(* What fetch and send_l3 ask of the frames.                               *)
Answers(fs) ==
  IF mode = "l3" THEN Len(fs) = 1 /\ fs[1].type = "PONG"
  ELSE /\ Len(fs) > 1
       /\ fs[1].type = "TCP_OPEN" /\ fs[1].sid = 1
       /\ "FIN" \in fs[Len(fs)].flags
       /\ \A i \in 2..Len(fs) : fs[i].type = "TCP_DATA" /\ "RST" \notin fs[i].flags

(* fetch then parses the status line, which an empty answer has not.       *)
Outcomes ==
  CASE ~(CleanEnd /\ Answers(delivered)) -> {"rejected"}
    [] CleanEnd /\ Answers(delivered) /\ mode = "l3" -> {"returned"}
    [] OTHER -> IF BodyUnits(delivered) = 0 THEN {"failed"} ELSE {"returned", "failed"}

FinishResponse ==
  /\ client = "finishing"
  /\ Finish
  /\ \E outcome \in Outcomes : ClientGoes(outcome)
  /\ UNCHANGED cut

Next ==
  \/ \E f \in Frames : PeerWrites(f)
  \/ \E n \in 1..(written - arrived) : Receive(n)
  \/ DecodeRequest \/ RejectRequest \/ TakeFrames \/ Expire \/ FinishRequest
  \/ Dial \/ DialFailed \/ AcknowledgePacket \/ RelayChunk \/ RelayFin \/ RelayStop
  \/ \E n \in 0..written : ReadAll(n)
  \/ ReadOverLimit \/ ReadFails \/ DecodeResponse \/ RejectResponse \/ TakeResponse \/ FinishResponse

Spec == Init /\ [][Next]_vars

-----------------------------------------------------------------------------
(* What _handle_tcp sends on to the resource is the peer's request up to   *)
(* its FIN, whole, within MAX_HTTP_REQUEST, and never one that was reset:  *)
(* however the frames were cut, and whatever follows the FIN.              *)
ForwardsWholeRequest ==
  forwarded # <<>> =>
    LET k == Len(forwarded) + 1
    IN  /\ forwarded = SubSeq(asked, 2, k)
        /\ asked[1].type = "TCP_OPEN"
        /\ BodyUnits(SubSeq(asked, 1, k)) <= MaxRequest
        /\ \A i \in 2..k : asked[i].type = "TCP_DATA" /\ asked[i].sid = 1
                           /\ asked[i].flags = IF i = k THEN {"FIN"} ELSE {}

(* The frames so far are the beginning, or all, of a request the gateway   *)
(* serves.                                                                 *)
ProperRequest(fs) ==
  /\ Legal(fs)
  /\ mode = "l3" => \A i \in 1..Len(fs) : fs[i].type = "L3_DATA" /\ fs[i].sid = 1
  /\ mode = "tcp" => /\ \A i \in 1..Len(fs) : fs[i].sid = 1 /\ "RST" \notin fs[i].flags
                                              /\ fs[i].type \in {"TCP_OPEN", "TCP_DATA"}
                     /\ BodyUnits(fs) <= MaxRequest

(* A peer that writes a proper request and nothing else is not refused for *)
(* its frames, in whatever pieces they reach the gateway.                  *)
ServesProperRequest == gw = "refused" => ~ProperRequest(sent)

(* fetch and send_l3 return only what the gateway wrote to the end: every  *)
(* chunk the resource sent before it closed, or the one acknowledgement.   *)
(* An answer cut by the network, by the relay's deadline, by its limits or *)
(* by the end of the session never passes for a whole one.                 *)
AnswerIsWhole ==
  client = "returned" =>
    /\ gw = "finished"
    /\ delivered = sent
    /\ mode = "tcp" => Cardinality({i \in 2..Len(delivered) : delivered[i].size > 0}) = answered

(* The client refuses no answer the gateway finished and the network did   *)
(* not cut, but for its length: more frames than the client's codec takes, *)
(* or more than MAX_HTTP_RESPONSE, both of which the relay lets through.   *)
WholeAnswerAccepted ==
  client = "rejected" =>
    cut \/ gw # "finished" \/ Len(sent) > limit \/ written > MaxResponse
=============================================================================
