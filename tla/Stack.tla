--------------------------------- MODULE Stack ---------------------------------
(***************************************************************************)
(* labztna/stack.py and the start and stop of the three servers, around    *)
(* the gateway's connections.  A server's socket listens from construction *)
(* on; its loop runs in a thread of its own from start() to shutdown(),    *)
(* which waits for the loop to notice.  Handler threads are daemons, which *)
(* nobody waits for.  The control plane's loop does the TLS handshake of a *)
(* client in accept(), with no timeout.                                    *)
(***************************************************************************)
EXTENDS Gateway

VARIABLES main,    \* where the thread is that calls start() and stop()
          server,  \* the state of each server; "orphan" listens and has no owner
          door     \* the control plane's accept: "idle", a "client", a "silent" one

stackVars == <<main, server, door>>
allVars == <<vars, stackVars>>

Server == {"resource", "gateway", "control"}
StartSteps == {"resource", "registry", "gateway", "serve_gateway", "control", "serve_control"}
StopSteps == {"stop_control", "stop_gateway", "stop_resource", "cleanup"}

ServerStates == {"absent", "orphan", "listening", "serving", "stopping", "ended", "closed"}

StackTypeOK ==
  /\ GatewayTypeOK
  /\ main \in StartSteps \cup {"running"} \cup StopSteps \cup {"stopped"}
  /\ server \in [Server -> ServerStates]
  /\ door \in {"idle", "client", "silent"}

StackInit ==
  /\ Init
  /\ main = "resource"
  /\ server = [s \in Server |-> IF s = "resource" THEN "listening" ELSE "absent"]
  /\ door = "idle"

-----------------------------------------------------------------------------
(* start(): each step does its part of one server and goes on to the next. *)
StartStep(from, s, becomes, to) ==
  /\ main = from
  /\ main' = to
  /\ server' = [server EXCEPT ![s] = becomes]
  /\ UNCHANGED <<vars, door>>

StartResource == StartStep("resource", "resource", "serving", "registry")
MakeRegistry == StartStep("registry", "resource", "serving", "gateway")
MakeGateway == StartStep("gateway", "gateway", "listening", "serve_gateway")
StartGateway == StartStep("serve_gateway", "gateway", "serving", "control")
MakeControl == StartStep("control", "control", "listening", "serve_control")
StartControl == StartStep("serve_control", "control", "serving", "running")

(* Any of these may raise, and then stop() runs.  Gateway makes its TLS    *)
(* context before its socket.  ControlPlane binds its socket, which then   *)
(* listens, and makes the TLS context after it: when that fails the stack  *)
(* has no ControlPlane to stop, and only the exception keeps the socket.   *)
StartFails ==
  /\ main \in StartSteps
  /\ main' = "stop_control"
  /\ \/ UNCHANGED server
     \/ main = "control" /\ server' = [server EXCEPT !["control"] = "orphan"]
  /\ UNCHANGED <<vars, door>>

Start ==
  \/ StartResource \/ MakeRegistry \/ MakeGateway \/ StartGateway
  \/ MakeControl \/ StartControl \/ StartFails

(* The caller of start() lets go of the exception.                         *)
CollectOrphan ==
  /\ main = "stopped"
  /\ server["control"] = "orphan"
  /\ server' = [server EXCEPT !["control"] = "closed"]
  /\ UNCHANGED <<vars, main, door>>

CallStop ==
  /\ main = "running"
  /\ main' = "stop_control"
  /\ UNCHANGED <<vars, server, door>>

(* Closing a listening socket resets the connections in its backlog.       *)
Close(s) ==
  /\ server' = [server EXCEPT ![s] = "closed"]
  /\ pc' = [c \in Conn |-> IF s = "gateway" /\ pc[c] = "backlog" THEN "closed" ELSE pc[c]]
  /\ UNCHANGED <<accessVars, slots, hello, sid, left, relayed, replayOrder, forgotten, admitted, late, overrun>>

(* What stop() does not find in the stack's attributes.                    *)
Unowned == {"absent", "orphan"}

(* Mutant: a server that was not started is left as it is.                 *)
StopServerStarted(s, from, to) ==
  /\ main = from
  /\ UNCHANGED door
  /\ \/ server[s] = "serving" /\ server' = [server EXCEPT ![s] = "stopping"]
        /\ UNCHANGED <<vars, main>>
     \/ server[s] = "ended" /\ Close(s) /\ main' = to
     \/ server[s] \in Unowned \cup {"listening"} /\ main' = to /\ UNCHANGED <<vars, server>>

(* Mutant: shutdown() also where no loop was started, and none will end.   *)
StopServerAlways(s, from, to) ==
  /\ main = from
  /\ UNCHANGED door
  /\ \/ server[s] = "serving" /\ server' = [server EXCEPT ![s] = "stopping"]
        /\ UNCHANGED <<vars, main>>
     \/ server[s] = "ended" /\ Close(s) /\ main' = to
     \/ server[s] \in Unowned /\ main' = to /\ UNCHANGED <<vars, server>>

(* A server's stop(): shutdown() asks the loop to end and waits for it,    *)
(* then server_close().                                                    *)
StopServer(s, from, to) ==
  /\ main = from
  /\ UNCHANGED door
  /\ \/ server[s] = "serving" /\ server' = [server EXCEPT ![s] = "stopping"]
        /\ UNCHANGED <<vars, main>>
     \/ server[s] \in {"listening", "ended"} /\ Close(s) /\ main' = to
     \/ server[s] \in Unowned /\ main' = to /\ UNCHANGED <<vars, server>>

Cleanup ==
  /\ main = "cleanup"
  /\ main' = "stopped"
  /\ UNCHANGED <<vars, server, door>>

StopControl == StopServer("control", "stop_control", "stop_gateway")
StopGateway == StopServer("gateway", "stop_gateway", "stop_resource")
StopResource == StopServer("resource", "stop_resource", "cleanup")

Stop == StopControl \/ StopGateway \/ StopResource \/ Cleanup

-----------------------------------------------------------------------------
(* A loop looks at the request to end between two connections.             *)
InAccept(s) ==
  \/ s = "gateway" /\ \E c \in Conn : pc[c] = "tls"
  \/ s = "control" /\ door # "idle"

LoopEnds(s) ==
  /\ server[s] = "stopping"
  /\ ~InAccept(s)
  /\ server' = [server EXCEPT ![s] = "ended"]
  /\ UNCHANGED <<vars, main, door>>

(* The clients of the control plane: most do their handshake or leave, one *)
(* may do neither for as long as it likes.                                 *)
ControlAccepts ==
  /\ server["control"] = "serving" /\ door = "idle"
  /\ door' \in {"client", "silent"}
  /\ UNCHANGED <<vars, main, server>>

HandshakeEnds ==
  /\ door = "client"
  /\ door' = "idle"
  /\ UNCHANGED <<vars, main, server>>

SilentLeaves ==
  /\ door = "silent"
  /\ door' = "idle"
  /\ UNCHANGED <<vars, main, server>>

(* The gateway's connections, as far as its server and the resource go.    *)
ClientConnects(c) ==
  /\ server["gateway"] \notin {"absent", "closed"}
  /\ Connect(c)
  /\ UNCHANGED stackVars

GatewayAccepts(c) == server["gateway"] = "serving" /\ AcceptRaw(c)
AcceptGoesOn(c) == TlsFailed(c) \/ TakeSlot(c) \/ NoSlot(c) \/ SpawnFailed(c)
HandlerGoesOn(c) ==
  /\ Handle(c)
  /\ server["resource"] = "closed" => ~(pc[c] = "upstream" /\ pc'[c] = "relay_check")

GatewayStep(c) ==
  /\ UNCHANGED stackVars
  /\ GatewayAccepts(c) \/ AcceptGoesOn(c) \/ HandlerGoesOn(c)

ReadsHello(c) ==
  /\ UNCHANGED stackVars
  /\ \E g \in grants, r \in RequestId, ts \in Timestamps, m \in {"tcp", "l3"}, f \in Flaws :
       ReadHello(c, [grant |-> g, rid |-> r, timestamp |-> ts, mode |-> m, flaw |-> f])

StackNext ==
  \/ Start \/ CallStop \/ Stop \/ CollectOrphan
  \/ \E s \in Server : LoopEnds(s)
  \/ ControlAccepts \/ HandshakeEnds \/ SilentLeaves
  \/ \E c \in Conn : GatewayStep(c) \/ ReadsHello(c) \/ ClientConnects(c)
  \/ AccessNext /\ UNCHANGED <<gatewayVars, stackVars>>

(* The calling thread and the loops run; clients of the control plane end  *)
(* their handshakes, but for a silent one.                                 *)
StackSpec ==
  /\ StackInit /\ [][StackNext]_allVars
  /\ WF_allVars(Start) /\ WF_allVars(Stop) /\ WF_allVars(HandshakeEnds)
  /\ \A s \in Server : WF_allVars(LoopEnds(s))
  /\ \A c \in Conn : WF_allVars(GatewayStep(c))

-----------------------------------------------------------------------------
(* When stop() has returned, after a whole run or after a start() that     *)
(* failed at any step, every server the stack came to own is closed, no    *)
(* loop runs and no connection waits to be accepted.  One socket alone may *)
(* still listen: the control plane's, when its TLS set-up failed.          *)
StoppedIsClosed ==
  main = "stopped" =>
    /\ \A s \in Server \ {"control"} : server[s] \in {"absent", "closed"}
    /\ server["control"] \in {"absent", "orphan", "closed"}
    /\ \A c \in Conn : pc[c] \notin {"backlog", "tls"}

(* start() ends, well or with everything stopped again, and stop() returns *)
(* once it is called, unless a client of the control plane stays silent in *)
(* its TLS handshake for ever: the loop it holds never sees the request.   *)
StopReturns ==
  /\ main \in StartSteps ~> main \in {"running", "stopped"}
  /\ main \in StopSteps ~> (main = "stopped" \/ [](door = "silent"))
=============================================================================
