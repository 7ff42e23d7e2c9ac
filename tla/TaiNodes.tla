------------------------------ MODULE TaiNodes ------------------------------
(***************************************************************************)
(* The nodes of tai/: the registry (tai/registry), the control stream of a *)
(* tunnel and the forward streams that Tai opens on demand (tai/tunnel),   *)
(* the registration of directly reachable nodes (tai/api) and the          *)
(* goroutines that connect to a node once it is registered (tai/dial.go).  *)
(*                                                                         *)
(* One Tai identifier is modelled: identifiers share the map with its lock *)
(* and nothing else.  A connection is one registration of it: a Register   *)
(* stream of a tunnel or a POST.  The connection names the TaiNode it      *)
(* registers, the goroutine that connects to the node and the              *)
(* ConnResources this one makes.  The fields of a TaiNode are those of the *)
(* registered one: nobody else's can be reached.                           *)
(***************************************************************************)
CONSTANTS Tunnels,   \* connections that may be Register streams
          Posts,     \* connections that may be registrations by a POST
          Requests,  \* calls of RequestForward, each with a channel of its own
          Forwards,  \* Forward streams
          None

Conns == Tunnels \cup Posts

ASSUME NoneAssumption == None \notin Conns \cup Requests \cup Forwards

\* the ports of a tunnelled node that are dialled
Ports == {"grpc", "docker"}

VARIABLES
  node,            \* Registry.nodes: the connection whose node is registered
  resources,       \* TaiNode.resources: the connection that made them
  registerStream,  \* TaiNode.registerStream
  localListeners,  \* TaiNode.localListeners: the connection that opened each
  handler,         \* where the handler of a registration is
  broken,          \* Register streams whose network connection is lost
  connect,         \* where the goroutine that connects to a node is
  conn,            \* the ConnResources it makes
  listening,       \* local listeners that are open, as <<connection, port>>
  dropped,         \* ConnResources that nothing refers to any more
  pending,         \* TunnelHandler.pending
  request,         \* where a call of RequestForward and its bridge are
  via,             \* the Register stream it uses
  opened,          \* requests whose "open" was sent to Tai
  waitCh,          \* the channel a request waits on, which has room for one
  bridged,         \* the Forward stream it was given
  forward,         \* where the handler of a Forward stream is
  channel          \* the request whose channel it took

nodeVars == <<node, resources, registerStream, localListeners>>
sessionVars == <<handler, broken>>
connVars == <<connect, conn, listening, dropped>>
forwardVars == <<pending, request, via, opened, waitCh, bridged, forward,
                 channel>>
vars == <<nodeVars, sessionVars, connVars, forwardVars>>

-----------------------------------------------------------------------------
(***************************************************************************)
(* The registry                                                            *)
(***************************************************************************)

NoListeners == [p \in Ports |-> None]

\* Registry.Register: the new node has no resources, stream or listeners, and
\* nothing is done about those of a node it takes the place of
Enter(c) ==
  /\ node' = c
  /\ resources' = None
  /\ registerStream' = None
  /\ localListeners' = NoListeners
  /\ dropped' = dropped \cup ({resources} \ {None})

\* the local listeners of the node
Kept == {l \in Conns \X Ports : localListeners[l[2]] = l[1]}

\* nobody closes what is no longer bound
LeftOpen(c) == conn

\* ConnResources that are told to close, as a goroutine or after the lock
Closing(c) == [d \in Conns |-> IF d = c THEN "closing" ELSE conn[d]]

\* Registry.Unregister: the node that is registered now leaves the map with
\* its listeners closed; its resources are closed after the lock is given back
Unregister ==
  /\ node' = None
  /\ resources' = None
  /\ registerStream' = None
  /\ localListeners' = NoListeners
  /\ listening' = listening \ Kept
  /\ conn' = Closing(resources)

\* Registry.OpenLocalListener, called by the goroutine of connection c
OpenLocalListener(c, port) ==
  /\ node # None
  /\ localListeners' = [localListeners EXCEPT ![port] = c]
  /\ listening' = listening \cup {<<c, port>>}

-----------------------------------------------------------------------------
(***************************************************************************)
(* Registration                                                            *)
(***************************************************************************)

\* TunnelHandler.Register receives "register"
RegisterTunnel(c) ==
  /\ c \in Tunnels /\ handler[c] = "none"
  /\ handler' = [handler EXCEPT ![c] = "registered"]
  /\ Enter(c)
  /\ UNCHANGED <<broken, connect, conn, listening, forwardVars>>

\* SetRegisterStream: on the node that is registered by now
SetRegisterStream(c) ==
  /\ handler[c] = "registered"
  /\ handler' = [handler EXCEPT ![c] = "streamed"]
  /\ registerStream' = IF node = None THEN None ELSE c
  /\ UNCHANGED <<node, resources, localListeners, broken, connVars, forwardVars>>

\* the Unregister is deferred too late
ReturnsAtOnce == "gone"

\* Register returns an error, through the Unregister that it has deferred
\* before the first Send
ReturnsError == "leaving"

\* "registered" is sent and the goroutine that connects starts
SendRegistered(c) ==
  /\ handler[c] = "streamed"
  /\ \/ /\ handler' = [handler EXCEPT ![c] = "serving"]
        /\ connect' = [connect EXCEPT ![c] = "grpc"]
     \/ /\ c \in broken
        /\ handler' = [handler EXCEPT ![c] = ReturnsError]
        /\ UNCHANGED connect
  /\ UNCHANGED <<nodeVars, broken, conn, listening, dropped, forwardVars>>

\* Recv or the Send of a "pong" returns an error, or Tai has closed the stream
StreamEnds(c) ==
  /\ handler[c] = "serving"
  /\ handler' = [handler EXCEPT ![c] = "leaving"]
  /\ UNCHANGED <<nodeVars, broken, connVars, forwardVars>>

\* the deferred Unregister, by identifier
Leave(c) ==
  /\ handler[c] = "leaving"
  /\ handler' = [handler EXCEPT ![c] = "gone"]
  /\ Unregister
  /\ UNCHANGED <<broken, connect, dropped, forwardVars>>

\* the network connection of a Register stream is lost
Break(c) ==
  /\ c \in Tunnels /\ handler[c] \notin {"none", "gone", "posted"}
  /\ broken' = broken \cup {c}
  /\ UNCHANGED <<nodeVars, handler, connVars, forwardVars>>

\* Context().Done() of a Register stream
StreamOver(c) == c \in broken \/ handler[c] = "gone"

\* HandleRegister and, for an address with a port, DialRemote, which fails or
\* has resources to bind
RegisterDirect(c) ==
  /\ c \in Posts /\ handler[c] = "none"
  /\ handler' = [handler EXCEPT ![c] = "posted"]
  /\ Enter(c)
  /\ \/ /\ connect' = [connect EXCEPT ![c] = "set"]
        /\ conn' = [conn EXCEPT ![c] = "open"]
     \/ connect' = [connect EXCEPT ![c] = "ended"] /\ UNCHANGED conn
  /\ UNCHANGED <<broken, listening, forwardVars>>

\* HandleUnregister by the owner of the node
HandleUnregister ==
  /\ node # None
  /\ Unregister
  /\ UNCHANGED <<sessionVars, connect, dropped, forwardVars>>

-----------------------------------------------------------------------------
(***************************************************************************)
(* Connecting                                                              *)
(***************************************************************************)

\* DialTunnel with the listener for gRPC, then discoverInfo through it, within
\* its time-out: the node runs Docker or not.  A node that has left ends it.
DialTunnel(c) ==
  /\ connect[c] = "grpc"
  /\ \/ /\ OpenLocalListener(c, "grpc")
        /\ conn' = [conn EXCEPT ![c] = "open"]
        /\ \E next \in {"docker", "set"} : connect' = [connect EXCEPT ![c] = next]
     \/ /\ node = None
        /\ connect' = [connect EXCEPT ![c] = "ended"]
        /\ UNCHANGED <<localListeners, listening, conn>>
  /\ UNCHANGED <<node, resources, registerStream, dropped, sessionVars,
                 forwardVars>>

\* the listener for the Docker client: without the node, no runtime
DialDocker(c) ==
  /\ connect[c] = "docker"
  /\ connect' = [connect EXCEPT ![c] = "set"]
  /\ \/ OpenLocalListener(c, "docker")
     \/ node = None /\ UNCHANGED <<localListeners, listening>>
  /\ UNCHANGED <<node, resources, registerStream, conn, dropped, sessionVars,
                 forwardVars>>

\* Registry.SetResources binds to the node that is registered by now, and
\* closes what was bound to it; without a node it does nothing
SetResources(c) ==
  /\ connect[c] = "set"
  /\ connect' = [connect EXCEPT ![c] = "ended"]
  /\ \/ node # None /\ resources' = c /\ conn' = Closing(resources)
        /\ UNCHANGED dropped
     \/ node = None /\ dropped' = dropped \cup {c} /\ UNCHANGED <<resources, conn>>
  /\ UNCHANGED <<node, registerStream, localListeners, listening, sessionVars,
                 forwardVars>>

\* ConnResources.Close closes its listeners with the rest
Close(c) ==
  /\ conn[c] = "closing"
  /\ conn' = [conn EXCEPT ![c] = "closed"]
  /\ listening' = {l \in listening : l[1] # c}
  /\ UNCHANGED <<nodeVars, connect, dropped, sessionVars, forwardVars>>

-----------------------------------------------------------------------------
(***************************************************************************)
(* Forwarding                                                              *)
(***************************************************************************)

\* RequestForward, for a connection that a listener accepted or an HTTP
\* request: the channel is pending before "open" is sent
Request(r) ==
  /\ request[r] = "none"
  /\ IF registerStream = None
       THEN /\ request' = [request EXCEPT ![r] = "failed"]
            /\ UNCHANGED <<pending, via>>
       ELSE /\ request' = [request EXCEPT ![r] = "sending"]
            /\ pending' = pending \cup {r}
            /\ via' = [via EXCEPT ![r] = registerStream]
  /\ UNCHANGED <<nodeVars, sessionVars, connVars, opened, waitCh, bridged,
                 forward, channel>>

\* RequestForward returns, and the deferred Delete runs
Return(r, to) ==
  /\ request' = [request EXCEPT ![r] = to]
  /\ pending' = pending \ {r}
  /\ via' = [via EXCEPT ![r] = None]

\* Send of "open" returns, or fails because the stream is over
SendOpen(r) ==
  /\ request[r] = "sending"
  /\ \/ /\ request' = [request EXCEPT ![r] = "waiting"]
        /\ opened' = opened \cup {r}
        /\ UNCHANGED <<pending, via>>
     \/ StreamOver(via[r]) /\ Return(r, "failed") /\ UNCHANGED opened
  /\ UNCHANGED <<nodeVars, sessionVars, connVars, waitCh, bridged, forward,
                 channel>>

\* a Load that leaves the channel to the deferred Delete
Loaded(r) == pending

\* LoadAndDelete of a channel
Taken(r) == pending \ {r}

\* Tai calls Forward with the id of a channel
Forward(f, r) ==
  /\ forward[f] = "none" /\ r \in opened
  /\ IF r \in pending
       THEN /\ forward' = [forward EXCEPT ![f] = "matched"]
            /\ channel' = [channel EXCEPT ![f] = r]
            /\ pending' = Taken(r)
       ELSE /\ forward' = [forward EXCEPT ![f] = "ended"]
            /\ UNCHANGED <<channel, pending>>
  /\ UNCHANGED <<nodeVars, sessionVars, connVars, request, via, opened, waitCh,
                 bridged>>

\* it gives its stream to the request, as soon as the channel has room
Deliver(f) ==
  /\ forward[f] = "matched" /\ waitCh[channel[f]] = None
  /\ forward' = [forward EXCEPT ![f] = "open"]
  /\ waitCh' = [waitCh EXCEPT ![channel[f]] = f]
  /\ UNCHANGED <<nodeVars, sessionVars, connVars, pending, request, via, opened,
                 bridged, channel>>

\* Tai closes the Forward stream, or its connection is lost
ForwardEnds(f) ==
  /\ forward[f] = "open"
  /\ forward' = [forward EXCEPT ![f] = "ended"]
  /\ UNCHANGED <<nodeVars, sessionVars, connVars, pending, request, via, opened,
                 waitCh, bridged, channel>>

\* RequestForward returns the stream, and the bridge begins
Answered(r) ==
  /\ request[r] = "waiting" /\ waitCh[r] # None
  /\ Return(r, "bridged")
  /\ bridged' = [bridged EXCEPT ![r] = waitCh[r]]
  /\ waitCh' = [waitCh EXCEPT ![r] = None]
  /\ UNCHANGED <<nodeVars, sessionVars, connVars, opened, forward, channel>>

\* ten seconds have passed, or the Register stream is over
GiveUp(r) ==
  /\ request[r] = "waiting"
  /\ Return(r, "failed")
  /\ UNCHANGED <<nodeVars, sessionVars, connVars, opened, waitCh, bridged,
                 forward, channel>>

\* bridgeTCP: the local side ends; forwardConn.Close leaves the stream alone,
\* and the copy from it goes on
LocalEnds(r) ==
  /\ request[r] = "bridged"
  /\ request' = [request EXCEPT ![r] = "half"]
  /\ UNCHANGED <<nodeVars, sessionVars, connVars, pending, via, opened, waitCh,
                 bridged, forward, channel>>

\* bridgeTCP: the stream ends, or has more for a local side that is closed
BridgeEnds(r) ==
  /\ \/ request[r] \in {"bridged", "half"} /\ forward[bridged[r]] = "ended"
     \/ request[r] = "half" /\ forward[bridged[r]] = "open"
  /\ request' = [request EXCEPT ![r] = "done"]
  /\ bridged' = [bridged EXCEPT ![r] = None]
  /\ UNCHANGED <<nodeVars, sessionVars, connVars, pending, via, opened, waitCh,
                 forward, channel>>

-----------------------------------------------------------------------------
Init ==
  /\ node = None /\ resources = None /\ registerStream = None
  /\ localListeners = NoListeners
  /\ handler = [c \in Conns |-> "none"] /\ broken = {}
  /\ connect = [c \in Conns |-> "none"] /\ conn = [c \in Conns |-> "none"]
  /\ listening = {} /\ dropped = {}
  /\ pending = {} /\ opened = {}
  /\ request = [r \in Requests |-> "none"] /\ via = [r \in Requests |-> None]
  /\ waitCh = [r \in Requests |-> None] /\ bridged = [r \in Requests |-> None]
  /\ forward = [f \in Forwards |-> "none"] /\ channel = [f \in Forwards |-> None]

Session(c) ==
  \/ RegisterTunnel(c) \/ SetRegisterStream(c) \/ SendRegistered(c)
  \/ StreamEnds(c) \/ Leave(c) \/ Break(c) \/ RegisterDirect(c)
Connect(c) == DialTunnel(c) \/ DialDocker(c) \/ SetResources(c) \/ Close(c)
Bridge(r) ==
  \/ Request(r) \/ SendOpen(r) \/ Answered(r) \/ GiveUp(r)
  \/ LocalEnds(r) \/ BridgeEnds(r)
Stream(f) == Deliver(f) \/ ForwardEnds(f) \/ \E r \in Requests : Forward(f, r)

Next ==
  \/ \E c \in Conns : Session(c) \/ Connect(c)
  \/ HandleUnregister
  \/ \E r \in Requests : Bridge(r)
  \/ \E f \in Forwards : Stream(f)

Spec == Init /\ [][Next]_vars

\* Every handler runs on: a lost connection ends its Recv or Send.
Fairness ==
  \A c \in Conns :
    /\ WF_vars(SetRegisterStream(c)) /\ WF_vars(SendRegistered(c))
    /\ WF_vars(c \in broken /\ StreamEnds(c)) /\ WF_vars(Leave(c))

FairSpec == Spec /\ Fairness

-----------------------------------------------------------------------------
(***************************************************************************)
(* Properties                                                              *)
(***************************************************************************)

TypeOK ==
  /\ node \in Conns \cup {None}
  /\ resources \in Conns \cup {None}
  /\ registerStream \in Conns \cup {None}
  /\ localListeners \in [Ports -> Conns \cup {None}]
  /\ handler \in [Conns -> {"none", "registered", "streamed", "serving",
                            "leaving", "gone", "posted"}]
  /\ broken \subseteq Tunnels
  /\ connect \in [Conns -> {"none", "grpc", "docker", "set", "ended"}]
  /\ conn \in [Conns -> {"none", "open", "closing", "closed"}]
  /\ listening \subseteq Conns \X Ports
  /\ dropped \subseteq Conns
  /\ pending \subseteq Requests /\ opened \subseteq Requests
  /\ request \in [Requests -> {"none", "sending", "waiting", "bridged", "half",
                               "done", "failed"}]
  /\ via \in [Requests -> Conns \cup {None}]
  /\ waitCh \in [Requests -> Forwards \cup {None}]
  /\ bridged \in [Requests -> Forwards \cup {None}]
  /\ forward \in [Forwards -> {"none", "matched", "open", "ended"}]
  /\ channel \in [Forwards -> Requests \cup {None}]

\* A tunnelled node is registered no longer than the handler of its Register
\* stream runs, whoever else of the identifier comes and goes, and neither is
\* the stream that requests are sent on (grpc_handler.go, Register: "defer").
NoGhostNode ==
  /\ node # None => handler[node] # "gone"
  /\ registerStream # None => handler[registerStream] # "gone"

\* "Caller (usually registry) is responsible for calling Close() when the node
\* disconnects or resources are replaced" (conn.go): what is bound to the node
\* is open, other connections that were made are on their way or are closed, as
\* are their listeners.  Excepted are the resources of a node that Register
\* replaces and those that come when the node has left.
ReleasedWithNode ==
  /\ resources # None => conn[resources] = "open"
  /\ \A c \in Conns \ dropped :
       conn[c] = "open" => c = resources \/ connect[c] # "ended"
  /\ \A l \in listening : conn[l[1]] \in {"open", "closing"}

\* A request is given the Forward stream that Tai opened for it and no other,
\* a handler of Forward finds room in the channel, and a channel is pending
\* only as long as its request waits (grpc_handler.go, Forward, RequestForward).
AnswersMatch ==
  /\ \A r \in Requests :
       /\ bridged[r] # None => channel[bridged[r]] = r
       /\ r \in pending => request[r] \in {"sending", "waiting"}
  /\ \A f \in Forwards :
       /\ forward[f] = "matched" => waitCh[channel[f]] = None
       /\ \A g \in Forwards \ {f} : channel[f] = channel[g] => channel[f] = None

\* A node whose Register stream is lost leaves the registry (tunnel.md: "On
\* disconnect").
LostNodeLeaves ==
  \A c \in Tunnels : (c \in broken /\ node = c) ~> node # c

-----------------------------------------------------------------------------
(***************************************************************************)
(* What the documentation says and the code does not do                    *)
(***************************************************************************)

\* conn.go, without the exception above
NothingDropped == dropped = {}

\* "On disconnect -> unregister node" (tunnel.md): the node that disconnected
LeavesAlone ==
  [][\A c \in Tunnels :
       handler[c] = "leaving" /\ handler'[c] = "gone" => node \in {c, None}]_vars

=============================================================================
