--------------------------- MODULE TaiNodesProofs ---------------------------
(***************************************************************************)
(* Proofs about TaiNodes, for any numbers of connections, requests and     *)
(* Forward streams.                                                        *)
(***************************************************************************)
EXTENDS TaiNodes, TLAPS

-----------------------------------------------------------------------------
(***************************************************************************)
(* The inductive invariant                                                 *)
(***************************************************************************)

\* A node and a Register stream in the registry have a handler that will
\* unregister them, or came by a POST.
Attended ==
  /\ node # None => handler[node] \notin {"none", "gone"}
  /\ registerStream # None => handler[registerStream] \notin {"none", "gone"}

\* The goroutine of a connection starts last, makes the ConnResources in its
\* first step and binds them in its last one.
Making ==
  \A c \in Conns :
    /\ handler[c] \in {"none", "registered", "streamed"} => connect[c] = "none"
    /\ connect[c] \in {"none", "grpc"} => conn[c] = "none"
    /\ connect[c] \in {"docker", "set"} => conn[c] = "open"

\* What is bound was bound by a goroutine that has ended, and is referred to.
Bound ==
  /\ resources # None =>
       /\ connect[resources] = "ended" /\ conn[resources] = "open"
       /\ resources \notin dropped
  /\ \A c \in dropped : connect[c] = "ended"

\* A channel is pending until it is taken, and taken after its "open" was sent.
Channels ==
  /\ \A r \in opened : request[r] \notin {"none", "sending"}
  /\ \A r \in pending : request[r] \in {"sending", "waiting"}
  /\ \A f \in Forwards :
       /\ channel[f] # None => channel[f] \in opened \ pending
       /\ forward[f] = "none" => channel[f] = None
       /\ forward[f] = "matched" => channel[f] # None /\ waitCh[channel[f]] = None
       /\ \A g \in Forwards \ {f} : channel[f] = channel[g] => channel[f] = None

\* A stream is where the request is whose channel it took.
Given ==
  \A r \in Requests :
    /\ waitCh[r] # None =>
         channel[waitCh[r]] = r /\ forward[waitCh[r]] \in {"open", "ended"}
    /\ bridged[r] # None =>
         channel[bridged[r]] = r /\ forward[bridged[r]] \in {"open", "ended"}

IInv ==
  TypeOK /\ Attended /\ Making /\ Bound /\ ReleasedWithNode /\ Channels /\ Given

LEMMA Inits == Init => IInv
<1> SUFFICES ASSUME Init PROVE IInv
  OBVIOUS
<1> USE DEF Init, NoListeners
<1>1. TypeOK
  BY DEF TypeOK
<1>2. Attended /\ Making /\ Bound /\ ReleasedWithNode
  BY DEF Attended, Making, Bound, ReleasedWithNode
<1>3. Channels /\ Given
  BY DEF Channels, Given
<1> QED
  BY <1>1, <1>2, <1>3 DEF IInv

-----------------------------------------------------------------------------
(***************************************************************************)
(* Types                                                                   *)
(***************************************************************************)

\* A session, a registration by a POST or its removal keeps the types.
LEMMA SessionTypes ==
  ASSUME TypeOK, NEW c \in Conns, Session(c) \/ HandleUnregister
  PROVE  TypeOK'
<1> USE DEF TypeOK, Conns, Ports
<1>1. CASE RegisterTunnel(c)
  BY <1>1 DEF RegisterTunnel, Enter, NoListeners, forwardVars
<1>2. CASE SetRegisterStream(c)
  BY <1>2 DEF SetRegisterStream, connVars, forwardVars
<1>3. CASE SendRegistered(c)
  BY <1>3 DEF SendRegistered, ReturnsError, nodeVars, forwardVars
<1>4. CASE StreamEnds(c)
  BY <1>4 DEF StreamEnds, nodeVars, connVars, forwardVars
<1>5. CASE Leave(c)
  BY <1>5 DEF Leave, Unregister, NoListeners, Closing, Kept, forwardVars
<1>6. CASE Break(c)
  BY <1>6 DEF Break, nodeVars, connVars, forwardVars
<1>7. CASE RegisterDirect(c)
  BY <1>7 DEF RegisterDirect, Enter, NoListeners, forwardVars
<1>8. CASE HandleUnregister
  BY <1>8 DEF HandleUnregister, Unregister, NoListeners, Closing, Kept,
              sessionVars, forwardVars
<1> QED
  BY <1>1, <1>2, <1>3, <1>4, <1>5, <1>6, <1>7, <1>8 DEF Session

\* So does a step of a goroutine that connects.
LEMMA ConnectTypes ==
  ASSUME TypeOK, NEW c \in Conns, Connect(c)
  PROVE  TypeOK'
<1> USE DEF TypeOK, Conns, Ports
<1>1. CASE DialTunnel(c)
  BY <1>1 DEF DialTunnel, OpenLocalListener, sessionVars, forwardVars
<1>2. CASE DialDocker(c)
  BY <1>2 DEF DialDocker, OpenLocalListener, sessionVars, forwardVars
<1>3. CASE SetResources(c)
  BY <1>3 DEF SetResources, Closing, sessionVars, forwardVars
<1>4. CASE Close(c)
  BY <1>4 DEF Close, nodeVars, sessionVars, forwardVars
<1> QED
  BY <1>1, <1>2, <1>3, <1>4 DEF Connect

\* So does a step of a request or of a Forward stream.
LEMMA ForwardingTypes ==
  ASSUME TypeOK,
         (\E r \in Requests : Bridge(r)) \/ (\E f \in Forwards : Stream(f))
  PROVE  TypeOK'
<1> USE DEF TypeOK, nodeVars, sessionVars, connVars
<1>1. ASSUME NEW r \in Requests, Bridge(r) PROVE TypeOK'
  <2>1. CASE Request(r)
    BY <2>1 DEF Request
  <2>2. CASE SendOpen(r)
    BY <2>2 DEF SendOpen, Return
  <2>3. CASE Answered(r)
    BY <2>3 DEF Answered, Return
  <2>4. CASE GiveUp(r)
    BY <2>4 DEF GiveUp, Return
  <2>5. CASE LocalEnds(r)
    BY <2>5 DEF LocalEnds
  <2>6. CASE BridgeEnds(r)
    BY <2>6 DEF BridgeEnds
  <2> QED
    BY <1>1, <2>1, <2>2, <2>3, <2>4, <2>5, <2>6 DEF Bridge
<1>2. ASSUME NEW f \in Forwards, Stream(f) PROVE TypeOK'
  <2>1. CASE Deliver(f)
    BY <2>1 DEF Deliver
  <2>2. CASE ForwardEnds(f)
    BY <2>2 DEF ForwardEnds
  <2>3. ASSUME NEW r \in Requests, Forward(f, r) PROVE TypeOK'
    BY <2>3 DEF Forward, Taken
  <2> QED
    BY <1>2, <2>1, <2>2, <2>3 DEF Stream
<1> QED
  BY <1>1, <1>2

-----------------------------------------------------------------------------
(***************************************************************************)
(* The registry and what is bound to its nodes                             *)
(***************************************************************************)

RegistryInv == Attended /\ Making /\ Bound /\ ReleasedWithNode

\* A session, a registration by a POST or its removal: Register lets go of
\* what it replaces, Unregister closes it.
LEMMA SessionRegistry ==
  ASSUME TypeOK, RegistryInv, NEW c \in Conns, Session(c) \/ HandleUnregister
  PROVE  RegistryInv'
<1> USE NoneAssumption DEF TypeOK, Conns, RegistryInv, Attended, Making, Bound,
        ReleasedWithNode
<1>1. CASE RegisterTunnel(c)
  BY <1>1 DEF RegisterTunnel, Enter
<1>2. CASE SetRegisterStream(c)
  BY <1>2 DEF SetRegisterStream, connVars
<1>3. CASE SendRegistered(c)
  BY <1>3 DEF SendRegistered, ReturnsError, nodeVars
<1>4. CASE StreamEnds(c)
  BY <1>4 DEF StreamEnds, nodeVars, connVars
<1>5. CASE Leave(c)
  BY <1>5 DEF Leave, Unregister, Closing
<1>6. CASE Break(c)
  BY <1>6 DEF Break, nodeVars, connVars
<1>7. CASE RegisterDirect(c)
  BY <1>7 DEF RegisterDirect, Enter
<1>8. CASE HandleUnregister
  BY <1>8 DEF HandleUnregister, Unregister, Closing, sessionVars
<1> QED
  BY <1>1, <1>2, <1>3, <1>4, <1>5, <1>6, <1>7, <1>8 DEF Session

\* A step of a goroutine that connects: what it makes is bound, or dropped.
LEMMA ConnectRegistry ==
  ASSUME TypeOK, RegistryInv, NEW c \in Conns, Connect(c)
  PROVE  RegistryInv'
<1> USE NoneAssumption DEF TypeOK, Conns, RegistryInv, Attended, Making, Bound,
        ReleasedWithNode
<1>1. CASE DialTunnel(c)
  BY <1>1 DEF DialTunnel, OpenLocalListener, sessionVars
<1>2. CASE DialDocker(c)
  BY <1>2 DEF DialDocker, OpenLocalListener, sessionVars
<1>3. CASE SetResources(c)
  BY <1>3 DEF SetResources, Closing, sessionVars
<1>4. CASE Close(c)
  BY <1>4 DEF Close, nodeVars, sessionVars
<1> QED
  BY <1>1, <1>2, <1>3, <1>4 DEF Connect

-----------------------------------------------------------------------------
(***************************************************************************)
(* Requests and Forward streams                                            *)
(***************************************************************************)

ForwardInv == Channels /\ Given

\* A step of a request: it waits with a channel that nobody took before its
\* "open", and takes the stream out of it.
LEMMA BridgeForwarding ==
  ASSUME TypeOK, ForwardInv, NEW r \in Requests, Bridge(r)
  PROVE  ForwardInv'
<1> USE NoneAssumption DEF TypeOK, ForwardInv, Channels, Given
<1>1. CASE Request(r)
  BY <1>1 DEF Request
<1>2. CASE SendOpen(r)
  BY <1>2 DEF SendOpen, Return
<1>3. CASE Answered(r)
  BY <1>3 DEF Answered, Return
<1>4. CASE GiveUp(r)
  BY <1>4 DEF GiveUp, Return
<1>5. CASE LocalEnds(r)
  BY <1>5 DEF LocalEnds
<1>6. CASE BridgeEnds(r)
  BY <1>6 DEF BridgeEnds
<1> QED
  BY <1>1, <1>2, <1>3, <1>4, <1>5, <1>6 DEF Bridge

\* A step of a Forward stream: it takes a channel from the others.
LEMMA StreamForwarding ==
  ASSUME TypeOK, ForwardInv, NEW f \in Forwards, Stream(f)
  PROVE  ForwardInv'
<1> USE NoneAssumption DEF TypeOK, ForwardInv, Channels, Given
<1>1. CASE Deliver(f)
  BY <1>1 DEF Deliver
<1>2. CASE ForwardEnds(f)
  BY <1>2 DEF ForwardEnds
<1>3. ASSUME NEW r \in Requests, Forward(f, r) PROVE ForwardInv'
  BY <1>3 DEF Forward, Taken
<1> QED
  BY <1>1, <1>2, <1>3 DEF Stream

-----------------------------------------------------------------------------
(***************************************************************************)
(* Every step                                                              *)
(***************************************************************************)

\* The registry says nothing of requests, nor requests of the registry's nodes.
LEMMA SessionFrame ==
  ASSUME NEW c \in Conns, Session(c) \/ Connect(c) \/ HandleUnregister
  PROVE  UNCHANGED forwardVars
BY DEF Session, Connect, RegisterTunnel, SetRegisterStream, SendRegistered,
       StreamEnds, Leave, Break, RegisterDirect, HandleUnregister, DialTunnel,
       DialDocker, SetResources, Close, forwardVars

LEMMA ForwardingFrame ==
  ASSUME (\E r \in Requests : Bridge(r)) \/ (\E f \in Forwards : Stream(f))
  PROVE  UNCHANGED <<nodeVars, sessionVars, connVars>>
BY DEF Bridge, Stream, Request, SendOpen, Answered, GiveUp, LocalEnds,
       BridgeEnds, Deliver, ForwardEnds, Forward

LEMMA Steps == IInv /\ [Next]_vars => IInv'
<1> SUFFICES ASSUME IInv, [Next]_vars PROVE IInv'
  OBVIOUS
<1> USE DEF IInv
<1>1. ASSUME NEW c \in Conns, Session(c) \/ Connect(c) \/ HandleUnregister
      PROVE  IInv'
  <2>1. TypeOK'
    BY <1>1, SessionTypes, ConnectTypes
  <2>2. RegistryInv'
    BY <1>1, SessionRegistry, ConnectRegistry DEF RegistryInv
  <2>3. (Channels /\ Given)'
    <3>1. UNCHANGED forwardVars
      BY <1>1, SessionFrame
    <3> QED
      BY <3>1 DEF Channels, Given, forwardVars
  <2> QED
    BY <2>1, <2>2, <2>3 DEF RegistryInv
<1>2. ASSUME (\E r \in Requests : Bridge(r)) \/ (\E f \in Forwards : Stream(f))
      PROVE  IInv'
  <2>1. TypeOK'
    BY <1>2, ForwardingTypes
  <2>2. (Attended /\ Making /\ Bound /\ ReleasedWithNode)'
    <3>1. UNCHANGED <<nodeVars, sessionVars, connVars>>
      BY <1>2, ForwardingFrame
    <3> QED
      BY <3>1 DEF Attended, Making, Bound, ReleasedWithNode, nodeVars,
                  sessionVars, connVars
  <2>3. ForwardInv'
    BY <1>2, BridgeForwarding, StreamForwarding DEF ForwardInv
  <2> QED
    BY <2>1, <2>2, <2>3 DEF ForwardInv
<1>3. CASE HandleUnregister
  <2>1. node \in Conns
    BY <1>3 DEF HandleUnregister, TypeOK
  <2> QED
    BY <1>1, <1>3, <2>1
<1>4. CASE UNCHANGED vars
  BY <1>4 DEF TypeOK, Attended, Making, Bound, ReleasedWithNode, Channels, Given,
              vars, nodeVars, sessionVars, connVars, forwardVars
<1> QED
  BY <1>1, <1>2, <1>3, <1>4 DEF Next

\* The inductive invariant holds of every behaviour.
THEOREM Invariant == Spec => []IInv
BY Inits, Steps, PTL DEF Spec

-----------------------------------------------------------------------------
(***************************************************************************)
(* Theorems                                                                *)
(***************************************************************************)

\* Every variable keeps its type, whatever comes in whatever order through the
\* handlers of tai/tunnel and tai/api.
THEOREM TypeCorrect == Spec => []TypeOK
<1>1. IInv => TypeOK
  BY DEF IInv
<1> QED
  BY <1>1, Invariant, PTL

\* However many streams and POSTs of an identifier overlap, what the registry
\* holds has a handler that will unregister it (grpc_handler.go, Register).
THEOREM NoGhosts == Spec => []NoGhostNode
<1>1. IInv => NoGhostNode
  BY DEF IInv, Attended, NoGhostNode
<1> QED
  BY <1>1, Invariant, PTL

\* For any number of goroutines that connect to one identifier, what they made
\* is bound, on its way or closed, except what the registry drops
\* (registry.go, Unregister and SetResources; dial.go, DialTunnel).
THEOREM Released == Spec => []ReleasedWithNode
<1>1. IInv => ReleasedWithNode
  BY DEF IInv
<1> QED
  BY <1>1, Invariant, PTL

\* For any number of requests and of Forward streams, duplicates and late ones
\* among them, a request gets its own stream and no handler of Forward finds
\* its channel full (grpc_handler.go, Forward and RequestForward).
THEOREM AnswersMatched == Spec => []AnswersMatch
<1>1. IInv => AnswersMatch
  BY DEF IInv, Channels, Given, AnswersMatch
<1> QED
  BY <1>1, Invariant, PTL

=============================================================================
