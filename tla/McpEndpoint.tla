--------------------------------- MODULE McpEndpoint -------------------------------
(***********************************************************************************)
(* The MCP endpoint: services/McpServer with its accept thread, the               *)
(* RemoteAccessGate in front of it, and the McpProtocolHandler with its           *)
(* McpSessionRegistry behind it.                                                  *)
(*                                                                                 *)
(* One accept thread takes the connections one after the other: it waits for a    *)
(* connection, reads a whole request with blocking reads, has it admitted by the  *)
(* gate and handled by the protocol layer, and closes the connection.  Tool calls *)
(* run on that thread.  The main thread starts the server, and joins the thread   *)
(* to stop it.                                                                     *)
(*                                                                                 *)
(* Time is kept as ages.  A Tick makes everything one unit older, and an age no   *)
(* comparison of the code can tell from an older one grows no further.            *)
(***********************************************************************************)
EXTENDS Integers, FiniteSets, Sequences, SequencesExt, Functions

CONSTANTS
  Clients,      \* clients, each with a source address of its own
  Configs,      \* the remote-access configurations the program may start with
  MaxSessions,  \* the limit of the registry and the ceiling of the gate
  IdleTimeout,  \* McpSessionRegistry::Options::idleTimeout
  Threshold,    \* kAuthFailureThreshold
  Window,       \* kAuthFailureWindow
  Block,        \* kSourceBlockDuration
  MaxIssued     \* bound: sessions that are ever created

Nobody == "nobody"

ASSUME EndpointAssumption ==
  /\ MaxSessions \in Nat \ {0} /\ Threshold \in Nat \ {0} /\ Block \in Nat \ {0}
  /\ IdleTimeout \in Nat /\ Window \in Nat /\ MaxIssued \in Nat
  /\ Nobody \notin Clients

VARIABLES
  decision,  \* the BindDecision, computed once when the gate is built
  running,   \* running_
  stopping,  \* the main thread is in stop(), joining
  thread,    \* where the accept thread is
  serving,   \* the client it serves, if any
  backlog,   \* connections the kernel holds for accept()
  live,      \* live_: session id -> initialized, idle
  issued,    \* issued_: ids 1..issued have been minted
  active,    \* activeSessions_, the gate's own count
  source,    \* sources_: per client, the ages of its failures and what is left of a block
  tried      \* history variable: ages of the refused credentials since the last admission

serverVars == <<running, stopping, thread, serving, backlog>>
gateVars   == <<active, source, tried>>
endpointVars == <<decision, serverVars, live, issued, gateVars>>

NoBlock  == -1
Innocent == [failures |-> <<>>, left |-> NoBlock]

-----------------------------------------------------------------------------------
(* What the operator configured, and the bind decision.                            *)
Unmet(config) ==
  \/ config.address \in {"none", "hostname"}
  \/ config.token # "acceptable"
  \/ ~config.acknowledged
  \/ config.tls \in {"half", "unusable"}

ComputeDecision(config) ==
  IF ~config.enabled \/ Unmet(config)
  THEN [loopbackOnly |-> TRUE, tlsEnabled |-> FALSE]
  ELSE [loopbackOnly |-> config.address = "loopback", tlsEnabled |-> config.tls = "usable"]

(* ApplicationComposition::start() serves a loopback decision without TLS.         *)
SecureTransport == decision.tlsEnabled /\ ~decision.loopbackOnly

(* A request that gets past the gate is a method and the session it presents, if   *)
(* any; what the gate refuses it for is the choice of the client.                  *)
SessionMethods == {"initialized", "tools/list", "tools/call"}
Methods  == {"initialize", "health", "unsupported"} \cup SessionMethods
Sessions == 0..issued      \* 0: no session identifier is presented

EndpointInit ==
  /\ decision \in {ComputeDecision(c) : c \in Configs}
  /\ running = FALSE /\ stopping = FALSE /\ thread = "none"
  /\ serving = Nobody /\ backlog = <<>>
  /\ live = <<>> /\ issued = 0 /\ active = 0
  /\ source = [c \in Clients |-> Innocent]
  /\ tried = [c \in Clients |-> <<>>]

-----------------------------------------------------------------------------------
(* Mistake: a session idle for exactly the timeout is closed as well.              *)
IdleOrDue(l, id) == l[id].idle >= IdleTimeout

(* McpSessionRegistry.                                                             *)
IdleTooLong(l, id) == l[id].idle > IdleTimeout

ExpireIdle(l) == Restrict(l, {id \in DOMAIN l : ~IdleTooLong(l, id)})

Touched(l, id) == [l EXCEPT ![id].idle = 0]

Closed(l, id) == Restrict(l, DOMAIN l \ {id})

(* RemoteAccessGate.  An expired block is cleared when the source is looked at.    *)
Looked(s) == IF s.left = 0 THEN Innocent ELSE s

IsBlocked(s) == s.left > 0

(* Ages in the order of time, the oldest first, without those past the limit:      *)
(* what erasing the old ones leaves is the end of the sequence.                    *)
Within(ages, limit) ==
  LET old == CHOOSE n \in 0..Len(ages) : \A i \in DOMAIN ages : ages[i] > limit <=> i <= n
  IN  SubSeq(ages, old + 1, Len(ages))

(* Mistake: a failure restarts the window instead of joining it.                   *)
NoteAuthFailureAlone(s) ==
  [failures |-> <<0>>, left |-> IF Threshold = 1 THEN Block ELSE s.left]

NoteAuthFailure(s) ==
  LET recent == Append(Within(s.failures, Window), 0) IN
  [failures |-> recent, left |-> IF Len(recent) >= Threshold THEN Block ELSE s.left]

-----------------------------------------------------------------------------------
(* The main thread: start() and stop().                                            *)
Start ==
  /\ ~running /\ ~stopping
  /\ running' = TRUE /\ thread' = "polling"
  /\ UNCHANGED <<decision, stopping, serving, backlog, live, issued, gateVars>>

(* stop() asks the thread to end and wakes it.                                     *)
StopRequest ==
  /\ running /\ ~stopping
  /\ stopping' = TRUE
  /\ UNCHANGED <<decision, running, thread, serving, backlog, live, issued, gateVars>>

(* The thread has ended and is joined; the listening socket is closed.             *)
StopReturn ==
  /\ stopping /\ thread = "ended"
  /\ running' = FALSE /\ stopping' = FALSE /\ thread' = "none" /\ backlog' = <<>>
  /\ UNCHANGED <<decision, serving, live, issued, gateVars>>

-----------------------------------------------------------------------------------
(* Clients.                                                                        *)
Connect(c) ==
  /\ running /\ c \notin ToSet(backlog) /\ serving # c
  /\ backlog' = Append(backlog, c)
  /\ UNCHANGED <<decision, running, stopping, thread, serving, live, issued, gateVars>>

-----------------------------------------------------------------------------------
(* The accept thread between two requests.                                         *)
StopSeen ==
  /\ thread = "polling" /\ stopping
  /\ thread' = "ended"
  /\ UNCHANGED <<decision, running, stopping, serving, backlog, live, issued, gateVars>>

(* poll() returns for a connection; stop() may come before the accept().           *)
ConnectionSeen ==
  /\ thread = "polling" /\ ~stopping /\ backlog # <<>>
  /\ thread' = "accepting"
  /\ UNCHANGED <<decision, running, stopping, serving, backlog, live, issued, gateVars>>

(* Mistake: the connection that came last is served first.                         *)
AcceptLast ==
  /\ thread = "accepting"
  /\ serving' = Last(backlog) /\ backlog' = Front(backlog)
  /\ thread' = IF SecureTransport THEN "handshake" ELSE "receiving"
  /\ UNCHANGED <<decision, running, stopping, live, issued, gateVars>>

Accept ==
  /\ thread = "accepting"
  /\ serving' = Head(backlog) /\ backlog' = Tail(backlog)
  /\ thread' = IF SecureTransport THEN "handshake" ELSE "receiving"
  /\ UNCHANGED <<decision, running, stopping, live, issued, gateVars>>

(* accept() fails because the peer has gone: an error the loop does not expect     *)
(* ends it.                                                                        *)
AcceptFails ==
  /\ thread = "accepting" /\ thread' = "ended"
  /\ backlog' = Tail(backlog)
  /\ UNCHANGED <<decision, running, stopping, serving, live, issued, gateVars>>

Handshake ==
  /\ thread = "handshake" /\ thread' = "receiving"
  /\ UNCHANGED <<decision, running, stopping, serving, backlog, live, issued, gateVars>>

(* The connection ends: whatever was answered, the thread looks for the next one.  *)
HangUp ==
  /\ thread' = "polling" /\ serving' = Nobody
  /\ UNCHANGED <<decision, running, stopping, backlog>>

(* A plaintext client on a TLS listener is disconnected and logged.                *)
HandshakeFails ==
  /\ thread = "handshake"
  /\ HangUp
  /\ UNCHANGED <<live, issued, gateVars>>

(* The peer closed early, or sent something that is no request.                    *)
ReadFails ==
  /\ thread = "receiving"
  /\ HangUp
  /\ UNCHANGED <<live, issued, gateVars>>

-----------------------------------------------------------------------------------
(* dispatchWithContext() of a request the thread has read, in its order: requests  *)
(* that are not a POST of a bounded body to the MCP path, admit(), and only then   *)
(* the protocol layer.                                                             *)
Got == thread = "receiving"

Stray ==
  /\ Got /\ HangUp
  /\ UNCHANGED <<live, issued, gateVars>>

(* The request meets the gate of a remote binding; Noted is its source as the gate *)
(* finds it.                                                                       *)
AtGate == Got /\ ~decision.loopbackOnly

Noted == Looked(source[serving])

RefusedBlocked ==
  /\ AtGate /\ IsBlocked(Noted)
  /\ HangUp
  /\ UNCHANGED <<live, issued, gateVars>>

(* No credential, a malformed one, or one that is not the configured token.        *)
RefusedCredential ==
  /\ AtGate /\ ~IsBlocked(Noted)
  /\ source' = [source EXCEPT ![serving] = NoteAuthFailure(Noted)]
  /\ tried' = [tried EXCEPT ![serving] = Append(@, 0)]
  /\ HangUp
  /\ UNCHANGED <<live, issued, active>>

(* The configured token, but an Origin that is not accepted.                       *)
RefusedOrigin ==
  /\ AtGate /\ ~IsBlocked(Noted)
  /\ source' = [source EXCEPT ![serving] = Noted]
  /\ HangUp
  /\ UNCHANGED <<live, issued, active, tried>>

(* The token and the origin pass; a request that presents no session still meets   *)
(* the ceiling on the sessions.                                                    *)
RefusedCeiling ==
  /\ AtGate /\ ~IsBlocked(Noted) /\ active >= MaxSessions
  /\ source' = [source EXCEPT ![serving] = Noted]
  /\ HangUp
  /\ UNCHANGED <<live, issued, active, tried>>

(* admit() lets the request pass, which ends a run of failures.                    *)
Admitted(id) ==
  \/ /\ Got /\ decision.loopbackOnly
     /\ UNCHANGED <<source, tried>>
  \/ /\ AtGate /\ ~IsBlocked(Noted)
     /\ id # 0 \/ active < MaxSessions
     /\ source' = [source EXCEPT ![serving] = Innocent]
     /\ tried' = [tried EXCEPT ![serving] = <<>>]

(* The health report, and requests the protocol layer does not understand.         *)
Report(method, id) ==
  /\ Admitted(id) /\ method \in {"health", "unsupported"}
  /\ HangUp
  /\ UNCHANGED <<live, issued, active>>

(* initialize: idle sessions make room first; then a new id, or a refusal.         *)
Initialize(method, id) ==
  /\ Admitted(id) /\ method = "initialize"
  /\ IF Cardinality(DOMAIN ExpireIdle(live)) < MaxSessions
     THEN /\ issued < MaxIssued
          /\ issued' = issued + 1
          /\ live' = [new \in DOMAIN ExpireIdle(live) \cup {issued'} |->
                        IF new = issued' THEN [initialized |-> FALSE, idle |-> 0] ELSE live[new]]
          /\ active' = active + 1
     ELSE /\ live' = ExpireIdle(live)
          /\ UNCHANGED <<issued, active>>
  /\ HangUp

(* touch() refuses: no identifier, an unknown or closed one, or one that was idle  *)
(* for too long and is closed now.                                                 *)
Unknown(method, id) ==
  /\ Admitted(id) /\ method \in SessionMethods
  /\ id \notin DOMAIN ExpireIdle(live)
  /\ live' = IF id \in DOMAIN live THEN Closed(live, id) ELSE live
  /\ HangUp
  /\ UNCHANGED <<issued, active>>

Known(id) ==
  /\ Admitted(id) /\ id \in DOMAIN ExpireIdle(live)
  /\ UNCHANGED <<issued, active>>

Initialized(method, id) ==
  /\ Known(id) /\ method = "initialized"
  /\ live' = [live EXCEPT ![id] = [initialized |-> TRUE, idle |-> 0]]
  /\ HangUp

(* tools/list, or a call that is refused: the session has not been initialized, or *)
(* the parameters do not fit the tool.                                             *)
List(method, id) ==
  /\ Known(id) /\ method \in {"tools/list", "tools/call"}
  /\ live' = Touched(live, id)
  /\ HangUp

Call(method, id) ==
  /\ Known(id) /\ method = "tools/call" /\ live[id].initialized
  /\ live' = Touched(live, id)
  /\ thread' = "calling"
  /\ UNCHANGED <<decision, running, stopping, serving, backlog>>

(* The handler returns, in time or not, and the reply is written.                  *)
CallReturns ==
  /\ thread = "calling"
  /\ HangUp
  /\ UNCHANGED <<live, issued, gateVars>>

Dispatch ==
  \/ Stray \/ RefusedBlocked \/ RefusedCredential \/ RefusedOrigin \/ RefusedCeiling
  \/ \E method \in Methods, id \in Sessions :
       \/ Report(method, id) \/ Initialize(method, id) \/ Unknown(method, id)
       \/ Initialized(method, id) \/ List(method, id) \/ Call(method, id)

-----------------------------------------------------------------------------------
(* One unit of time passes.                                                        *)
Older(age, limit) == IF age > limit THEN age ELSE age + 1

Tick ==
  /\ live' = [id \in DOMAIN live |-> [live[id] EXCEPT !.idle = Older(@, IdleTimeout)]]
  /\ source' = [c \in Clients |->
       [failures |-> [i \in DOMAIN source[c].failures |-> Older(source[c].failures[i], Window)],
        left     |-> IF IsBlocked(source[c]) THEN source[c].left - 1 ELSE source[c].left]]
  /\ tried' = [c \in Clients |->
       Within([i \in DOMAIN tried[c] |-> tried[c][i] + 1], IF Window < Block THEN Window ELSE Block - 1)]
  /\ UNCHANGED <<decision, serverVars, issued, active>>

Serve ==
  \/ StopSeen \/ ConnectionSeen \/ CallReturns \/ Dispatch
  \/ Accept \/ AcceptFails \/ Handshake \/ HandshakeFails \/ ReadFails

EndpointNext ==
  \/ Start \/ StopRequest \/ StopReturn
  \/ \E c \in Clients : Connect(c)
  \/ Serve
  \/ Tick

(* The thread runs, its client does not stay silent for ever, and stop() joins.    *)
EndpointFairness == WF_endpointVars(Serve) /\ WF_endpointVars(StopReturn)

EndpointSpec == EndpointInit /\ [][EndpointNext]_endpointVars /\ EndpointFairness

-----------------------------------------------------------------------------------
(* Properties.                                                                     *)

(* The type invariant.                                                             *)
EndpointTypeOK ==
  /\ decision \in [loopbackOnly : BOOLEAN, tlsEnabled : BOOLEAN]
  /\ running \in BOOLEAN /\ stopping \in BOOLEAN
  /\ thread \in {"none", "polling", "accepting", "handshake", "receiving", "calling", "ended"}
  /\ serving \in Clients \cup {Nobody} /\ backlog \in Seq(Clients)
  /\ issued \in 0..MaxIssued /\ active \in Nat
  /\ DOMAIN live \subseteq 1..issued
  /\ live \in [DOMAIN live -> [initialized : BOOLEAN, idle : 0..(IdleTimeout + 1)]]
  /\ source \in [Clients -> [failures : Seq(Nat), left : {NoBlock} \cup 0..Block]]
  /\ tried \in [Clients -> Seq(Nat)]

(* The registry never holds more sessions than its limit, and the count the gate   *)
(* keeps on its own never falls below it: the ceiling that answers 429 is at       *)
(* least as strict as the registry that answers -32001.                            *)
SessionsBounded ==
  Cardinality(DOMAIN live) <= MaxSessions /\ Cardinality(DOMAIN live) <= active

(* A source is refused no more than Threshold credentials within a window, unless  *)
(* one of its requests was admitted in between: after that many it is blocked, and *)
(* its requests are not compared with the token any more.                          *)
RateLimited == \A c \in Clients : Len(tried[c]) <= Threshold

(* An identifier that was closed or has expired is never honoured again.           *)
DeadStaysDead ==
  [][\A id \in (1..issued) \ DOMAIN live : id \notin DOMAIN live']_endpointVars

(* No request, and above all no refused one, ends a session that is in use: only   *)
(* one that was idle for longer than the timeout is removed.                       *)
EstablishedStayUsable ==
  [][\A id \in DOMAIN live : live[id].idle <= IdleTimeout => id \in DOMAIN live']_endpointVars

(* The thread is joined by stop() alone, and a server that runs has it.            *)
ThreadWhileRunning ==
  /\ running <=> thread # "none"
  /\ stopping => running
  /\ serving # Nobody <=> thread \in {"handshake", "receiving", "calling"}
  /\ thread = "accepting" => backlog # <<>>

(* Every client the kernel holds is accepted in the end, whoever else connects,    *)
(* unless the thread has ended.                                                    *)
ClientsHeard ==
  \A c \in Clients : (c \in ToSet(backlog)) ~> (c \notin ToSet(backlog) \/ thread = "ended")

(* stop() returns, whatever the thread was doing and however many wait.            *)
StopReturns == stopping ~> ~running

(* What the endpoint promises at rest: bounded sessions, a bounded number  *)
(* of guesses, a thread exactly while the server runs.                     *)
EndpointSound == EndpointTypeOK /\ SessionsBounded /\ RateLimited /\ ThreadWhileRunning

(* What it promises of each session: usable until it is idle for too long  *)
(* or closed, and dead from then on.                                       *)
SessionsKept == DeadStaysDead /\ EstablishedStayUsable

(* Clients are heard, and stop() returns.                                  *)
EndpointAnswers == ClientsHeard /\ StopReturns
===================================================================================
