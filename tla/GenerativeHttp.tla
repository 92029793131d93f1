------------------------------ MODULE GenerativeHttp -------------------------------
(***********************************************************************************)
(* The exchange of HttpGenerativeJobProtocol with a provider over                   *)
(* OpenSslGenerativeHttpTransport: one request per connection, through resolving,   *)
(* connecting, the TLS handshake, writing and reading, with one deadline for the    *)
(* connection and one for everything after it.  The provider and the network may    *)
(* refuse, fall silent, present a certificate of another host, close in the middle  *)
(* of an answer, and go on with a job whose answer was lost.                        *)
(*                                                                                  *)
(* An answer is in Pieces: its status line, its headers and two parts of a JSON     *)
(* object, which parses when both are there.  Time is counted in ticks that pass    *)
(* while send() runs; a tick may pass between any two steps.                        *)
(***********************************************************************************)
EXTENDS Integers

CONSTANTS
  VerifyCertificate,   \* OpenSslTransportOptions::verifyServerCertificate
  ConnectTicks, IoTicks,   \* connectTimeout, ioTimeout
  MaxRequests          \* bound: requests in a behaviour

ASSUME HttpAssumption ==
  /\ VerifyCertificate \in BOOLEAN /\ ConnectTicks \in Nat /\ IoTicks \in Nat /\ MaxRequests \in Nat

VARIABLES
  exchange,    \* send() as far as it is: [at, kind, job, left], left the ticks to the deadline
  peer,        \* the connection at the other end: [certificate, sent, closed, answer]
  read,        \* pieces of the answer read so far
  outcome,     \* what the last operation returned: [ok, code, kind, job, value]
  held,        \* the jobs whose identifiers the client holds
  providerJobs,    \* the jobs of the provider, by identifier
  credentialAt,    \* history: certificates of the servers the credential was sent to
  requests     \* bounds the requests

exchangeVars == <<exchange, peer, read, outcome>>
httpVars == <<exchangeVars, held, providerJobs, credentialAt, requests>>

Pieces == 4
JobIds == 1..MaxRequests
NoExchange == [at |-> "idle", kind |-> "none", job |-> 0, left |-> 0]
AnswerOf(status, job, value) == [status |-> status, job |-> job, value |-> value]
Nobody == [certificate |-> "none", sent |-> 0, closed |-> FALSE, answer |-> AnswerOf("none", 0, "none")]
Returned(ok, code, value) == [ok |-> ok, code |-> code, kind |-> exchange.kind, job |-> exchange.job, value |-> value]

At(place) == exchange.at = place
Overdue == exchange.left = 0

(* send() returns; the connection and the session are closed.                       *)
SendReturns(result) ==
  /\ outcome' = result /\ exchange' = NoExchange /\ peer' = Nobody /\ read' = 0
Fail(code) == SendReturns(Returned(FALSE, code, "none"))

(*------------------------------------ the client ----------------------------------*)
(* submitRequest .. cancelRequest, urlFor, parseHttpsUrl: a request that needs an    *)
(* identifier or an https URL and has none ends before there is a connection.        *)
Request(kind, job, url) ==
  /\ At("idle") /\ requests < MaxRequests /\ requests' = requests + 1
  /\ kind # "submit" => job \in held
  /\ IF url = "https"
     THEN exchange' = [at |-> "resolve", kind |-> kind, job |-> job, left |-> 0] /\ UNCHANGED outcome
     ELSE /\ outcome' = [ok |-> FALSE, code |-> IF url = "none" THEN "FailedPrecondition" ELSE "InvalidArgument", kind |-> kind, job |-> job, value |-> "none"]
          /\ UNCHANGED exchange
  /\ UNCHANGED <<peer, read, held, providerJobs, credentialAt>>

(* getaddrinfo, before the deadline is set.                                          *)
Resolve(found) ==
  /\ At("resolve")
  /\ IF found THEN exchange' = [exchange EXCEPT !.at = "connect", !.left = ConnectTicks] /\ UNCHANGED <<peer, read, outcome>>
              ELSE Fail("Io")
  /\ UNCHANGED <<held, providerJobs, credentialAt, requests>>

(* connectWithTimeout tries the addresses in turn: a refused one is skipped, and all *)
(* refused is Io; a silent one is waited for until the deadline, which is Timeout.   *)
Connect(certificate) ==
  /\ At("connect")
  /\ exchange' = [exchange EXCEPT !.at = "handshake", !.left = IoTicks]
  /\ peer' = [Nobody EXCEPT !.certificate = certificate]
  /\ UNCHANGED <<read, outcome, held, providerJobs, credentialAt, requests>>

ConnectFails ==
  /\ At("connect")
  /\ Fail(IF Overdue THEN "Timeout" ELSE "Io")
  /\ UNCHANGED <<held, providerJobs, credentialAt, requests>>

(* A mutant: the result of the verification is not looked at.                        *)
HandshakeUnverified ==
  /\ At("handshake")
  /\ exchange' = [exchange EXCEPT !.at = "write"] /\ UNCHANGED <<peer, read, outcome>>
  /\ UNCHANGED <<held, providerJobs, credentialAt, requests>>

(* handshake: SSL_connect fails on a certificate that does not verify for the host,  *)
(* and on anything else that is not a wait.                                          *)
Handshake ==
  /\ At("handshake")
  /\ IF VerifyCertificate /\ peer.certificate # "good"
     THEN Fail("PermissionDenied")
     ELSE exchange' = [exchange EXCEPT !.at = "write"] /\ UNCHANGED <<peer, read, outcome>>
  /\ UNCHANGED <<held, providerJobs, credentialAt, requests>>

HandshakeBreaks ==
  /\ At("handshake") /\ peer.closed
  /\ Fail("PermissionDenied")
  /\ UNCHANGED <<held, providerJobs, credentialAt, requests>>

(* writeAll: the request goes out whole, or some of it and then nothing.             *)
WriteRequest ==
  /\ At("write") /\ ~peer.closed
  /\ credentialAt' = credentialAt \cup {peer.certificate}
  /\ exchange' = [exchange EXCEPT !.at = "read"]
  /\ UNCHANGED <<peer, read, outcome, held, providerJobs, requests>>

WriteBreaks ==
  /\ At("write")
  /\ credentialAt' = credentialAt \cup {peer.certificate}
  /\ \/ peer.closed /\ Fail("Io")
     \/ Overdue /\ Fail("Timeout")
  /\ UNCHANGED <<held, providerJobs, requests>>

(* readAll: what is there is read, whatever the time; the end of the stream however  *)
(* it came is the end of the answer.                                                 *)
ReadPiece ==
  /\ At("read") /\ read < peer.sent
  /\ read' = read + 1
  /\ UNCHANGED <<exchange, peer, outcome, held, providerJobs, credentialAt, requests>>

(* waitReady at the deadline, in the handshake and in the reading.                   *)
WaitTimesOut ==
  /\ At("handshake") \/ (At("read") /\ read = peer.sent /\ ~peer.closed)
  /\ Overdue
  /\ Fail("Timeout")
  /\ UNCHANGED <<held, providerJobs, credentialAt, requests>>

(* mapGenerativeHttpStatus.                                                          *)
CodeOf(status) ==
  CASE status = "404" -> "NotFound"
    [] status = "409" -> "FailedPrecondition"
    [] status = "5xx" -> "Io"

(* parseHttpResponse, and the answer as the operation reads it: a cut body is        *)
(* malformed JSON, a cancelled job that is gone or over was cancelled.               *)
Read(answer) ==
  IF read = 0 THEN Returned(FALSE, "Io", "none")
  ELSE IF exchange.kind = "cancel" /\ answer.status \in {"2xx", "404", "409"} THEN Returned(TRUE, "none", "none")
  ELSE IF answer.status # "2xx" THEN Returned(FALSE, CodeOf(answer.status), "none")
  ELSE IF read < Pieces THEN Returned(FALSE, "Internal", "none")
  ELSE IF answer.value = "odd" THEN Returned(FALSE, "Internal", "none")
  ELSE [Returned(TRUE, "none", answer.value) EXCEPT !.job = answer.job]

EndOfStream ==
  /\ At("read") /\ peer.closed /\ read = peer.sent
  /\ LET result == Read(peer.answer) IN
     /\ SendReturns(result)
     /\ held' = IF result.ok /\ exchange.kind = "submit" THEN held \cup {result.job} ELSE held
  /\ UNCHANGED <<providerJobs, credentialAt, requests>>

(*---------------------------- the provider and the network ------------------------*)
(* The provider acts on a request it has whole.  An answer about a job is of its      *)
(* state then; to a cancellation a 2xx means that it is done, 404 and 409 that the   *)
(* job is gone or over.                                                              *)
NewJob == CHOOSE id \in JobIds : providerJobs[id] = "none" /\ \A other \in JobIds : providerJobs[other] = "none" => id <= other

Performed(kind, job) ==
  CASE kind = "submit" -> [jobs |-> [providerJobs EXCEPT ![NewJob] = "running"], answer |-> AnswerOf("2xx", NewJob, "submitted")]
    [] kind = "poll"   ->
         IF providerJobs[job] = "forgotten" THEN [jobs |-> providerJobs, answer |-> AnswerOf("404", job, "none")]
         ELSE [jobs |-> providerJobs, answer |-> AnswerOf("2xx", job, providerJobs[job])]
    [] kind = "fetch"  ->
         IF providerJobs[job] = "succeeded" THEN [jobs |-> providerJobs, answer |-> AnswerOf("2xx", job, "media")]
         ELSE [jobs |-> providerJobs, answer |-> AnswerOf("404", job, "none")]
    [] kind = "cancel" ->
         IF providerJobs[job] = "running"
         THEN [jobs |-> [providerJobs EXCEPT ![job] = "failed"], answer |-> AnswerOf("2xx", job, "none")]
         ELSE [jobs |-> providerJobs, answer |-> AnswerOf(IF providerJobs[job] = "forgotten" THEN "404" ELSE "409", job, "none")]

Unanswered == At("read") /\ ~peer.closed /\ peer.answer.status = "none"

ProviderAnswers ==
  /\ Unanswered
  /\ LET done == Performed(exchange.kind, exchange.job) IN
     /\ providerJobs' = done.jobs
     /\ peer' = [peer EXCEPT !.answer = done.answer]
  /\ UNCHANGED <<exchange, read, outcome, held, credentialAt, requests>>

ProviderRefuses(answer) ==
  /\ Unanswered /\ (answer.status = "2xx" => exchange.kind # "cancel")
  /\ peer' = [peer EXCEPT !.answer = answer]
  /\ UNCHANGED <<exchange, read, outcome, held, providerJobs, credentialAt, requests>>

PieceArrives ==
  /\ At("read") /\ ~peer.closed /\ peer.answer.status # "none" /\ peer.sent < Pieces
  /\ peer' = [peer EXCEPT !.sent = @ + 1]
  /\ UNCHANGED <<exchange, read, outcome, held, providerJobs, credentialAt, requests>>

PeerCloses ==
  /\ exchange.at \in {"handshake", "write", "read"} /\ ~peer.closed
  /\ peer' = [peer EXCEPT !.closed = TRUE]
  /\ UNCHANGED <<exchange, read, outcome, held, providerJobs, credentialAt, requests>>

JobMoves(id, to) ==
  /\ \/ providerJobs[id] = "running" /\ to \in {"succeeded", "failed"}
     \/ providerJobs[id] \in {"succeeded", "failed"} /\ to = "forgotten"
  /\ providerJobs' = [providerJobs EXCEPT ![id] = to]
  /\ UNCHANGED <<exchangeVars, held, credentialAt, requests>>

TickPasses ==
  /\ exchange.left > 0
  /\ exchange' = [exchange EXCEPT !.left = @ - 1]
  /\ UNCHANGED <<peer, read, outcome, held, providerJobs, credentialAt, requests>>

(*---------------------------------- specification ---------------------------------*)
HttpInit ==
  /\ exchange = NoExchange /\ peer = Nobody /\ read = 0
  /\ outcome = [ok |-> FALSE, code |-> "none", kind |-> "none", job |-> 0, value |-> "none"]
  /\ held = {} /\ providerJobs = [id \in JobIds |-> "none"] /\ credentialAt = {} /\ requests = 0

(* The steps of send() that do not wait for the other side.                           *)
ClientStep ==
  \/ \E found \in BOOLEAN : Resolve(found)
  \/ (Overdue /\ ConnectFails) \/ (peer.closed /\ Handshake) \/ HandshakeBreaks
  \/ WriteRequest \/ WriteBreaks
  \/ ReadPiece \/ WaitTimesOut \/ EndOfStream

HttpNext ==
  \/ \E kind \in {"submit", "poll", "fetch", "cancel"}, job \in JobIds, url \in {"https", "http", "none"} : Request(kind, job, url)
  \/ \E certificate \in {"good", "other"} : Connect(certificate)
  \/ ConnectFails \/ Handshake
  \/ ClientStep
  \/ ProviderAnswers
  \/ \E status \in {"5xx", "2xx"} : ProviderRefuses(AnswerOf(status, 0, "odd"))
  \/ PieceArrives \/ PeerCloses
  \/ \E id \in JobIds, to \in {"succeeded", "failed", "forgotten"} : JobMoves(id, to)
  \/ TickPasses

HttpSpec == HttpInit /\ [][HttpNext]_httpVars

(*------------------------------------ properties ----------------------------------*)
(* Variables keep their types.                                                       *)
HttpTypeOK ==
  /\ exchange.at \in {"idle", "resolve", "connect", "handshake", "write", "read"}
  /\ exchange.left \in 0..ConnectTicks + IoTicks /\ read \in 0..Pieces /\ peer.sent \in 0..Pieces
  /\ held \subseteq JobIds /\ requests \in 0..MaxRequests
  /\ providerJobs \in [JobIds -> {"none", "running", "succeeded", "failed", "forgotten"}]

(***********************************************************************************)
(* With the network and the provider failing at any point: the credential goes to  *)
(* no server that could not prove to be the host of the endpoint; what an operation *)
(* reports as done is so at the provider: a job submitted exists, one reported      *)
(* ended has ended and how, its media is fetched from a success, and a cancelled    *)
(* job runs no longer; a cut answer is never taken for a whole one                  *)
(* (OpenSslGenerativeHttpTransport, HttpGenerativeJobProtocol).                     *)
(***********************************************************************************)
CredentialOnlyToTheHost == VerifyCertificate => credentialAt \subseteq {"good"}

OutcomeIsTrue ==
  outcome.ok =>
    /\ outcome.kind = "submit" => outcome.job \in held /\ providerJobs[outcome.job] # "none"
    /\ outcome.kind = "poll" /\ outcome.value \in {"succeeded", "failed"} =>
         providerJobs[outcome.job] \in {outcome.value, "forgotten"}
    /\ outcome.kind = "fetch"  => providerJobs[outcome.job] \in {"succeeded", "forgotten"}
    /\ outcome.kind = "cancel" => providerJobs[outcome.job] # "running"

HeldJobsExist == \A id \in held : providerJobs[id] # "none"

HttpSound == HttpTypeOK /\ CredentialOnlyToTheHost /\ OutcomeIsTrue /\ HeldJobsExist

(* Every send() returns, a provider that says nothing more included.                 *)
SendsReturn == exchange.at # "idle" ~> exchange.at = "idle"
==================================================================================
