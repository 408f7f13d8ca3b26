------------------------------ MODULE Gateway ------------------------------
(***************************************************************************)
(* The gateway in front of statsvc: how an HTTP request becomes calls of   *)
(* the services and an answer (internal/interfaces/httpapi/router.go,      *)
(* internal/interfaces/grpcapi/api.go), and how the two processes start    *)
(* and stop (cmd/gateway/main.go, cmd/statsvc/main.go).                    *)
(*                                                                         *)
(* A redirection is two calls: Resolve, and RecordVisit before the answer, *)
(* whose error is ignored.  Every call has a deadline, so it may fail      *)
(* while its request is on the way and be handled afterwards.  The visits  *)
(* of VisitRecorder are the requests that may become redirections; its     *)
(* recorder runs in statsvc and ends with that process.                    *)
(*                                                                         *)
(* What a service answers reaches the gateway in the same step as it is    *)
(* decided, except for RecordVisit, whose effect the recorder sees.  A     *)
(* gRPC connection reestablishes itself, and hands a request to a server   *)
(* once at most.                                                           *)
(* Requests are numbered in the order in which they arrive.                *)
(***************************************************************************)
EXTENDS VisitRecorder

ASSUME NumberedAssumption == Visits \subseteq Nat

VARIABLES
  gateway,     \* the gateway's process
  conns,       \* how many of its three connections are open
  server,      \* statsvc's main and its gRPC server
  phase,       \* where the handler of each request is
  at,          \* its RecordVisit: not under way, or sent to statsvc
  misreported  \* history: requests answered with another error than the service's

gatewayVars == <<gateway, conns, phase, misreported>>
allVars == <<vars, gatewayVars, server, at>>

Connections == 3

\* "call" waits for CreateShortLink or GetLinkStats, "resolve" and "record" for
\* the calls of a redirection; "redirected" is 302, "answered" any other answer,
\* "cut" none at all.
Open == {"call", "resolve", "record"}
Phases == {"new", "redirected", "answered", "cut"} \union Open

-----------------------------------------------------------------------------
(* Errors on their way from a service to an HTTP status                    *)

\* What the services' methods return; "other" is an error of MySQL or Redis.
ServiceErrors == {"ErrInvalidCode", "ErrInvalidURL", "ErrNotFound", "ErrExpired",
                  "ErrQueueFull", "other"}

\* What a call ends with when the service's answer does not arrive.
TransportFailures == {"Unavailable", "DeadlineExceeded", "Canceled"}

\* A status is its code and whether its message, the error's text, has "url".
toStatus(err) ==
  [code |-> [ErrInvalidCode |-> "InvalidArgument", ErrInvalidURL |-> "InvalidArgument",
             ErrNotFound |-> "NotFound", ErrExpired |-> "FailedPrecondition",
             ErrQueueFull |-> "ResourceExhausted", other |-> "Internal"][err],
   url  |-> err = "ErrInvalidURL"]

\* Wrong on purpose: what is no longer there is taken for what never was.
fromStatusByCode(st) ==
  IF st.code \in {"NotFound", "FailedPrecondition"} THEN "ErrNotFound"
  ELSE IF st.code = "InvalidArgument" THEN "ErrInvalidCode" ELSE "other"

fromStatus(st) ==
  IF st.code = "InvalidArgument"
  THEN IF st.url THEN "ErrInvalidURL" ELSE "ErrInvalidCode"
  ELSE [NotFound |-> "ErrNotFound", FailedPrecondition |-> "ErrExpired",
        ResourceExhausted |-> "ErrQueueFull", Internal |-> "other",
        Unavailable |-> "other", DeadlineExceeded |-> "other",
        Canceled |-> "other"][st.code]

\* The reply, by its status and text.
writeError(err) ==
  LET status == [ErrInvalidCode |-> 400, ErrInvalidURL |-> 400, ErrNotFound |-> 404,
                 ErrExpired |-> 410, ErrQueueFull |-> 500, other |-> 500][err]
  IN  [status |-> status, text |-> IF status = 500 THEN "internal server error" ELSE err]

Failures == ServiceErrors \union TransportFailures

\* The error that the gateway's client returns for a call.
ClientError(failure) ==
  fromStatus(IF failure \in ServiceErrors THEN toStatus(failure)
                                          ELSE [code |-> failure, url |-> FALSE])

\* What the same call within one process would have failed with.
DirectError(failure) == IF failure \in ServiceErrors THEN failure ELSE "other"

-----------------------------------------------------------------------------
GatewayTypeOK ==
  /\ TypeOK
  /\ gateway \in {"dialing", "serving", "closing", "gone"}
  /\ conns \in 0..Connections /\ (gateway = "dialing" => conns < Connections)
  /\ server \in {"starting", "registered", "serving", "stopping", "stopped"}
  /\ phase \in [Visits -> Phases]
  /\ at \in [Visits -> {"none", "sent"}]
  /\ \A v \in Visits : at[v] = "sent" => phase[v] \in {"record", "redirected", "cut"}
  /\ misreported \subseteq Visits

GatewayInit ==
  /\ Init
  /\ gateway = "dialing" /\ conns = 0
  /\ server = "starting"
  /\ phase = [v \in Visits |-> "new"]
  /\ at = [v \in Visits |-> "none"]
  /\ misreported = {}

-----------------------------------------------------------------------------
(* The gateway's process                                                   *)

\* NewGatewayClient opens one connection after the other and waits for each;
\* the last one is to statsvc.
Dial ==
  /\ gateway = "dialing"
  /\ conns = Connections - 1 => server = "serving"
  /\ conns' = conns + 1
  /\ gateway' = IF conns' = Connections THEN "serving" ELSE "dialing"
  /\ UNCHANGED <<vars, phase, misreported, server, at>>

\* A connection is not there in time, or the context is over: those that are
\* open are closed, and main fails.
DialFails ==
  /\ gateway = "dialing"
  /\ gateway' = "gone" /\ conns' = 0
  /\ UNCHANGED <<vars, phase, misreported, server, at>>

\* The context is over: Shutdown closes the listener, and ListenAndServe returns;
\* or it could not listen.
Shutdown ==
  /\ gateway = "serving"
  /\ gateway' = "closing"
  /\ UNCHANGED <<vars, conns, phase, misreported, server, at>>

\* runGateway does not wait for Shutdown: its deferred Close makes the calls fail
\* that are waiting, main returns, and the handlers that still run end with it.
GatewayExit ==
  /\ gateway = "closing"
  /\ gateway' = "gone" /\ conns' = 0
  /\ phase' = [v \in Visits |-> IF phase[v] \in Open THEN "cut" ELSE phase[v]]
  /\ UNCHANGED <<vars, misreported, server, at>>

-----------------------------------------------------------------------------
(* Requests                                                                *)

\* The handler of v goes on to p; the call of RecordVisit is as given.
Goes(v, p, call) ==
  /\ gateway # "gone"
  /\ phase' = [phase EXCEPT ![v] = p]
  /\ at' = [at EXCEPT ![v] = call]
  /\ UNCHANGED <<vars, gateway, conns, server>>

\* The next request arrives; a body that is not JSON is answered at once.
Arrive(v) ==
  /\ gateway = "serving" /\ phase[v] = "new"
  /\ \A u \in Visits : u < v => phase[u] # "new"
  /\ \E p \in {"call", "resolve", "answered"} : Goes(v, p, "none")
  /\ UNCHANGED misreported

\* A call has failed, and its error makes the reply.
Reports(v) ==
  \E failure \in Failures :
    misreported' = IF writeError(ClientError(failure)) = writeError(DirectError(failure))
                   THEN misreported ELSE misreported \union {v}

\* createShortLink and getLinkStats: with the result, or the error.
Answer(v) ==
  /\ phase[v] = "call"
  /\ Goes(v, "answered", "none")
  /\ UNCHANGED misreported \/ Reports(v)

\* Resolve succeeds: the visit is sent.
Resolved(v) ==
  /\ phase[v] = "resolve"
  /\ Goes(v, "record", "sent")
  /\ UNCHANGED misreported

\* Wrong on purpose: the visit is reported before the error is looked at.
ResolveFailsReported(v) ==
  /\ phase[v] = "resolve"
  /\ Goes(v, "answered", "sent")
  /\ Reports(v)

\* Resolve fails, or its answer does not come in time.
ResolveFails(v) ==
  /\ phase[v] = "resolve"
  /\ Goes(v, "answered", "none")
  /\ Reports(v)

\* Wrong on purpose: the visit has to reach statsvc before the redirection.
RecordReturnsHandled(v) ==
  /\ phase[v] = "record"
  /\ at[v] = "none" /\ visit[v] # "new"
  /\ Goes(v, "redirected", "none")
  /\ UNCHANGED misreported

\* Record returns with an answer, or without one when its deadline has passed:
\* the client is redirected in any case.
RecordReturns(v) ==
  /\ phase[v] = "record"
  /\ Goes(v, "redirected", at[v])
  /\ UNCHANGED misreported

\* The visit reaches statsvc's recorder, perhaps after the gateway has given up.
RecordVisit(v) ==
  /\ at[v] = "sent" /\ server \in {"serving", "stopping"}
  /\ Record(v)
  /\ at' = [at EXCEPT ![v] = "none"]
  /\ UNCHANGED <<gatewayVars, server>>

\* It never does: no connection, a server that does not take new calls.
LoseCall(v) ==
  /\ at[v] = "sent"
  /\ at' = [at EXCEPT ![v] = "none"]
  /\ UNCHANGED <<vars, gatewayVars, server>>

RequestStep(v) == Answer(v) \/ Resolved(v) \/ ResolveFails(v) \/ RecordReturns(v)

-----------------------------------------------------------------------------
(* statsvc's process                                                       *)

\* The key is in etcd before the port is open.
Register ==
  /\ server = "starting" /\ server' = "registered"
  /\ UNCHANGED <<vars, gatewayVars, at>>

Listen ==
  /\ server = "registered" /\ server' = "serving"
  /\ UNCHANGED <<vars, gatewayVars, at>>

\* Serve sees the end of the context and calls GracefulStop.
StopServing ==
  /\ server = "serving" /\ cancelled
  /\ server' = "stopping"
  /\ UNCHANGED <<vars, gatewayVars, at>>

\* The process ends, and the recorder with it if it has not returned.
ProcessEnds ==
  /\ server' = "stopped"
  /\ \/ run = "returned" /\ UNCHANGED vars
     \/ Exit
  /\ UNCHANGED <<gatewayVars, at>>

\* Wrong on purpose: Serve waits for all calls, however long they take.
ServeReturnsGraceful ==
  /\ server = "stopping"
  /\ \A v \in Visits : at[v] = "none"
  /\ ProcessEnds

\* Serve returns when the calls have ended, or after five seconds, and main
\* with it.
ServeReturns ==
  /\ server = "stopping"
  /\ ProcessEnds

\* log.Fatal: etcd, the port or the server failed.
Fatal ==
  /\ server \in {"starting", "registered", "serving"}
  /\ ProcessEnds

ServerStep == Register \/ Listen \/ StopServing \/ ServeReturns

RecorderStep ==
  /\ Receive \/ TickFlush \/ SeeCancel \/ DrainEmpty \/ Flush
  /\ UNCHANGED <<gatewayVars, server, at>>

Signal == Cancel /\ server # "stopped" /\ UNCHANGED <<gatewayVars, server, at>>

-----------------------------------------------------------------------------
GatewayNext ==
  \/ Dial \/ DialFails \/ Shutdown \/ GatewayExit
  \/ \E v \in Visits : \/ Arrive(v) \/ Answer(v) \/ Resolved(v) \/ ResolveFails(v)
                       \/ RecordReturns(v) \/ RecordVisit(v) \/ LoseCall(v)
  \/ Register \/ Listen \/ StopServing \/ ServeReturns \/ Fatal
  \/ RecorderStep \/ Signal

GatewaySpec == GatewayInit /\ [][GatewayNext]_allVars

\* Calls end by their deadlines, processes that run go on, and the recorder as
\* in VisitRecorder.  No signal has to come, no call has to arrive anywhere.
GatewayFairness ==
  /\ WF_allVars(RecorderStep)
  /\ WF_allVars(ServerStep)
  /\ WF_allVars(GatewayExit)
  /\ \A v \in Visits : WF_allVars(RequestStep(v))

GatewayFairSpec == GatewaySpec /\ GatewayFairness

-----------------------------------------------------------------------------
(* Properties                                                              *)

\* The reply to a failed request is the one it would have been if the services
\* were called in the gateway's own process, although the error has gone through
\* a gRPC status; a failure of the call itself is never taken for a link that is
\* missing, expired or ill-formed (toStatus, fromStatus, writeError).
ErrorsSurviveGrpc == misreported = {}

\* A visit is counted only for a request that is redirected, now or as soon as the
\* call returns, except that the gateway may end in between (redirect, main).
VisitsAreRedirects ==
  /\ GatewayTypeOK
  /\ \A v \in Accepted :
       \/ phase[v] \in {"record", "redirected"}
       \/ phase[v] = "cut" /\ gateway = "gone"

\* Every request comes to an end, whatever becomes of statsvc and of the
\* recording of the visit (redirect, withTimeout).
RequestsEnd ==
  (\E v \in Visits : phase[v] \in Open) ~> (\A v \in Visits : phase[v] \notin Open)

\* Both processes end when they are told to, also with calls under way (Serve,
\* runGateway).
ShutdownsEnd ==
  /\ cancelled ~> server = "stopped"
  /\ gateway = "closing" ~> gateway = "gone"
=============================================================================
