----------------------------- MODULE CollectorSend -----------------------------
(***************************************************************************)
(* One signal's sends to the collector, from the transport that export_loop *)
(* builds (drain/mod.rs) through HyperHttpTransport and GrpcTransport down  *)
(* to the connection of NgxConnIo.  The exporter is one thread: a task runs *)
(* until it has to wait, so a poll is one step; between two polls the       *)
(* network, the peer, nginx's event loop and the send's deadline act.       *)
(*                                                                          *)
(* Tasks: "caller" is the export loop awaiting the send, "driver" the h2    *)
(* connection task that a gRPC client spawns and that outlives a send.      *)
(***************************************************************************)
EXTENDS DeliveryVerdict, Endpoint, NgxConnIo

CONSTANTS Configs,      \* [url, proto, signal, tls, override]
          Loads,        \* certificate and key files OpenSSL can load
          IpHosts,      \* hosts that parse as an IpAddr
          Answers,      \* what a collector may answer, per protocol
          LocalCodes,   \* gRPC codes tonic makes up when a call breaks
          Certs,        \* names a collector's certificate may carry
          MaxSends,     \* sends in a behaviour
          MaxAddrs,     \* addresses the resolver may return
          MaxStalls     \* times the peer's receive window closes

VARIABLES cfg,          \* the transport: protocol, endpoint, signal, TLS, paths
          stage,        \* where the send future is suspended
          io,           \* the NgxConnIo of the current connection
          runnable,     \* tasks the executor will poll
          addrs,        \* addresses still to try, the current one included
          request,      \* "none", "queued" or "written", and what it carries
          answer,       \* what the peer has decided to answer this send
          due,          \* whether its second half is still to be sent
          got,          \* pieces of it the HTTP engine has read
          outcome,      \* result of the last finished send
          client,       \* cached gRPC client: "none", "live" or "dead"
          lingering,    \* h2 connections whose client was dropped
          cert,         \* the peer certificate's name
          sends, stalls

vars == <<cfg, stage, io, runnable, addrs, request, answer, due, got, outcome,
          client, lingering, cert, sends, stalls>>

Signals == {"metrics", "logs", "traces"}
NoRequest == [state |-> "none"]
Error(e) == [kind |-> "error", cause |-> e]
IsVerdict(o) == o.kind \notin {"error", "none"}

(***************************************************************************)
(* export_loop builds the transport once.  A transport that cannot be built *)
(* ends the loop; the model starts with one that can.  Only the HTTP        *)
(* transport takes the headers and the per-signal overrides.                *)
(***************************************************************************)
export_loop_transport(c) ==
    LET e == ParsedEndpoint_parse(c.url)
    IN  [proto |-> c.proto, url |-> c.url, endpoint |-> e, signal |-> c.signal,
         insecure |-> c.tls.insecure, headers |-> c.proto = "http",
         path |-> IF c.proto = "grpc" THEN << >>
                  ELSE IF c.override # << >> THEN extract_http_path(c.override[1])
                  ELSE derive_signal_paths(e.path)[c.signal]]

\* The constructors refuse a URL that does not parse, GrpcTransport also one
\* that has no http origin.
with_connector(c) ==
    ParsedEndpoint_parse(c.url).kind \in
        {"http", "https"} \cup (IF c.proto = "http" THEN {"unix"} ELSE {})

constructible(c) ==
    with_connector(c) /\ (c.url.scheme = "https" => build_ctx(c.tls, Loads))

is_ip_literal(host) == strip_v6_brackets(host) \in IpHosts

Session == wrap_tls_io(cfg.insecure, is_ip_literal(cfg.endpoint.host),
                       cfg.proto = "grpc")

NewIo == ConnIo_new(IF cfg.endpoint.kind = "https" THEN "pending" ELSE "off")

\* A new connection; what outlives the old one is carried over.
NextIo(old) == [NewIo EXCEPT !.opens = old.opens, !.closes = old.closes,
                             !.not_after = old.not_after]

Init ==
    /\ cfg \in {export_loop_transport(c) : c \in {x \in Configs : constructible(x)}}
    /\ stage = "idle" /\ io = NewIo /\ runnable = {} /\ addrs = 0
    /\ request = NoRequest /\ answer = None /\ due = FALSE /\ got = {}
    /\ outcome = [kind |-> "none"] /\ client = "none" /\ lingering = 0
    /\ cert \in IF cfg.endpoint.kind = "https" THEN Certs ELSE {"other"}
    /\ sends = 0 /\ stalls = 0

\* The future is dropped or returns: its connection goes with it.
Finish(o, conn) ==
    /\ stage' = "idle" /\ outcome' = o /\ io' = close(conn)
    /\ runnable' = runnable \ {"caller"} /\ got' = {}

\* A client that is dropped leaves its connection to the driver.
DropClient ==
    /\ client' = "none" /\ runnable' = {}
    /\ lingering' = lingering + (IF client = "live" THEN 1 ELSE 0)
    /\ io' = IF client = "live" THEN NextIo(io)
             ELSE io

(***************************************************************************)
(* send, send_logs and send_traces.  HTTP opens a connection for each send; *)
(* gRPC reuses a cached client, and one whose connection has died answers   *)
(* the call itself, with Code::Unknown ("Service was not ready").           *)
(***************************************************************************)
Begin(signal) ==
    /\ stage = "idle" /\ cfg.signal = signal /\ sends < MaxSends
    /\ sends' = sends + 1 /\ answer' = None /\ due' = FALSE /\ got' = {}
    /\ UNCHANGED <<cfg, lingering, cert, stalls>>

Request == [state |-> "queued", path |-> cfg.path, headers |-> cfg.headers,
            host |-> IF cfg.proto = "grpc" THEN origin_of(cfg.endpoint)
                     ELSE authority_of(cfg.endpoint)]

\* NgxConnector::connect: a literal address connects at once, a name is
\* resolved first, a Unix socket is refused.
connect ==
    /\ io' = NextIo(io)
    /\ client' = "none" /\ request' = Request
    /\ \/ /\ cfg.endpoint.kind = "unix"
          /\ stage' = "idle" /\ outcome' = Error("unix")
          /\ UNCHANGED <<runnable, addrs>>
       \/ /\ cfg.endpoint.kind # "unix"
          /\ outcome' = [kind |-> "none"]
          /\ IF is_ip_literal(cfg.endpoint.host)
             THEN stage' = "connect" /\ addrs' = 1
                  /\ runnable' = runnable \cup {"caller"}
             ELSE stage' = "resolve" /\ addrs' = 0 /\ UNCHANGED runnable

Reuse ==
    /\ client = "live"
    /\ stage' = "rpc" /\ outcome' = [kind |-> "none"] /\ request' = Request
    /\ runnable' = runnable \cup {"driver"}
    /\ UNCHANGED <<io, addrs, client>>

Stale ==
    /\ client = "dead"
    /\ stage' = "idle" /\ client' = "none" /\ request' = NoRequest
    /\ outcome' = grpc_code_to_outcome("Unknown", None)
    /\ UNCHANGED <<io, addrs, runnable>>

send == Begin("metrics") /\ cfg.proto = "http" /\ connect
send_logs == Begin("logs") /\ cfg.proto = "http" /\ connect
send_traces == Begin("traces") /\ cfg.proto = "http" /\ connect

GrpcCall == \/ client = "none" /\ connect
            \/ Reuse
            \/ Stale
grpc_send == Begin("metrics") /\ cfg.proto = "grpc" /\ GrpcCall
grpc_send_logs == Begin("logs") /\ cfg.proto = "grpc" /\ GrpcCall
grpc_send_traces == Begin("traces") /\ cfg.proto = "grpc" /\ GrpcCall

(***************************************************************************)
(* connect_dns: the addresses are tried in order, each on a connection of   *)
(* its own, until one connects.                                             *)
(***************************************************************************)
ResolverAnswers ==
    /\ stage = "resolve"
    /\ \E n \in 0..MaxAddrs :
         \/ /\ n = 0                       \* an error, or no address
            /\ Finish(Error("resolve"), io)
            /\ UNCHANGED addrs
         \/ /\ n > 0
            /\ addrs' = n /\ stage' = "connect"
            /\ runnable' = runnable \cup {"caller"}
            /\ UNCHANGED <<io, outcome, got>>
    /\ UNCHANGED <<cfg, request, answer, due, client, lingering, cert, sends,
                   stalls>>

PollConnect ==
    /\ stage = "connect" /\ "caller" \in runnable
    /\ \E rc \in {"ok", "again", "error"} :
         \E r \in {poll_connect(io, "caller", rc)} :
           \/ /\ r.res = "ok"
              /\ stage' = IF cfg.proto = "http" THEN "exchange" ELSE "preface"
              /\ io' = r.io
              /\ UNCHANGED <<runnable, addrs, outcome, got>>
           \/ /\ r.res = "pending"
              /\ io' = r.io /\ runnable' = runnable \ {"caller"}
              /\ UNCHANGED <<stage, addrs, outcome, got>>
           \/ /\ r.res \in {"TimedOut", "Refused"}
              /\ addrs > 1
              /\ addrs' = addrs - 1
              /\ io' = NextIo(close(r.io))
              /\ UNCHANGED <<stage, runnable, outcome, got>>
           \/ /\ r.res \in {"TimedOut", "Refused"}
              /\ addrs = 1 /\ Finish(Error(r.res), r.io) /\ UNCHANGED addrs
    /\ UNCHANGED <<cfg, request, answer, due, client, lingering, cert, sends,
                   stalls>>

(***************************************************************************)
(* http_post_raw: hyper's connection task writes the request and reads all  *)
(* there is to read, until the head of the response is there.  The body is  *)
(* collected afterwards, and nothing polls the connection any more.         *)
(***************************************************************************)
RECURSIVE ReadAll(_, _, _)
ReadAll(r, task, pieces) ==
    IF r.res \in {"answer", "head", "body"}
    THEN ReadAll(stream_read(r.io, task, Session, cert), task, pieces \cup {r.res})
    ELSE [io |-> r.io, pieces |-> pieces, end |-> r.res]

WriteRequest(task) ==
    IF request.state = "queued" THEN stream_write(io, task, Session, cert)
    ELSE Ret(io, "ok")

Written == IF request.state = "queued" THEN [request EXCEPT !.state = "written"]
           ELSE request

\* One poll of the connection: [io, pieces, end, request].
Driven(w, r) ==
    [io |-> r.io, pieces |-> r.pieces,
     end |-> IF w.res = "error" THEN "error" ELSE r.end,
     request |-> IF w.res = "ok" THEN Written ELSE request]

ReadAfter(w, task) ==
    Driven(w, ReadAll(stream_read(w.io, task, Session, cert), task, got))

drive(task) == ReadAfter(WriteRequest(task), task)

Complete(pieces) == "answer" \in pieces \/ {"head", "body"} \subseteq pieces

drive_to_response ==
    /\ stage = "exchange" /\ "caller" \in runnable
    /\ \E d \in {drive("caller")} :
         /\ request' = d.request
         /\ \/ /\ d.end = "error" \/ (d.end = "fin" /\ ~Complete(d.pieces))
               /\ Finish(Error("connection"), d.io)
            \/ /\ d.end # "error" /\ Complete(d.pieces)
               /\ Finish(http_response_to_outcome(answer.some), d.io)
            \/ /\ d.end = "pending" /\ ~Complete(d.pieces)
               /\ stage' = IF "head" \in d.pieces THEN "body" ELSE stage
               /\ io' = d.io /\ got' = d.pieces
               /\ runnable' = runnable \ {"caller"}
               /\ UNCHANGED outcome
    /\ UNCHANGED <<cfg, addrs, answer, due, client, lingering, cert, sends, stalls>>

\* collect().await: woken by the connection's events, it finds nothing new.
collect_body ==
    /\ stage = "body" /\ "caller" \in runnable
    /\ runnable' = runnable \ {"caller"}
    /\ UNCHANGED <<cfg, stage, io, addrs, request, answer, due, got, outcome,
                   client, lingering, cert, sends, stalls>>

(***************************************************************************)
(* gRPC.  The h2 preface is written by the caller; then the connection is   *)
(* the driver's, and the caller waits for the reply of its call.            *)
(***************************************************************************)
h2_handshake ==
    /\ stage = "preface" /\ "caller" \in runnable
    /\ \E w \in {stream_write(io, "caller", Session, cert)} :
          \/ /\ w.res = "ok"
             /\ stage' = "rpc" /\ client' = "live" /\ io' = w.io
             /\ runnable' = (runnable \ {"caller"}) \cup {"driver"}
             /\ UNCHANGED <<outcome, got>>
          \/ /\ w.res = "pending"
             /\ io' = w.io /\ runnable' = runnable \ {"caller"}
             /\ UNCHANGED <<stage, client, outcome, got>>
          \/ /\ w.res = "error"
             /\ Finish(Error("h2"), w.io) /\ UNCHANGED client
    /\ UNCHANGED <<cfg, addrs, request, answer, due, lingering, cert, sends, stalls>>

\* The driver task: a broken or finished connection ends it, and closes it.
poll_driver ==
    /\ client = "live" /\ "driver" \in runnable
    /\ \E d \in {drive("driver")} :
         LET ended == d.end # "pending"
         IN  /\ request' = d.request /\ got' = d.pieces
             /\ io' = IF ended THEN close(d.io) ELSE d.io
             /\ client' = IF ended THEN "dead" ELSE client
             /\ runnable' = (runnable \ {"driver"})
                   \cup (IF stage = "rpc" /\ (ended \/ Complete(d.pieces))
                         THEN {"caller"} ELSE {})
    /\ UNCHANGED <<cfg, stage, addrs, answer, due, outcome, lingering, cert,
                   sends, stalls>>

\* The caller's half: the client is put back after an Ok reply only.
poll_rpc ==
    /\ stage = "rpc" /\ "caller" \in runnable
    /\ stage' = "idle" /\ got' = {}
    /\ \/ /\ Complete(got)
          /\ answer.some.code = "Ok"
          /\ outcome' = grpc_response_to_outcome(answer.some.rejected)
          /\ runnable' = runnable \ {"caller"}
          /\ UNCHANGED <<client, io, lingering>>
       \/ /\ Complete(got) /\ answer.some.code # "Ok"
          /\ outcome' = grpc_status_to_outcome(answer.some)
          /\ DropClient
       \/ /\ ~Complete(got)
          /\ \E code \in LocalCodes : outcome' = grpc_code_to_outcome(code, None)
          /\ DropClient
    /\ UNCHANGED <<cfg, addrs, request, answer, due, cert, sends, stalls>>

\* A connection without a client ends by itself, after the send is over.
lingering_ends ==
    /\ lingering > 0
    /\ lingering' = lingering - 1 /\ io' = [io EXCEPT !.closes = @ + 1]
    /\ UNCHANGED <<cfg, stage, runnable, addrs, request, answer, due, got,
                   outcome, client, cert, sends, stalls>>

(***************************************************************************)
(* with_deadline drops the send future wherever it is suspended.            *)
(***************************************************************************)
deadline ==
    /\ stage # "idle"
    /\ due' = FALSE
    /\ IF stage = "rpc"
       THEN /\ DropClient
            /\ stage' = "idle" /\ outcome' = Error("deadline") /\ got' = {}
       ELSE /\ Finish(Error("deadline"), io)
            /\ UNCHANGED <<client, lingering>>
    /\ UNCHANGED <<cfg, addrs, request, answer, cert, sends, stalls>>

(***************************************************************************)
(* nginx's event loop.                                                      *)
(***************************************************************************)
Handled(h) ==
    /\ io' = h.io
    /\ runnable' = runnable \cup ({h.wake} \ {NoTask})
    /\ UNCHANGED <<cfg, stage, addrs, request, answer, due, got, outcome, client,
                   lingering, cert, sends, stalls>>

ReadEvent == io.pc = "live" /\ io.rdEdge /\ Handled(conn_read_handler(io))
WriteEvent == io.pc = "live" /\ io.wrEdge /\ Handled(conn_write_handler(io))
TimerEvent == io.pc = "live" /\ io.timer /\ Handled(expire_timer(io))

(***************************************************************************)
(* The network and the collector.                                           *)
(***************************************************************************)
Network(new) ==
    /\ io' = new
    /\ UNCHANGED <<cfg, stage, runnable, addrs, request, got, outcome, client,
                   lingering, cert, sends>>

Open == io.sock = "up" /\ ~({"fin", "reset"} \cap Range(io.inbox) # {})

Receives(pieces) == [io EXCEPT !.inbox = @ \o pieces, !.rdEdge = TRUE]

NetConnects ==
    /\ io.sock = "connecting"
    /\ \/ Network([io EXCEPT !.sock = "up", !.wrEdge = TRUE])
       \/ Network([io EXCEPT !.sock = "refused", !.rdEdge = TRUE, !.wrEdge = TRUE])
    /\ UNCHANGED <<answer, due, stalls>>

NetWindow ==
    /\ io.sock = "up"
    /\ \/ io.room /\ stalls < MaxStalls /\ stalls' = stalls + 1
          /\ Network([io EXCEPT !.room = FALSE])
       \/ ~io.room /\ Network([io EXCEPT !.room = TRUE, !.wrEdge = TRUE])
          /\ UNCHANGED stalls
    /\ UNCHANGED <<answer, due>>

\* ngx_handle_read_event fails from now on.
NetArmFails ==
    /\ io.pc = "live" /\ io.arm /\ stalls < MaxStalls /\ stalls' = stalls + 1
    /\ Network([io EXCEPT !.arm = FALSE])
    /\ UNCHANGED <<answer, due>>

PeerHello ==
    /\ Open /\ io.tls = "pending" /\ io.hello /\ io.inbox = << >>
    /\ Network(Receives(<<"hello">>)) /\ UNCHANGED <<answer, due, stalls>>

PeerAnswers ==
    /\ Open /\ stage \in {"exchange", "rpc"} /\ request.state = "written"
    /\ answer = None
    /\ \E a \in Answers[cfg.proto], split \in BOOLEAN :
         /\ split => cfg.proto = "http"
         /\ answer' = Some(a) /\ due' = split
         /\ Network(Receives(IF split THEN <<"head">> ELSE <<"answer">>))
    /\ UNCHANGED stalls

PeerAnswersRest ==
    /\ Open /\ due /\ due' = FALSE
    /\ Network(Receives(<<"body">>)) /\ UNCHANGED <<answer, stalls>>

PeerEnds ==
    /\ Open
    /\ \E end \in {<<"fin">>, <<"reset">>}
                  \cup (IF io.tls = "done" THEN {<<"notify", "fin">>} ELSE {}) :
         Network([Receives(end) EXCEPT !.wrEdge = @ \/ end = <<"reset">>])
    /\ due' = FALSE /\ UNCHANGED <<answer, stalls>>

ApiCall == \/ send \/ send_logs \/ send_traces
           \/ grpc_send \/ grpc_send_logs \/ grpc_send_traces
Task == \/ PollConnect \/ drive_to_response \/ collect_body
        \/ h2_handshake \/ poll_driver \/ poll_rpc \/ lingering_ends
EventLoop == ReadEvent \/ WriteEvent \/ TimerEvent
Environment == \/ ResolverAnswers \/ NetConnects \/ NetWindow \/ NetArmFails
               \/ PeerHello \/ PeerAnswers \/ PeerAnswersRest \/ PeerEnds

Next == ApiCall \/ Task \/ EventLoop \/ Environment \/ deadline
Spec == Init /\ [][Next]_vars

(***************************************************************************)
(* Properties.                                                              *)
(***************************************************************************)
\* Every variable keeps its type.
TypeOK ==
    /\ stage \in {"idle", "resolve", "connect", "exchange", "body", "preface", "rpc"}
    /\ runnable \subseteq {"caller", "driver"}
    /\ io.pc \in {"null", "live"} /\ {io.rev, io.wev} \subseteq {NoTask, "caller", "driver"}
    /\ request.state \in {"none", "queued", "written"}
    /\ client \in {"none", "live", "dead"}
    /\ addrs \in 0..MaxAddrs /\ lingering \in 0..MaxSends
    /\ io.opens - io.closes \in 0..(MaxSends + 1)

\* Every connection nginx hands out is closed exactly once, whichever way the
\* send ends (a verdict, an error, a timeout, the deadline dropping it in any
\* of its awaits), and between two HTTP sends none is open.
ClosedOnce ==
    /\ io.opens - io.closes = lingering + (IF io.pc = "live" THEN 1 ELSE 0)
    /\ stage = "idle" /\ client # "live" => io.pc = "null"

Quiet == runnable = {} /\ ~io.rdEdge /\ ~io.wrEdge

\* A send that waits with no task to run and no event to come waits for the
\* peer: nothing it could act on is there, whichever task stored its waker
\* last in the single slot of each event, and while it waits to read, the read
\* timer is running.  (A body that comes after its head is left out.)
NoMissedWakeup ==
    (Quiet /\ io.pc = "live" /\ stage \in {"connect", "exchange", "preface", "rpc"}) =>
      CASE stage = "connect" -> io.sock = "connecting" /\ io.timer
        [] stage # "connect" /\ io.tls = "pending" ->
             IF io.hello THEN io.inbox = << >> /\ io.timer ELSE ~io.room
        [] stage = "preface" /\ io.tls # "pending" -> ~io.room
        [] stage \in {"exchange", "rpc"} /\ io.tls # "pending" ->
             /\ io.inbox = << >> /\ io.timer
             /\ request.state = "queued" => ~io.room

\* No byte of a request is written over TLS to a peer whose certificate does
\* not name the configured host, by DNS name or by address as the endpoint is
\* written, unless ssl_verify is off.
VerifiedPeer ==
    (request.state = "written" /\ cfg.endpoint.kind = "https" /\ ~cfg.insecure) =>
        cert = IF is_ip_literal(cfg.endpoint.host) THEN "ip" ELSE "host"
=============================================================================
