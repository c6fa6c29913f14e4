------------------------------- MODULE NgxConnIo -------------------------------
(***************************************************************************)
(* One connection to the collector: NgxConnIo of transport/hyper_http.rs    *)
(* over an nginx connection and its socket, and TlsNgxConnIo of             *)
(* transport/tls.rs on top of it.  A connection is a record                 *)
(*   pc                pc.connection: "null" or "live"                      *)
(*   rev, wev          the stored wakers: a task, or NoTask                 *)
(*   timer, timedout   the read event's timer                               *)
(*   opens, closes     connections nginx allocated, and closed, for it      *)
(*   sock              "none", "connecting", "refused", "up"                *)
(*   inbox, room       what the socket holds to read; room to write         *)
(*   rdEdge, wrEdge    readiness the event loop has not reported yet        *)
(*   arm               ngx_handle_read_event succeeds                       *)
(*   tls               "off", "pending", "done" (HandshakeState)            *)
(*   hello             the ClientHello has been written                     *)
(*   not_after         COLLECTOR_CERT_NOT_AFTER, whose certificate it is of   *)
(* and every poll_* is an operator from a record and the polling task to    *)
(* the record after it and its result.  Bytes are pieces: "hello" is the    *)
(* server's handshake flight, "notify" a close_notify alert, "fin" and      *)
(* "reset" the end of the stream, anything else application data.           *)
(***************************************************************************)
EXTENDS Integers, Sequences, SequencesExt

NoTask == "none"

ConnIo_new(tls) ==
    [pc |-> "null", rev |-> NoTask, wev |-> NoTask, timer |-> FALSE,
     timedout |-> FALSE, opens |-> 0, closes |-> 0, sock |-> "none",
     inbox |-> << >>, room |-> TRUE, rdEdge |-> FALSE, wrEdge |-> FALSE,
     arm |-> TRUE, tls |-> tls, hello |-> FALSE, not_after |-> ""]

\* SO_ERROR of a socket whose connect has failed.
socket_connect_error(io) == io.sock = "refused"

Ret(io, res) == [io |-> io, res |-> res]

\* ngx_close_connection drops the socket and deletes the events' timers.
Closed(io) ==
    [io EXCEPT !.closes = @ + 1, !.sock = "none", !.inbox = << >>,
               !.timer = FALSE, !.rdEdge = FALSE, !.wrEdge = FALSE]

\* A mutant: the connection is closed and its pointer kept.
close_and_keep(io) == Closed(io)

close_and_clear(io) == [Closed(io) EXCEPT !.pc = "null"]

close(io) == IF io.pc = "live" THEN close_and_clear(io) ELSE io

\* The result rc of ngx_event_connect_peer, and the connection it leaves.
connect_peer(io, rc) ==
    IF rc = "error" THEN io
    ELSE [io EXCEPT !.pc = "live", !.opens = @ + 1, !.timedout = FALSE,
                    !.sock = IF rc = "ok" THEN "up" ELSE "connecting"]

poll_connect(io, task, rc) ==
    CASE io.pc = "live" /\ io.timedout ->
           Ret(close_and_clear(io), "TimedOut")
      [] io.pc = "live" /\ ~io.timedout /\ socket_connect_error(io) ->
           Ret(close_and_clear(io), "Refused")
      [] io.pc = "live" /\ ~io.timedout /\ ~socket_connect_error(io) ->
           Ret(io, "ok")
      [] io.pc = "null" /\ rc = "again" ->
           Ret([connect_peer(io, rc) EXCEPT !.timer = TRUE, !.rev = task,
                                            !.wev = task], "pending")
      [] io.pc = "null" /\ rc # "again" ->
           Ret(connect_peer(io, rc), IF rc = "ok" THEN "ok" ELSE "Refused")

\* c->recv: a piece is taken from the socket, the end of the stream stays.
recv(io) ==
    CASE io.sock = "refused" -> Ret(io, "error")
      [] io.sock # "refused" /\ io.inbox = << >> -> Ret(io, "again")
      [] io.sock # "refused" /\ io.inbox # << >> ->
           IF Head(io.inbox) = "reset" THEN Ret(io, "error")
           ELSE IF Head(io.inbox) = "fin" THEN Ret(io, "fin")
           ELSE Ret([io EXCEPT !.inbox = Tail(@)], Head(io.inbox))

\* A mutant: the waker is not stored on NGX_AGAIN.
poll_read_without_waker(io, task) ==
    IF io.pc = "null" \/ io.timedout THEN Ret(io, "error")
    ELSE LET n == recv(io)
         IN  IF n.res = "again" THEN Ret([n.io EXCEPT !.timer = TRUE], "pending")
             ELSE n

\* What poll_read makes of the n that recv returned.
received(io, task, n) ==
    CASE n.res = "error" -> n
      [] n.res # "error" /\ ~io.arm ->
           IF n.res \in {"again", "fin"} THEN Ret(io, "error") ELSE n
      [] n.res = "again" /\ io.arm ->
           Ret([n.io EXCEPT !.timer = TRUE, !.rev = task], "pending")
      [] n.res \notin {"again", "error"} /\ io.arm ->
           Ret([n.io EXCEPT !.timer = TRUE], n.res)

poll_read(io, task) ==
    IF io.pc = "null" \/ io.timedout THEN Ret(io, "error")
    ELSE received(io, task, recv(io))

\* c->send.  A connection that has been refused or reset cannot be written to.
poll_write(io, task) ==
    IF io.pc = "null" \/ io.sock = "refused" \/ "reset" \in Range(io.inbox)
    THEN Ret(io, "error")
    ELSE IF io.sock = "up" /\ io.room THEN Ret(io, "ok")
    ELSE Ret([io EXCEPT !.wev = task], "pending")

(***************************************************************************)
(* The event handlers nginx calls: the stored waker is taken and its task   *)
(* becomes runnable.  A timer that expires marks the read event and calls   *)
(* the same handler.                                                        *)
(***************************************************************************)
conn_read_handler(io) ==
    [io |-> [io EXCEPT !.rev = NoTask, !.rdEdge = FALSE], wake |-> io.rev]

conn_write_handler(io) ==
    [io |-> [io EXCEPT !.wev = NoTask, !.wrEdge = FALSE], wake |-> io.wev]

\* ngx_event_expire_timers.
expire_timer(io) ==
    conn_read_handler([io EXCEPT !.timer = FALSE, !.timedout = TRUE])

(***************************************************************************)
(* TLS.  The BIO callbacks run inside an SSL_* call, with the polling       *)
(* task's context, and only forward to the connection below.                *)
(***************************************************************************)
bio_result(r) ==
    Ret(r.io, CASE r.res = "pending" -> "retry"
                [] r.res = "error" -> "fail"
                [] OTHER -> r.res)

bio_read(io, task) == bio_result(poll_read(io, task))

bio_write(io, task) == bio_result(poll_write(io, task))

\* A session: the name its certificate check asks for ("any": none beyond the
\* trust chain, or nothing at all under ssl_verify off), whether the
\* ClientHello carries SNI, and whether it offers h2.
TlsNgxConnIo_new(verify_hostname, is_ip) ==
    [verify |-> IF verify_hostname THEN "host" ELSE "any",
     sni |-> ~is_ip, alpn |-> FALSE]

install_ip_verify(session) == [session EXCEPT !.verify = "ip"]

set_alpn(session) == [session EXCEPT !.alpn = TRUE]

\* A mutant: the check of an address is left out.
wrap_tls_io_by_name(insecure, is_ip, alpn) ==
    LET s == TlsNgxConnIo_new(~insecure /\ ~is_ip, is_ip)
    IN  IF alpn THEN set_alpn(s) ELSE s

wrap_tls_io(insecure, is_ip, alpn) ==
    LET s == TlsNgxConnIo_new(~insecure /\ ~is_ip, is_ip)
        v == IF is_ip /\ ~insecure THEN install_ip_verify(s) ELSE s
    IN  IF alpn THEN set_alpn(v) ELSE v

\* SSL_connect: the ClientHello out, the server's flight in, its certificate
\* checked against what the session verifies.
server_flight(r, session, cert) ==
    IF r.res = "hello" /\ session.verify \in {"any", cert} THEN Ret(r.io, "ok")
    ELSE IF r.res = "retry" THEN r ELSE Ret(r.io, "fail")

hello_sent(w, task, session, cert) ==
    IF w.res # "ok" THEN w
    ELSE server_flight(bio_read([w.io EXCEPT !.hello = TRUE], task), session, cert)

SSL_connect(io, task, session, cert) ==
    hello_sent(IF io.hello THEN Ret(io, "ok") ELSE bio_write(io, task),
               task, session, cert)

\* WANT_READ and WANT_WRITE are Pending, everything else is an error.
map_ssl_err(r) == Ret(r.io, IF r.res = "retry" THEN "pending" ELSE "error")

handshaken(r, cert) ==
    IF r.res = "ok" THEN Ret([r.io EXCEPT !.tls = "done", !.not_after = cert], "ok")
    ELSE map_ssl_err(r)

poll_handshake(io, task, session, cert) ==
    IF io.tls # "pending" THEN Ret(io, "ok")
    ELSE handshaken(SSL_connect(io, task, session, cert), cert)

\* SSL_read: a close_notify is a clean end, a bare end of stream an error.
tls_read_result(r) ==
    IF r.res = "notify" THEN Ret(r.io, "fin")
    ELSE IF r.res \in {"retry", "fail", "fin"} THEN map_ssl_err(r) ELSE r

tls_write_result(w) == IF w.res = "ok" THEN w ELSE map_ssl_err(w)

read_after(h, task) == IF h.res # "ok" THEN h ELSE tls_read_result(bio_read(h.io, task))

write_after(h, task) == IF h.res # "ok" THEN h ELSE tls_write_result(bio_write(h.io, task))

tls_poll_read(io, task, session, cert) ==
    read_after(poll_handshake(io, task, session, cert), task)

tls_poll_write(io, task, session, cert) ==
    write_after(poll_handshake(io, task, session, cert), task)

\* The boxed stream that connect_io returns: TLS or plain.
stream_read(io, task, session, cert) ==
    IF io.tls = "off" THEN poll_read(io, task)
    ELSE tls_poll_read(io, task, session, cert)

stream_write(io, task, session, cert) ==
    IF io.tls = "off" THEN poll_write(io, task)
    ELSE tls_poll_write(io, task, session, cert)

(***************************************************************************)
(* TlsConfig::build_ctx.  A path is "" when its directive is absent; loads  *)
(* is the set of files OpenSSL can load, and pair says that the key fits    *)
(* the certificate.                                                         *)
(***************************************************************************)
build_ctx(tls, loads) ==
    /\ tls.insecure \/ tls.ca = "" \/ tls.ca \in loads
    /\ (tls.cert # "" /\ tls.key # "") =>
           {tls.cert, tls.key} \subseteq loads /\ tls.pair

=============================================================================
