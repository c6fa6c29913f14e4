----------------------------- MODULE SignalRecords -----------------------------
(***************************************************************************)
(* The records a worker puts in its access and span rings, as the bytes     *)
(* they occupy: a record is a sequence of runs, each the bytes of one value *)
(* with their number.  A text is [text, len]; a text cut at its cap keeps   *)
(* its name and loses length.  The writers follow emit_access_record and    *)
(* emit_span_record, the readers the exporter's parsers, which take lengths *)
(* from the record and know nothing of the writer's fields.                 *)
(***************************************************************************)
EXTENDS Integers, SequencesExt, TLC

MAX_METHOD == 16
MAX_URL_PATH == 64
MAX_USER_AGENT == 128
MAX_CLIENT_ADDR == 46
MAX_SPAN_NAME == 64
MAX_URL_QUERY == 128
MAX_SPAN_ROUTE == 64
MAX_SERVER_ADDR == 64
MAX_SPAN_EXTRA_ATTRS == 4
MAX_SPAN_ATTR_KEY == 32
MAX_SPAN_ATTR_VAL == 64
SPAN_RECORD_FIXED_HDR == 16 + 8 + 8 + 4 + 8 + 8 + 1 + 1
KIND_ACCESS == 0
NGX_LEVEL_INFO == 7

Empty == [text |-> "", len |-> 0]
IsEmpty(t) == t.len = 0
Cut(t, max) == [t EXCEPT !.len = IF t.len > max THEN max ELSE t.len]
Cap(s, n) == SubSeq(s, 1, IF Len(s) > n THEN n ELSE Len(s))

-----------------------------------------------------------------------------
(* The writers. *)

Run(n, v) == <<[n |-> n, v |-> v]>>
Bytes(t) == IF IsEmpty(t) THEN << >> ELSE Run(t.len, t)
Capped(t, max) == Run(2, Cut(t, max).len) \o Bytes(Cut(t, max))

(* trace is << >> or <<trace_id, span_id>>. *)
emit_access_record(req) ==
    Run(1, KIND_ACCESS) \o Run(8, req.ts) \o Run(1, NGX_LEVEL_INFO)
    \o Capped(req.method, MAX_METHOD) \o Run(2, req.status)
    \o Run(8, req.request_length) \o Run(8, req.response_bytes)
    \o Capped(req.client_addr, MAX_CLIENT_ADDR)
    \o (IF req.trace = << >> THEN Run(1, 0)
        ELSE Run(1, 1) \o Run(16, req.trace[1]) \o Run(8, req.trace[2]))
    \o Capped(req.url_path, MAX_URL_PATH) \o Capped(req.user_agent, MAX_USER_AGENT)
    \o Run(8, req.duration_us)

EmitAttr(a) ==
    LET k == Cut(a.key, MAX_SPAN_ATTR_KEY)
        v == Cut(a.value, MAX_SPAN_ATTR_VAL)
    IN  Run(1, k.len) \o Bytes(k) \o Run(2, v.len) \o Bytes(v)

emit_span_record(rec) ==
    Run(16, rec.trace_id) \o Run(8, rec.span_id) \o Run(8, rec.parent_span_id)
    \o Run(4, rec.flags) \o Run(8, rec.start) \o Run(8, rec.end)
    \o Run(1, rec.status_code) \o Run(1, rec.kind)
    \o Capped(rec.name, MAX_SPAN_NAME) \o Capped(rec.method, MAX_METHOD)
    \o Run(2, rec.http_status) \o Capped(rec.url_path, MAX_URL_PATH)
    \o Run(8, rec.duration_us) \o Run(1, rec.proto)
    \o Run(1, IF rec.scheme_https THEN 1 ELSE 0)
    \o Run(2, rec.server_port) \o Run(2, rec.client_port) \o Run(2, rec.peer_port)
    \o Run(8, rec.req_body_size) \o Run(8, rec.resp_body_size)
    \o Capped(rec.url_query, MAX_URL_QUERY) \o Capped(rec.route, MAX_SPAN_ROUTE)
    \o Capped(rec.user_agent, MAX_USER_AGENT)
    \o Capped(rec.server_address, MAX_SERVER_ADDR)
    \o Capped(rec.client_address, MAX_CLIENT_ADDR)
    \o Capped(rec.peer_address, MAX_CLIENT_ADDR)
    \o Run(2, Len(Cap(rec.extra_attrs, MAX_SPAN_EXTRA_ATTRS)))
    \o FlattenSeq([i \in 1..Len(Cap(rec.extra_attrs, MAX_SPAN_EXTRA_ATTRS)) |->
                      EmitAttr(rec.extra_attrs[i])])

-----------------------------------------------------------------------------
(* Reading.  A cursor is what is left of the record and the fields read so   *)
(* far.  ok is false for good once the record is too short; a read that does *)
(* not fall on the bytes of one value, which in the code yields a mixture of *)
(* two, counts as a rejected record too.                                     *)

Left(buf) == LET upto[i \in 0..Len(buf)] == IF i = 0 THEN 0 ELSE upto[i - 1] + buf[i].n
             IN  upto[Len(buf)]
Cursor(buf) == [ok |-> TRUE, buf |-> buf, got |-> [f \in {} |-> 0]]
Take(c, f, n) ==
    IF c.ok /\ c.buf # << >> /\ Head(c.buf).n = n
    THEN [c EXCEPT !.buf = Tail(@), !.got = (f :> Head(c.buf).v) @@ @]
    ELSE [c EXCEPT !.ok = FALSE]

(* A length of n bytes and that many bytes of text. *)
TakeText(c, f, n) ==
    LET l == Take(c, f, n)
    IN  IF ~l.ok THEN l
        ELSE IF l.got[f] = 0 THEN [l EXCEPT !.got[f] = Empty]
        ELSE Take(l, f, l.got[f])

(* A field that may be missing at the end of a record. *)
OrElse(c, read, f, default) ==
    IF read.ok THEN read ELSE [c EXCEPT !.got = (f :> default) @@ @]
read_u16_prefixed(c, f) == OrElse(c, TakeText(c, f, 2), f, Empty)

(* A layout is a sequence of fields with their widths; width 0 is a text     *)
(* behind a length of two bytes.                                             *)
RECURSIVE ReadAll(_, _)
ReadAll(c, layout) ==
    IF layout = << >> \/ ~c.ok THEN c
    ELSE LET f == Head(layout)[1]
             n == Head(layout)[2]
         IN  ReadAll(IF n = 0 THEN TakeText(c, f, 2) ELSE Take(c, f, n), Tail(layout))

(* Attributes are a function from the keys present to their values. *)
Attributes(candidates) ==
    LET kept == SelectSeq(candidates, LAMBDA a : a[3])
    IN  [k \in {kept[i][1] : i \in DOMAIN kept} |->
            kept[CHOOSE i \in DOMAIN kept : kept[i][1] = k][2]]

(* Microseconds as seconds: a fraction. *)
DurationAttribute(us) == <<us, 1000000>>

(* The name of a protocol version's index. *)
ProtoVersion_as_str(i) == IF i \in 0..2 THEN <<"1.0", "1.1", "2">>[i + 1] ELSE "3"

nginx_to_otel(level) ==
    LET known == <<<<"Fatal4", "emerg">>, <<"Fatal2", "alert">>, <<"Fatal", "crit">>,
                   <<"Error", "error">>, <<"Warn", "warn">>, <<"Info2", "notice">>,
                   <<"Info", "info">>, <<"Debug", "debug">>>>
    IN  IF level \in 1..8 THEN known[level] ELSE <<"Unspecified", "">>

(* << >> or the one LogRecord.  What comes after the length of the client's  *)
(* address may be missing.                                                   *)
AccessHead == <<<<"kind", 1>>, <<"ts", 8>>, <<"level", 1>>, <<"method", 0>>, <<"status", 2>>,
                <<"req_len", 8>>, <<"resp_bytes", 8>>>>
AccessTrace == <<<<"trace_id", 16>>, <<"span_id", 8>>>>
parse_access_record(buf) ==
    LET h == ReadAll(Cursor(buf), AccessHead)
        a == read_u16_prefixed(h, "client_addr")
        t == OrElse(a, Take(a, "has_trace", 1), "has_trace", 0)
        traced == t.got.has_trace = 1 /\ Left(t.buf) >= 24
        p == read_u16_prefixed(IF traced THEN ReadAll(t, AccessTrace) ELSE t, "url_path")
        u == read_u16_prefixed(p, "user_agent")
        c == OrElse(u, Take(u, "duration_us", 8), "duration_us", -1)
        g == c.got
    IN  IF Left(buf) < 32 \/ ~h.ok \/ Left(h.buf) < 2 THEN << >>
        ELSE IF g.kind # KIND_ACCESS THEN << >>
        ELSE <<[time |-> g.ts, severity |-> nginx_to_otel(g.level),
                trace |-> IF traced THEN <<g.trace_id, g.span_id>> ELSE << >>,
                attributes |-> Attributes(
                    <<<<"http.request.method", g.method, TRUE>>,
                      <<"http.response.status_code", g.status, TRUE>>,
                      <<"http.server.request.body.size", g.req_len, TRUE>>,
                      <<"http.server.response.body.size", g.resp_bytes, TRUE>>,
                      <<"client.address", g.client_addr, TRUE>>,
                      <<"url.path", g.url_path, ~IsEmpty(g.url_path)>>,
                      <<"user_agent.original", g.user_agent, ~IsEmpty(g.user_agent)>>,
                      <<"http.server.request.duration", DurationAttribute(g.duration_us),
                        g.duration_us # -1>>>>)]>>

SpanLayout ==
    <<<<"trace_id", 16>>, <<"span_id", 8>>, <<"parent_span_id", 8>>, <<"flags", 4>>,
      <<"start", 8>>, <<"end", 8>>, <<"status", 1>>, <<"kind", 1>>, <<"name", 0>>,
      <<"method", 0>>, <<"http_status", 2>>, <<"url_path", 0>>, <<"duration_us", 8>>,
      <<"proto", 1>>, <<"scheme_https", 1>>, <<"server_port", 2>>, <<"client_port", 2>>,
      <<"peer_port", 2>>, <<"req_body_size", 8>>, <<"resp_body_size", 8>>, <<"url_query", 0>>,
      <<"route", 0>>, <<"user_agent", 0>>, <<"server_address", 0>>, <<"client_address", 0>>,
      <<"peer_address", 0>>>>

(* The attributes of otel_span_attr, up to MAX_SPAN_EXTRA_ATTRS of them. *)
ParseExtra(c) ==
    LET counted == OrElse(c, Take(c, "n_extra", 2), "n_extra", 0)
        one(acc, i) == LET d == TakeText(TakeText(acc.c, "key", 1), "val", 2)
                       IN  IF d.ok THEN [c |-> d, attrs |-> Append(acc.attrs,
                                             [key |-> d.got.key, value |-> d.got.val])]
                           ELSE acc
        n == counted.got.n_extra
    IN  FoldLeft(one, [c |-> counted, attrs |-> << >>],
                 Cap([i \in 1..n |-> i], MAX_SPAN_EXTRA_ATTRS)).attrs

SpanAttributes(g) ==
    Attributes(
        <<<<"http.request.method", g.method, ~IsEmpty(g.method)>>,
          <<"http.response.status_code", g.http_status, g.http_status > 0>>,
          <<"url.path", g.url_path, ~IsEmpty(g.url_path)>>,
          <<"http.server.request.duration", DurationAttribute(g.duration_us), g.duration_us > 0>>,
          <<"url.query", g.url_query, ~IsEmpty(g.url_query)>>,
          <<"http.route", g.route, ~IsEmpty(g.route)>>,
          <<"url.scheme", IF g.scheme_https # 0 THEN "https" ELSE "http", TRUE>>,
          <<"network.protocol.version", ProtoVersion_as_str(g.proto), TRUE>>,
          <<"user_agent.original", g.user_agent, ~IsEmpty(g.user_agent)>>,
          <<"http.request.body.size", g.req_body_size, TRUE>>,
          <<"http.response.body.size", g.resp_body_size, TRUE>>,
          <<"server.address", g.server_address, ~IsEmpty(g.server_address)>>,
          <<"server.port", g.server_port, g.server_port > 0>>,
          <<"client.address", g.client_address, ~IsEmpty(g.client_address)>>,
          <<"client.port", g.client_port, g.client_port > 0>>,
          <<"network.peer.address", g.peer_address, ~IsEmpty(g.peer_address)>>,
          <<"network.peer.port", g.peer_port, g.peer_port > 0>>,
          <<"error.type", g.http_status, g.http_status >= 500>>>>)

(* << >> or the one Span.  A parent of zeros is no parent. *)
parse_span_record(buf) ==
    LET c == ReadAll(Cursor(buf), SpanLayout)
        g == c.got
    IN  IF Left(buf) < SPAN_RECORD_FIXED_HDR + 2 \/ ~c.ok THEN << >>
        ELSE <<[trace_id |-> g.trace_id, span_id |-> g.span_id,
                parent |-> IF g.parent_span_id = 0 THEN << >> ELSE <<g.parent_span_id>>,
                flags |-> g.flags, name |-> g.name, start |-> g.start, end |-> g.end,
                kind |-> IF g.kind \in 1..5
                         THEN <<"Internal", "Server", "Client", "Producer", "Consumer">>[g.kind]
                         ELSE "Unspecified",
                status |-> IF g.status \in 1..2 THEN <<"Ok", "Error">>[g.status] ELSE "Unset",
                extra |-> ParseExtra(c), attributes |-> SpanAttributes(g)]>>
=============================================================================
