--------------------------------- MODULE Request ---------------------------------
(***************************************************************************)
(* A request through the module: the REWRITE handler that starts its span,  *)
(* the $otel_ variables, nginx's internal redirects and subrequests, the    *)
(* LOG handler that counts it and writes its records, and the exporter that *)
(* reads them back.  Each handler runs to completion on its worker, so it   *)
(* is one action; what interleaves is the requests of a worker and the      *)
(* exporter.                                                                *)
(*                                                                          *)
(* A SpanCtx lives in the pool of the main request, which its subrequests   *)
(* share; a slot of the module's context array holds its place there, 0 for *)
(* NULL.  Clocks count microseconds, records nanoseconds.                   *)
(***************************************************************************)
EXTENDS RequestMetrics, SignalRecords, TraceContext, FiniteSets

CONSTANTS Workers,
          Requests,     \* numbers of the requests, main or sub, that may come
          Configs,      \* what the main configuration may be
          Locations,    \* what each location configures
          Clients,      \* by name: what a client may send, to which
                        \* worker, where a subrequest, or error_page, try_files
                        \* or a named location may lead, how it may end, and
                        \* whether its pool may run out of memory
          Arrivals,     \* per request number: the names it may arrive under
          RingCap,      \* records an access or a span ring holds
          Tick,         \* microseconds by which the clocks advance
          MaxTicks,     \* bound: advances
          Steps,        \* by how much the wall clock may be stepped
          MaxRedirects, \* bound: internal redirects and failed filters of a request
          MaxBatches    \* bound: metric batches

VARIABLES amcf,       \* the main configuration
          rng,        \* per worker: its random number generator
          slots,      \* per worker: its slot of the metrics zone
          access,     \* per worker: its access ring
          spans,      \* per worker: its span ring
          req,        \* the requests
          mono,       \* the monotonic clock
          skew,       \* the wall clock's distance from it
          exported    \* what the collector was sent

vars == <<amcf, rng, slots, access, spans, req, mono, skew, exported>>

WallBase == 5000
Wall == WallBase + mono + skew

NoRequest == [stage |-> "none"]
Init ==
    /\ amcf \in Configs
    /\ \E os \in BOOLEAN :      \* init_process seeds each worker, unless the system forbids
          rng = [w \in Workers |-> eager_seed_drbg(UnseededRng, os)]
    /\ slots = [w \in Workers |-> EmptySlot]
    /\ access = [w \in Workers |-> << >>]
    /\ spans = [w \in Workers |-> << >>]
    /\ req = [i \in Requests |-> NoRequest]
    /\ mono = 0 /\ skew = 0
    /\ exported = [spans |-> << >>, logs |-> << >>, batches |-> << >>]

Loc(r) == Locations[r.loc]
From(r) == Clients[r.in]
WorkerOrder == SetToSortSeq(Workers, <)

-----------------------------------------------------------------------------
(* The request's context (ctx.rs). *)

BlankCtx == [anchored |-> FALSE, trace_id |-> ZeroId, span_id |-> ZeroId,
             parent_span_id |-> ZeroId, flags |-> 0, start |-> 0, start_mono |-> 0,
             sampled |-> FALSE]

(* A plausible bug: the pre-gate context found again after a redirect. *)
alloc_span_ctx_plain_anchored == [BlankCtx EXCEPT !.anchored = TRUE]
alloc_span_ctx_plain == BlankCtx
alloc_span_ctx == [BlankCtx EXCEPT !.anchored = TRUE]
set_module_ctx(r, ctx) ==
    [r EXCEPT !.pool = Append(@, ctx), !.slot = Len(r.pool) + 1]
clear_module_ctx(r) == [r EXCEPT !.slot = 0]

(* The newest anchor comes first in the pool's list of cleanups. *)
recover_span_ctx(r, pool) ==
    LET anchors == {k \in DOMAIN pool : pool[k].anchored}
    IN  IF r.slot # 0 THEN r.slot
        ELSE IF ~(r.internal \/ r.filter_finalize) \/ anchors = {} THEN 0
        ELSE Max(anchors)

(* << >> or the one SpanCtx; the recovered pointer is put back in the slot. *)
read_span_ctx(r, pool) ==
    LET k == recover_span_ctx(r, pool) IN IF k = 0 THEN << >> ELSE <<pool[k]>>

(* $otel_trace_id, $otel_span_id, $otel_parent_id and $otel_parent_sampled;  *)
(* << >> is not_found.                                                       *)
otel_var_get_trace_id(r, pool) ==
    LET c == read_span_ctx(r, pool) IN IF c = << >> THEN << >> ELSE <<c[1].trace_id>>
otel_var_get_span_id(r, pool) ==
    LET c == read_span_ctx(r, pool) IN IF c = << >> THEN << >> ELSE <<c[1].span_id>>
otel_var_get_parent_id(r, pool) ==
    LET c == read_span_ctx(r, pool) IN IF c = << >> THEN << >> ELSE <<c[1].parent_span_id>>
otel_var_get_parent_sampled(r, pool) ==
    LET c == read_span_ctx(r, pool)
    IN  IF c = << >> THEN "" ELSE IF c[1].flags % 2 = 1 THEN "1" ELSE "0"

-----------------------------------------------------------------------------
(* The REWRITE handler (span_start.rs): the set of its outcomes, each a      *)
(* request and the worker's generator.                                       *)

(* otel_trace is a text or the variable $otel_parent_sampled; evaluation may *)
(* fail for want of memory.                                                  *)
otel_trace_value(r) ==
    IF Loc(r).otel_trace = "$otel_parent_sampled" THEN otel_var_get_parent_sampled(r, r.pool)
    ELSE Loc(r).otel_trace
GateDeclines(r) == otel_trace_value(r) \in {"", "0", "off", "error"}

(* Whether an allocation from the request's pool succeeds. *)
Memory(r) == IF From(r).scarce THEN BOOLEAN ELSE {TRUE}

Outcome(r, g) == [r |-> r, rng |-> g]
Decline(r, g) == {Outcome(clear_module_ctx(r), g)}

(* The ids of request n are the numbers 100 + n and n. *)
TraceIdOf(n) == 100 + n
StartSpan(n, r, g, tp, alloc) ==
    LET ctx == [alloc_span_ctx EXCEPT
                    !.trace_id = IF tp = << >> THEN TraceIdOf(n) ELSE tp[1].trace_id,
                    !.span_id = n,
                    !.parent_span_id = IF tp = << >> THEN ZeroId ELSE tp[1].span_id,
                    !.flags = IF tp = << >> THEN 1 ELSE tp[1].flags,
                    !.sampled = IF tp = << >> THEN TRUE ELSE tp[1].flags % 2 = 1,
                    !.start = Wall * 1000, !.start_mono = mono]
        out == build_traceparent_value(ctx.trace_id, ctx.span_id, ctx.flags)
        started == set_module_ctx(r, ctx)
    IN  Outcome(IF Loc(r).trace_context \in {"inject", "propagate"}
                THEN [started EXCEPT
                         !.headers = inject_traceparent_header(@, out, alloc)]
                ELSE started, g)

(* Past the gate: the ids, the context, the outbound header; each may fail   *)
(* (no id, or no memory for the context or the header).                      *)
AssignIds(n, r, g, tp) ==
    LET afterTrace == IF tp = << >> THEN gen_trace_id(g) ELSE {[ok |-> TRUE, rng |-> g]}
        withSpan(s) == IF ~s.ok THEN Decline(r, s.rng)
                       ELSE (IF FALSE \in Memory(r) THEN Decline(r, s.rng) ELSE {})
                            \cup {StartSpan(n, r, s.rng, tp, alloc) : alloc \in Memory(r)}
        withTrace(t) == IF ~t.ok THEN Decline(r, t.rng)
                        ELSE UNION {withSpan(s) : s \in gen_span_id(t.rng)}
    IN  UNION {withTrace(t) : t \in afterTrace}

SpanStartHandler(n, r, g) ==
    LET tp == IF Loc(r).trace_context \in {"extract", "propagate"} THEN Extract(r.headers)
              ELSE << >>
        pre == IF tp = << >> THEN r
               ELSE set_module_ctx(r, [alloc_span_ctx_plain EXCEPT !.flags = tp[1].flags])
        no_memory == {Outcome(r, g) : m \in IF tp = << >> THEN {} ELSE Memory(r) \ {TRUE}}
    IN  IF r.internal \/ ~amcf.configured \/ Loc(r).otel_trace = "unset" THEN {Outcome(r, g)}
        ELSE no_memory \cup
             (IF GateDeclines(pre) \/ g.disabled THEN Decline(pre, g)
              ELSE AssignIds(n, pre, g, tp))

-----------------------------------------------------------------------------
(* The life of a request: nginx's part. *)

Arrive(i, a) ==
    /\ req[i].stage = "none"
    /\ \A j \in Requests : j < i => req[j].stage # "none"
    /\ req' = [req EXCEPT ![i] =
                  [stage |-> "rewrite", main |-> i, w |-> Clients[a].w, in |-> a, loc |-> Clients[a].loc,
                   method |-> Clients[a].method, uri |-> Clients[a].path, args |-> Clients[a].args,
                   headers |-> Clients[a].headers, internal |-> FALSE, filter_finalize |-> FALSE,
                   pool |-> << >>, slot |-> 0, start_ms |-> Wall \div 1000,
                   redirects |-> 0, span_dropped |-> FALSE, duration |-> 0,
                   response |-> << >>]]
    /\ UNCHANGED <<amcf, rng, slots, access, spans, mono, skew, exported>>

(* Where nginx may take a request: a location, and a URI with its arguments. *)
To(r, to) == [r EXCEPT !.stage = "rewrite", !.loc = to.loc, !.internal = TRUE, !.slot = 0,
                       !.redirects = @ + 1]
ToUri(r, to) == [To(r, to) EXCEPT !.uri = to.uri, !.args = to.args]
GET == [text |-> "GET", len |-> 3]

(* A subrequest is a GET of its own URI; it starts at REWRITE with its own   *)
(* context array and its main request's pool and headers.                    *)
Subrequest(i, j, to) ==
    /\ req[i].stage = "content" /\ req[i].main = i
    /\ req[j].stage = "none" /\ \A k \in Requests : k < j => req[k].stage # "none"
    /\ req' = [req EXCEPT ![j] = [ToUri(req[i], to) EXCEPT !.method = GET,
                                     !.filter_finalize = FALSE,
                                     !.pool = << >>, !.redirects = 0,
                                     !.start_ms = Wall \div 1000]]
    /\ UNCHANGED <<amcf, rng, slots, access, spans, mono, skew, exported>>

(* An internal redirect zeroes the contexts and runs the phases again.  One  *)
(* to a URI (try_files, error_page) replaces the request's URI and arguments, *)
(* and error_page makes any method but HEAD a GET; a named location, of       *)
(* either, keeps all three.                                                   *)
MayRedirect(i) == req[i].stage = "content" /\ req[i].redirects < MaxRedirects

ErrorPage(i, to) ==
    /\ MayRedirect(i)
    /\ req' = [req EXCEPT ![i] = [ToUri(@, to) EXCEPT
                                     !.method = IF @.text = "HEAD" THEN @ ELSE GET]]
    /\ UNCHANGED <<amcf, rng, slots, access, spans, mono, skew, exported>>

TryFiles(i, to) ==
    /\ MayRedirect(i)
    /\ req' = [req EXCEPT ![i] = ToUri(@, to)]
    /\ UNCHANGED <<amcf, rng, slots, access, spans, mono, skew, exported>>

NamedLocation(i, to) ==
    /\ MayRedirect(i)
    /\ req' = [req EXCEPT ![i] = To(@, to)]
    /\ UNCHANGED <<amcf, rng, slots, access, spans, mono, skew, exported>>

(* A filter that fails finalizes the request with zeroed contexts. *)
FilterFinalize(i) ==
    /\ MayRedirect(i)
    /\ req' = [req EXCEPT ![i].filter_finalize = TRUE, ![i].slot = 0, ![i].redirects = @ + 1]
    /\ UNCHANGED <<amcf, rng, slots, access, spans, mono, skew, exported>>

-----------------------------------------------------------------------------
(* The module's part. *)

PoolOf(i) == req[req[i].main].pool
Started == {i \in Requests : req[i].stage # "none"}
Mains == {i \in Started : req[i].main = i}

SpanStart(i) ==
    /\ req[i].stage = "rewrite"
    /\ \E out \in SpanStartHandler(i, req[i], rng[req[i].w]) :
          /\ req' = [req EXCEPT ![i] = [out.r EXCEPT !.stage = "content"]]
          /\ rng' = [rng EXCEPT ![req[i].w] = out.rng]
    /\ UNCHANGED <<amcf, slots, access, spans, mono, skew, exported>>

(* Reading any of the variables puts a recovered context back in the slot. *)
ReadVariable(i) ==
    /\ req[i].stage = "content"
    /\ recover_span_ctx(req[i], PoolOf(i)) # req[i].slot
    /\ req' = [req EXCEPT ![i].slot = recover_span_ctx(req[i], PoolOf(i))]
    /\ UNCHANGED <<amcf, rng, slots, access, spans, mono, skew, exported>>

compute_duration_us(r, ctx) ==
    IF ctx # << >> THEN mono - ctx[1].start_mono
    ELSE IF Wall > r.start_ms * 1000 THEN Wall - r.start_ms * 1000 ELSE 0

read_request_meta(r, resp) ==
    [status |-> resp.status, proto |-> ProtoVersion_from_ngx(From(r).proto),
     base_idx |-> combo_index(HttpMethod_from_bytes(r.method.text),
                              StatusClass_from_status(resp.status),
                              ProtoVersion_from_ngx(From(r).proto)),
     route_idx |-> Loc(r).route, resp_bytes |-> resp.sent]

is_truthy(v) == v \notin {"", "0"}
check_export_selected(r, resp) ==
    /\ amcf.any_log_export
    /\ \/ Loc(r).log_export = "all"
       \/ Loc(r).log_export = "if" /\ resp.cond # "error" /\ is_truthy(resp.cond)

AccessRecord(r, resp, meta, ctx, duration) ==
    [ts |-> r.start_ms * 1000000, method |-> r.method, status |-> meta.status,
     request_length |-> From(r).length, response_bytes |-> meta.resp_bytes,
     client_addr |-> From(r).client,
     trace |-> IF ctx # << >> /\ ctx[1].sampled THEN <<ctx[1].trace_id, ctx[1].span_id>>
               ELSE << >>,
     url_path |-> r.uri, user_agent |-> From(r).agent, duration_us |-> duration]

route_name(k) == [text |-> CHOOSE l \in DOMAIN Locations : Locations[l].route = k, len |-> 9]
build_span_name(method, route) ==
    LET m == Cut(method, MAX_SPAN_NAME)
        len == m.len + 1 + route.len
    IN  IF m.len = MAX_SPAN_NAME \/ IsEmpty(route) THEN m
        ELSE Cut([text |-> <<m, route>>, len |-> len], MAX_SPAN_NAME)
SpanName(r, meta) ==
    IF Loc(r).span_name # Empty THEN Cut(Loc(r).span_name, MAX_SPAN_NAME)
    ELSE build_span_name(r.method, route_name(meta.route_idx))

(* A port is the sockaddr's; a unix socket has none.  realip keeps the true  *)
(* peer of a connection it rewrote.                                          *)
sockaddr_port(sa) == IF sa.family \in {"inet", "inet6"} THEN sa.port ELSE 0
realip_peer(r) ==
    IF From(r).realip # << >> THEN <<From(r).realip[1].addr, From(r).realip[1].port>>
    ELSE <<From(r).client, sockaddr_port(From(r).sockaddr)>>
server_address(r) == IF IsEmpty(From(r).server_name) THEN From(r).host ELSE From(r).server_name

(* A plausible bug: the end read from the wall clock. *)
SpanEnd_wall(ctx, duration) == Wall * 1000
SpanEnd(ctx, duration) == ctx.start + duration * 1000

SpanRecord(r, resp, meta, ctx, duration) ==
    [trace_id |-> ctx.trace_id, span_id |-> ctx.span_id,
     parent_span_id |-> ctx.parent_span_id, flags |-> ctx.flags,
     start |-> ctx.start, end |-> SpanEnd(ctx, duration),
     status_code |-> IF meta.status >= 500 THEN 2 ELSE 0, kind |-> 2,
     name |-> SpanName(r, meta), method |-> r.method, http_status |-> meta.status,
     url_path |-> r.uri, duration_us |-> duration, proto |-> meta.proto,
     scheme_https |-> From(r).tls, server_port |-> sockaddr_port(From(r).local),
     client_port |-> sockaddr_port(From(r).sockaddr), peer_port |-> realip_peer(r)[2],
     req_body_size |-> IF From(r).content_length > 0 THEN From(r).content_length ELSE 0,
     resp_body_size |-> IF resp.sent > resp.header_size THEN resp.sent - resp.header_size ELSE 0,
     url_query |-> r.args, route |-> route_name(meta.route_idx),
     user_agent |-> From(r).agent, server_address |-> server_address(r),
     client_address |-> From(r).client, peer_address |-> realip_peer(r)[1],
     extra_attrs |-> Loc(r).span_attrs]

(* A push to a full ring is refused and counted. *)
Push(ring, record) == IF Len(ring) < RingCap THEN Append(ring, record) ELSE ring

(* A reservoir has room for two, which the two requests of an instance never *)
(* exceed; ExemplarReservoir has its overflow.                                *)
exemplar(slot, meta, ctx, duration) ==
    [slot EXCEPT !.exemplars =
        (meta.base_idx :> Append(IF meta.base_idx \in DOMAIN @ THEN @[meta.base_idx] ELSE << >>,
                                 [trace_id |-> ctx.trace_id, span_id |-> ctx.span_id,
                                  value |-> duration])) @@ @]

(* The LOG handler.  nginx runs it once for a main request, and for a         *)
(* subrequest only with log_subrequest on, which this model leaves off.       *)
LogPhase(i, resp) ==
    LET r == req[i]
        w == r.w
        ctx == read_span_ctx(r, PoolOf(i))
        sampled == ctx # << >> /\ ctx[1].sampled
        duration == compute_duration_us(r, ctx)
        meta == read_request_meta(r, resp)
        counted == IF ~amcf.metrics THEN slots[w]
                   ELSE record_request_metrics(slots[w], meta, resp.upstream, From(r).length, duration)
    IN  /\ r.stage = "content"
        /\ \A j \in Requests : req[j].stage \in {"rewrite", "content"} /\ req[j].main = i => j = i
        /\ slots' = [slots EXCEPT ![w] = IF sampled /\ amcf.metrics
                                         THEN exemplar(counted, meta, ctx[1], duration)
                                         ELSE counted]
        /\ access' = IF check_export_selected(r, resp) /\ amcf.logs
                     THEN [access EXCEPT ![w] = Push(@, emit_access_record(
                                             AccessRecord(r, resp, meta, ctx, duration)))]
                     ELSE access
        /\ spans' = IF sampled /\ amcf.spans
                    THEN [spans EXCEPT ![w] = Push(@, emit_span_record(
                                            SpanRecord(r, resp, meta, ctx[1], duration)))]
                    ELSE spans
        /\ req' = [req EXCEPT ![i].stage = "done", ![i].response = <<resp>>,
                              ![i].slot = recover_span_ctx(r, PoolOf(i)),
                              ![i].duration = duration,
                              ![i].span_dropped = sampled /\ amcf.spans /\ spans' = spans]
        /\ UNCHANGED <<amcf, rng, mono, skew, exported>>

(* A subrequest ends without the LOG phase. *)
EndSubrequest(j) ==
    /\ req[j].stage = "content" /\ req[j].main # j
    /\ req' = [req EXCEPT ![j].stage = "done"]
    /\ UNCHANGED <<amcf, rng, slots, access, spans, mono, skew, exported>>

-----------------------------------------------------------------------------
(* The exporter (drain/mod.rs). *)

(* Both collections empty the rings, worker by worker, and skip a record     *)
(* they cannot read.  The caps on records per drain are not reached here.    *)
collect_span_records ==
    FlattenSeq([k \in 1..Len(WorkerOrder) |->
        FlattenSeq([n \in DOMAIN spans[WorkerOrder[k]] |->
                       parse_span_record(spans[WorkerOrder[k]][n])])])
collect_log_records ==
    FlattenSeq([k \in 1..Len(WorkerOrder) |->
        FlattenSeq([n \in DOMAIN access[WorkerOrder[k]] |->
                       parse_access_record(access[WorkerOrder[k]][n])])])

(* A wake of the exporter drains both; no property here relates the two.     *)
Wake ==
    /\ \E w \in Workers : spans[w] # << >> \/ access[w] # << >>
    /\ exported' = [exported EXCEPT !.spans = @ \o collect_span_records,
                                    !.logs = @ \o collect_log_records]
    /\ spans' = [w \in Workers |-> << >>]
    /\ access' = [w \in Workers |-> << >>]
    /\ UNCHANGED <<amcf, rng, slots, req, mono, skew>>

Done == {i \in Requests : req[i].stage = "done" /\ req[i].main = i}

(* A batch of metrics, with the requests that were done when it was made. *)
CollectMetrics ==
    /\ amcf.metrics /\ Len(exported.batches) < MaxBatches
    /\ exported' = [exported EXCEPT !.batches =
          Append(@, [asof |-> Done,
                     metrics |-> InstrumentedSource_collect(slots, amcf.by_class)])]
    /\ slots' = ResetExemplars(slots)
    /\ UNCHANGED <<amcf, rng, access, spans, req, mono, skew>>

-----------------------------------------------------------------------------
(* The clocks: time passes, and the wall clock may be stepped meanwhile. *)

TimePasses ==
    /\ mono < MaxTicks * Tick /\ mono' = mono + Tick
    /\ skew' \in {skew + s : s \in Steps}
    /\ UNCHANGED <<amcf, rng, slots, access, spans, req, exported>>

Next ==
    \/ \E i \in Requests : \E a \in Arrivals[i] : Arrive(i, a)
    \/ \E i \in Mains, j \in Requests : \E to \in From(req[i]).subrequests : Subrequest(i, j, to)
    \/ \E i \in Started : \E to \in From(req[i]).error_page : ErrorPage(i, to)
    \/ \E i \in Started : \E to \in From(req[i]).try_files : TryFiles(i, to)
    \/ \E i \in Started : \E to \in From(req[i]).named : NamedLocation(i, to)
    \/ \E i \in Requests : FilterFinalize(i)
    \/ \E i \in Requests : SpanStart(i)
    \/ \E i \in Requests : ReadVariable(i)
    \/ \E i \in Mains : \E resp \in From(req[i]).ends : LogPhase(i, resp)
    \/ \E j \in Requests : EndSubrequest(j)
    \/ Wake \/ CollectMetrics
    \/ TimePasses

Spec == Init /\ [][Next]_vars

-----------------------------------------------------------------------------
(* Properties. *)

(* What a main request's client asked for, without the module's state: the  *)
(* traceparent it came with, as its first location reads it, and whether a  *)
(* span was started.                                                        *)
Inbound(i) == IF Locations[From(req[i]).loc].trace_context \in {"extract", "propagate"}
              THEN Extract(From(req[i]).headers) ELSE << >>
Anchors(i) == SelectSeq(req[i].pool, LAMBDA c : c.span_id # ZeroId)
VersionName(v) == CASE v = 1000 -> "1.0" [] v = 2000 -> "2" [] v = 3000 -> "3" [] OTHER -> "1.1"

(* A span is the span of one finished request: whatever redirects, failed    *)
(* filters and subrequests came between the REWRITE and the LOG handler, and *)
(* however the wall clock was stepped, a request has at most one span, with  *)
(* a valid id, the trace and parent its client sent to its first location,   *)
(* lasting as long as its duration attribute and the metrics say.  Its path, *)
(* query and method are those nginx left the request with, its last           *)
(* redirect's where that replaced the client's, and its texts are cut only   *)
(* at the caps of the record.  The access record of the same request, which  *)
(* went through another ring, shows the same path, method and status.        *)
OneFaithfulSpan ==
    /\ \A m, n \in DOMAIN exported.spans : exported.spans[m].span_id = exported.spans[n].span_id => m = n
    /\ \A n \in DOMAIN exported.spans : \E i \in Done :
          LET sp == exported.spans[n]
              tp == Inbound(i)
              r == req[i]
          IN  /\ sp.span_id = i /\ i # ZeroId
              /\ sp.trace_id = IF tp = << >> THEN TraceIdOf(i) ELSE tp[1].trace_id
              /\ sp.parent = IF tp = << >> THEN << >> ELSE <<tp[1].span_id>>
              /\ sp.flags % 2 = 1
              /\ sp.end - sp.start = r.duration * 1000
              /\ "http.server.request.duration" \in DOMAIN sp.attributes
                    => sp.attributes["http.server.request.duration"][1] * 1000 = sp.end - sp.start
              /\ sp.attributes["url.path"] = [r.uri EXCEPT !.len = Min({@, 64})]
              /\ "url.query" \in DOMAIN sp.attributes
                    => sp.attributes["url.query"].text = r.args.text
              /\ sp.attributes["http.request.method"] = r.method
              /\ sp.attributes["network.protocol.version"] = VersionName(From(r).proto)
              /\ sp.kind = "Server"
              /\ (sp.status = "Error") = (r.response[1].status >= 500)
              /\ [k \in DOMAIN sp.extra |-> sp.extra[k].key.text]
                    = [k \in 1..Min({Len(Loc(r).span_attrs), MAX_SPAN_EXTRA_ATTRS}) |->
                          Loc(r).span_attrs[k].key.text]
    /\ \A n \in DOMAIN exported.spans, m \in DOMAIN exported.logs :
          exported.logs[m].trace = <<exported.spans[n].trace_id, exported.spans[n].span_id>> =>
             \A f \in {"url.path", "http.request.method", "http.response.status_code"}
                        \cap DOMAIN exported.spans[n].attributes :
                exported.logs[m].attributes[f] = exported.spans[n].attributes[f]

(* A request the REWRITE handler declined stays untraced: no variable of it   *)
(* or of its subrequests ever shows an id, its headers are as they came, no   *)
(* span and no exemplar is its own, even after a redirect to a location that  *)
(* traces; and an access record names a trace only if the span is known.      *)
DeclinedIsInvisible ==
    /\ \A i \in Requests :
          /\ req[i].stage \in {"content", "done"}
          /\ Anchors(req[i].main) = << >>
          => /\ otel_var_get_trace_id(req[i], PoolOf(i)) = << >>
             /\ otel_var_get_span_id(req[i], PoolOf(i)) = << >>
             /\ otel_var_get_parent_id(req[i], PoolOf(i)) = << >>
             /\ req[i].headers = From(req[i]).headers
    /\ \A n \in DOMAIN exported.logs : exported.logs[n].trace # << >> =>
          \E i \in Done : /\ Anchors(i) # << >> /\ Anchors(i)[1].sampled
                          /\ exported.logs[n].trace = <<Anchors(i)[1].trace_id, i>>
    /\ \A b \in DOMAIN exported.batches :
          LET d == exported.batches[b].metrics.duration
          IN  \A l \in DOMAIN d : \A n \in DOMAIN d[l].exemplars :
                 \E i \in Done : /\ Anchors(i) # << >> /\ Anchors(i)[1].sampled
                                 /\ d[l].exemplars[n].span_id = i
                                 /\ d[l].exemplars[n].value = req[i].duration

(* What the upstream server is told is what becomes of the request: if the   *)
(* first traceparent of the outbound headers is the module's, it names the   *)
(* request's own span in its own trace, and when it says sampled the span    *)
(* is written or was refused by a full ring.  No traceparent that the client *)
(* did not send stands in front of it.                                       *)
UpstreamToldTruth ==
    \A i \in Requests :
       req[i].stage \in {"content", "done"} /\ Anchors(req[i].main) # << >> =>
       LET k == find_header_in(req[i].headers, "traceparent")
           v == req[i].headers[k].value
           ctx == Anchors(req[i].main)[1]
       IN  /\ k # 0 /\ req[i].headers # From(req[i]).headers =>
                 /\ v.trace_id = ctx.trace_id /\ v.span_id = ctx.span_id
                 /\ v.flags = ctx.flags % 256
                 /\ parse_traceparent_full(v) # << >>
           /\ i \in Done /\ ctx.sampled /\ amcf.spans =>
                 \/ req[i].span_dropped
                 \/ spans[req[i].w] # << >>
                 \/ \E n \in DOMAIN exported.spans : exported.spans[n].span_id = i

(* Every batch agrees with the requests that were done: each label counts    *)
(* the answered requests that ended with that method (GET after error_page   *)
(* to a URI), class and version and adds up their durations, an aborted request (status 0) in no class; routes count  *)
(* all; upstream sizes count each attempt's bytes once; whatever worker      *)
(* served them.                                                              *)
SumOver(S, f(_)) == FoldSet(LAMBDA i, n : n + f(i), 0, S)
ClassOf(s) == CASE s \in 100..199 -> "1xx" [] s \in 200..299 -> "2xx" [] s \in 300..399 -> "3xx"
                [] s \in 400..499 -> "4xx" [] OTHER -> "5xx"
MethodName(m) == IF \E k \in 1..7 : Methods[k] = m THEN m ELSE "_OTHER"
LabelOf(i) == <<MethodName(req[i].method.text), ClassOf(req[i].response[1].status),
                VersionName(From(req[i]).proto)>>
MetricsAgree ==
    \A b \in DOMAIN exported.batches :
       LET asof == exported.batches[b].asof
           m == exported.batches[b].metrics
           answered == {i \in asof : req[i].response[1].status # 0}
           point(S) == <<Cardinality(S), SumOver(S, LAMBDA i : req[i].duration)>>
           got(p) == <<p.count, p.sum[1]>>
           upstream == {i \in asof : /\ req[i].response[1].upstream # << >>
                                     /\ req[i].response[1].upstream[1].states # << >>}
           zone(i) == req[i].response[1].upstream[1].zone
       IN  /\ IF amcf.by_class
              THEN /\ DOMAIN m.duration = {LabelOf(i) : i \in answered}
                   /\ \A l \in DOMAIN m.duration :
                         got(m.duration[l]) = point({i \in answered : LabelOf(i) = l})
              ELSE got(m.duration[<< >>]) = point(answered)
           /\ \A k \in {Loc(req[i]).route : i \in asof} :
                 got(m.by_route[k]) = point({i \in asof : Loc(req[i]).route = k})
           /\ SumOver(DOMAIN m.by_upstream, LAMBDA k : m.by_upstream[k].count)
                 = Cardinality({i \in asof : req[i].response[1].upstream # << >> /\ zone(i) # << >>})
           /\ m.bytes["received"].count = Cardinality(upstream)
           /\ m.bytes["received"].sum[1] = SumOver(upstream, LAMBDA i :
                 FoldLeft(LAMBDA n, s : n + (IF s.peer THEN s.received ELSE 0), 0,
                          req[i].response[1].upstream[1].states))
           /\ m.upstream["connect_ms"].count = Cardinality({i \in upstream :
                 \E n \in DOMAIN req[i].response[1].upstream[1].states :
                    LET s == req[i].response[1].upstream[1].states[n]
                    IN  s.peer /\ s.connect_ms # NGX_MSEC_SENTINEL})
=============================================================================
