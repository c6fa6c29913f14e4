------------------------------ MODULE ModuleConfig ------------------------------
(***************************************************************************)
(* The configuration of the module: the directive handlers of              *)
(* config/directives.rs, MainConfig and its validation in config/mod.rs,   *)
(* LocationConf and its merge, and the tables built once before the fork.  *)
(*                                                                         *)
(* A string is a sequence, << >> when it is empty.  A parse state p holds  *)
(* the MainConfig, the LocationConf of each level, the chain of error logs *)
(* of the cycle, and ok, FALSE once a handler has returned an error.       *)
(***************************************************************************)
EXTENDS Endpoint, FiniteSets, TLC

CONSTANTS
    IpHosts,        \* the hosts that parse as an IP address
    Digits,         \* the tokens made of digits alone, Ports among them
    Files,          \* the paths that exist
    BadExprs,       \* the values that do not compile
    BadHeaders,     \* the name and value pairs hyper does not accept
    U64Max,         \* the largest u64 of the model
    DataOffset, SlotSize, RingHeader, LogCap, SpanCap, TableBytes,
    RouteCap, UpstreamCap, RouteNameMax, UpstreamNameMax

Levels == <<"http", "server", "location">>
UNSET_FLAG == -1
UNSET_U64 == U64Max
DEFAULT_INTERVAL_MS == 5000
NGX_LOG_ERR == 4

ExporterConfig_default ==
    [endpoint |-> << >>, trusted_cert |-> << >>, ssl_cert |-> << >>,
     ssl_cert_key |-> << >>, ssl_verify |-> UNSET_FLAG,
     metrics_endpoint |-> << >>, logs_endpoint |-> << >>, traces_endpoint |-> << >>]

\* A zone is its registered size; 0 is the null pointer.
MainConfig_default ==
    [exporter |-> ExporterConfig_default, service_name |-> << >>,
     resource_attrs |-> << >>, exporter_headers |-> << >>,
     metric_interval_ms |-> UNSET_U64, metrics_enabled |-> UNSET_FLAG,
     status_code_class |-> UNSET_FLAG, export_protocol |-> << >>,
     zones |-> [z \in {"metrics", "control", "logs", "spans"} |-> 0],
     n_active_workers |-> 0, any_log_export |-> FALSE,
     error_log_enabled |-> FALSE, error_log_level |-> NGX_LOG_ERR,
     error_log_coalesce |-> TRUE, route_table |-> << >>, upstream_table |-> << >>,
     cert_table |-> << >>,
     resolver |-> << >>, resolver_timeout |-> 0]

TRACE_CONTEXT_UNSET == 255
LocationConf_default ==
    [otel_trace |-> << >>, trace_context_raw |-> TRACE_CONTEXT_UNSET,
     span_name_cv |-> << >>, span_attrs |-> << >>,
     log_export_raw |-> "Unset", log_export_cv |-> << >>]

is_configured(main) == main.exporter.endpoint # << >>
ssl_verify_off(main) == main.exporter.ssl_verify = 0
interval_ms(main) ==
    IF main.metric_interval_ms = UNSET_U64 THEN DEFAULT_INTERVAL_MS
    ELSE main.metric_interval_ms
metrics_enabled(main) == main.metrics_enabled # 0
export_protocol(main) ==
    IF main.export_protocol = << >> THEN "OtlpHttp" ELSE main.export_protocol[1]

TraceContextModes == <<"ignore", "extract", "inject", "propagate">>
trace_context(lcf) ==
    IF lcf.trace_context_raw = TRACE_CONTEXT_UNSET THEN "extract"
    ELSE TraceContextModes[lcf.trace_context_raw + 1]

(***************************************************************************)
(* config/parse.rs.  A quantity is a number and a unit, -1 when the text    *)
(* is no number; the result is << >> for None.                              *)
(***************************************************************************)
Checked(n, unit) == IF n < 0 \/ n > U64Max \/ n > U64Max \div unit
                    THEN << >> ELSE <<n * unit>>

\* A duration without a unit is in seconds; any other suffix is no number.
parse_duration_ms(q) ==
    CASE q.unit = "ms" -> Checked(q.n, 1)
      [] q.unit \in {"s", ""} -> Checked(q.n, 1000)
      [] q.unit = "m" -> Checked(q.n, 60000)
      [] q.unit = "h" -> Checked(q.n, 3600000)
      [] q.unit = "d" -> Checked(q.n, 86400000)
      [] OTHER -> << >>

\* The unit of a size may be in upper case.
parse_size_bytes(q) ==
    CASE q.unit = "" -> Checked(q.n, 1)
      [] q.unit \in {"k", "K"} -> Checked(q.n, 1024)
      [] q.unit \in {"m", "M"} -> Checked(q.n, 1024 * 1024)
      [] q.unit \in {"g", "G"} -> Checked(q.n, 1024 * 1024 * 1024)
      [] OTHER -> << >>

(***************************************************************************)
(* The handlers.  Each takes the parse state and the arguments.             *)
(***************************************************************************)
Reject(p) == [p EXCEPT !.ok = FALSE]

\* The string directives of the block: set once, an empty value sets nothing.
SetOnce(p, field, v) ==
    IF p.main.exporter[field] # << >> THEN Reject(p)
    ELSE [p EXCEPT !.main.exporter[field] = v]
cmd_exporter_set_endpoint(p, a) == SetOnce(p, "endpoint", a[1])
cmd_exporter_set_trusted_cert(p, a) == SetOnce(p, "trusted_cert", a[1])
cmd_exporter_set_ssl_cert(p, a) == SetOnce(p, "ssl_cert", a[1])
cmd_exporter_set_ssl_cert_key(p, a) == SetOnce(p, "ssl_cert_key", a[1])
cmd_exporter_set_metrics_endpoint(p, a) == SetOnce(p, "metrics_endpoint", a[1])
cmd_exporter_set_logs_endpoint(p, a) == SetOnce(p, "logs_endpoint", a[1])
cmd_exporter_set_traces_endpoint(p, a) == SetOnce(p, "traces_endpoint", a[1])

OnOff(v) == CASE v = <<"on">> -> 1 [] v = <<"off">> -> 0 [] OTHER -> UNSET_FLAG

cmd_exporter_set_ssl_verify(p, a) ==
    IF p.main.exporter.ssl_verify # UNSET_FLAG \/ OnOff(a[1]) = UNSET_FLAG
    THEN Reject(p)
    ELSE [p EXCEPT !.main.exporter.ssl_verify = OnOff(a[1])]

check_header_kv(a) == a \notin BadHeaders
cmd_add_exporter_header(p, a) ==
    IF ~check_header_kv(a) THEN Reject(p)
    ELSE [p EXCEPT !.main.exporter_headers = Append(@, a)]
cmd_exporter_block_add_header(p, a) == cmd_add_exporter_header(p, a)

cmd_set_metric_interval(p, a) ==
    LET ms == IF a[1] = << >> THEN << >> ELSE parse_duration_ms(a[1][1])
    IN  IF p.main.metric_interval_ms # UNSET_U64 \/ ms = << >> \/ ms = <<0>>
        THEN Reject(p)
        ELSE [p EXCEPT !.main.metric_interval_ms = ms[1]]
cmd_exporter_block_set_interval(p, a) == cmd_set_metric_interval(p, a)

cmd_exporter_block_ignore_batch_size(p, a) ==
    IF a[1] = << >> \/ parse_size_bytes(a[1][1]) = << >> THEN Reject(p) ELSE p
cmd_exporter_block_ignore_batch_count(p, a) ==
    cmd_exporter_block_ignore_batch_size(p, a)

cmd_add_resource_attr(p, a) == [p EXCEPT !.main.resource_attrs = Append(@, a)]

cmd_set_export_protocol(p, a) ==
    IF p.main.export_protocol # << >> \/ a[1] \notin {<<"otlp_http">>, <<"otlp_grpc">>}
    THEN Reject(p)
    ELSE [p EXCEPT !.main.export_protocol =
                       <<IF a[1] = <<"otlp_http">> THEN "OtlpHttp" ELSE "OtlpGrpc">>]

\* The chain is ordered by level, highest first, its head a fixed cell.
otel_log_insert(chain, new) ==
    LET at == SelectInSeq(chain, LAMBDA log : new.level > log.level)
    IN  IF at = 0 THEN Append(chain, new) ELSE InsertAt(chain, at, new)

ErrorLevels == <<"emerg", "alert", "crit", "error", "warn", "notice", "info", "debug">>
parse_error_log_level(s) == SelectInSeq(ErrorLevels, LAMBDA l : <<l>> = s)

cmd_set_error_log(p, a) ==
    LET floor == IF a = << >> THEN NGX_LOG_ERR ELSE parse_error_log_level(a[1])
    IN  IF p.main.error_log_enabled \/ floor = 0 THEN Reject(p)
        ELSE [p EXCEPT !.chain = otel_log_insert(@, [owner |-> "otel", level |-> floor]),
                       !.main.error_log_enabled = TRUE,
                       !.main.error_log_level = floor]

cmd_set_error_log_coalesce(p, a) ==
    IF OnOff(a[1]) = UNSET_FLAG THEN Reject(p)
    ELSE [p EXCEPT !.main.error_log_coalesce = OnOff(a[1]) = 1]

compile_complex_value(v) == IF v \in BadExprs THEN << >> ELSE <<v>>

cmd_set_otel_trace(p, l, a) ==
    IF p.locs[l].otel_trace # << >> \/ compile_complex_value(a[1]) = << >>
    THEN Reject(p)
    ELSE [p EXCEPT !.locs[l].otel_trace = compile_complex_value(a[1])]

cmd_set_otel_log_export(p, l, a) ==
    LET mode == IF a = << >> \/ a[1] = <<"on">> THEN "All"
                ELSE IF a[1] = <<"off">> THEN "Off"
                ELSE IF a[1] # << >> /\ a[1][1] = "if=" THEN "If" ELSE "bad"
        cv == IF mode = "If" THEN compile_complex_value(Tail(a[1])) ELSE << >>
    IN  IF p.locs[l].log_export_raw # "Unset" \/ mode = "bad"
           \/ (mode = "If" /\ cv = << >>)
        THEN Reject(p)
        ELSE [p EXCEPT !.locs[l].log_export_raw = mode, !.locs[l].log_export_cv = cv,
                       !.main.any_log_export = @ \/ mode \in {"All", "If"}]

cmd_set_otel_trace_context(p, l, a) ==
    LET mode == SelectInSeq(TraceContextModes, LAMBDA m : <<m>> = a[1])
    IN  IF p.locs[l].trace_context_raw # TRACE_CONTEXT_UNSET \/ mode = 0
        THEN Reject(p)
        ELSE [p EXCEPT !.locs[l].trace_context_raw = mode - 1]

cmd_set_otel_span_name(p, l, a) ==
    IF p.locs[l].span_name_cv # << >> \/ compile_complex_value(a[1]) = << >>
    THEN Reject(p)
    ELSE [p EXCEPT !.locs[l].span_name_cv = compile_complex_value(a[1])]

cmd_add_otel_span_attr(p, l, a) == [p EXCEPT !.locs[l].span_attrs = Append(@, a)]

\* nginx's own setters for a string and for a flag.
ngx_conf_set_str_slot(p, field, v) ==
    IF p.main[field] # << >> THEN Reject(p) ELSE [p EXCEPT !.main[field] = <<v>>]
ngx_conf_set_flag_slot(p, field, v) ==
    IF p.main[field] # UNSET_FLAG \/ OnOff(v) = UNSET_FLAG THEN Reject(p)
    ELSE [p EXCEPT !.main[field] = OnOff(v)]

\* The name, and the number of arguments, of every directive of the block.
NGX_HTTP_OTEL_EXPORTER_COMMANDS ==
    [n \in {"endpoint", "trusted_certificate", "ssl_certificate",
            "ssl_certificate_key", "ssl_verify", "metrics_endpoint",
            "logs_endpoint", "traces_endpoint", "interval", "batch_size",
            "batch_count"} |-> 1] @@ ("header" :> 2)

cmd_exporter_block_handler(p, name, a) ==
    IF \/ name \notin DOMAIN NGX_HTTP_OTEL_EXPORTER_COMMANDS
       \/ NGX_HTTP_OTEL_EXPORTER_COMMANDS[name] # Len(a)
    THEN Reject(p)
    ELSE CASE name = "endpoint" -> cmd_exporter_set_endpoint(p, a)
           [] name = "trusted_certificate" -> cmd_exporter_set_trusted_cert(p, a)
           [] name = "ssl_certificate" -> cmd_exporter_set_ssl_cert(p, a)
           [] name = "ssl_certificate_key" -> cmd_exporter_set_ssl_cert_key(p, a)
           [] name = "ssl_verify" -> cmd_exporter_set_ssl_verify(p, a)
           [] name = "metrics_endpoint" -> cmd_exporter_set_metrics_endpoint(p, a)
           [] name = "logs_endpoint" -> cmd_exporter_set_logs_endpoint(p, a)
           [] name = "traces_endpoint" -> cmd_exporter_set_traces_endpoint(p, a)
           [] name = "header" -> cmd_exporter_block_add_header(p, a)
           [] name = "interval" -> cmd_exporter_block_set_interval(p, a)
           [] name = "batch_size" -> cmd_exporter_block_ignore_batch_size(p, a)
           [] name = "batch_count" -> cmd_exporter_block_ignore_batch_count(p, a)

\* The levels and the numbers of arguments nginx lets each directive have.
NGX_HTTP_OTEL_COMMANDS ==
    [n \in {"otel_service_name", "otel_metric_interval", "otel_export_protocol",
            "otel_metric_status_code_class", "otel_error_log_coalesce",
            "otel_metrics"} |-> [levels |-> {"http"}, nargs |-> {1}]]
    @@ [n \in {"otel_resource_attr", "otel_exporter_header"} |->
            [levels |-> {"http"}, nargs |-> {2}]]
    @@ ("otel_error_log" :> [levels |-> {"http"}, nargs |-> {0, 1}])
    @@ [n \in {"otel_trace", "otel_trace_context", "otel_span_name"} |->
            [levels |-> Range(Levels), nargs |-> {1}]]
    @@ ("otel_span_attr" :> [levels |-> Range(Levels), nargs |-> {2}])
    @@ ("otel_log_export" :> [levels |-> Range(Levels), nargs |-> {0, 1}])

ngx_conf_handler(p, l, name, a) ==
    CASE name = "otel_service_name" -> ngx_conf_set_str_slot(p, "service_name", a[1])
      [] name = "otel_resource_attr" -> cmd_add_resource_attr(p, a)
      [] name = "otel_exporter_header" -> cmd_add_exporter_header(p, a)
      [] name = "otel_metric_interval" -> cmd_set_metric_interval(p, a)
      [] name = "otel_metric_status_code_class" ->
           ngx_conf_set_flag_slot(p, "status_code_class", a[1])
      [] name = "otel_export_protocol" -> cmd_set_export_protocol(p, a)
      [] name = "otel_error_log" -> cmd_set_error_log(p, a)
      [] name = "otel_error_log_coalesce" -> cmd_set_error_log_coalesce(p, a)
      [] name = "otel_trace" -> cmd_set_otel_trace(p, l, a)
      [] name = "otel_trace_context" -> cmd_set_otel_trace_context(p, l, a)
      [] name = "otel_span_name" -> cmd_set_otel_span_name(p, l, a)
      [] name = "otel_span_attr" -> cmd_add_otel_span_attr(p, l, a)
      [] name = "otel_log_export" -> cmd_set_otel_log_export(p, l, a)
      [] name = "otel_metrics" -> ngx_conf_set_flag_slot(p, "metrics_enabled", a[1])

(***************************************************************************)
(* Merge for LocationConf: a level takes from the one around it what it     *)
(* does not set itself, all but the span attributes.                        *)
(***************************************************************************)
merge(conf, prev) ==
    LET kept(f) == IF conf[f] = << >> THEN prev[f] ELSE conf[f]
        own == conf.log_export_raw # "Unset"
    IN  [conf EXCEPT
            !.otel_trace = kept("otel_trace"),
            !.trace_context_raw = IF @ # TRACE_CONTEXT_UNSET THEN @
                                  ELSE prev.trace_context_raw,
            !.span_name_cv = kept("span_name_cv"),
            !.log_export_raw = IF own THEN @ ELSE prev.log_export_raw,
            !.log_export_cv = IF own THEN @ ELSE prev.log_export_cv]
=============================================================================
