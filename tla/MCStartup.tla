------------------------------- MODULE MCStartup -------------------------------
(***************************************************************************)
(* Startup in four kinds of environment: texts of the exporter block, texts *)
(* of the other directives, trees of locations and certificates, and        *)
(* reloads that change the number of workers and the route table.           *)
(***************************************************************************)
EXTENDS Startup

Url(s, a) == [scheme |-> s, authority |-> a, path |-> << >>]
V6 == <<"fd00", ":", ":", "1">>
V4 == <<"10.0.0.1">>
MCIpHosts == {V6, V4}
MCKeyTypes == <<"rsa", "ecc">>
MCBadExprs == {<<"$bad">>}
MCBadHeaders == {<<<<"k">>, <<"bad">>>>}
Name == <<"collector">>
Line(n, l, a) == [name |-> n, level |-> l, args |-> a]
Q(n, u) == <<<<[n |-> n, unit |-> u]>>>>
Endpoint_(u) == Line("endpoint", "block", <<<<u>>>>)

Endpoints ==
    {Url("http", Name), Url("http", Name \o <<":", "4318">>),
     Url("https", V4 \o <<":", "4318">>),
     Url("http", <<"[">> \o V6 \o <<"]">>),
     Url("http", <<"[">> \o V6 \o <<"]", ":", "4318">>),
     Url("https", <<"[", "]">>), Url("https", Name \o <<":", "0">>),
     Url("http", Name \o <<":">>), Url("unix", << >>), Url("ftp", Name)}
BlockLines ==
    {Endpoint_(u) : u \in Endpoints}
    \cup {Line(n, "block", <<<<f>>>>) : f \in {"ca.pem", "gone.pem"},
          n \in {"trusted_certificate", "ssl_certificate", "ssl_certificate_key"}}
    \cup {Line("endpoint", "block", <<<< >>>>), Line("ssl_verify", "block", <<<<"off">>>>),
          Line("ssl_verify", "block", <<<<"no">>>>),
          Line("metrics_endpoint", "block", <<<<"/m">>>>),
          Line("logs_endpoint", "block", <<<<"/l">>>>),
          Line("traces_endpoint", "block", <<<<"/t">>>>),
          Line("header", "block", <<<<"k">>, <<"v">>>>),
          Line("header", "block", <<<<"k">>, <<"bad">>>>),
          Line("interval", "block", Q(2, "h")),
          Line("batch_size", "block", Q(1, "G")), Line("batch_count", "block", Q(1, "t")),
          Line("unknown", "block", <<<<"v">>>>)}

Plain == Endpoint_(Url("http", V4))
At(n, a, levels) == {Line(n, l, a) : l \in levels}
Configured == {Plain, Line("otel_error_log", "http", << >>)}
MainLines ==
    {Line("interval", "block", Q(2, "d")),
     Line("header", "block", <<<<"k">>, <<"v">>>>),
     Line("otel_metric_interval", "http", Q(250, "ms")),
     Line("otel_metric_interval", "http", Q(0, "m")),
     Line("otel_metric_interval", "http", Q(24, "d")),
     Line("otel_metric_interval", "http", Q(U64Max, "ms")),
     Line("otel_metric_interval", "http", Q(-1, "")),
     Line("otel_resource_attr", "http", <<<<"k">>, <<"v">>>>),
     Line("otel_exporter_header", "http", <<<<"x">>, <<"v">>>>),
     Line("otel_metric_status_code_class", "http", <<<<"on">>>>),
     Line("otel_export_protocol", "http", <<<<"otlp_grpc">>>>),
     Line("otel_export_protocol", "http", <<<<"grpc">>>>),
     Line("otel_error_log", "http", <<<<"warn">>>>),
     Line("otel_error_log", "http", <<<<"loud">>>>),
     Line("otel_error_log_coalesce", "http", <<<<"off">>>>),
     Line("otel_metrics", "http", <<<<"off">>>>),
     Line("otel_metrics", "server", <<<<"off">>>>)}
LocationLines ==
    At("otel_trace_context", <<<<"inject">>>>, {"http", "location"})
    \cup At("otel_log_export", << >>, {"http", "location"})
    \cup At("otel_log_export", <<<<"off">>>>, {"server", "location"})
    \cup At("otel_log_export", <<<<"if=", "$slow">>>>, {"http", "location"})
    \cup At("otel_trace", <<<<"on">>>>, {"http"})
    \cup {Line("otel_trace", "server", <<<<"$bad">>>>),
          Line("otel_trace_context", "server", <<<<"off">>>>),
          Line("otel_log_export", "server", <<<<"maybe">>>>),
          Line("otel_span_name", "server", <<<<"n">>>>),
          Line("otel_service_name", "http", <<<<"svc">>>>),
          Line("otel_span_attr", "server", <<<<"k">>, <<"v">>>>)}

MCLines ==
    [exporter |-> BlockLines, main |-> Configured \cup MainLines,
     location |-> Configured \cup LocationLines, tables |-> {Plain},
     reload |-> {Plain, Line("otel_error_log", "http", << >>),
                 Line("otel_metrics", "http", <<<<"off">>>>)}]
MCMaxLines == [exporter |-> 4, main |-> 4, location |-> 4, tables |-> 2, reload |-> 3]

(***************************************************************************)
(* Location trees.  The second lists its one location as exact and as       *)
(* inclusive, the third has more locations than the table.                  *)
(***************************************************************************)
Clcf(i, name) == [id |-> i, name |-> name]
Node(e, i, t, l, r) ==
    <<[exact |-> e, inclusive |-> i, tree |-> t, left |-> l, right |-> r]>>
A == Clcf(1, <<"/", "a">>)
B == Clcf(2, <<"/", "a", "b">>)
C == Clcf(3, <<"/", "c">>)
Nil == << >>
Trees ==
    {Nil, Node(<<A>>, <<A>>, Nil, Nil, Nil),
     Node(<<A>>, <<B>>, Node(Nil, <<C>>, Nil, Nil, Nil), Nil, Nil),
     Node(Nil, <<B>>, Nil, Node(<<A>>, Nil, Nil, Nil, Nil), Node(Nil, <<C>>, Nil, Nil, Nil))}

Day(d) == <<[days |-> d, secs |-> 60]>>
Cert(d, k, nb) == [der |-> d, key |-> k, not_before |-> nb, not_after |-> Day(400)]
Rsa1 == Cert("rsa1", "rsa", Day(10))
Rsa2 == Cert("rsa2", "rsa", Day(10))
Ecc == Cert("ecc", "ecc", Day(20))
Unreadable == Cert("odd", "ecc", << >>)
Path(f) == [path |-> f]
Ssl(certs) == <<[certs |-> certs, paths |-> [i \in DOMAIN certs |-> Path(certs[i].der)]]>>
Ssls == {Nil, Ssl(<<Ecc, Rsa1>>), Ssl(<<Rsa1, Rsa2>>), Ssl(<<Unreadable, Rsa1>>),
         Ssl(<<Rsa1, Ecc, Rsa2>>), Ssl(<<Ecc>>),
         <<[certs |-> << >>, paths |-> <<Path("$file")>>]>>}
ServerName(n, f) == [name |-> n, form |-> f, regex |-> FALSE]
Names == {<<ServerName("*.x", "wildcard"), ServerName("x", "plain")>>, << >>}
Server(t, s, n) == [static_locations |-> t, ssl |-> s, server_names |-> n]
Upstream(i, name) == [shm_zone |-> <<Clcf(i, name)>>]

HttpSsl == <<[http |-> FALSE, name |-> "core"], [http |-> TRUE, name |-> "ngx_http_ssl_module"]>>
Env(kind) ==
    [kind |-> kind, worker_processes |-> 1, wp |-> 1, ncpu |-> 2,
     resolver |-> << >>, resolver_timeout |-> UNSET_FLAG, error_logs |-> {},
     modules |-> HttpSsl, servers |-> << >>, upstreams |-> << >>,
     clcfs |-> {A, B, C}, locations |-> {}]
MCReloads ==
    {[Env("reload") EXCEPT !.worker_processes = w[1], !.wp = w[2], !.locations = {1},
        !.servers = <<Server(Node(<<IF w[3] = 1 THEN A ELSE B>>, Nil, Nil, Nil, Nil),
                             Nil, << >>)>>] :
       w \in {<<-1, 1, 2>>, <<-1, 2, 1>>, <<-1, 3, 1>>, <<1, 1, 1>>}}
MCEnvironments ==
    {[Env("exporter") EXCEPT !.resolver = r] :
        r \in {Nil, <<[connections |-> 0]>>, <<[connections |-> 1]>>}}
    \cup {[Env("main") EXCEPT !.error_logs = {3, 8}], Env("location")}
    \cup {[Env("tables") EXCEPT !.modules = m,
             !.upstreams = <<Upstream(7, <<"u">>), [shm_zone |-> Nil],
                             Upstream(7, <<"u">>), Upstream(8, <<"v", "w", "x">>),
                             Upstream(9, <<"y">>)>>,
             !.servers = <<Server(t, s, n), Server(Node(<<B>>, Nil, Nil, Nil, Nil), Nil, << >>)>>] :
        m \in {HttpSsl, SubSeq(HttpSsl, 1, 1)}, t \in Trees, s \in Ssls, n \in Names}
    \cup MCReloads
=============================================================================
