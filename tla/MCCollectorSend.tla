---------------------------- MODULE MCCollectorSend ----------------------------
(***************************************************************************)
(* CollectorSend on a handful of transports: each protocol, each kind of    *)
(* endpoint, each signal, verification on and off, one path override.       *)
(***************************************************************************)
EXTENDS CollectorSend, FiniteSetsExt

Url(s, a, p) == [scheme |-> s, authority |-> a, path |-> p]
V6 == <<"[", "fd00", ":", ":", "1", "]">>
Plain == Url("http", <<"collector", ":", "4318">>, <<"/", "otlp">>)
Secure == Url("https", <<"collector">>, << >>)
SecureV6 == Url("https", V6 \o <<":", "4317">>, << >>)
Unix == Url("unix", << >>, <<"/run/otel.sock">>)
Conf(u, p, s, i, o) ==
    [url |-> u, proto |-> p, signal |-> s, tls |-> i, override |-> o]
Tls(insecure, ca, crt, pair) ==
    [insecure |-> insecure, ca |-> ca, cert |-> crt,
     key |-> IF crt = "" THEN "" ELSE "key.pem", pair |-> pair]
Verify == Tls(FALSE, "", "", FALSE)
Mutual == Tls(FALSE, "ca.pem", "crt.pem", TRUE)

MCConfigs ==
    {Conf(Plain, "http", "metrics", Verify, << >>),
     Conf(Secure, "http", "logs", Verify, <<Url("https", <<"other">>, << >>)>>),
     Conf(Unix, "http", "traces", Verify, << >>),
     Conf(Unix, "grpc", "traces", Verify, << >>),
     Conf(Url("ftp", <<"collector">>, << >>), "http", "logs", Verify, << >>),
     Conf(Url("http", V6, << >>), "grpc", "metrics", Verify, << >>),
     Conf(SecureV6, "grpc", "traces", Mutual, << >>),
     Conf(SecureV6, "http", "traces", Tls(TRUE, "none.pem", "", FALSE), << >>),
     Conf(Plain, "grpc", "logs", Verify, << >>),
     Conf(Secure, "grpc", "metrics", Verify, << >>),
     Conf(Secure, "http", "logs", Tls(FALSE, "none.pem", "", FALSE), << >>),
     Conf(Secure, "http", "traces", Tls(FALSE, "", "crt.pem", FALSE), << >>)}

MCIpHosts == {strip_v6_brackets(V6)}

\* 2026-03-01 00:00:00 UTC, the model's present.
MCNow == 1772323200
Date(y, m, d, h) == [form |-> "date", wf |-> TRUE, year |-> y, month |-> m,
                     day |-> d, hour |-> h, min |-> 0, sec |-> 0]
Http(st, rej, ra) == [status |-> st, body |-> [decodes |-> rej # 0, rejected |-> rej],
                      retry |-> ra]
Absent == [form |-> "absent"]
Grpc(c, rej, push, det) ==
    [code |-> c, rejected |-> rej, pushback |-> push, details |-> det]
Delay(ms) == [t |-> "delay", ms |-> ms]

MCAnswers ==
    [http |-> {Http(200, 0, Absent), Http(200, 3, Absent), Http(200, -1, Absent),
               Http(404, 3, Absent), Http(401, 0, Absent),
               Http(503, 0, [form |-> "delta", secs |-> 0]),
               Http(503, 0, Date(2026, 2, 28, 23)), Http(429, 0, Date(2026, 3, 1, 1)),
               Http(503, 0, Date(2027, 2, 29, 0)), Http(503, 0, Date(2028, 2, 29, 0)),
               Http(503, 0, Date(2027, 1, 31, 0))},
     grpc |-> {Grpc("Ok", 0, None, << >>), Grpc("Ok", 2, None, << >>),
               Grpc("ResourceExhausted", 0, None, << >>),
               Grpc("ResourceExhausted", 0, None, <<[t |-> "other"], Delay(5)>>),
               Grpc("Unavailable", 0, Some(0), <<[t |-> "bad"], Delay(5)>>)}]

(***************************************************************************)
(* The reference for a verdict: the OTLP rules, and a calendar that adds    *)
(* up the years and the months.                                             *)
(***************************************************************************)
Leap(y) == (y % 4 = 0 /\ y % 100 # 0) \/ y % 400 = 0
MonthLength(y, m) ==
    IF m = 2 THEN (IF Leap(y) THEN 29 ELSE 28)
    ELSE IF m \in {4, 6, 9, 11} THEN 30 ELSE 31
DayNumber(y, m, d) ==
    365 * (y - 1970) + Cardinality({yy \in 1970..(y - 1) : Leap(yy)})
    + FoldSet(LAMBDA mm, n : n + MonthLength(y, mm), 0, 1..(m - 1)) + d - 1

Wait(v) ==
    CASE v.form = "delta" -> Some(v.secs)
      [] v.form = "date" ->
           LET t == DayNumber(v.year, v.month, v.day) * 86400 + v.hour * 3600
           IN  IF v.day <= MonthLength(v.year, v.month) /\ t >= Now
               THEN Some(t - Now) ELSE None
      [] v.form = "absent" -> None

HttpReference(a) ==
    IF a.status = 200
    THEN IF a.body.rejected > 0 THEN PartialReject(a.body.rejected) ELSE Accepted
    ELSE IF a.status \in {429, 503} THEN Retryable(Wait(a.retry))
    ELSE IF a.status = 401 THEN Unauthorized ELSE Permanent
HttpReferences == [a \in Answers.http |-> HttpReference(a)]

\* An OTLP/HTTP send reports a verdict only if the collector answered this very
\* request in full, and then exactly the verdict the OTLP rules give that
\* answer, the wait of a Retry-After date counted from now on the calendar.
HttpVerdictExact ==
    (cfg.proto = "http" /\ IsVerdict(outcome)) =>
        answer # None /\ ~due /\ outcome = HttpReferences[answer.some]

\* What a reader of each URL expects: where the connection goes, the port in
\* the Host header or, for gRPC, in :authority, and the path of the request.
Expected ==
    [c \in {x \in MCConfigs : constructible(x) /\ x.url.scheme # "unix"} |->
       CASE c.url = Plain -> [to |-> <<<<"collector">>, "4318">>, port |-> "4318",
                              path |-> <<"/", "otlp", "/", "v1/metrics">>]
         [] c.url = Secure -> [to |-> <<<<"collector">>, "443">>,
                               port |-> IF c.proto = "grpc" THEN "443" ELSE "",
                               path |-> <<"/">>]
         [] c.url = SecureV6 -> [to |-> <<V6, "4317">>, port |-> "4317",
                                 path |-> <<"/", "v1/traces">>]
         [] OTHER -> [to |-> <<V6, "80">>, port |-> "80", path |-> << >>]]

\* A send goes to the host and the port that the endpoint names, also when the
\* host is a bracketed IPv6 literal full of colons.  The request names that
\* host: in OTLP/HTTP with the port only if it is not the scheme's own, in gRPC
\* with the port always.  An OTLP/HTTP request asks it for its own signal's
\* path or for the path that overrides it.
RequestAddressed ==
    stage \in {"connect", "exchange", "rpc"} =>
      \E c \in DOMAIN Expected :
        /\ c.url = cfg.url /\ c.proto = cfg.proto /\ c.signal = cfg.signal
        /\ Expected[c].to = <<cfg.endpoint.host, cfg.endpoint.port>>
        /\ request.host = [host |-> Expected[c].to[1], port |-> Expected[c].port]
        /\ cfg.proto = "http" => request.path = Expected[c].path

=============================================================================
