-------------------------------- MODULE MCRequest --------------------------------
(* Request on small inputs. *)
EXTENDS Request

Text(t, n) == [text |-> t, len |-> n]
Name(t) == Text(t, 8)

MCConfigs ==
    LET all == [configured |-> TRUE, metrics |-> TRUE, by_class |-> TRUE, logs |-> TRUE,
                spans |-> TRUE, any_log_export |-> TRUE]
    IN  {all, [all EXCEPT !.by_class = FALSE, !.spans = FALSE,
                                !.any_log_export = FALSE]}

Attr(k) == [key |-> Text(k, 40), value |-> Text("v", 70)]
Location(route, trace, mode) ==
    [route |-> route, otel_trace |-> trace, trace_context |-> mode, log_export |-> "all",
     span_name |-> Empty, span_attrs |-> << >>]
MCLocations ==
    [plain |-> [Location(0, "unset", "ignore") EXCEPT !.log_export = "if"],
     on |-> [Location(1, "on", "propagate") EXCEPT
                 !.span_attrs = <<Attr("a"), Attr("b"), Attr("c"), Attr("d"), Attr("e")>>],
     parent |-> [Location(2, "$otel_parent_sampled", "propagate") EXCEPT
                     !.span_name = Text("named", 90)],
     fresh |-> Location(3, "on", "inject")]

Traceparent(f) == build_traceparent_value(900, 901, f)
Header(v) == <<[name |-> "traceparent", value |-> v]>>
Attempt(peer, c) == [peer |-> peer, response_ms |-> 3, header_ms |-> -1, connect_ms |-> c,
                     received |-> 5, sent |-> 6]
Answer == [status |-> 200, sent |-> 100, header_size |-> 40, cond |-> "0",
           upstream |-> <<[zone |-> <<1>>, states |-> <<Attempt(TRUE, -1), Attempt(FALSE, 4),
                                                        Attempt(TRUE, 2)>>]>>]
Abort == [status |-> 0, sent |-> 0, header_size |-> 0, cond |-> "1", upstream |-> << >>]
Failure == [status |-> 502, sent |-> 10, header_size |-> 40, cond |-> "error",
            upstream |-> <<[zone |-> << >>, states |-> <<Attempt(TRUE, -1)>>]>>]

Target(l) == [loc |-> l, uri |-> Text("/other", 20), args |-> Name("other")]
Client == [w |-> 0, ends |-> {Answer}, scarce |-> FALSE,
           subrequests |-> {Target("plain")}, error_page |-> {}, try_files |-> {}, named |-> {},
           loc |-> "on", headers |-> << >>,
           method |-> Text("GET", 3), proto |-> 1001, length |-> 10,
           client |-> Name("client"), sockaddr |-> [family |-> "inet", port |-> 7],
           local |-> [family |-> "inet", port |-> 80], realip |-> << >>, path |-> Text("/p", 100),
           args |-> Empty, agent |-> Name("agent"), server_name |-> Empty, host |-> Name("host"),
           tls |-> FALSE, content_length |-> -1]
MCClients ==
    [root |-> [Client EXCEPT !.named = {Target("plain")}, !.try_files = {Target("parent")},
                             !.args = Name("args")],
     child |-> [Client EXCEPT !.loc = "parent", !.headers = Header(Traceparent(1)),
                              !.method = Text("HEAD", 4), !.error_page = {Target("plain")},
                              !.proto = 2000, !.ends = {Answer, Abort}, !.scarce = TRUE],
     unsampled |-> [Client EXCEPT !.loc = "parent", !.headers = Header(Traceparent(0)),
                                  !.subrequests = {Target("on")}, !.try_files = {Target("on")}],
     malformed |-> [Client EXCEPT !.loc = "fresh", !.method = Text("BREW", 4), !.w = 1,
                                  !.scarce = TRUE, !.subrequests = {Target("on")},
                                  !.error_page = {Target("on")},
                                  !.headers = Header([Traceparent(1) EXCEPT !.len = 54]),
                                  !.realip = <<[addr |-> Name("peer"), port |-> 9]>>],
     other |-> [Client EXCEPT !.ends = {Failure}, !.subrequests = {}]]
MCArrivals == 1 :> {"root", "child", "unsampled", "malformed"} @@ 2 :> {"other"}

MCSteps == {0, -2000}
=============================================================================
