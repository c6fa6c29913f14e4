-------------------------------- MODULE Endpoint --------------------------------
(***************************************************************************)
(* The endpoint of transport/hyper_http.rs: what ParsedEndpoint::parse and  *)
(* its helpers make of the configured URL.  A URL is a scheme, an authority *)
(* and a path.  An authority is a sequence of tokens: the characters that   *)
(* decide the parse, "[", "]" and ":", and names and numbers as one token   *)
(* each.                                                                    *)
(***************************************************************************)
EXTENDS Integers, Sequences, SequencesExt

CONSTANT Ports          \* the tokens that parse as a u16

\* A mutant: the last colon of the whole authority, brackets or not.
port_search_anywhere(authority) == 1

\* Index of the first token after the closing bracket of an IPv6 literal.
port_search_start(authority) ==
    IF authority # << >> /\ Head(authority) = "[" /\ Contains(authority, "]")
    THEN SelectInSeq(authority, LAMBDA c : c = "]") + 1
    ELSE 1

parse_authority(authority, default_port) ==
    LET idx == SelectLastInSubSeq(authority, port_search_start(authority),
                                  Len(authority), LAMBDA c : c = ":")
        rest == SubSeq(authority, idx + 1, Len(authority))
    IN  IF idx = 0 THEN [host |-> authority, port |-> default_port]
        ELSE [host |-> SubSeq(authority, 1, idx - 1),
              port |-> IF Len(rest) = 1 /\ Head(rest) \in Ports
                       THEN Head(rest) ELSE default_port]

ParsedEndpoint_parse(url) ==
    CASE url.scheme \in {"http", "https"} ->
           LET a == parse_authority(url.authority,
                                    IF url.scheme = "http" THEN "80" ELSE "443")
           IN  [kind |-> url.scheme, host |-> a.host, port |-> a.port,
                path |-> IF url.path = << >> THEN <<"/">> ELSE url.path]
      [] url.scheme = "unix" ->
           [kind |-> "unix", host |-> <<"localhost">>, port |-> "",
            path |-> <<"/">>]
      [] OTHER -> [kind |-> "invalid"]

\* The Host header: the port is left out when it is the scheme's default.
authority_of(e) ==
    IF e.kind = "unix" \/ e.port = (IF e.kind = "http" THEN "80" ELSE "443")
    THEN [host |-> e.host, port |-> ""]
    ELSE [host |-> e.host, port |-> e.port]

\* The origin of a gRPC request, http://host:port: the port is always there.
origin_of(e) == [host |-> e.host, port |-> e.port]

strip_v6_brackets(host) ==
    IF host # << >> /\ Head(host) = "[" /\ Last(host) = "]"
    THEN SubSeq(host, 2, Len(host) - 1) ELSE host

derive_signal_paths(base) ==
    LET b == IF Last(base) = "/" THEN base ELSE Append(base, "/")
    IN  [metrics |-> b \o <<"v1/metrics">>, logs |-> b \o <<"v1/logs">>,
         traces |-> b \o <<"v1/traces">>]

\* An override keeps its path; a whole URL is cut down to the path it names.
extract_http_path(url) ==
    IF url.scheme \in {"http", "https"} /\ url.path = << >>
    THEN <<"/">> ELSE url.path

=============================================================================
