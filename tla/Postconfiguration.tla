--------------------------- MODULE Postconfiguration ---------------------------
(***************************************************************************)
(* What follows the parse: the checks and the wiring of postconfiguration,  *)
(* the sizes of the shared zones, and the route and upstream tables.        *)
(*                                                                         *)
(* env is the rest of the nginx configuration and its machine: the          *)
(* resolver, worker_processes as the core has it while http{} is parsed    *)
(* (-1 before its directive), the number of CPUs, modules, servers and      *)
(* upstreams.                                                               *)
(***************************************************************************)
EXTENDS ModuleConfig, CertTable

Zones == {"metrics", "control", "logs", "spans"}

(***************************************************************************)
(* Sizes in bytes, and the slots read back from a size.                     *)
(***************************************************************************)
ring_size_bytes(cap) == RingHeader + cap
logs_slot_size == 2 * ring_size_bytes(LogCap) + TableBytes
spans_slot_size == ring_size_bytes(SpanCap)
slot_size(z) == CASE z = "metrics" -> SlotSize [] z = "logs" -> logs_slot_size
                  [] z = "spans" -> spans_slot_size
zone_size_for(z, n) ==
    IF z = "control" THEN DataOffset + SlotSize ELSE DataOffset + n * slot_size(z)
n_workers_from_zone_size(z, size) ==
    IF size = 0 THEN 0 ELSE (size - DataOffset) \div slot_size(z)

min_indexed_worker_capacity(main) ==
    LET caps == {n_workers_from_zone_size(z, main.zones[z]) :
                   z \in {"metrics", "logs", "spans"}} \ {0}
    IN  IF caps = {} THEN 0 ELSE CHOOSE c \in caps : \A d \in caps : c <= d

n_workers_to_reserve(env) ==
    IF env.worker_processes >= 1 THEN env.worker_processes
    ELSE IF env.ncpu > 0 THEN env.ncpu ELSE 1

(***************************************************************************)
(* Endpoint validation.                                                     *)
(***************************************************************************)
validate_endpoint_tls(x) ==
    LET url == x.endpoint[1]
        net == url.scheme \in {"http", "https"}
        a == url.authority
        start == IF a # << >> /\ Head(a) = "[" /\ Contains(a, "]")
                 THEN SelectInSeq(a, LAMBDA c : c = "]") + 1 ELSE 1
        idx == SelectLastInSubSeq(a, start, Len(a), LAMBDA c : c = ":")
        raw == IF idx = 0 THEN a ELSE SubSeq(a, 1, idx - 1)
        inner == IF raw # << >> /\ Head(raw) = "[" /\ Last(raw) = "]"
                 THEN SubSeq(raw, 2, Len(raw) - 1) ELSE raw
        port == SubSeq(a, idx + 1, Len(a))
    IN  /\ url.scheme \in {"unix", "http", "https"}
        /\ net => inner # << >>
        /\ net /\ idx # 0 => Len(port) = 1 /\ port[1] \in Ports \ {"0"}
        /\ (x.ssl_cert = << >>) = (x.ssl_cert_key = << >>)
        /\ url.scheme = "https" =>
             \A f \in {"trusted_cert", "ssl_cert", "ssl_cert_key"} :
               x[f] = << >> \/ x[f][1] \in Files

\* A mutant: the port is not cut off the host.
endpoint_needs_resolver_with_port(url) ==
    LET a == url.authority
        host == IF a # << >> /\ Head(a) = "["
                THEN SubSeq(Tail(a), 1, SelectInSeq(Tail(a), LAMBDA c : c = "]") - 1)
                ELSE a
    IN  url.scheme \in {"http", "https"} /\ host \notin IpHosts
endpoint_needs_resolver(url) ==
    LET a == url.authority
        close == SelectInSeq(Tail(a), LAMBDA c : c = "]")
        colon == SelectLastInSeq(a, LAMBDA c : c = ":")
        host == IF a # << >> /\ Head(a) = "["
                THEN IF close = 0 THEN Tail(a) ELSE SubSeq(Tail(a), 1, close - 1)
                ELSE IF colon # 0 /\ Range(SubSeq(a, colon + 1, Len(a))) \subseteq Digits
                THEN SubSeq(a, 1, colon - 1) ELSE a
    IN  url.scheme \in {"http", "https"} /\ host \notin IpHosts

(***************************************************************************)
(* The route table.  A location is [id, name]; a tree node has the exact    *)
(* and the inclusive location and three subtrees, each << >> or one value.  *)
(***************************************************************************)
Truncate(name, max) == SubSeq(name, 1, IF Len(name) < max THEN Len(name) ELSE max)

try_register_route(table, clcf) ==
    IF (\E i \in DOMAIN table : table[i].ptr = clcf.id) \/ Len(table) >= RouteCap
    THEN table
    ELSE Append(table, [ptr |-> clcf.id, name |-> Truncate(clcf.name, RouteNameMax)])

RECURSIVE walk_location_tree(_, _)
walk_location_tree(table, node) ==
    IF node = << >> THEN table
    ELSE LET n == node[1]
             exact == IF n.exact = << >> THEN table
                      ELSE try_register_route(table, n.exact[1])
             both == IF n.inclusive = << >> \/ n.inclusive = n.exact THEN exact
                     ELSE try_register_route(exact, n.inclusive[1])
         IN  FoldLeft(walk_location_tree, both, <<n.tree, n.left, n.right>>)

build_route_table(servers) ==
    FoldLeft(LAMBDA t, srv : walk_location_tree(t, srv.static_locations), << >>, servers)

build_upstream_table(upstreams) ==
    FoldLeft(LAMBDA t, u :
               IF \/ u.shm_zone = << >>
                  \/ \E i \in DOMAIN t : t[i].ptr = u.shm_zone[1].id
                  \/ Len(t) >= UpstreamCap
               THEN t
               ELSE Append(t, [ptr |-> u.shm_zone[1].id,
                               name |-> Truncate(u.shm_zone[1].name, UpstreamNameMax)]),
             << >>, upstreams)

\* The slot of a location or of an upstream zone; the cap is "(other)".
IndexOf(table, ptr, cap) ==
    LET i == SelectInSeq(table, LAMBDA e : e.ptr = ptr)
    IN  IF ptr = 0 \/ i = 0 THEN cap ELSE i - 1
route_idx_for_clcf(main, ptr) == IndexOf(main.route_table, ptr, RouteCap)
upstream_idx_for_zone(main, ptr) == IndexOf(main.upstream_table, ptr, UpstreamCap)
NameAt(table, idx) ==
    IF idx < Len(table) THEN table[idx + 1].name ELSE <<"(other)">>
route_name(main, idx) == NameAt(main.route_table, idx)
upstream_zone_name(main, idx) == NameAt(main.upstream_table, idx)

(***************************************************************************)
(* postconfiguration.  failing is the set of the zones and phase handlers   *)
(* nginx cannot add; any of them that is asked for ends the load.           *)
(***************************************************************************)
DEFAULT_RESOLVER_TIMEOUT_MS == 5000
wanted_zones(main) ==
    {"control", "spans"}
    \cup (IF metrics_enabled(main) THEN {"metrics"} ELSE {})
    \cup (IF main.any_log_export \/ main.error_log_enabled THEN {"logs"} ELSE {})

postconfiguration(p, env, failing) ==
    LET main == p.main
        url == main.exporter.endpoint[1]
        needs == endpoint_needs_resolver(url)
        n == n_workers_to_reserve(env)
    IN  IF ~is_configured(main) THEN p
        ELSE IF \/ ~validate_endpoint_tls(main.exporter)
                \/ needs /\ (env.resolver = << >> \/ env.resolver[1].connections = 0)
                \/ failing \cap (wanted_zones(main) \cup {"rewrite", "log"}) # {}
        THEN Reject(p)
        ELSE [p EXCEPT
                !.main.resolver = IF needs THEN env.resolver ELSE << >>,
                !.main.resolver_timeout =
                    IF ~needs THEN 0
                    ELSE IF env.resolver_timeout = UNSET_FLAG
                    THEN DEFAULT_RESOLVER_TIMEOUT_MS ELSE env.resolver_timeout,
                !.main.zones = [z \in Zones |-> IF z \in wanted_zones(main)
                                                THEN zone_size_for(z, n) ELSE 0],
                !.main.route_table = build_route_table(env.servers),
                !.main.upstream_table = build_upstream_table(env.upstreams),
                !.main.cert_table = build_cert_table(env.modules, env.servers),
                !.handlers = {"rewrite", "log"}]
=============================================================================
