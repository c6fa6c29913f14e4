-------------------------------- MODULE Startup --------------------------------
(***************************************************************************)
(* The life of a configuration: nginx parses the text, runs                 *)
(* postconfiguration, maps the zones and calls their init callbacks, runs   *)
(* init_module, and forks workers that write into their slots of the zones  *)
(* while the exporter reads them; a reload does it again under the workers  *)
(* of the last cycle.                                                       *)
(*                                                                         *)
(* A line of text is [name, level, args], level "block" inside              *)
(* otel_exporter{}.  A zone in memory is its size, a number that names the  *)
(* mapping, and its slots.                                                  *)
(***************************************************************************)
EXTENDS Postconfiguration

CONSTANTS
    Environments,   \* the rests of an nginx configuration
    Lines,          \* Lines[k]: the lines a text of an environment of kind k has
    MaxLines,       \* MaxLines[k]: how many it has at most
    MaxReloads, MaxRequests,
    Failures        \* sets of what nginx may fail to register

VARIABLES
    env,        \* the environment of the cycle being built, then of cur
    text,       \* the lines of it parsed so far
    block,      \* inside otel_exporter{}
    p,          \* the parse state
    phase,      \* "parse", "zones", "module", "run" or "exit"
    todo,       \* the zones whose init callback has not run
    cur,        \* << >> or the running cycle: its MainConfig and environment
    gen,        \* its number
    shm,        \* the mapped zones
    epoch,      \* runs of the metrics zone's init callback
    written,    \* requests recorded into the metrics memory now mapped
    workers,    \* the worker processes
    requests

parsing == <<env, text, block, p>>
memory == <<shm, epoch, written>>
vars == <<parsing, memory, phase, todo, cur, gen, workers, requests>>

ParseState_default ==
    [main |-> MainConfig_default, locs |-> [l \in Range(Levels) |-> LocationConf_default],
     chain |-> << >>, ok |-> TRUE, handlers |-> {}]

\* The four variables; nginx may fail to add one.
preconfiguration(q, failing) == IF "variables" \in failing THEN Reject(q) ELSE q

ZeroSlot(z) == IF z = "metrics" THEN [base |-> 0, routes |-> [i \in 0 .. RouteCap |-> {}]]
               ELSE [cap |-> 0, pending |-> 0]
Unmapped == [size |-> 0, mem |-> 0, slots |-> << >>]
RingCap(z) == IF z = "logs" THEN LogCap ELSE SpanCap

Init ==
    /\ env \in Environments
    /\ text = << >> /\ block = FALSE /\ phase = "parse" /\ todo = << >>
    /\ p = ParseState_default
    /\ cur = << >> /\ gen = 0 /\ workers = {} /\ requests = 0
    /\ shm = [z \in Zones |-> Unmapped] /\ epoch = 0 /\ written = 0

(***************************************************************************)
(* Parsing.                                                                 *)
(***************************************************************************)
CanParse == phase = "parse" /\ p.ok
KeepCycle == UNCHANGED <<memory, phase, todo, cur, gen, workers, requests>>

\* cmd_set_exporter_block, before and after the lines between the braces.
OpenBlock ==
    /\ CanParse /\ ~block
    /\ Len(SelectSeq(text, LAMBDA t : t.name = "otel_exporter")) < 2
    /\ block' = ~is_configured(p.main)
    /\ p' = IF is_configured(p.main) THEN Reject(p) ELSE p
    /\ text' = Append(text, [name |-> "otel_exporter", level |-> "http", args |-> << >>])
    /\ UNCHANGED env /\ KeepCycle

CloseBlock ==
    /\ CanParse /\ block
    /\ block' = FALSE
    /\ p' = IF is_configured(p.main) THEN p ELSE Reject(p)
    /\ UNCHANGED <<env, text>> /\ KeepCycle

Directive ==
    \E line \in Lines[env.kind] :
      /\ CanParse
      /\ Len(text) < MaxLines[env.kind]
      /\ block = (line.level = "block")
      /\ p' = IF line.level = "block"
              THEN cmd_exporter_block_handler(p, line.name, line.args)
              ELSE IF /\ line.level \in NGX_HTTP_OTEL_COMMANDS[line.name].levels
                      /\ Len(line.args) \in NGX_HTTP_OTEL_COMMANDS[line.name].nargs
              THEN ngx_conf_handler(p, line.level, line.name, line.args)
              ELSE Reject(p)
      /\ text' = Append(text, line)
      /\ UNCHANGED <<env, block>> /\ KeepCycle

\* nginx's error_log: a file with its level joins the chain.
NgxErrorLog ==
    \E level \in env.error_logs :
      /\ CanParse /\ ~block
      /\ ~ \E i \in DOMAIN p.chain : p.chain[i].owner = "file"
      /\ p' = [p EXCEPT !.chain = otel_log_insert(@, [owner |-> "file", level |-> level])]
      /\ UNCHANGED <<env, text, block>> /\ KeepCycle

\* A text that is not accepted ends the program, or the reload alone.
Refuse ==
    /\ phase = "parse" /\ ~p.ok
    /\ phase' = IF cur = << >> THEN "exit" ELSE "run"
    /\ UNCHANGED <<parsing, memory, todo, cur, gen, workers, requests>>

EndHttp ==
    \E failing \in Failures :
      /\ CanParse /\ ~block
      /\ p' = [postconfiguration(preconfiguration(p, failing), env, failing)
                 EXCEPT !.locs = LET srv == merge(p.locs["server"], p.locs["http"])
                                 IN  [p.locs EXCEPT !["server"] = srv,
                                        !["location"] = merge(p.locs["location"], srv)]]
      /\ phase' = IF p'.ok THEN "zones" ELSE "parse"
      /\ todo' = IF p'.ok THEN SelectSeq(<<"metrics", "control", "logs", "spans">>,
                                         LAMBDA z : p'.main.zones[z] # 0)
                 ELSE << >>
      /\ UNCHANGED <<env, text, block, memory, cur, gen, workers, requests>>

(***************************************************************************)
(* The zones.  nginx keeps the memory of a zone whose size is the same, and *)
(* hands the callback what the last cycle left there.                       *)
(***************************************************************************)
wp_from_cycle(e) == e.wp
n_init(slots, e) ==
    LET n == IF wp_from_cycle(e) < Len(slots) THEN wp_from_cycle(e) ELSE Len(slots)
    IN  IF n > 1 THEN n ELSE 1

\* A mutant: the slots no worker of the new cycle uses keep their counts.
zero_route_upstream_histograms_active(slots, e) ==
    [i \in DOMAIN slots |->
       IF i <= n_init(slots, e) THEN [slots[i] EXCEPT !.routes = ZeroSlot("metrics").routes]
       ELSE slots[i]]
zero_route_upstream_histograms(slots, e) ==
    [i \in DOMAIN slots |-> [slots[i] EXCEPT !.routes = ZeroSlot("metrics").routes]]

otel_shm_zone_init(slots, old, e) ==
    IF old THEN zero_route_upstream_histograms(slots, e)
    ELSE [i \in DOMAIN slots |-> IF i <= n_init(slots, e) THEN ZeroSlot("metrics")
                                 ELSE slots[i]]

logs_shm_zone_init(slots, old, e) ==
    [i \in DOMAIN slots |->
       IF i > n_init(slots, e) THEN slots[i]
       ELSE [(IF old THEN slots[i] ELSE ZeroSlot("logs")) EXCEPT !.cap = LogCap]]

spans_shm_zone_init(slots, old, e) ==
    [i \in DOMAIN slots |->
       IF i > n_init(slots, e) THEN slots[i]
       ELSE [(IF old THEN slots[i] ELSE ZeroSlot("spans")) EXCEPT !.cap = SpanCap]]

InitZone ==
    /\ phase = "zones" /\ todo # << >>
    /\ LET z == Head(todo)
           size == p.main.zones[z]
           old == shm[z].size = size
           fresh == [i \in 1 .. (IF z = "control" THEN 0
                                 ELSE n_workers_from_zone_size(z, size)) |-> ZeroSlot(z)]
           slots == IF old THEN shm[z].slots ELSE fresh
           mem == IF old THEN shm[z].mem ELSE gen + 1
       IN  /\ shm' = [shm EXCEPT ![z] =
                        [size |-> size, mem |-> mem, slots |->
                           CASE z = "metrics" -> otel_shm_zone_init(slots, old, env)
                             [] z = "logs" -> logs_shm_zone_init(slots, old, env)
                             [] z = "spans" -> spans_shm_zone_init(slots, old, env)
                             [] z = "control" -> slots]]
           /\ epoch' = IF z = "metrics" THEN epoch + 1 ELSE epoch
           /\ written' = IF z = "metrics" /\ ~old THEN 0 ELSE written
    /\ todo' = Tail(todo)
    /\ UNCHANGED <<parsing, phase, cur, gen, workers, requests>>

\* The zones the new cycle did not register are gone with the old one.
FreeZones ==
    /\ phase = "zones" /\ todo = << >>
    /\ shm' = [z \in Zones |-> IF p.main.zones[z] = 0 THEN Unmapped ELSE shm[z]]
    /\ written' = IF p.main.zones["metrics"] = 0 THEN 0 ELSE written
    /\ phase' = "module"
    /\ UNCHANGED <<parsing, epoch, todo, cur, gen, workers, requests>>

\* A mutant: the count is stored whatever was reserved.
check_zone_sizing_unchecked(main, e) == <<[main EXCEPT !.n_active_workers = e.wp]>>
check_zone_sizing(main, e) ==
    LET reserved == {n_workers_from_zone_size(z, main.zones[z]) :
                       z \in {y \in {"metrics", "logs", "spans"} : main.zones[y] # 0}}
    IN  IF \E r \in reserved : e.wp > r THEN << >>
        ELSE <<[main EXCEPT !.n_active_workers = e.wp]>>

\* nginx ends at once when init_module fails, on a reload too.
ngx_otel_init_module ==
    /\ phase = "module"
    /\ LET main == IF is_configured(p.main) THEN check_zone_sizing(p.main, env)
                   ELSE <<p.main>>
       IN  IF main = << >>
           THEN phase' = "exit" /\ workers' = {} /\ UNCHANGED <<cur, gen>>
           ELSE /\ phase' = "run" /\ cur' = <<[main |-> main[1], env |-> env]>>
                /\ gen' = gen + 1 /\ UNCHANGED workers
    /\ UNCHANGED <<parsing, memory, todo, requests>>

(***************************************************************************)
(* Workers.                                                                 *)
(***************************************************************************)
ngx_otel_init_process ==
    /\ phase = "run"
    /\ \E id \in 0 .. cur[1].env.wp - 1, seeded \in BOOLEAN :
         LET main == cur[1].main
         IN  /\ ~ \E w \in workers : w.id = id /\ w.gen = gen
             /\ workers' = workers \cup
                  {[id |-> id, gen |-> gen, main |-> main,
                    locations |-> cur[1].env.locations,
                    mem |-> [z \in Zones |-> shm[z].mem],
                    wired |-> main.error_log_enabled /\ main.zones["logs"] # 0,
                    tracing |-> seeded /\ is_configured(main)]}
    /\ UNCHANGED <<parsing, memory, phase, todo, cur, gen, requests>>

WorkerExit ==
    \E w \in workers :
      /\ workers' = workers \ {w}
      /\ UNCHANGED <<parsing, memory, phase, todo, cur, gen, requests>>

\* The zone the worker writes to, as long as it is the one still mapped.
Push(zones, w, z) ==
    LET s == zones[z].slots
    IN  IF w.main.zones[z] = 0 \/ w.mem[z] # zones[z].mem \/ s[w.id + 1].cap = 0
        THEN zones
        ELSE [zones EXCEPT ![z].slots[w.id + 1].pending = 1]

RequestDone ==
    \E w \in workers : \E ptr \in w.locations :
      LET mapped == w.main.zones["metrics"] # 0 /\ w.mem["metrics"] = shm["metrics"].mem
          idx == route_idx_for_clcf(w.main, ptr)
          counted == IF ~mapped THEN shm
                     ELSE [shm EXCEPT
                             !["metrics"].slots[w.id + 1].base = @ + 1,
                             !["metrics"].slots[w.id + 1].routes[idx] =
                                @ \cup {epoch}]
          logged == IF w.wired \/ w.main.any_log_export THEN Push(counted, w, "logs")
                    ELSE counted
      IN  /\ is_configured(w.main)
          /\ w.id < min_indexed_worker_capacity(w.main)
          /\ requests < MaxRequests
          /\ requests' = requests + 1
          /\ shm' = IF w.tracing THEN Push(logged, w, "spans") ELSE logged
          /\ written' = IF mapped THEN written + 1 ELSE written
          /\ UNCHANGED <<parsing, epoch, phase, todo, cur, gen, workers>>

\* The exporter empties the rings of the active workers.
get_n_workers(main, z) ==
    IF main.n_active_workers > 0 THEN main.n_active_workers
    ELSE n_workers_from_zone_size(z, main.zones[z])
DrainRings ==
    /\ phase = "run"
    /\ \E z \in {"logs", "spans"} :
         LET n == get_n_workers(cur[1].main, z)
         IN  /\ is_configured(cur[1].main) /\ cur[1].main.zones[z] # 0
             /\ \E i \in 1 .. n : shm[z].slots[i].pending > 0
             /\ shm' = [shm EXCEPT ![z].slots =
                          [i \in DOMAIN @ |-> IF i <= n THEN [@[i] EXCEPT !.pending = 0]
                                              ELSE @[i]]]
    /\ UNCHANGED <<parsing, epoch, written, phase, todo, cur, gen, workers, requests>>

Reload ==
    /\ phase = "run" /\ gen <= MaxReloads
    /\ env' \in {e \in Environments : e.kind = env.kind /\ e.kind = "reload"}
    /\ text' = << >> /\ block' = FALSE /\ phase' = "parse"
    /\ p' = ParseState_default
    /\ UNCHANGED <<memory, todo, cur, gen, workers, requests>>

Next ==
    \/ OpenBlock \/ CloseBlock \/ Directive \/ NgxErrorLog \/ Refuse \/ EndHttp
    \/ InitZone \/ FreeZones \/ ngx_otel_init_module
    \/ ngx_otel_init_process \/ WorkerExit \/ RequestDone \/ DrainRings \/ Reload

Spec == Init /\ [][Next]_vars

-----------------------------------------------------------------------------
TypeOK ==
    /\ phase \in {"parse", "zones", "module", "run", "exit"}
    /\ block \in BOOLEAN /\ p.ok \in BOOLEAN
    /\ phase = "run" => cur # << >>
    /\ \A z \in Zones : shm[z].size # 0 /\ z # "control" =>
         Len(shm[z].slots) = n_workers_from_zone_size(z, shm[z].size)
    /\ \A w \in workers : w.gen \in 1 .. gen

Accepted == phase \in {"zones", "module"}
Declared(names, l) ==
    SelectSeq(text, LAMBDA t : t.name \in names /\ t.level = l)
Value(t) == t.args[1]


\* nginx walks the chain from its head and stops at a log of a lower level.
Reaches(chain, i, level) == \A j \in 1 .. i : chain[j].level >= level

(***************************************************************************)
(* What is accepted can be used: the host the transport will connect to is  *)
(* an address or a resolver is at hand, a location that selects requests    *)
(* for export has a logs zone to write to, and the node of otel_error_log   *)
(* gets the messages of its level and above, no other, wherever nginx's own *)
(* error_log put itself in the chain.                                       *)
(***************************************************************************)
AcceptedIsUsable ==
    Accepted =>
      /\ is_configured(p.main) =>
           LET url == p.main.exporter.endpoint[1]
               host == strip_v6_brackets(ParsedEndpoint_parse(url).host)
           IN  /\ url.scheme \in {"http", "https", "unix"}
               /\ url.scheme # "unix" => host \in IpHosts \/ p.main.resolver # << >>
               /\ host \in IpHosts => p.main.resolver = << >>
      /\ is_configured(p.main) /\ p.locs["location"].log_export_raw \in {"All", "If"}
           => p.main.zones["logs"] # 0
      /\ \A i \in DOMAIN p.chain : p.chain[i].owner = "otel" =>
           \A level \in 1 .. 8 :
             Reaches(p.chain, i, level) <=> level <= p.main.error_log_level

Leaf(c) == c.not_before # << >> /\ c.not_after # << >>

(***************************************************************************)
(* The tables built before the fork name things truly.  Two locations have  *)
(* one slot only when it is "(other)", and a slot has the name, cut to its  *)
(* length, of the location that counts there.  A certificate a server       *)
(* presents has one row; its path is one it was loaded from, or none: "a    *)
(* missing label, never a wrong one".                                       *)
(***************************************************************************)
TablesTrue ==
    Accepted /\ is_configured(p.main) =>
      /\ \A c, d \in env.clcfs :
           LET i == route_idx_for_clcf(p.main, c.id)
           IN  /\ i = route_idx_for_clcf(p.main, d.id) /\ i < RouteCap => c.id = d.id
               /\ i < RouteCap => route_name(p.main, i) = Truncate(c.name, RouteNameMax)
      /\ \A i, j \in DOMAIN env.upstreams :
           LET zi == env.upstreams[i].shm_zone
               zj == env.upstreams[j].shm_zone
               idx == IF zi = << >> THEN UpstreamCap
                      ELSE upstream_idx_for_zone(p.main, zi[1].id)
           IN  /\ idx < UpstreamCap => upstream_zone_name(p.main, idx)
                                         = Truncate(zi[1].name, UpstreamNameMax)
               /\ zj # << >> /\ idx < UpstreamCap
                  /\ idx = upstream_idx_for_zone(p.main, zj[1].id) => zi[1].id = zj[1].id
      /\ \A i \in DOMAIN env.servers :
           LET srv == env.servers[i]
               rows(der) == SelectSeq(p.main.cert_table, LAMBDA r :
                              r.der = der /\ r.server_name = pick_server_name(srv.server_names))
               ssl == srv.ssl[1]
               presented == {c \in Range(ssl.certs) :
                               ~ \E j, k \in DOMAIN ssl.certs :
                                   /\ ssl.certs[j] = c /\ k > j
                                   /\ ssl.certs[k].key = c.key /\ ssl.certs[k].der # c.der}
           IN  srv.ssl # << >> /\ find_http_ssl_ctx_index(env.modules) # 0 =>
                 \A c \in presented :
                   /\ Leaf(c) <=> Len(rows(c.der)) = 1
                   /\ Leaf(c) => \/ rows(c.der)[1].file_path = ""
                                 \/ \E j \in DOMAIN ssl.certs :
                                      /\ ssl.certs[j].der = c.der
                                      /\ ssl.paths[j].path = rows(c.der)[1].file_path

(***************************************************************************)
(* Every worker's slot exists in every zone it writes to, and the rings of  *)
(* a worker of the running cycle have been given their capacity, whatever   *)
(* the order of worker_processes and http{} and across reloads that change  *)
(* the number of workers.                                                   *)
(***************************************************************************)
SlotsInRange ==
    \A w \in workers :
      /\ is_configured(w.main) => w.id < min_indexed_worker_capacity(w.main)
      /\ \A z \in {"logs", "spans"} :
           w.main.zones[z] # 0 /\ w.mem[z] = shm[z].mem =>
             shm[z].slots[w.id + 1].cap = RingCap(z)

(***************************************************************************)
(* The counters the exporter sums over the reserved slots hold every        *)
(* request of the mapping's life, also those of slots no worker has any     *)
(* more, and a per-route count is never older than the route table.         *)
(***************************************************************************)
CountsAttributed ==
    LET slots == shm["metrics"].slots
    IN  /\ FoldLeft(LAMBDA sum, s : sum + s.base, 0, slots) = written
        /\ \A i \in DOMAIN slots : \A r \in 0 .. RouteCap :
             slots[i].routes[r] \subseteq {epoch}
=============================================================================
