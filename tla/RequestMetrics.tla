----------------------------- MODULE RequestMetrics -----------------------------
(***************************************************************************)
(* What one request adds to its worker's slot of the metrics zone, and what *)
(* the exporter makes of all slots.  A histogram is its count and its sum   *)
(* (HistogramSlot has its buckets and its races); the arrays of histograms  *)
(* hold the entries that were ever touched.                                 *)
(***************************************************************************)
EXTENDS Integers, SequencesExt, FiniteSetsExt, TLC

CONSTANT UPSTREAM_CAP       \* upstream zones with an entry of their own
ASSUME UpstreamCapAssumption == UPSTREAM_CAP \in Nat \ {0}

Methods == <<"GET", "HEAD", "POST", "PUT", "DELETE", "PATCH", "OPTIONS", "_OTHER">>
Classes == <<"1xx", "2xx", "3xx", "4xx", "5xx">>
Protos == <<"1.0", "1.1", "2", "3">>
N_COMBOS == Len(Methods) * Len(Classes) * Len(Protos)

(* The indices count from 0. *)
HttpMethod_from_bytes(m) ==
    IF \E i \in 1..7 : Methods[i] = m THEN (CHOOSE i \in 1..7 : Methods[i] = m) - 1 ELSE 7
StatusClass_from_status(s) == IF s \in 100..499 THEN (s \div 100) - 1 ELSE 4
ProtoVersion_from_ngx(v) ==
    CASE v = 1000 -> 0 [] v = 2000 -> 2 [] v = 3000 -> 3 [] OTHER -> 1
combo_index(m, c, p) == m * Len(Classes) * Len(Protos) + c * Len(Protos) + p

Zero == [count |-> 0, sum |-> 0]
None == [f \in {} |-> Zero]
Record(h, v) == [count |-> h.count + 1, sum |-> h.sum + v]
At(f, k) == IF k \in DOMAIN f THEN f[k] ELSE Zero
RecordAt(f, k, v) == (k :> Record(At(f, k), v)) @@ f

EmptySlot == [combos |-> None, routes |-> None, upstreams |-> None, sizes |-> None,
              exemplars |-> [c \in {} |-> << >>]]

(* The attempts at an upstream: attempts without a peer separate internal    *)
(* redirects; a time of -1 was not measured.                                 *)
NGX_MSEC_SENTINEL == -1
accumulate(acc, raw) ==
    IF raw = NGX_MSEC_SENTINEL THEN acc ELSE <<(IF acc = << >> THEN 0 ELSE acc[1]) + raw>>
sum_upstream_states(states) ==
    LET attempts == SelectSeq(states, LAMBDA s : s.peer)
        total(f) == FoldLeft(LAMBDA acc, s : accumulate(acc, s[f]), << >>, attempts)
        bytes(f) == <<FoldLeft(LAMBDA n, s : n + s[f], 0, attempts)>>
    IN  [response_ms |-> total("response_ms"), header_ms |-> total("header_ms"),
         connect_ms |-> total("connect_ms"), received |-> bytes("received"),
         sent |-> bytes("sent")]

upstream_idx_for_zone(zone) == IF zone < UPSTREAM_CAP THEN zone ELSE UPSTREAM_CAP

(* A plausible bug: aborted requests counted as server errors. *)
record_base_combo_aborted(slot, status, base_idx, duration) ==
    [slot EXCEPT !.combos = RecordAt(@, base_idx, duration)]

(* A request without an answer is not counted by class. *)
record_base_combo(slot, status, base_idx, duration) ==
    IF status = 0 THEN slot ELSE [slot EXCEPT !.combos = RecordAt(@, base_idx, duration)]

(* meta is read_request_meta's; upstream is << >> or <<[zone, states]>>,     *)
(* the zone << >> for an upstream without one.                               *)
record_request_metrics(slot, meta, upstream, length, duration) ==
    LET base == record_base_combo(slot, meta.status, meta.base_idx, duration)
        zones == IF upstream = << >> \/ upstream[1].zone = << >> THEN base.upstreams
                 ELSE RecordAt(base.upstreams, upstream_idx_for_zone(upstream[1].zone[1]), duration)
        own == RecordAt(RecordAt(base.sizes, "request", length), "response", meta.resp_bytes)
        sums == sum_upstream_states(upstream[1].states)
        sizes == IF upstream = << >> \/ upstream[1].states = << >> THEN own
                 ELSE FoldLeft(LAMBDA f, k : IF sums[k] = << >> THEN f
                                             ELSE RecordAt(f, k, sums[k][1]),
                               own, <<"response_ms", "header_ms", "connect_ms", "received", "sent">>)
    IN  [base EXCEPT !.routes = RecordAt(@, meta.route_idx, duration),
                     !.upstreams = zones, !.sizes = sizes]

-----------------------------------------------------------------------------
(* Collection. *)

Add(f, g) == [k \in DOMAIN f \cup DOMAIN g |->
                 [count |-> At(f, k).count + At(g, k).count, sum |-> At(f, k).sum + At(g, k).sum]]
Sum(slots, field) == FoldSet(LAMBDA w, f : Add(f, slots[w][field]), None, DOMAIN slots)
aggregate_worker_slots(slots) ==
    [combos |-> Sum(slots, "combos"), routes |-> Sum(slots, "routes"),
     upstreams |-> Sum(slots, "upstreams"), sizes |-> Sum(slots, "sizes"),
     exemplars |-> [c \in UNION {DOMAIN slots[w].exemplars : w \in DOMAIN slots} |->
                       FoldSet(LAMBDA w, s : IF c \in DOMAIN slots[w].exemplars
                                             THEN s \o slots[w].exemplars[c] ELSE s,
                               << >>, DOMAIN slots)]]

(* Collecting empties the reservoirs of exemplars. *)
ResetExemplars(slots) == [w \in DOMAIN slots |-> [slots[w] EXCEPT !.exemplars = EmptySlot.exemplars]]

(* Durations are kept in micro- or milliseconds and published in seconds, as *)
(* fractions here.                                                           *)
us_to_seconds(v) == <<v, 1000000>>
ms_to_s_hist_sum(v) == <<v, 1000>>
make_exp_dp(hist, exemplars) ==
    [count |-> hist.count, sum |-> us_to_seconds(hist.sum), exemplars |-> exemplars]
Counted(f) == {k \in DOMAIN f : f[k].count > 0}

(* One point for each combination that was counted, labelled by the names of *)
(* its three indices, with its exemplars; or all combinations in one point   *)
(* without labels or exemplars.                                              *)
build_duration_metric(agg, by_class) ==
    IF ~by_class
    THEN LET all == FoldSet(LAMBDA c, h : [count |-> h.count + agg.combos[c].count,
                                           sum |-> h.sum + agg.combos[c].sum],
                            Zero, DOMAIN agg.combos)
         IN  [l \in {<< >>} |-> make_exp_dp(all, << >>)]
    ELSE LET counted == Counted(agg.combos)
             combos == {t \in (0..7) \X (0..4) \X (0..3) :
                           combo_index(t[1], t[2], t[3]) \in counted}
             label(t) == <<Methods[t[1] + 1], Classes[t[2] + 1], Protos[t[3] + 1]>>
             point(c) == make_exp_dp(agg.combos[c], IF c \in DOMAIN agg.exemplars
                                                    THEN agg.exemplars[c] ELSE << >>)
         IN  [l \in {label(t) : t \in combos} |->
                 LET t == CHOOSE t \in combos : label(t) = l
                 IN  point(combo_index(t[1], t[2], t[3]))]

(* Points by route and by upstream zone, under the index of the name. *)
build_route_metric(agg) == [i \in Counted(agg.routes) |-> make_exp_dp(agg.routes[i], << >>)]
build_upstream_duration_metric(agg) ==
    [i \in Counted(agg.upstreams) |-> make_exp_dp(agg.upstreams[i], << >>)]

(* The sizes are published whether or not anything was counted. *)
hist_metric_with_sum(hist, sum) == [count |-> hist.count, sum |-> sum]
hist_metric(hist) == hist_metric_with_sum(hist, <<hist.sum, 1>>)

InstrumentedSource_collect(slots, by_class) ==
    LET agg == aggregate_worker_slots(slots)
        size(k) == At(agg.sizes, k)
    IN  [duration |-> build_duration_metric(agg, by_class),
         by_route |-> build_route_metric(agg),
         by_upstream |-> build_upstream_duration_metric(agg),
         bytes |-> [k \in {"request", "response", "received", "sent"} |-> hist_metric(size(k))],
         upstream |-> [k \in {"response_ms", "header_ms", "connect_ms"} |->
                          hist_metric_with_sum(size(k), ms_to_s_hist_sum(size(k).sum))]]
=============================================================================
