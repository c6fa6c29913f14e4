------------------------------ MODULE TraceContext ------------------------------
(***************************************************************************)
(* The parts of span start that do not depend on the request's life: the    *)
(* worker's random number generator, the ids drawn from it, the traceparent *)
(* header, and the list of request headers it is read from and put into.    *)
(*                                                                          *)
(* An id is a number, 0 the id of all zeros.  A drawn word is 0 or not; what *)
(* is not zero becomes the next unused number, for two draws never coincide  *)
(* in practice.  A traceparent value keeps what its parser looks at.         *)
(***************************************************************************)
EXTENDS Integers, Sequences

ZeroId == 0
MAX_ID_RETRIES == 3

(* What the worker keeps: is the generator seeded, is tracing off.  Seeding  *)
(* in init_process decides both.                                             *)
UnseededRng == [seeded |-> FALSE, disabled |-> FALSE]
eager_seed_drbg(rng, os) ==
    IF rng.disabled \/ rng.seeded THEN rng
    ELSE IF os THEN [rng EXCEPT !.seeded = TRUE] ELSE [rng EXCEPT !.disabled = TRUE]

(* The words a draw may give, each with the generator it leaves.  Without a  *)
(* seed it tries to get one; when that fails it turns tracing off and        *)
(* answers 0.                                                                *)
drbg64(rng) ==
    LET seeded == [rng EXCEPT !.seeded = TRUE]
        words == {[zero |-> z, rng |-> seeded] : z \in BOOLEAN}
    IN  IF rng.seeded THEN words
        ELSE words \cup {[zero |-> TRUE, rng |-> [rng EXCEPT !.disabled = TRUE]]}

(* One more attempt for the draws that gave only zeros so far. *)
Redraw(draws, words) ==
    LET again(ds) == UNION {{[zero |-> d.zero /\ e.zero, rng |-> e.rng] : e \in drbg64(d.rng)}
                                : d \in ds}
        zeros == {d \in draws : d.zero}
    IN  (draws \ zeros) \cup (IF words = 1 THEN again(zeros) ELSE again(again(zeros)))

GenerateId(rng, words) ==
    LET draws == Redraw(Redraw(Redraw({[zero |-> TRUE, rng |-> rng]}, words), words), words)
    IN  {[ok |-> ~d.zero, rng |-> IF d.zero THEN [d.rng EXCEPT !.disabled = TRUE] ELSE d.rng]
             : d \in draws}
gen_trace_id(rng) == GenerateId(rng, 2)
gen_span_id(rng) == GenerateId(rng, 1)

-----------------------------------------------------------------------------
(* A traceparent value: its length, whether the version is 00, the dashes    *)
(* are in place and every digit is a lower-case hex digit, and the fields.   *)

build_traceparent_value(trace_id, span_id, flags) ==
    [len |-> 55, v00 |-> TRUE, lower |-> TRUE, trace_id |-> trace_id,
     span_id |-> span_id, flags |-> flags % 256]

parse_traceparent_full(h) ==
    IF /\ h.len = 55 /\ h.v00 /\ h.lower
       /\ h.trace_id # ZeroId /\ h.span_id # ZeroId
    THEN <<h>> ELSE << >>

(* Headers are a sequence of [name, value]; a traceparent in any letter case *)
(* is one, and nginx keeps repeated headers.                                 *)
find_header_in(headers, name) ==
    LET at == {i \in DOMAIN headers : headers[i].name = name}
    IN  IF at = {} THEN 0 ELSE CHOOSE i \in at : \A j \in at : i <= j

(* Reading looks at the first traceparent only. *)
Extract(headers) ==
    LET i == find_header_in(headers, "traceparent")
    IN  IF i = 0 THEN << >> ELSE parse_traceparent_full(headers[i].value)

(* A plausible bug: a header is pushed whether or not there is one. *)
inject_traceparent_always(headers, value, alloc) ==
    IF alloc THEN Append(headers, [name |-> "traceparent", value |-> value]) ELSE headers

(* The first traceparent is overwritten, in its own buffer if it is 55 bytes *)
(* long; without one a header is pushed.  alloc is whether the pool has      *)
(* memory left for what the call allocates.                                  *)
inject_traceparent_header(headers, value, alloc) ==
    LET i == find_header_in(headers, "traceparent")
    IN  IF i = 0
        THEN IF alloc THEN Append(headers, [name |-> "traceparent", value |-> value])
             ELSE headers
        ELSE IF headers[i].value.len = 55 \/ alloc
        THEN [headers EXCEPT ![i].value = value]
        ELSE headers
=============================================================================
