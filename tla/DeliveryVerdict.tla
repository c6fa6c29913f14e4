---------------------------- MODULE DeliveryVerdict ----------------------------
(***************************************************************************)
(* What the exporter makes of a collector's answer.  Both adapters turn the *)
(* native status of their protocol into one DeliveryOutcome: OTLP/HTTP in   *)
(* transport/hyper_http.rs, OTLP/gRPC in transport/grpc/status_adapter.rs.  *)
(* A Retry-After value and a RetryInfo delay are records of the numbers     *)
(* they carry; the byte layout of a date is the flag wf.                    *)
(***************************************************************************)
EXTENDS Integers, Sequences, FiniteSets

CONSTANT Now            \* SystemTime::now(), in seconds since the Unix epoch

None == [none |-> TRUE]                    \* Option::None
Some(x) == [some |-> x]
IsSome(o) == o # None

\* The five verdicts of transport/mod.rs.
Accepted == [kind |-> "Accepted"]
PartialReject(n) == [kind |-> "PartialReject", rejected |-> n]
Retryable(after) == [kind |-> "Retryable", retry_after |-> after]
Permanent == [kind |-> "Permanent"]
Unauthorized == [kind |-> "Unauthorized"]

(***************************************************************************)
(* The calendar behind an HTTP-date.                                        *)
(***************************************************************************)
days_in_month(year, month) ==
    CASE month \in {1, 3, 5, 7, 8, 10, 12} -> 31
      [] month \in {4, 6, 9, 11} -> 30
      [] month = 2 -> IF year % 4 = 0 /\ (year % 100 # 0 \/ year % 400 = 0)
                      THEN 29 ELSE 28
      [] OTHER -> 0

\* A mutant: without the shift that makes March the first month.
days_from_civil_unshifted(year, month, day) ==
    LET era == year \div 400
        yoe == year - era * 400
        doy == (153 * (month - 1) + 2) \div 5 + day - 1
        doe == yoe * 365 + yoe \div 4 - yoe \div 100 + doy
    IN  IF year < 1969 THEN None ELSE Some(era * 146097 + doe - 719468)

days_from_civil(year, month, day) ==
    LET y == IF month <= 2 THEN year - 1 ELSE year
        m == IF month <= 2 THEN month + 9 ELSE month - 3
        era == y \div 400
        yoe == y - era * 400
        doy == (153 * m + 2) \div 5 + day - 1
        doe == yoe * 365 + yoe \div 4 - yoe \div 100 + doy
        days == era * 146097 + doe
    IN  IF y < 1969 \/ days < 719468 THEN None ELSE Some(days - 719468)

parse_imf_fixdate(v) ==
    IF /\ v.wf
       /\ v.month \in 1..12
       /\ v.day \in 1..days_in_month(v.year, v.month)
       /\ v.hour \in 0..23 /\ v.min \in 0..59 /\ v.sec \in 0..60
       /\ IsSome(days_from_civil(v.year, v.month, v.day))
    THEN Some(days_from_civil(v.year, v.month, v.day).some * 86400
              + v.hour * 3600 + v.min * 60 + v.sec)
    ELSE None

parse_retry_after(v) ==
    CASE v.form = "delta" -> Some(v.secs)
      [] v.form = "date" -> IF /\ IsSome(parse_imf_fixdate(v))
                               /\ parse_imf_fixdate(v).some >= Now
                            THEN Some(parse_imf_fixdate(v).some - Now)
                            ELSE None
      [] OTHER -> None                  \* absent, or neither of the two forms

(***************************************************************************)
(* OTLP/HTTP.  A body is what the protobuf decoder of its signal sees:      *)
(* [decodes, rejected], rejected the int64 of partial_success (0: absent).  *)
(***************************************************************************)
decode_partial_success_rejected(body) ==
    IF ~body.decodes \/ body.rejected < 0 THEN 0 ELSE body.rejected

map_http_status_to_outcome(status, retry_after) ==
    CASE status \in {429, 502, 503, 504} -> Retryable(retry_after)
      [] status \in {401, 403} -> Unauthorized
      [] OTHER -> Permanent

http_response_to_outcome(a) ==
    IF a.status \in 200..299
    THEN LET rejected == decode_partial_success_rejected(a.body)
         IN  IF rejected > 0 THEN PartialReject(rejected) ELSE Accepted
    ELSE map_http_status_to_outcome(a.status, parse_retry_after(a.retry))

(***************************************************************************)
(* OTLP/gRPC.  A status carries a code, the pushback trailer in             *)
(* milliseconds (or None) and the details of google.rpc.Status in order:    *)
(* "other" for another type or a RetryInfo without delay, "bad" for one     *)
(* that does not decode, "delay" with its signed milliseconds.              *)
(***************************************************************************)
proto_duration_to_std(d) == IF d > 0 THEN Some(d) ELSE None

extract_retry_info_from_details(details) ==
    LET deciding == SelectSeq(details, LAMBDA d : d.t # "other")
    IN  IF deciding = << >> \/ Head(deciding).t = "bad" THEN None
        ELSE proto_duration_to_std(Head(deciding).ms)

extract_grpc_retry_hint(st) ==
    IF IsSome(st.pushback) /\ st.pushback.some > 0
    THEN st.pushback
    ELSE extract_retry_info_from_details(st.details)

RetryableCodes == {"Cancelled", "DeadlineExceeded", "Aborted", "OutOfRange",
                   "Unavailable", "DataLoss"}

grpc_code_to_outcome(code, hint) ==
    CASE code = "Ok" -> Accepted
      [] code \in RetryableCodes -> Retryable(hint)
      [] code = "ResourceExhausted" -> IF IsSome(hint) THEN Retryable(hint)
                                       ELSE Permanent
      [] code \in {"Unauthenticated", "PermissionDenied"} -> Unauthorized
      [] OTHER -> Permanent

grpc_status_to_outcome(st) ==
    grpc_code_to_outcome(st.code, extract_grpc_retry_hint(st))

\* The Ok arm of send, send_logs and send_traces.
grpc_response_to_outcome(rejected) ==
    IF rejected > 0 THEN PartialReject(rejected) ELSE Accepted

=============================================================================
