------------------------------- MODULE CertTable -------------------------------
(***************************************************************************)
(* The serving certificates: cert_table.rs, its C shim, and the gauges of   *)
(* metric_source/tls_cert.rs.  A server with TLS has the configured paths   *)
(* and the certificates nginx loaded from them, one per path; none is       *)
(* loaded when a path holds a variable.  A certificate is its encoding      *)
(* (der), its key type and its validity, << >> when unreadable.             *)
(***************************************************************************)
EXTENDS Integers, Sequences, SequencesExt

CONSTANT KeyTypes       \* OpenSSL's slots, in the order of its cursor

\* The SSL_CTX keeps, for each key type, the certificate loaded last.
ssl_ctx_slots(certs) ==
    SelectSeq([i \in DOMAIN KeyTypes |->
                 LET j == SelectLastInSeq(certs, LAMBDA c : c.key = KeyTypes[i])
                 IN  IF j = 0 THEN << >> ELSE <<certs[j]>>],
              LAMBDA slot : slot # << >>)

\* From the first slot to the last, the callback collecting each certificate.
ngx_otel_foreach_ctx_cert(certs) ==
    LET slots == ssl_ctx_slots(certs) IN [i \in DOMAIN slots |-> slots[i][1]]

ngx_otel_cert_config_index(certs, cert) ==
    SelectInSeq(certs, LAMBDA c : c.der = cert.der) - 1

path_for_cert(config_idx, paths) ==
    IF config_idx >= 0 /\ config_idx < Len(paths) THEN paths[config_idx + 1].path
    ELSE IF Len(paths) = 1 THEN paths[1].path ELSE ""

is_wildcard_name(n) == n.form \in {"empty", "wildcard", "dot", "tilde"}
pick_server_name(names) ==
    LET i == SelectInSeq(names, LAMBDA n : ~n.regex /\ ~is_wildcard_name(n))
    IN  IF i = 0 THEN "_" ELSE names[i].name

asn1_time_to_unix(t) ==
    IF t = << >> THEN << >> ELSE <<t[1].days * 86400 + t[1].secs>>

extract_cert_info(cert, file_path, server_name) ==
    LET nb == asn1_time_to_unix(cert.not_before)
        na == asn1_time_to_unix(cert.not_after)
    IN  IF nb = << >> \/ na = << >> THEN << >>
        ELSE <<[der |-> cert.der, file_path |-> file_path,
                server_name |-> server_name, not_before_unix |-> nb[1],
                not_after_unix |-> na[1]]>>

\* A mutant: paths are matched by position in the cursor's order.
collect_server_certs_by_position(table, srv) ==
    IF srv.ssl = << >> THEN table
    ELSE LET ssl == srv.ssl[1]
             enumerated == ngx_otel_foreach_ctx_cert(ssl.certs)
             info(i) == extract_cert_info(enumerated[i], path_for_cert(i - 1, ssl.paths),
                                          pick_server_name(srv.server_names))
         IN  table \o FlattenSeq([i \in DOMAIN enumerated |-> info(i)])

collect_server_certs(table, srv) ==
    IF srv.ssl = << >> THEN table
    ELSE LET ssl == srv.ssl[1]
             enumerated == ngx_otel_foreach_ctx_cert(ssl.certs)
             info(i) == extract_cert_info(
                          enumerated[i],
                          path_for_cert(ngx_otel_cert_config_index(ssl.certs, enumerated[i]),
                                        ssl.paths),
                          pick_server_name(srv.server_names))
         IN  table \o FlattenSeq([i \in DOMAIN enumerated |-> info(i)])

find_http_ssl_ctx_index(modules) ==
    SelectInSeq(modules, LAMBDA m : m.http /\ m.name = "ngx_http_ssl_module")

build_cert_table(modules, servers) ==
    IF find_http_ssl_ctx_index(modules) = 0 THEN << >>
    ELSE FoldLeft(collect_server_certs, << >>, servers)
=============================================================================
