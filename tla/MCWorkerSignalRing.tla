------------------------- MODULE MCWorkerSignalRing -------------------------
(* Small instances of the ring: a 12-byte payload, so that two or three    *)
(* records fill it and the length prefix itself wraps around the end.      *)
EXTENDS WorkerSignalRing

CONSTANTS w1, w2, e1, e2

MCRecords == {<< >>, <<7>>, <<1, 2, 3>>}
OneWorker == {w1}
TwoWorkers == {w1, w2}
OneExporter == {e1}
TwoExporters == {e1, e2}
=============================================================================
