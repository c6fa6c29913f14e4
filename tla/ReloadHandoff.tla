--------------------------- MODULE ReloadHandoff ---------------------------
(***************************************************************************)
(* Who may consume the shared rings while nginx reloads: the master        *)
(* (ngx_otel_init_module in lib.rs) and the exporters of the old and the   *)
(* new cycle (exporter/mod.rs, export_loop and periodic_tick in            *)
(* drain/mod.rs, graceful_drain).                                          *)
(*                                                                         *)
(* `pop_into` on a ring is correct for one consumer at a time              *)
(* (WorkerSignalRing).  At a reload the master bumps successor_gen in the  *)
(* control zone, forks the new exporter, starts the new workers, and only  *)
(* then tells the old processes to quit; an exporter that sees             *)
(* successor_gen above the value it started with leaves the rings to its   *)
(* successor.                                                              *)
(*                                                                         *)
(* A crashed exporter is forked again, but not for ever: the counter in    *)
(* the control zone, which the exporters of both cycles share, makes it    *)
(* give up (CrashLoop has the counter's window and backoff), and the first *)
(* exporter of a master that became a daemon is nobody's child.            *)
(***************************************************************************)
EXTENDS Integers, FiniteSets

CONSTANTS MaxReloads,    \* bound: SIGHUP reloads
          MaxCrashes,    \* bound: exporter crashes
          MaxFailures,   \* bound: forks and set-ups of an exporter that fail
          MAX_CRASH_RESTARTS

ASSUME HandoffAssumption ==
    /\ MaxReloads \in Nat /\ MaxCrashes \in Nat /\ MaxFailures \in Nat
    /\ MAX_CRASH_RESTARTS \in Nat \ {0}

Exporters == 1..(1 + MaxReloads + MaxCrashes)   \* processes, in the order of their fork
Cycles == 0..MaxReloads                         \* configuration cycles

VARIABLES successor_gen,  \* control zone
          crash_count,    \* control zone
          daemon,         \* the first exporter was forked before the master daemonized
          master,         \* where the master is in a reload
          cycle,          \* the newest cycle
          exporters,      \* per process
          crashes,        \* crashes so far (for MaxCrashes)
          failures,       \* failures so far (for MaxFailures)
          lost,           \* history: cycles whose exporter is gone for good, or had
                          \* latched before a rollback
          late            \* history: what was slower than the handoff expects: an exporter
                          \* to "start" before a reload, the old ones to leave before
                          \* the first "wake" of the new one

bounds == <<crashes, failures>>
guard == <<crash_count, daemon, lost>>
vars == <<successor_gen, guard, master, cycle, exporters, bounds, late>>

Unborn == [pc |-> "unborn", cycle |-> 0, my_gen |-> 0, abdicated |-> FALSE, quit |-> FALSE,
           has_successor |-> FALSE]
Forked(c) == [Unborn EXCEPT !.pc = "forked", !.cycle = c]

Dead(e) == [Unborn EXCEPT !.pc = "dead", !.cycle = exporters[e].cycle]
Crashed(e) == [Dead(e) EXCEPT !.pc = "crashed"]

Alive(e) == exporters[e].pc \notin {"unborn", "dead", "crashed"}
Known(e) == exporters[e].pc \notin {"unborn", "dead"}   \* to the master
Popping(e) == exporters[e].pc \in {"pop_logs", "pop_spans", "final_pop"}
NextProcess == CHOOSE e \in Exporters :
                  exporters[e].pc = "unborn" /\ \A f \in 1..(e - 1) : exporters[f].pc # "unborn"
Late(what, is) == late' = IF is THEN late \union {what} ELSE late
Fork(c) == exporters' = [exporters EXCEPT ![NextProcess] = Forked(c)]

-----------------------------------------------------------------------------
(* The master: ngx_otel_init_module on SIGHUP, then nginx's own steps      *)

\* At a reload the control zone keeps its words but the counter.
control_shm_zone_init == crash_count' = 0

\* Mutant of Announce: the announcement is left out.
AnnounceNothing ==
    /\ master = "idle" /\ cycle < MaxReloads
    /\ Late("start", \E e \in Exporters : exporters[e].pc \in {"forked", "starting"})
    /\ control_shm_zone_init
    /\ master' = "fork"
    /\ UNCHANGED <<successor_gen, daemon, lost, cycle, exporters, bounds>>

\* The new cycle maps the control zone; then announce_successor, before the fork.
Announce ==
    /\ master = "idle" /\ cycle < MaxReloads
    /\ Late("start", \E e \in Exporters : exporters[e].pc \in {"forked", "starting"})
    /\ control_shm_zone_init
    /\ successor_gen' = successor_gen + 1
    /\ master' = "fork"
    /\ UNCHANGED <<daemon, lost, cycle, exporters, bounds>>

\* spawn_exporter_for_cycle succeeds.
SpawnExporter ==
    /\ master = "fork"
    /\ Fork(cycle + 1)
    /\ cycle' = cycle + 1
    /\ master' = "start_workers"
    /\ UNCHANGED <<successor_gen, guard, bounds, late>>

\* The fork fails: rollback_successor; the old cycle goes on.
SpawnFails ==
    /\ master = "fork" /\ failures < MaxFailures
    /\ failures' = failures + 1
    /\ successor_gen' = successor_gen - 1
    /\ lost' = lost \union {c \in {cycle} : \E e \in Exporters :
                                  exporters[e].cycle = c /\ exporters[e].abdicated}
    /\ master' = "idle"
    /\ UNCHANGED <<crash_count, daemon, cycle, exporters, crashes, late>>

\* external: nginx starts the workers of the new cycle, with the same indices.
StartWorkers ==
    /\ master = "start_workers"
    /\ master' = "quit_old"
    /\ UNCHANGED <<successor_gen, guard, cycle, exporters, bounds, late>>

\* external: nginx sends NGX_CMD_QUIT to every process of an older cycle; the
\* exporter's channel handler sets ngx_quit.
QuitOld ==
    /\ master = "quit_old"
    /\ exporters' = [e \in Exporters |->
                        IF Known(e) /\ exporters[e].cycle < cycle
                        THEN [exporters[e] EXCEPT !.quit = TRUE] ELSE exporters[e]]
    /\ master' = "idle"
    /\ UNCHANGED <<successor_gen, guard, cycle, bounds, late>>

\* external: nginx -s quit.
QuitAll ==
    /\ master = "idle"
    /\ exporters' = [e \in Exporters |-> IF Known(e) THEN [exporters[e] EXCEPT !.quit = TRUE]
                                                     ELSE exporters[e]]
    /\ master' = "shutdown"
    /\ UNCHANGED <<successor_gen, guard, cycle, bounds, late>>

Master == Announce \/ SpawnExporter \/ SpawnFails \/ StartWorkers \/ QuitOld

-----------------------------------------------------------------------------
(* An exporter                                                             *)


\* successor_gen > my_gen
successor_announced(e) == successor_gen > exporters[e].my_gen

Set(e, fields) == exporters' = [exporters EXCEPT ![e] = fields]

\* otel_exporter_cycle counts this start, from 1 again when the window is over
\* or a healthy run has cleared the counter; past the maximum it exits with 2,
\* which nginx does not respawn.
OtelExporterCycle(e) ==
    /\ exporters[e].pc = "forked"
    /\ \E count \in {1, crash_count + 1} :
          /\ crash_count' = count
          /\ \/ /\ count > MAX_CRASH_RESTARTS
                /\ Set(e, Dead(e)) /\ lost' = lost \union {exporters[e].cycle}
             \/ /\ count <= MAX_CRASH_RESTARTS
                /\ Set(e, [exporters[e] EXCEPT !.pc = "starting"]) /\ UNCHANGED lost
    /\ UNCHANGED <<successor_gen, daemon, master, cycle, bounds, late>>

\* The rest of its set-up fails (privileges, an init_process, the channel):
\* exit(2), too.
SetupFails(e) ==
    /\ exporters[e].pc = "starting" /\ failures < MaxFailures
    /\ failures' = failures + 1
    /\ Set(e, Dead(e)) /\ lost' = lost \union {exporters[e].cycle}
    /\ UNCHANGED <<successor_gen, crash_count, daemon, master, cycle, crashes, late>>

\* export_loop starts: my_gen is a snapshot of successor_gen.
ExportLoopStart(e) ==
    /\ exporters[e].pc = "starting"
    /\ Set(e, [exporters[e] EXCEPT !.pc = "sleep", !.my_gen = successor_gen])
    /\ UNCHANGED <<successor_gen, guard, master, cycle, bounds, late>>

\* What the handoff's timing expects: when a new exporter first wakes (after a
\* pause of 100 ms and a chunk of 250 ms) the old ones have been told to quit
\* and have left the rings.
Settled(e) == /\ exporters[e].cycle = cycle => master \notin {"start_workers", "quit_old"}
              /\ \A f \in Exporters \ {e} :
                    exporters[f].cycle < exporters[e].cycle
                       => exporters[f].pc \notin {"pop_logs", "pop_spans"}

\* graceful_drain starts and looks for a successor, once.
Graceful(e) == [exporters[e] EXCEPT !.pc = "flush", !.has_successor = successor_announced(e)]

\* A chunk of sleep ends: quit, or the abdication latch; then the retry drain
\* of the logs lane is awaited.
Wake(e) ==
    /\ exporters[e].pc = "sleep"
    /\ Late("wake", ~Settled(e))
    /\ Set(e, IF exporters[e].quit THEN Graceful(e)
              ELSE [exporters[e] EXCEPT !.abdicated = @ \/ successor_announced(e),
                                        !.pc = "await_logs"])
    /\ UNCHANGED <<successor_gen, guard, master, cycle, bounds>>

\* The awaited send of a lane resolves: a quit that arrived meanwhile is
\* honoured, the latch is not read again; then the rings are popped.
LaneResumes(e) ==
    /\ exporters[e].pc \in {"await_logs", "await_spans"}
    /\ LET logs == exporters[e].pc = "await_logs"
       IN  Set(e, IF exporters[e].quit THEN Graceful(e)
                  ELSE IF exporters[e].abdicated
                  THEN [exporters[e] EXCEPT !.pc = IF logs THEN "await_spans" ELSE "sleep"]
                  ELSE [exporters[e] EXCEPT !.pc = IF logs THEN "pop_logs" ELSE "pop_spans"])
    /\ UNCHANGED <<successor_gen, guard, master, cycle, bounds, late>>

\* The pop is over; the fresh batch is sent (awaited) before the next lane or sleep.
PopEnds(e) ==
    /\ exporters[e].pc \in {"pop_logs", "pop_spans"}
    /\ Set(e, [exporters[e] EXCEPT !.pc = IF @ = "pop_logs" THEN "await_spans" ELSE "sleep"])
    /\ UNCHANGED <<successor_gen, guard, master, cycle, bounds, late>>

\* Mutant of FlushEnds: the rings are popped whatever has_successor says.
FlushEndsPopping(e) ==
    /\ exporters[e].pc = "flush"
    /\ Set(e, [exporters[e] EXCEPT !.pc = "final_pop"])
    /\ UNCHANGED <<successor_gen, guard, master, cycle, bounds, late>>

\* The retry queues are flushed; without a successor the rings are popped once more.
FlushEnds(e) ==
    /\ exporters[e].pc = "flush"
    /\ Set(e, IF exporters[e].has_successor THEN Dead(e) ELSE [exporters[e] EXCEPT !.pc = "final_pop"])
    /\ UNCHANGED <<successor_gen, guard, master, cycle, bounds, late>>

FinalPopEnds(e) ==
    /\ exporters[e].pc = "final_pop"
    /\ Set(e, Dead(e))
    /\ UNCHANGED <<successor_gen, guard, master, cycle, bounds, late>>

\* otel_exporter_cycle stops waiting for the drain (effective_drain_backstop) and exits.
Backstop(e) ==
    /\ Alive(e) /\ exporters[e].quit
    /\ Set(e, Dead(e))
    /\ UNCHANGED <<successor_gen, guard, master, cycle, bounds, late>>

\* external: the exporter crashes.  One that was told to quit is not missed, and
\* the death of a daemon's first exporter reaches init, not the master.
Crash(e) ==
    /\ Alive(e) /\ crashes < MaxCrashes
    /\ crashes' = crashes + 1
    /\ LET unsupervised == daemon /\ e = 1
       IN  /\ Set(e, IF exporters[e].quit \/ unsupervised THEN Dead(e) ELSE Crashed(e))
           /\ lost' = IF unsupervised THEN lost \union {exporters[e].cycle} ELSE lost
    /\ UNCHANGED <<successor_gen, crash_count, daemon, master, cycle, failures, late>>

\* external: back in its loop the master reaps it and forks it again from its own
\* cycle (NGX_PROCESS_RESPAWN, JUST_RESPAWN), unless it has told it to quit.
Respawn(e) ==
    /\ exporters[e].pc = "crashed" /\ ~exporters[e].quit /\ master = "idle"
    /\ exporters' = [exporters EXCEPT ![e] = Dead(e),
                                      ![NextProcess] = Forked(exporters[e].cycle)]
    /\ UNCHANGED <<successor_gen, guard, master, cycle, bounds, late>>

ExporterStep(e) == \/ OtelExporterCycle(e) \/ ExportLoopStart(e) \/ Wake(e)
                   \/ LaneResumes(e) \/ PopEnds(e) \/ FlushEnds(e) \/ FinalPopEnds(e)

Init ==
    /\ successor_gen = 0 /\ crash_count = 0 /\ daemon \in BOOLEAN /\ lost = {}
    /\ master = "idle" /\ cycle = 0
    /\ crashes = 0 /\ failures = 0 /\ late = {}
    /\ exporters = [e \in Exporters |-> IF e = 1 THEN Forked(0) ELSE Unborn]

Next == \/ Master \/ QuitAll
        \/ \E e \in Exporters : ExporterStep(e) \/ SetupFails(e) \/ Backstop(e)
                                 \/ Crash(e) \/ Respawn(e)

Spec == Init /\ [][Next]_vars

\* A reload under way completes, the master reaps its children, and every
\* exporter's event loop keeps running.
FairSpec == /\ Spec
            /\ WF_vars(SpawnExporter \/ StartWorkers \/ QuitOld)
            /\ \A e \in Exporters : WF_vars(ExporterStep(e)) /\ WF_vars(Respawn(e))

-----------------------------------------------------------------------------
(* Properties                                                              *)

\* Type invariant.
TypeOK ==
    /\ successor_gen \in 0..MaxReloads /\ cycle \in Cycles /\ late \subseteq {"start", "wake"}
    /\ crash_count \in 0..Cardinality(Exporters) /\ daemon \in BOOLEAN /\ lost \subseteq Cycles
    /\ crashes \in 0..MaxCrashes /\ failures \in 0..MaxFailures
    /\ master \in {"idle", "fork", "start_workers", "quit_old", "shutdown"}
    /\ exporters \in [Exporters ->
          [pc : {"unborn", "forked", "starting", "sleep", "await_logs", "pop_logs",
                 "await_spans", "pop_spans", "flush", "final_pop", "crashed", "dead"},
           cycle : Cycles, my_gen : 0..MaxReloads, abdicated : BOOLEAN, quit : BOOLEAN,
           has_successor : BOOLEAN]]

\* The processes have been as prompt as the handoff expects, and none crashed.
InTime == late = {} /\ crashes = 0

\* Doc of graceful_drain: abdication makes "the new exporter the sole ring
\* consumer"; no two exporters are ever inside pop_into (or the reset of the
\* coalescer table) at the same time, not even when each had entered its loop
\* well before the reload and none has crashed.
SoleConsumer ==
    "start" \notin late /\ crashes = 0 =>
        \A e, f \in Exporters : Popping(e) /\ Popping(f) => e = f

\* Through any sequence of reloads, failed forks and a shutdown, the latch of
\* periodic_tick and the has_successor gate of graceful_drain keep two
\* exporters from popping the rings at the same time, provided that every
\* process is as prompt as the handoff expects.
SoleConsumerInTime == InTime => SoleConsumer

HasYounger(e) == \E f \in Exporters : exporters[f].pc # "unborn" /\ exporters[f].cycle > exporters[e].cycle

\* The final drain goes to the right process: an exporter that was told to
\* quit leaves the rings alone exactly when a younger one was forked, and
\* drains them when nginx is shutting down.
DrainOwnership ==
    InTime => \A e \in Exporters :
        exporters[e].pc \in {"flush", "final_pop"} => exporters[e].has_successor = HasYounger(e)

=============================================================================
