----------------------------- MODULE Heartbeat -----------------------------
(***************************************************************************)
(* How a worker learns that the exporter is dead: the beat the exporter    *)
(* stamps into the control zone (exporter/mod.rs) and the check a worker   *)
(* makes when one of its rings is full (liveness.rs), over the restarts    *)
(* and reloads of CrashLoop.  One worker, which a reload may replace.  The *)
(* last beats of a predecessor that still drains after a reload are left   *)
(* out, as CrashLoop keeps one exporter process at a time.                 *)
(***************************************************************************)
EXTENDS CrashLoop

CONSTANTS HEARTBEAT_PERIOD_MS,           \* in ticks
          HEARTBEAT_STALE_THRESHOLD_MS   \* in ticks

ASSUME HeartbeatAssumption ==
    /\ HEARTBEAT_PERIOD_MS \in Nat \ {0}
    /\ HEARTBEAT_STALE_THRESHOLD_MS \in Nat
    /\ HEARTBEAT_STALE_THRESHOLD_MS >= 2 * HEARTBEAT_PERIOD_MS

Never == -1        \* last_beat_msec = 0
LATCH_UNSET == -1

VARIABLES beat_age,       \* now - last_beat_msec, or Never
          beating,        \* the exporter process has its beat timer
          successor_gen,  \* control zone
          latched_gen     \* the worker's ALERT_LATCHED_GEN

beatvars == <<beat_age, beating, successor_gen, latched_gen>>
allvars == <<vars, beatvars>>

HInit == /\ Init
         /\ beat_age = Never /\ beating = FALSE
         /\ successor_gen = 0 /\ latched_gen = LATCH_UNSET

-----------------------------------------------------------------------------
(* The exporter. *)

\* Mutant of FirstBeat: the first beat comes with the timer.
FirstBeatLater == /\ beating' \in BOOLEAN
                  /\ UNCHANGED <<beat_age, successor_gen, latched_gen>>

\* otel_exporter_cycle, step 11.5: the first beat at once, unless the timer's
\* event cannot be allocated.
FirstBeat == /\ beating' \in BOOLEAN
             /\ beat_age' = IF beating' THEN 0 ELSE beat_age
             /\ UNCHANGED <<successor_gen, latched_gen>>

EntersLoop == exporter # "running" /\ exporter' = "running"
ExporterStep ==
    /\ Start \/ BackoffEnds \/ HealthyReset \/ Crash \/ Respawn
    /\ \/ EntersLoop /\ FirstBeat
       \/ ~EntersLoop /\ UNCHANGED beatvars

heartbeat_timer_handler ==
    /\ exporter = "running" /\ beating /\ beat_age # 0
    /\ beat_age' = 0
    /\ UNCHANGED <<vars, beating, successor_gen, latched_gen>>

\* A reload announces a new generation; the beat in the zone is left as it was.
\* The new worker process starts with its latch unset.
HReload ==
    /\ Reload
    /\ successor_gen' = successor_gen + 1
    /\ latched_gen' \in {latched_gen, LATCH_UNSET}   \* the old worker may still serve
    /\ UNCHANGED <<beat_age, beating>>

\* The timer of a running event loop fires when it is due.
HTick ==
    /\ Tick
    /\ ~(exporter = "running" /\ beating /\ beat_age >= HEARTBEAT_PERIOD_MS)
    /\ beat_age' = IF beat_age = Never \/ beat_age > HEARTBEAT_STALE_THRESHOLD_MS THEN beat_age
                   ELSE beat_age + 1
    /\ UNCHANGED <<beating, successor_gen, latched_gen>>

-----------------------------------------------------------------------------
(* The worker. *)

\* Mutant of heartbeat_is_stale: the test for "never beaten" is turned round.
heartbeat_is_stale_never(age) == age = Never /\ age > HEARTBEAT_STALE_THRESHOLD_MS

heartbeat_is_stale(age) == age # Never /\ age > HEARTBEAT_STALE_THRESHOLD_MS
latch_should_alert(stale) == stale /\ latched_gen # successor_gen

\* A push was refused by a full ring: the worker looks at the beat and alerts
\* once for the generation.
check_exporter_liveness_on_drop ==
    /\ latch_should_alert(heartbeat_is_stale(beat_age))
    /\ latched_gen' = successor_gen
    /\ UNCHANGED <<vars, beat_age, beating, successor_gen>>

HNext == \/ ExporterStep \/ heartbeat_timer_handler \/ HReload \/ HTick
         \/ check_exporter_liveness_on_drop

\* As CrashLoop's fairness; the timer fires, and requests go on filling rings
\* that nobody drains.
HSpec == /\ HInit /\ [][HNext]_allvars
         /\ WF_allvars(ExporterStep /\ (Start \/ BackoffEnds \/ Respawn))
         /\ WF_allvars(HTick) /\ WF_allvars(heartbeat_timer_handler)
         /\ WF_allvars(check_exporter_liveness_on_drop)

-----------------------------------------------------------------------------
(* Properties *)

\* A worker's alert is never about an exporter that is up: while a process that
\* has its beat timer runs its loop, no ring-full drop finds the beat stale,
\* however long its predecessor was dead before it.
NoFalseAlert ==
    [][latched_gen' = successor_gen /\ latched_gen # successor_gen
          => ~(exporter = "running" /\ beating)]_allvars

\* A death is not silent: once the guard has disabled an exporter that beat
\* before, every worker that goes on dropping records has alerted for the
\* current generation in the end.
DeathReported ==
    <>[](exporter = "disabled" /\ beat_age # Never) => <>[](latched_gen = successor_gen)
=============================================================================
