----------------------------- MODULE CrashLoop -----------------------------
(***************************************************************************)
(* The crash-loop guard of the exporter process: the counter and window in *)
(* the control zone that otel_exporter_cycle (exporter/mod.rs) keeps over  *)
(* restarts, the healthy reset in periodic_tick (drain/mod.rs), and the    *)
(* reset at a reload (control_shm_zone_init).  One exporter process at a   *)
(* time; nginx forks it again after a crash, and never after exit(2).      *)
(*                                                                         *)
(* Time is counted in ticks and kept as ages (now - then), saturated where *)
(* the code no longer tells values apart.                                  *)
(***************************************************************************)
EXTENDS Integers, FiniteSetsExt

CONSTANTS CRASH_WINDOW_SECS,      \* in ticks
          MAX_CRASH_RESTARTS,
          CRASH_BACKOFF_BASE_MS,  \* in ticks
          CRASH_BACKOFF_CAP_MS,   \* in ticks
          MaxReloads              \* bound: reloads

ASSUME CrashLoopAssumption ==
    /\ CRASH_WINDOW_SECS \in Nat \ {0} /\ MAX_CRASH_RESTARTS \in Nat \ {0}
    /\ CRASH_BACKOFF_BASE_MS \in Nat /\ CRASH_BACKOFF_CAP_MS \in Nat
    /\ MaxReloads \in Nat

Unset == -1   \* window_start_unix = 0

VARIABLES crash_count,  \* control zone
          window_age,   \* now - window_start_unix, or Unset
          exporter,     \* "forked", "backoff", "running", "crashed" or "disabled"
          sleep,        \* remaining backoff
          uptime,       \* now - healthy_since_ns
          crash_counter_reset,
          starts,       \* history: starts[a] inits were let through a ticks ago
          healthy,      \* history: the last run reached its healthy reset
          reloads       \* reloads so far (for MaxReloads)

vars == <<crash_count, window_age, exporter, sleep, uptime, crash_counter_reset, starts,
          healthy, reloads>>

Ages == 0..CRASH_WINDOW_SECS
NoStarts == [a \in Ages |-> 0]
RecentStarts == MapThenSumSet(LAMBDA a : starts[a], Ages)

\* Saturated past the window: `now - window > CRASH_WINDOW_SECS` stays true.
Older(age) == IF age = Unset \/ age > CRASH_WINDOW_SECS THEN age ELSE age + 1

-----------------------------------------------------------------------------

\* crash_backoff_ms: min(BASE << min(count - 1, 31), CAP), 0 for a first start.
crash_backoff_ms(count) ==
    IF count <= 1 THEN 0
    ELSE LET shift == Min({count - 1, 31})
         IN  Min({CRASH_BACKOFF_BASE_MS * 2^shift, CRASH_BACKOFF_CAP_MS})

\* Mutant of WindowOver: the comparison is turned round.
WindowInverted == window_age = Unset \/ window_age <= CRASH_WINDOW_SECS

\* The counting window is not set, or has passed.
WindowOver == window_age = Unset \/ window_age > CRASH_WINDOW_SECS

\* Init goes on: the export loop starts.
EnterLoop == /\ exporter' = "running"
             /\ uptime' = 0
             /\ crash_counter_reset' = FALSE

\* Mutant of Start: the counter may pass the maximum without self-disabling.
StartAlways ==
    /\ exporter = "forked"
    /\ LET count == (IF WindowOver THEN 0 ELSE crash_count) + 1
       IN  /\ crash_count' = Min({count, MAX_CRASH_RESTARTS})
           /\ starts' = [starts EXCEPT ![0] = @ + 1]
           /\ exporter' = "backoff"
           /\ sleep' = crash_backoff_ms(count)
           /\ UNCHANGED <<uptime, crash_counter_reset>>
    /\ window_age' = IF WindowOver THEN 0 ELSE window_age
    /\ UNCHANGED <<healthy, reloads>>

\* otel_exporter_cycle, step 1: open a window if none is open, count this start,
\* exit(2) past the maximum, back off from the second start of the window on.
Start ==
    /\ exporter = "forked"
    /\ LET count == (IF WindowOver THEN 0 ELSE crash_count) + 1
       IN  /\ crash_count' = count
           /\ sleep' = IF count > MAX_CRASH_RESTARTS THEN 0 ELSE crash_backoff_ms(count)
           /\ \/ /\ count > MAX_CRASH_RESTARTS
                 /\ exporter' = "disabled"
                 /\ UNCHANGED <<starts, uptime, crash_counter_reset>>
              \/ /\ 1 < count /\ count <= MAX_CRASH_RESTARTS
                 /\ exporter' = "backoff"
                 /\ starts' = [starts EXCEPT ![0] = @ + 1]
                 /\ UNCHANGED <<uptime, crash_counter_reset>>
              \/ /\ count = 1
                 /\ EnterLoop
                 /\ starts' = [starts EXCEPT ![0] = @ + 1]
    /\ window_age' = IF WindowOver THEN 0 ELSE window_age
    /\ UNCHANGED <<healthy, reloads>>

BackoffEnds ==
    /\ exporter = "backoff" /\ sleep = 0
    /\ EnterLoop
    /\ UNCHANGED <<crash_count, window_age, sleep, starts, healthy, reloads>>

\* Mutant of HealthyReset: only the process's own flag is set.
HealthyResetLocal ==
    /\ exporter = "running" /\ ~crash_counter_reset /\ uptime >= CRASH_WINDOW_SECS
    /\ crash_counter_reset' = TRUE /\ healthy' = TRUE
    /\ UNCHANGED <<crash_count, window_age, exporter, sleep, uptime, starts, reloads>>

\* periodic_tick: a loop that ran for a whole window clears the counter, once.
HealthyReset ==
    /\ exporter = "running" /\ ~crash_counter_reset /\ uptime >= CRASH_WINDOW_SECS
    /\ crash_count' = 0 /\ window_age' = Unset
    /\ crash_counter_reset' = TRUE /\ healthy' = TRUE
    /\ UNCHANGED <<exporter, sleep, uptime, starts, reloads>>

\* external: the process dies; its statics die with it.
Crash ==
    /\ exporter = "running"
    /\ exporter' = "crashed"
    /\ healthy' = crash_counter_reset
    /\ UNCHANGED <<crash_count, window_age, sleep, uptime, crash_counter_reset, starts, reloads>>

\* external: ngx_reap_children forks it again.
Respawn ==
    /\ exporter = "crashed"
    /\ exporter' = "forked"
    /\ UNCHANGED <<crash_count, window_age, sleep, uptime, crash_counter_reset, starts, healthy,
                   reloads>>

\* SIGHUP: control_shm_zone_init clears the counter of the reused zone and a new
\* exporter is forked; the budget of restarts begins again.
Reload ==
    /\ reloads < MaxReloads
    /\ reloads' = reloads + 1
    /\ crash_count' = 0 /\ window_age' = Unset
    /\ exporter' = "forked" /\ sleep' = 0
    /\ starts' = NoStarts /\ healthy' = FALSE
    /\ UNCHANGED <<uptime, crash_counter_reset>>

\* Time passes; init and the fork take less than a tick, a backoff ends when due.
Tick ==
    /\ exporter \notin {"forked", "crashed"}
    /\ ~(exporter = "backoff" /\ sleep = 0)
    /\ window_age' = Older(window_age)
    /\ sleep' = IF sleep > 0 THEN sleep - 1 ELSE 0
    /\ uptime' = IF exporter = "running" /\ uptime < CRASH_WINDOW_SECS THEN uptime + 1 ELSE uptime
    /\ starts' = [a \in Ages |-> IF a = 0 THEN 0 ELSE starts[a - 1]]
    /\ UNCHANGED <<crash_count, exporter, crash_counter_reset, healthy, reloads>>

Init ==
    /\ crash_count = 0 /\ window_age = Unset
    /\ exporter = "forked" /\ sleep = 0 /\ uptime = 0 /\ crash_counter_reset = FALSE
    /\ starts = NoStarts /\ healthy = FALSE /\ reloads = 0

Next == Start \/ BackoffEnds \/ HealthyReset \/ Crash \/ Respawn \/ Reload \/ Tick

Spec == Init /\ [][Next]_vars

-----------------------------------------------------------------------------
(* Properties                                                              *)

\* Type invariant; the counter stays within one of the maximum.
TypeOK ==
    /\ crash_count \in 0..(MAX_CRASH_RESTARTS + 1)
    /\ window_age \in Unset..(CRASH_WINDOW_SECS + 1)
    /\ exporter \in {"forked", "backoff", "running", "crashed", "disabled"}
    /\ sleep \in 0..CRASH_BACKOFF_CAP_MS /\ uptime \in Ages
    /\ crash_counter_reset \in BOOLEAN /\ healthy \in BOOLEAN
    /\ starts \in [Ages -> Nat] /\ reloads \in 0..MaxReloads

\* A crashing exporter does not keep the master forking: no stretch as long as
\* the window holds more than twice the maximum of inits that went through,
\* wherever the fixed counting windows fall in it.
StartsBounded == RecentStarts <= 2 * MAX_CRASH_RESTARTS

\* A crash after a healthy run is not held against the exporter: the next start
\* neither backs off nor self-disables.
HealthyRunForgiven == [][healthy /\ Start => exporter' = "running"]_vars

\* Runs so short that, backoffs included, the starts a window allows fit into it.
ShortRun ==
    exporter = "running" =>
        (uptime + CRASH_BACKOFF_CAP_MS) * MAX_CRASH_RESTARTS <= CRASH_WINDOW_SECS

\* An exporter that crashes soon after every start is disabled in the end, and
\* is not forked again: no window boundary lets the crash loop go on for ever.
EventuallyDisabled == []ShortRun => <>[](exporter = "disabled")
=============================================================================
