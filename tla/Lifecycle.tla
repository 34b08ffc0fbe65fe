------------------------------- MODULE Lifecycle ------------------------------
(***************************************************************************)
(* The life of one process: bin/workmill.ts and main.ts (start, stop and the   *)
(* signal handlers), config/config.ts (what it starts with), db/migrate.ts     *)
(* and runner/schedule.ts (the sweep over the tenants).  A tenant's tick is     *)
(* Runner.tla's business: here it ends, well or with an error.  The service    *)
(* manager, the signals and the other instances of a deployment are external.  *)
(***************************************************************************)
EXTENDS Naturals, Sequences, FiniteSets

CONSTANTS
  Tenants,      \* the rows of `tenants`, oldest first
  Migrations,   \* how many migration files the build carries
  Files,        \* what workmill.yaml may say: setting -> "good" or "bad", or Missing
  Envs,         \* what the environment may say: setting -> "good", "bad" or "blank"
  Missing       \* no file

ASSUME MigrationAssumption == Migrations \in Nat

VARIABLES
  file, env,    \* the configuration outside
  applied,      \* schema_migrations: versions recorded, each once
  proc,         \* "down", "migrating", "binding", "up"
  seen,         \* versions this start read as applied
  armed,        \* signals whose once-handler is still installed
  stage,        \* of stop(): "none", "runner", "server", "log", "engine"
  sweeping,     \* sweeps in flight
  queue,        \* tenants the sweep has still to tick, <<>> between sweeps
  exit          \* how the process ended, "runs" while it does

procVars == <<file, env, applied, proc, seen, armed, stage, sweeping, queue, exit>>

Signals == {"SIGTERM", "SIGINT"}

-----------------------------------------------------------------------------
\* The configuration.

Known == {"server.port", "database.url", "gateway.baseUrl", "runner.enabled",
          "ops.logPath"}
EnvOnly == {"ops.operatorToken"}     \* a secret: refused in the file

Says(from, s) == IF s \in DOMAIN from THEN from[s] ELSE "absent"
Text(s) == IF Says(env, s) = "blank" THEN "absent" ELSE Says(env, s)

\* The environment decides where it says anything, and the file is then not even
\* checked; a default stands where neither does.
Setting(s) ==
  IF Text(s) # "absent" THEN Text(s)
  ELSE IF file = Missing \/ s \in EnvOnly THEN "absent" ELSE Says(file, s)

\* An unknown key, a secret in the file, or a value that cannot be read.
ConfigRefused ==
  \/ file # Missing /\ DOMAIN file \ Known # {}
  \/ \E s \in Known \cup EnvOnly : Setting(s) = "bad"
  \/ file = Missing /\ Says(env, "config") = "good"

-----------------------------------------------------------------------------
ProcInit ==
  /\ file \in Files /\ env \in Envs
  /\ applied \in 0..Migrations
  /\ proc = "down" /\ exit = "never ran"
  /\ seen = 0 /\ armed = {} /\ stage = "none"
  /\ sweeping = 0 /\ queue = <<>>

Config == <<file, env>>

Ends(how) ==
  /\ proc' = "down" /\ exit' = how
  /\ armed' = {} /\ stage' = "none" /\ sweeping' = 0 /\ queue' = <<>> /\ seen' = 0

\* loadConfig, then the engine opens and the recorded versions are read.
Start ==
  /\ proc = "down"
  /\ \/ /\ ConfigRefused
        /\ Ends("failed to start")
     \/ /\ ~ConfigRefused
        /\ proc' = "migrating" /\ seen' = applied /\ exit' = "runs"
        /\ UNCHANGED <<armed, stage, sweeping, queue>>
  /\ UNCHANGED <<Config, applied>>

\* One migration and its record, in one transaction; a version another instance
\* recorded since is refused by the primary key and fails the start.
Migrate ==
  /\ proc = "migrating" /\ seen < Migrations
  /\ \/ /\ applied = seen
        /\ applied' = applied + 1 /\ seen' = seen + 1
        /\ UNCHANGED <<proc, armed, stage, sweeping, queue, exit>>
     \/ /\ applied > seen
        /\ Ends("failed to start")
        /\ UNCHANGED applied
  /\ UNCHANGED Config

\* Another instance of the server, or a command-line tool (bin/support.ts), which
\* migrates whatever it was called for.
OtherInstanceMigrates ==
  /\ applied < Migrations
  /\ applied' = applied + 1
  /\ UNCHANGED <<Config, proc, seen, armed, stage, sweeping, queue, exit>>

\* As if the migrations were started and not awaited.
NotAwaited == TRUE
Migrated == seen = Migrations

Bind ==
  /\ proc = "migrating" /\ Migrated
  /\ proc' = "binding"
  /\ UNCHANGED <<Config, applied, seen, armed, stage, sweeping, queue, exit>>

\* listen() resolves: the loop starts and the handlers are installed; or the port
\* is taken and what was opened is closed again.
Listening ==
  /\ proc = "binding"
  /\ proc' = "up" /\ armed' = Signals
  /\ UNCHANGED <<Config, applied, seen, stage, sweeping, queue, exit>>

PortTaken ==
  /\ proc = "binding"
  /\ Ends("failed to start")
  /\ UNCHANGED <<Config, applied>>

-----------------------------------------------------------------------------
\* The sweep.

\* The timer: one sweep at a time, none once stop() was called; the tenants are
\* read, or the read fails and the sweep with it, which is swallowed.
Tick(listed) ==
  /\ proc = "up" /\ Setting("runner.enabled") # "off"
  /\ stage = "none" /\ sweeping = 0
  /\ IF listed /\ Tenants # <<>>
     THEN sweeping' = sweeping + 1 /\ queue' = Tenants
     ELSE UNCHANGED <<sweeping, queue>>
  /\ UNCHANGED <<Config, applied, proc, seen, armed, stage, exit>>

TickReads == Tick(TRUE)
TickFindsNoDatabase == Tick(FALSE)

\* As if an error of one tenant's tick ended the sweep.
RestAfterErrorDropped(ok) == IF ok THEN Tail(queue) ELSE <<>>

\* One tenant's error is reported and the sweep goes on to the next.
RestAfter(ok) == Tail(queue)

\* As if `busy` were reset only after a sweep without errors.
SweepsAfterClean(ok) == IF ok /\ RestAfter(ok) = <<>> THEN sweeping - 1 ELSE sweeping
SweepsAfter(ok) == IF RestAfter(ok) = <<>> THEN sweeping - 1 ELSE sweeping

TickEnds(t, ok) ==
  /\ sweeping > 0 /\ queue # <<>> /\ Head(queue) = t
  /\ queue' = RestAfter(ok)
  /\ sweeping' = SweepsAfter(ok)
  /\ UNCHANGED <<Config, applied, proc, seen, armed, stage, exit>>

-----------------------------------------------------------------------------
\* The end.  `drained` is what the server waits for: no live connection.

\* The first of the two signals begins to stop; the other one finds stop() called,
\* which returns at once, and exits; a signal whose handler has run kills.
Signal(s) ==
  /\ proc = "up"
  /\ IF s \in armed /\ stage = "none"
     THEN /\ stage' = "runner" /\ armed' = armed \ {s}
          /\ UNCHANGED <<proc, seen, sweeping, queue, exit>>
     ELSE Ends(IF s \in armed THEN "exit 0, second signal" ELSE "killed")
  /\ UNCHANGED <<Config, applied>>

Crash ==
  /\ proc # "down"
  /\ Ends("killed")
  /\ UNCHANGED <<Config, applied>>

StageAfter == [runner |-> "server", server |-> "log", log |-> "engine"]

\* As if stop() only cleared the timer.
RunnerStoppedAtOnce == TRUE
RunnerStopped == sweeping = 0

StopStep(drained, flushed) ==
  /\ stage \in DOMAIN StageAfter
  /\ stage = "runner" => RunnerStopped
  /\ stage = "server" => drained
  /\ stage = "log" => flushed
  /\ stage' = StageAfter[stage]
  /\ UNCHANGED <<Config, applied, proc, seen, armed, sweeping, queue, exit>>

Exit ==
  /\ stage = "engine"
  /\ Ends("exit 0")
  /\ UNCHANGED <<Config, applied>>
=============================================================================
