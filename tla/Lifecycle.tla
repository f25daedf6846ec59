------------------------------- MODULE Lifecycle -------------------------------
(***************************************************************************)
(* The process of cmd/bot/main.go: what run() sets up and in which order,  *)
(* the goroutine that cleans up rate events, the handlers, and what a      *)
(* signal does to all of them.                                             *)
(*                                                                         *)
(* run() and the cleanup goroutine receive from the same channel, stop, of *)
(* one slot.  A Go channel hands a value to the receiver that has waited   *)
(* longest; with none waiting it keeps one, and signal.Notify drops the    *)
(* rest.  telebot starts a goroutine for every update and does not wait    *)
(* for them when it is stopped.  A supervisor (docker, systemd) starts the *)
(* process again, whatever it ended with.                                  *)
(***************************************************************************)
EXTENDS Settings

CONSTANTS
    Procs,       \* goroutines of handlers
    Given,       \* what the administrator may have set: [env, file]
    Owner,       \* the setting OWNER_ID
    Windows,     \* the settings that become windows of the rate limiter
    Retention,   \* the setting RATE_EVENT_RETENTION_DAYS
    Day          \* 24*time.Hour

ASSUME GivenAssumption ==
    \A g \in Given : g.env \in [Keys -> Raw] /\ g.file \in Seq(Entry \cup {Malformed})
ASSUME RoleAssumption ==
    /\ Owner \in Required /\ Windows \subseteq Keys /\ Retention \in Keys /\ Day \in Nat
    /\ Unit[Owner] = 1 /\ Unit[Retention] = 1

VARIABLES
    given,     \* the environment and the .env file
    cfg,       \* app.Config
    run,       \* the next call of run()
    code,      \* what run() will return: nil or an error
    exit,      \* how the process ended
    db,        \* s.db: "nil", "open", or "closed" but not yet nil
    live,      \* whether the root context is not cancelled
    poller,    \* whether updates are taken
    handler,   \* what each handler's goroutine does with the store
    cleanup,   \* what the cleanup goroutine does
    slot,      \* signals in the channel stop
    queue,     \* receivers that wait for one, the longest first: "run", "cleanup"
    cutoff,    \* age beyond which the last cleanup deleted events
    settled,   \* history: the cleanup has had a tick while run() waited
    late,      \* history: a signal came after that, or after the cleanup ended
    cut        \* history: the shutdown cut off a handler's call of the store

process == <<given, cfg, code>>
work    == <<handler, cleanup, cutoff, settled, cut>>
signals == <<slot, queue, late>>
vars    == <<process, run, exit, db, live, poller, work, signals>>

Alive == exit = "none"
At(step) == Alive /\ run = step

\* The calls of run() in their order, without those that change nothing.
Calls == <<"load", "open", "migrate", "connect", "build", "notify", "spawn", "start", "wait">>
Ending == {"stop", "cancel", "close", "done"}
Notified == code = "nil" /\ run \in {"spawn", "start", "wait", "waiting"} \cup Ending

\* The call succeeds, or run() returns by way of its deferred calls.
GoOn == run' = Calls[1 + CHOOSE i \in DOMAIN Calls : Calls[i] = run]
Continue       == GoOn /\ UNCHANGED process
Return(deferred) == run' = deferred /\ code' = "error" /\ UNCHANGED <<given, cfg>>

--------------------------------------------------------------------------------
Init ==
    /\ given \in Given
    /\ cfg = Default
    /\ run = "load" /\ code = "nil" /\ exit = "none"
    /\ db = "nil" /\ live = TRUE /\ poller = FALSE
    /\ handler = [p \in Procs |-> "idle"]
    /\ cleanup = "none" /\ cutoff = Unset
    /\ slot = 0 /\ queue = <<>>
    /\ settled = FALSE /\ late = FALSE /\ cut = FALSE

LoadConfigOrExit ==
    /\ At("load")
    /\ IF LoadFails(given.env, given.file)
       THEN exit' = "error" /\ UNCHANGED <<run, process>>
       ELSE cfg' = LoadConfig(given.env, given.file) /\ GoOn /\ UNCHANGED <<exit, given, code>>
    /\ UNCHANGED <<db, live, poller, work, signals>>

\* Open leaves nothing behind when it fails.
Open ==
    /\ At("open")
    /\ \/ exit' = "error" /\ UNCHANGED <<run, process, db>>
       \/ db' = "open" /\ Continue /\ UNCHANGED exit
    /\ UNCHANGED <<live, poller, work, signals>>

\* Slip: the deferred Close is written after Migrate.
MigrateUndeferred ==
    /\ At("migrate")
    /\ \/ exit' = "error" /\ UNCHANGED <<run, process>>
       \/ Continue /\ UNCHANGED exit
    /\ UNCHANGED <<db, live, poller, work, signals>>

Migrate ==
    /\ At("migrate")
    /\ Return("close") \/ Continue
    /\ UNCHANGED <<exit, db, live, poller, work, signals>>

\* tele.NewBot asks Telegram who the bot is.
Connect ==
    /\ At("connect")
    /\ Return("close") \/ Continue
    /\ UNCHANGED <<exit, db, live, poller, work, signals>>

\* Slip: the limiter takes its windows as they come.
BuildUnchecked ==
    /\ At("build")
    /\ Continue
    /\ UNCHANGED <<exit, db, live, poller, work, signals>>

\* The rate limiter refuses windows that are not positive.
Build ==
    /\ At("build")
    /\ IF \A w \in Windows : cfg[w] > 0 THEN Continue ELSE Return("cancel")
    /\ UNCHANGED <<exit, db, live, poller, work, signals>>

\* Until here a signal kills the process.
Notify ==
    /\ At("notify")
    /\ Continue
    /\ UNCHANGED <<exit, db, live, poller, work, signals>>

SpawnCleanup ==
    /\ At("spawn")
    /\ cleanup' = "sweep"
    /\ Continue
    /\ UNCHANGED <<exit, db, live, poller, handler, cutoff, settled, cut, signals>>

\* go b.Start() returns at once; the poller begins some time later.
Start ==
    /\ At("start")
    /\ Continue
    /\ UNCHANGED <<exit, db, live, poller, work, signals>>

Begin ==
    /\ Alive /\ run \in {"wait", "waiting", "stop"} /\ ~poller
    /\ poller' = TRUE
    /\ UNCHANGED <<process, run, exit, db, live, work, signals>>

\* <-stop finds a signal in the slot, or queues up for the next one.
Wait ==
    /\ At("wait")
    /\ \/ slot = 1 /\ run' = "stop" /\ slot' = 0 /\ UNCHANGED queue
       \/ slot = 0 /\ run' = "waiting" /\ queue' = Append(queue, "run") /\ UNCHANGED slot
    /\ UNCHANGED <<process, exit, db, live, poller, work, late>>

--------------------------------------------------------------------------------
\* Slip: the poller goes on.
StopNothing ==
    /\ At("stop")
    /\ poller
    /\ run' = "cancel"
    /\ UNCHANGED <<process, exit, db, live, poller, work, signals>>

\* b.Stop() waits for the poller to take notice, so for Start to have begun.
Stop ==
    /\ At("stop")
    /\ poller
    /\ poller' = FALSE
    /\ run' = "cancel"
    /\ UNCHANGED <<process, exit, db, live, work, signals>>

Cancel ==
    /\ At("cancel")
    /\ live' = FALSE
    /\ run' = "close"
    /\ UNCHANGED <<process, exit, db, poller, work, signals>>

\* s.db.Close(), then s.db = nil.
Close ==
    /\ At("close")
    /\ IF db = "open"
       THEN db' = "closed" /\ UNCHANGED run
       ELSE db' = "nil" /\ run' = "done"
    /\ UNCHANGED <<process, exit, live, poller, work, signals>>

Exit ==
    /\ At("done")
    /\ exit' = code
    /\ UNCHANGED <<process, run, db, live, poller, work, signals>>

RunStep ==
    \/ LoadConfigOrExit \/ Open \/ Migrate \/ Connect \/ Build \/ Notify
    \/ SpawnCleanup \/ Start \/ Wait \/ Stop \/ Cancel \/ Close \/ Exit

--------------------------------------------------------------------------------
\* DeleteRateEventsBefore(now - days*24h).  Without a store, or with a cancelled
\* context, it reports an error; see UseStore for a store that is nil.
Sweep ==
    /\ Alive /\ cleanup = "sweep"
    /\ \/ db = "nil" /\ exit' = "panic" /\ UNCHANGED <<cleanup, cutoff>>
       \/ /\ cleanup' = "select"
          /\ cutoff' \in IF db = "open" /\ live
                         THEN {cutoff, Wrap(cfg[Retention] * Day)} ELSE {cutoff}
          /\ UNCHANGED exit
    /\ UNCHANGED <<process, run, db, live, poller, handler, settled, cut, signals>>

\* select: the signal in the slot, or queue up for the next one.
Select ==
    /\ Alive /\ cleanup = "select"
    /\ \/ slot = 1 /\ cleanup' = "gone" /\ slot' = 0 /\ UNCHANGED queue
       \/ slot = 0 /\ cleanup' = "waiting" /\ queue' = Append(queue, "cleanup") /\ UNCHANGED slot
    /\ UNCHANGED <<process, run, exit, db, live, poller, handler, cutoff, settled, cut, late>>

\* Slip: the signal is awaited by a goroutine of its own, which keeps its place
\* in the queue from one round to the next.
HourInPlace ==
    /\ Alive /\ cleanup \in {"select", "waiting"}
    /\ cleanup' = "sweep"
    /\ settled' = (settled \/ run = "waiting")
    /\ UNCHANGED <<process, run, exit, db, live, poller, handler, cutoff, cut, signals>>

\* The ticker wins; the goroutine leaves the queue.
Hour ==
    /\ Alive /\ cleanup \in {"select", "waiting"}
    /\ cleanup' = "sweep"
    /\ queue' = IF run = "waiting" THEN <<"run">> ELSE <<>>
    /\ settled' = (settled \/ run = "waiting")
    /\ UNCHANGED <<process, run, exit, db, live, poller, handler, cutoff, cut, slot, late>>

--------------------------------------------------------------------------------
Receive(p) ==
    /\ Alive /\ poller /\ handler[p] = "idle"
    /\ handler' = [handler EXCEPT ![p] = "check"]
    /\ UNCHANGED <<process, run, exit, db, live, poller, cleanup, cutoff, settled, cut, signals>>

\* requireOpen.  Nothing orders its reading of s.db and Close's writing: a nil
\* may be seen late.
RequireOpen(p) ==
    /\ Alive /\ handler[p] = "check"
    /\ \/ handler' = [handler EXCEPT ![p] = "use"] /\ UNCHANGED cut
       \/ /\ db = "nil"
          /\ handler' = [handler EXCEPT ![p] = "idle"]
          /\ cut' = TRUE
    /\ UNCHANGED <<process, run, exit, db, live, poller, cleanup, cutoff, settled, signals>>

\* The statement runs, and the handler makes its next call or ends; or the
\* store is closed or the context cancelled, an error; or s.db has become nil
\* since it was checked, which ends the process.
UseStore(p) ==
    /\ Alive /\ handler[p] = "use"
    /\ \/ /\ db = "open" /\ live
          /\ \E next \in {"check", "idle"} : handler' = [handler EXCEPT ![p] = next]
          /\ UNCHANGED <<exit, cut>>
       \/ /\ db # "open" \/ ~live
          /\ handler' = [handler EXCEPT ![p] = "idle"]
          /\ cut' = TRUE
          /\ UNCHANGED exit
       \/ db = "nil" /\ exit' = "panic" /\ cut' = TRUE /\ UNCHANGED handler
    /\ UNCHANGED <<process, run, db, live, poller, cleanup, cutoff, settled, signals>>

--------------------------------------------------------------------------------
\* An interrupt or a termination.
Signal ==
    /\ Alive
    /\ IF ~Notified
       THEN exit' = "killed" /\ UNCHANGED <<run, cleanup, slot, queue>>
       ELSE /\ IF queue = <<>>
               THEN slot' = 1 /\ UNCHANGED <<run, cleanup, queue>>
               ELSE /\ queue' = Tail(queue)
                    /\ run' = IF Head(queue) = "run" THEN "stop" ELSE run
                    /\ cleanup' = IF Head(queue) = "cleanup" THEN "gone" ELSE cleanup
                    /\ UNCHANGED slot
            /\ UNCHANGED exit
    /\ late' = (late \/ settled \/ cleanup = "gone")
    /\ UNCHANGED <<process, db, live, poller, handler, cutoff, settled, cut>>

\* The supervisor starts a new process, perhaps with other settings.
Respawn ==
    /\ ~Alive
    /\ given' \in Given
    /\ cfg' = Default
    /\ run' = "load" /\ code' = "nil" /\ exit' = "none"
    /\ db' = "nil" /\ live' = TRUE /\ poller' = FALSE
    /\ handler' = [p \in Procs |-> "idle"]
    /\ cleanup' = "none" /\ cutoff' = Unset
    /\ slot' = 0 /\ queue' = <<>>
    /\ settled' = FALSE /\ late' = FALSE /\ cut' = FALSE

Next ==
    \/ RunStep \/ Begin
    \/ Sweep \/ Select \/ Hour
    \/ \E p \in Procs : Receive(p) \/ RequireOpen(p) \/ UseStore(p)
    \/ Signal \/ Respawn

\* The Go scheduler runs run() and the poller.
Fairness == WF_vars(RunStep) /\ WF_vars(Begin)
Spec     == Init /\ [][Next]_vars /\ Fairness

--------------------------------------------------------------------------------
\* A process that takes updates has an owner and windows that are positive,
\* although the product of a setting and its unit can wrap around to anything
\* (config.go:210): what LoadConfig lets through, the limiter refuses.
StartedSane ==
    poller => cfg[Owner] > 0 /\ \A w \in Windows : cfg[w] > 0

\* What is in force is what the administrator wrote, in the process environment
\* or else in the last line of the .env file, wherever the product fits; a blank
\* value there means the default.  So the cleanup spares the events that the
\* retention covers (config.go:64, main.go:76).
InForceAsWritten ==
    LET Meant(k) ==
            LET value == IF given.env[k] = Unset THEN FileValue(given.file, k) ELSE given.env[k]
            IN  IF value \in {Unset, Blank} THEN Default[k] ELSE value
    IN  /\ poller => \A k \in Keys :
                        Meant(k) * Unit[k] < Half => cfg[k] = Meant(k) * Unit[k]
        /\ cutoff # Unset /\ Meant(Retention) * Day < Half => cutoff = Meant(Retention) * Day

\* The shutdown cuts off a handler, or makes it panic on a store that is nil,
\* only once no more updates are taken: every update that arrives before is
\* handled with an open store (main.go:91, sqlite.go:59).
CutOffLast == cut \/ exit = "panic" => ~poller /\ run \in Ending /\ code = "nil"

\* A process that ends by itself has stopped the poller and closed the store it
\* opened, on every path through run() (main.go:36).
LeavesNothingOpen == exit \in {"nil", "error"} => ~poller /\ db = "nil"

\* The signal may go to the cleanup goroutine, and the process goes on.  But if
\* run() was waiting at one of its hourly rounds, or the goroutine has ended,
\* the next signal ends the process (main.go:82, main.go:89).
LateSignalStops == late ~> ~Alive
================================================================================
