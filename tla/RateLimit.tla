------------------------------- MODULE RateLimit -------------------------------
(***************************************************************************)
(* The sliding-window rate limiter of internal/ratelimit/limiter.go over   *)
(* the rate_events table of internal/store/sqlite.go, with the hourly      *)
(* cleanup of cmd/bot/main.go.                                             *)
(*                                                                         *)
(* telebot runs the handler of every update in a goroutine of its own, so  *)
(* several checks of one stranger are in progress at once.  The store has  *)
(* a single connection: each store call is atomic, a check is not.  A      *)
(* check reads the clock, inserts its own event, and counts the windows    *)
(* one by one; only its own earlier insert makes it safe against another   *)
(* check that runs between two of these steps.                             *)
(*                                                                         *)
(* Time is a number of ticks.  Micro is the resolution of the timestamps   *)
(* the store writes (utcNow truncates to it); the limiter's own clock      *)
(* reading is not truncated.  The clock never goes back.                   *)
(***************************************************************************)
EXTENDS Integers, Sequences, FiniteSets

CONSTANTS
    Users,           \* strangers
    Procs,           \* handler goroutines that may run at the same time
    Windows,         \* the windows in the order Check tries them
    Micro,           \* resolution of created_at, in ticks
    Retention,       \* age at which the cleanup deletes an event
    RequestTimeout,  \* deadline of a request's context (30 s in the code)
    MaxTime,         \* bound: the clock stops here
    MaxEvents        \* bound: rows ever inserted into rate_events

Window == [duration : Nat \ {0}, max : Nat \ {0}]

ASSUME WindowsAssumption == Windows \in Seq(Window) /\ Len(Windows) > 0
ASSUME TimeAssumption    == /\ Micro \in Nat \ {0}
                            /\ Retention \in Nat \ {0}
                            /\ RequestTimeout \in Nat \ {0}
ASSUME BoundAssumption   == MaxTime \in Nat /\ MaxEvents \in Nat
ASSUME ProcsAssumption   == IsFiniteSet(Procs)

VARIABLES
    now,           \* the wall clock
    log,           \* every event ever inserted, in insertion order; the index is its id
    rows,          \* ids of the events still in rate_events
    granted,       \* ids of the message events whose check said Allowed
    limitedCount,  \* users.limited_count
    handler        \* what each goroutine is doing inside Check

vars == <<now, log, rows, granted, limitedCount, handler>>

EventType == {"message", "limited"}
Event     == [user : Users, type : EventType, at : Nat, asked : Nat]
Step      == {"add", "count", "limited", "increment"}

\* own is the id of the event the check inserted, window the next one to count.
Idle   == [step |-> "idle"]
Active == [step : Step, user : Users, asked : Nat, own : Nat, window : DOMAIN Windows]

\* Truncation of a timestamp to the store's resolution.
utcNow == now - (now % Micro)

\* The request's context has not expired: a store call still succeeds.
InTime(p) == now < handler[p].asked + RequestTimeout

At(p, s) == handler[p].step = s

--------------------------------------------------------------------------------
\* Ids among S of u's events of one type created at or after since.
EventsSince(S, u, type, since) ==
    {i \in S : log[i].user = u /\ log[i].type = type /\ log[i].at >= since}

\* Slip: created_at > since.
CountRateEventsAfter(u, type, since) ==
    Cardinality({i \in EventsSince(rows, u, type, since) : log[i].at > since})

CountRateEventsSince(u, type, since) == Cardinality(EventsSince(rows, u, type, since))

\* The limited event keeps, for the properties only, the clock reading of its check.
AddRateEvent(u, type, asked) ==
    /\ Len(log) < MaxEvents
    /\ log' = Append(log, [user |-> u, type |-> type, at |-> utcNow, asked |-> asked])
    /\ rows' = rows \cup {Len(log) + 1}

--------------------------------------------------------------------------------
Init ==
    /\ now = 0
    /\ log = <<>>
    /\ rows = {}
    /\ granted = {}
    /\ limitedCount = [u \in Users |-> 0]
    /\ handler = [p \in Procs |-> Idle]

\* A message of u reaches the limiter: Check reads its clock.
Check(p, u) ==
    /\ At(p, "idle")
    /\ handler' = [handler EXCEPT ![p] =
                     [step |-> "add", user |-> u, asked |-> now, own |-> 0, window |-> 1]]
    /\ UNCHANGED <<now, log, rows, granted, limitedCount>>

\* The message is recorded before any window is counted, allowed or not.
AddMessage(p) ==
    /\ At(p, "add") /\ InTime(p)
    /\ AddRateEvent(handler[p].user, "message", handler[p].asked)
    /\ handler' = [handler EXCEPT ![p].step = "count", ![p].own = Len(log) + 1]
    /\ UNCHANGED <<now, granted, limitedCount>>

\* The count of the window the handler is at, since its own clock reading.
WindowCount(p) ==
    CountRateEventsSince(handler[p].user, "message",
                         handler[p].asked - Windows[handler[p].window].duration)

\* Slips: the limit is one too high, or one too low.
ExceededLate(p) == WindowCount(p) > Windows[handler[p].window].max + 1

ExceededEarly(p) == WindowCount(p) >= Windows[handler[p].window].max

Exceeded(p) == WindowCount(p) > Windows[handler[p].window].max

\* The first exceeded window ends the loop.
CountExceeded(p) ==
    /\ At(p, "count") /\ InTime(p)
    /\ Exceeded(p)
    /\ handler' = [handler EXCEPT ![p].step = "limited"]
    /\ UNCHANGED <<now, log, rows, granted, limitedCount>>

\* Slip: the loop does not stop after the last window.
CountOn(p) ==
    /\ At(p, "count") /\ InTime(p)
    /\ ~ Exceeded(p)
    /\ handler' = [handler EXCEPT ![p].window = @ + 1]
    /\ UNCHANGED <<now, log, rows, granted, limitedCount>>

CountNext(p) ==
    /\ At(p, "count") /\ InTime(p)
    /\ ~ Exceeded(p)
    /\ handler[p].window < Len(Windows)
    /\ handler' = [handler EXCEPT ![p].window = @ + 1]
    /\ UNCHANGED <<now, log, rows, granted, limitedCount>>

\* The last window is within its limit: Allow returns true.
Grant(p) ==
    /\ At(p, "count") /\ InTime(p)
    /\ ~ Exceeded(p)
    /\ handler[p].window = Len(Windows)
    /\ granted' = granted \cup {handler[p].own}
    /\ handler' = [handler EXCEPT ![p] = Idle]
    /\ UNCHANGED <<now, log, rows, limitedCount>>

\* Slip: an error of the insert is ignored.
AddLimitedIgnored(p) ==
    /\ At(p, "limited")
    /\ handler' = [handler EXCEPT ![p].step = "increment"]
    /\ UNCHANGED <<now, log, rows, granted, limitedCount>>

AddLimited(p) ==
    /\ At(p, "limited") /\ InTime(p)
    /\ AddRateEvent(handler[p].user, "limited", handler[p].asked)
    /\ handler' = [handler EXCEPT ![p].step = "increment"]
    /\ UNCHANGED <<now, granted, limitedCount>>

IncrementLimitedCount(p) ==
    /\ At(p, "increment") /\ InTime(p)
    /\ limitedCount' = [limitedCount EXCEPT ![handler[p].user] = @ + 1]
    /\ handler' = [handler EXCEPT ![p] = Idle]
    /\ UNCHANGED <<now, log, rows, granted>>

\* A store call fails or the context expires: Check returns the error and
\* undoes nothing.  A call that took effect and still reported an error is
\* this action one step later.
Fail(p) ==
    /\ ~ At(p, "idle")
    /\ handler' = [handler EXCEPT ![p] = Idle]
    /\ UNCHANGED <<now, log, rows, granted, limitedCount>>

\* Slip: the cleanup keeps events for the shortest window only.
DeleteBeforeShortest ==
    /\ \E before \in 0..(now - Windows[1].duration) :
           rows' = {i \in rows : log[i].at > before}
    /\ UNCHANGED <<now, log, granted, limitedCount, handler>>

\* The hourly cleanup.  The cutoff is computed before the statement runs, so
\* it may be older than the clock says; the period is left open.
DeleteRateEventsBefore ==
    /\ \E before \in 0..(now - Retention) :
           rows' = {i \in rows : log[i].at > before}
    /\ UNCHANGED <<now, log, granted, limitedCount, handler>>

\* The process dies and starts again: the goroutines are gone, the table stays.
Restart ==
    /\ handler' = [p \in Procs |-> Idle]
    /\ UNCHANGED <<now, log, rows, granted, limitedCount>>

Tick ==
    /\ now < MaxTime
    /\ now' = now + 1
    /\ UNCHANGED <<log, rows, granted, limitedCount, handler>>

HandlerStep(p) ==
    \/ \E u \in Users : Check(p, u)
    \/ AddMessage(p)
    \/ CountExceeded(p)
    \/ CountNext(p)
    \/ Grant(p)
    \/ AddLimited(p)
    \/ IncrementLimitedCount(p)
    \/ Fail(p)

Next ==
    \/ \E p \in Procs : HandlerStep(p)
    \/ DeleteRateEventsBefore
    \/ Restart
    \/ Tick

Spec == Init /\ [][Next]_vars

--------------------------------------------------------------------------------
\* The retention covers every window and a request's life.  The configuration
\* (RATE_EVENT_RETENTION_DAYS, RATE_LIMIT_*_WINDOW) is not checked for it, so
\* it is a hypothesis of the theorems and not an assumption.
RetentionCoversWindows ==
    \A w \in DOMAIN Windows : Retention >= Windows[w].duration + RequestTimeout

TypeOK ==
    /\ now \in Nat
    /\ log \in Seq(Event)
    /\ rows \subseteq 1..Len(log)
    /\ granted \subseteq Nat
    /\ limitedCount \in [Users -> Nat]
    /\ handler \in [Procs -> Active \cup {Idle}]

\* Messages of u let through in the closed interval from..to.
GrantedBetween(u, from, to) ==
    {i \in granted : log[i].user = u /\ from <= log[i].at /\ log[i].at <= to}

\* No stranger gets more than a window's limit of messages through in any
\* interval as long as the window, however the checks interleave, fail or are
\* cut by a restart, and whatever the cleanup deletes meanwhile.  The interval
\* is one unit of the store's resolution shorter than the window: created_at
\* is truncated and the limiter's clock is not.
WindowBound ==
    \A u \in Users, w \in DOMAIN Windows, i \in granted :
        Cardinality(GrantedBetween(u, log[i].at, log[i].at + Windows[w].duration - Micro))
            <= Windows[w].max

\* Messages of u recorded up to id that a check asking at asked has to count.
Preceding(u, id, asked, w) ==
    EventsSince(1..id, u, "message", asked - Windows[w].duration)

\* Every message let through is within the first max of its own stranger in
\* the window that ends with it, counted over all events ever recorded.
GrantCounted ==
    \A i \in granted, w \in DOMAIN Windows :
        Cardinality(Preceding(log[i].user, i, log[i].asked, w)) <= Windows[w].max

\* The cleanup never takes an event that a check in progress still counts.
CleanupSparesChecks ==
    \A p \in Procs : At(p, "count") /\ InTime(p) =>
        \A w \in DOMAIN Windows :
            EventsSince(DOMAIN log, handler[p].user, "message",
                        handler[p].asked - Windows[w].duration) \subseteq rows

\* A stranger is told to slow down, and moves towards the automatic ban, only
\* for messages of his own: when the refusal is recorded some window really
\* holds more than its limit of his messages, refusals not among them.
LimitJustified ==
    \A i \in DOMAIN log : log[i].type = "limited" =>
        \E w \in DOMAIN Windows :
            Cardinality(Preceding(log[i].user, i, log[i].asked, w)) > Windows[w].max

LimitedEvents(u) == {i \in DOMAIN log : log[i].user = u /\ log[i].type = "limited"}

\* Checks that have recorded a refusal of u and have still to count it.
Incrementing(u) == {p \in Procs : At(p, "increment") /\ handler[p].user = u}

\* limited_count, which decides the automatic ban, never runs ahead of the
\* refusals on record, not even with a check that has recorded its refusal
\* and has still to count it: an error between the two writes can only make
\* it smaller.
LimitedCountBacked ==
    \A u \in Users :
        limitedCount[u] + Cardinality(Incrementing(u)) <= Cardinality(LimitedEvents(u))

\* The checks, their steps, failures and restarts, and the thinned table
\* amount to the atomic quota: what a check decides after several store calls
\* it could have decided in one look at everything ever recorded
\* (limiter.go:88-132).  The goroutines and the table are hidden.
Q == INSTANCE Quota WITH clock <- now, book <- log,
                         passed <- granted, strikes <- limitedCount
QuotaKept == Q!Spec
--------------------------------------------------------------------------------
(***************************************************************************)
(* The inductive invariant behind WindowBound and LimitJustified.          *)
(***************************************************************************)

\* An event is stamped after its check read the clock, up to the truncation.
LogTimes ==
    \A i \in DOMAIN log : /\ log[i].at <= now
                          /\ log[i].asked < log[i].at + Micro

\* Only events older than the retention have left the table.
RowsKept == \A i \in DOMAIN log \ rows : log[i].at <= now - Retention

GrantedAreMessages == \A i \in granted : i \in DOMAIN log /\ log[i].type = "message"

\* A check past its first step owns the message event it inserted.
OwnsEvent(p) ==
    /\ ~ At(p, "idle") => handler[p].asked <= now
    /\ At(p, "add") => handler[p].window = 1
    /\ handler[p].step \in Step \ {"add"} =>
         /\ handler[p].own \in DOMAIN log
         /\ log[handler[p].own].user = handler[p].user
         /\ log[handler[p].own].type = "message"
         /\ log[handler[p].own].asked = handler[p].asked

\* The windows a check has passed bound what precedes its own event.
WindowsPassed(p) ==
    At(p, "count") =>
        \A w \in 1..(handler[p].window - 1) :
            Cardinality(Preceding(handler[p].user, handler[p].own, handler[p].asked, w))
                <= Windows[w].max

\* A check about to record a refusal has seen a window over its limit.
RefusalSeen(p) ==
    At(p, "limited") =>
        \E w \in DOMAIN Windows :
            Cardinality(Preceding(handler[p].user, Len(log), handler[p].asked, w))
                > Windows[w].max

CheckInv(p) == OwnsEvent(p) /\ WindowsPassed(p) /\ RefusalSeen(p)

IndInv ==
    /\ TypeOK
    /\ LogTimes
    /\ RowsKept
    /\ GrantedAreMessages
    /\ GrantCounted
    /\ LimitJustified
    /\ \A p \in Procs : CheckInv(p)
================================================================================
