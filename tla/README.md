# TeleRelayBot in TLA+

TeleRelayBot relays private Telegram messages of strangers to one owner and the
owner's answers back.  This directory holds TLA+ models of its core, the TLC
configurations that check them, and proofs checked by the TLA+ proof system.
Paths below are relative to `src/`; every definition that models code is listed
with its lines in `PROJECT.json` under `map`.

## 1. The system

telebot runs the handler of every update in a goroutine of its own.  The store
is SQLite behind a single connection (`SetMaxOpenConns(1)`): each store call is
atomic, a handler is not.  Every call to the store or to Telegram may fail, and
few failures undo anything.  That is where the difficulty of this code lies:
handlers of one stranger, of several strangers and of the owner interleave
between any two calls, work on copies of rows that change under them, and stop
half way.

| component | state | operations | talks to | hard behaviour | what makes it correct |
|---|---|---|---|---|---|
| Rate limiter (`internal/ratelimit/limiter.go`, `rate_events`) | `rate_events`, `users.limited_count` | `Check`: insert, count each window, record a refusal; hourly cleanup | called by intake; cleanup from `main.go` | overlapping checks of one stranger, stale clock reading, truncated timestamps, cleanup between insert and count, deadline of the request | no window lets more than its limit through; refusals are earned |
| Intake and user status (`handleStrangerText`, `handleStrangerMedia`, `refreshExpiredTemporaryBan`, `autoBanAfterLimit`, the owner's ban, mute, unmute, unban) | `users.status`, `banned_until`, `limited_count` | upsert, read, expire, gate, limit, automatic ban, owner's decisions | limiter, relay | the row is written on the strength of an earlier copy of it, by messages and by the owner | the owner's decisions stay; nothing is forwarded from someone blocked throughout; bans are earned and end |
| Relay and replies (`internal/bot/handlers.go`, `callbacks.go`, `message_mappings`) | the owner's chat, `message_mappings`, `message_count`, audit rows | send, map, copy, attach buttons, count, acknowledge; reply, quick reply, ignore | Telegram, store | partial failure at each of seven calls, crash and redelivery, answering while relaying | what is acknowledged can be answered; replies reach the author |
| Reply sessions (`owner_reply_sessions`) | one row at most, prompts in the chat | Reply button, next message, `/cancelreply`, Cancel button, expiry | store, Telegram | read, send and delete are three steps; expiry by two statements and one clock reading | a message goes through the session the owner means |
| Owner commands, buttons and keyboards (`callbacks.go`, `keyboards.go`) | `users`, `message_mappings`, keyboards in the chat, audit rows | ban with its confirmation, mute, unmute, unban, ignore, `/reply` | store, Telegram | keyboards contradict the row; order of row, audit row and keyboard | row, audit log and buttons tell the same story in the end |
| Sender throttle (`sender.go`) | token bucket | reserve a token, sleep at most 2 s, then call | every send | a burst of strangers starves the owner's replies | the rate is kept, sleepers wake in order, nobody is refused without a queue |
| Process lifecycle (`cmd/bot/main.go`) | signal channel, contexts, store | setup, cleanup loop, signals, shutdown | all | one signal slot received in two places; the store is closed under running handlers | what is opened is closed, and in which order; a signal ends the process |
| Audit log, stats, lists | `audit_logs` | insert; `/stats`, `/recent`, `/blocklist`, `/audit` | store | rows that fail to be written | rows tell of what happened |
| Configuration and .env (`internal/app/config.go`, `internal/envparser`) | `Config`, once | look up, check, multiply by a unit | lifecycle | blank variables, repeated lines, products that overflow | what is in force is what was written |
| Parsing and owner check (`parser.go`, `middleware.go`) | none | pure functions | owner's handlers | who an update comes from, which id it carries | only the owner decides |
| Media detection, formatting | none | pure functions | handlers | - | - |
| Schema, domain types, logging | - | - | - | - | - |

`PROJECT.json` lists these parts with their status under `components`, and what
is hard to test in them, at its line, under `hazards`.

## 2. Modules

Common conventions.  A goroutine `p` is a record `handler[p]` whose field `step`
names the next call it makes, the other fields being its local variables; each
store or Telegram call is one action, named after the function of the code.
Consecutive steps without a call in between are merged.  A comment that begins
with `Slip:` marks a variant of the definition that follows it, as a plausible
mistake in that code would have it: no specification uses one, and for every
property there is a slip that TLC finds to violate it (`mutants` in
`PROJECT.json`).

### Quota and RateLimit

`Quota` is the promise: a book of messages and refusals, and an atomic look at the
whole of it that lets a message pass or refuses it.  `RateLimit` is the code, and
`QuotaKept` the refinement: `log` is the book, `granted` what passed, `limitedCount`
the strikes.  `Check` reads the clock (`asked`), inserts its own event before it counts
(`AddMessage`, limiter.go:98), counts one window per step with its own insert
included (`CountExceeded`, `CountNext`, `Grant`), and on the first exceeded
window inserts a `limited` event (`AddLimited`) and increments `limited_count`.
`log` is every event ever inserted, `rows` the ids still in the table after
`DeleteRateEventsBefore`.  Timestamps are truncated to `Micro` ticks by the
store and not by the limiter's clock, so an event may be stamped before the
reading of the check that made it.  `InTime` is the 30 s deadline of the request
context; `Fail` an error of any call; `Restart` a crash.

Properties: `WindowBound` (no stranger gets more than a window's limit through in
any interval as long as the window, less one unit of truncation),
`LimitJustified` (a refusal on record is earned by the stranger's own messages),
`LimitedCountBacked` (the counter that triggers the automatic ban never runs
ahead of the refusals on record), `CleanupSparesChecks` (the cleanup takes no
event a check in progress still counts), `QuotaKept` (everything that several
overlapping, failing and interrupted checks do over a table that is thinned out
could have been done by looking at the full book in one moment).

### Intake

The stranger's row (`row`: exists, status, banned_until, limited_count) against
the handlers of his messages and the owner's decisions.  The steps are those of
`handleStrangerText`: `UpsertUser`, `GetUser` (a copy into the handler),
`RefreshExpired` / `RefreshNothing` (`refreshExpiredTemporaryBan` decides on the
copy and writes the row), the gate (`Reject`, `TooLong`, `Admit`), the limiter's
answer (`Allowed`, `Limited`), `autoBanAfterLimit` (`AutoBanNotDue`, `AutoBanRead`,
`AutoBanRuns`, `AutoBanDue`, `AutoBan`, `Record`), and `Forward`.  The owner's
`Ban`, `Mute`, `Unmute` and `Unban` make one write each (`SetUserStatus`,
`ClearBan`); note that `SetUserStatus` leaves `banned_until`.  Times are ticks
remaining, in the row and in the copies alike, which keeps the state finite
while the clock runs for ever.  `by`, `firm` and `normal` are history variables.

Properties: `DecisionStays` (a ban or mute decided while nothing else is under way
stays until the owner changes it), `ForwardedWasNormal` (a message is forwarded
only if its stranger was neither blocked nor muted at some moment since it
arrived), `EndlessBlockIsOwners` (only the owner blocks for good),
`TemporaryBanEarned`, and the liveness property `TemporaryBanEnds`.

### ReplySession

The Reply button (`PressReply`, `CreateOwnerReplySession`, `SendPrompt`), a message
or `/cancelreply` that looks for the active session (`ReadClock`, `DeleteExpired`,
`SelectSession`, `NoSession`), the message's way through it (`Refuse`, `Deliver`,
`MarkReplied`, `AuditReply`, `EndSession`) and cancellation (`CancelActive`,
`CallbackCancelReply`).  Each call ends in an `Outcome`: it took effect or not, and
it reported success or an error; an error may be reported after the call took
effect.

`chosen` is history: the mapping of the button pressed last, if no other press was on its
way and nothing has gone wrong with it; a message that arrives keeps a copy (`choice`),
unless a button is on its way.

Properties: `LatestChoice`, `CancelIsFinal`, `ExpiredStaysUnused` (which session a
message may go through, relative to the moment it was written), `RecordsBacked`
(audit rows and marks only of what went out).  `LatestChoice` has two halves: a message
goes through the session in force when it was written or one stored later; and the one in
force is for the button pressed last, as far as the code sees to that (section 4).

### Conversation and Relay

`Conversation` is the promise, with no goroutines, tables or failures: a message is shown
to the owner (`Show`), perhaps in parts, until he has it whole and can answer it
(`Complete`); it may be taken back only as long as its author has not been told that it
was relayed (`Withdraw`, `Tell`); a reply to a message goes to its author (`Reply`); and
marks and the log follow the replies (`Mark`, `Unmark`, `Log`).  `Relay` is the code.

An admitted message's way into the owner's chat (`SendRichOwner`,
`CreateMessageMapping`, `DeleteOrphan`, `CopyOwner`, `AttachKeyboard`, `SendPanel`,
`IncrementMessageCount`, `AuditForward`, `Acknowledge`), and the owner's reply,
quick reply and Ignore, which start from what is visible in the chat and may
overlap with the relaying.  `chat` is every message ever put in the owner's chat,
`visible` those not deleted; `mappings` the table, whose index is the row id.
`update` is what Telegram knows of the delivery: after a restart an update that
the poller had not confirmed comes again.

Properties: `AckedIsAnswerable` (who is told that his message was relayed can be
answered), `ButtonsMatch` (the buttons under a message belong to that message),
`CountsBacked` (counts never run ahead of what was mapped), `ReplyReachesAuthor`,
`RecordedWasReceived` (a mark or an audit row of a reply stands for one that was
received), `BlockedGetsNoReply`; and `Conversed`, the refinement, whose mapping is
`Shown`, `Open`, `Told`, `Answers` and `Answered`: what the chat, the table and the
answers say of each message, with the replies known by the message they answer.

### Commands and Moderation

`Commands` holds, as operators, the owner check, what commands and callback data
are accepted and mean, and the keyboards that produce such data.  `Moderation` runs
them: the owner presses the buttons that the messages of his chat show
(`Press`) or writes a command (`Command`), and a goroutine makes the handler's calls
in their order: the row (`SetRow`), the audit row (`Audit`), the keyboard
(`Refresh`), the confirmation (`EditPanel`); a Ban button asks first
(`handleCallbackBan`, `handleCallbackBanCancel`), Ignore loads, marks and shows
(`handleCallbackIgnore`, `MarkIgnored`, `ShowIgnored`), `/reply` reads the status and
sends (`GetTarget`, `SendUser`).  Commands and buttons arrive from senders and chats of
`Updates` and pass `ownerActionRejection` first.  Meanwhile a message is relayed: its
handler copies the status (`GetUser`), sends (`SendRichOwner`), stores the mapping
(`CreateMessageMapping`) and attaches the keyboard for the status it copied
(`AttachKeyboard`, `SendPanel`), while the owner decides and the bot bans and restores by
itself (`BotSets`) between any two of these.  The stranger may have any status to begin
with.  `chat` is what each message of the owner's chat shows; only the first has a mapping,
so only its keyboard can be refreshed.  `bans` and `refused` are history: the confirmations
whose own ban took effect, and those whose owner was told that no user was found.

Properties: `LoneDecisionSettles` (row, newest audit row and keyboard agree after a
decision that nothing interfered with), `AuditBacked` (no audit row without an
update that took effect, none twice), `RulesKept` (rows are written for the owner
only, from the private chat, and `/reply` reaches nobody who was blocked all the
time), `KeyboardWasTrue` (a keyboard may be stale but shows a status the stranger
has had since the handler of the message read it), `PanelsTrue` (a confirmation says
"banned" only of its own ban, done or refused aloud; a message is shown as ignored only if
that is on record).

### Settings and Lifecycle

`Settings` translates `config.go` and the `.env` parser for settings that are
numbers, with integers of `Width` bits: `Lookup`, `getPositiveInt`, `LoadFails`,
`LoadConfig` with its product of value and unit.  `Lifecycle` is `run()` call by call
(`LoadConfigOrExit` to `Wait`, then the deferred calls `Stop`, `Cancel`, `Close`, `Exit`),
with the way out that each call has when it fails; the cleanup goroutine (`Sweep`,
`Select`, `Hour`); handlers reduced to their use of the store (`Receive`,
`RequireOpen`, `UseStore`); `Signal`; and the supervisor (`Respawn`).  The channel of
signals is one slot and a queue of receivers, as Go has it.

Properties: `StartedSane` and `InForceAsWritten` (what the process runs with),
`CutOffLast` (handlers lose the store only once no more updates are taken),
`LeavesNothingOpen` (every way out closes what it opened), `LateSignalStops` (liveness:
although the cleanup may swallow a signal, the next one after its first hourly round
ends the process).

### Throttle

`golang.org/x/time/rate` as `sender.go` uses it: a send that finds a token goes out
(`SendAtOnce`), one that does not takes its token in advance and sleeps (`SendLater`),
unless its sleep would outlast two seconds or its request (`Refuse`); `Tick` lets a
part of a token flow in and wakes who is due.  Times are relative to now.

Properties: `RateBound`, `OneByOne`, `RefusedBehindQueue`.

### Proof modules

A component's theorems are in a module of their own, `X_proofs` for `X`: first the inductive
invariant `IndInv` with its named parts, then lemmas about what steps have in common, one
lemma per group of actions, and at the end the theorems.  Section 5 tells the arguments.

### MC modules

The `MC` modules give the constants that a `.cfg` cannot write (windows, who sends
what, settings, commands) and the symmetry: handlers are interchangeable, strangers
where no constant tells them apart.  `MCIntake` and `MCLifecycle` have none, since their
runs check liveness.

## 3. Runs

| run | what it shows | size |
|---|---|---|
| `RateLimit` | the type invariant, the four safety properties and the refinement of `Quota`, for one stranger, two overlapping checks, two windows (1 message in 2 ticks, 2 in 4), timestamps truncated to 2 ticks, cleanup, failures, restarts | 1.5 M states |
| `Intake` | the four safety properties, and `TemporaryBanEnds` under fairness, for two messages of one stranger in progress, a threshold of 2 refusals and bans of 2 ticks | 48 k |
| `IntakeBanLost` (violation) | the owner's ban is lifted or overwritten by the bot | |
| `ReplySession` | all properties with two overlapping updates of the owner, two mappings, sessions that live one tick, every kind of failure | 4.2 M |
| `ReplySessionTwice` (violation) | two quick messages go through a one-message session | |
| `RelayForward` | a text and a media message of one stranger relayed at once, store and Telegram errors with or without effect | 0.5 M |
| `RelayCrash` | a media message under errors, crashes and restarts, delivered again each time: counts, and the refinement of `Conversation` (which has `AckedIsAnswerable` in it: what was told stays whole and answerable) | 0.8 M |
| `RelayReply` | two strangers' messages answered, quick-replied to and ignored while they are relayed, sends fail, strangers are blocked and unblocked | 3.6 M |
| `Moderation` | two overlapping buttons or commands out of three, from the owner, from a group and from someone else, with failing calls and the bot's own bans, while a message is relayed from the reading of its author's status on | 0.8 M |
| `ModerationUnban` (violation) | after a ban by button no message has an Unban button | |
| `Lifecycle` | the process from its settings to its end and restart, eleven ways to set it, two handlers, the cleanup, signals and failures at any time; the liveness of `LateSignalStops` | 17 k |
| `Throttle` | five goroutines at a bucket of two tokens a second, each token worth two ticks | 16 k |

Bounds and why they are enough.  Two goroutines are enough for one to run between
any two steps of another; a check, a copy of a row or a session involves one pair
of goroutines at a time, and what more of them could do in between is what one
does in several turns.  `MaxTime` = 7 in `RateLimit` lets a retention of 6 (which
must cover a window of 4 and a deadline of 2) delete events while checks run;
`MaxEvents` = 4 lets the longer window fill and be exceeded.  `MaxSessions`,
`MaxMessages` and `MaxTime` of `ReplySession` allow a replaced, an expired and a
cancelled session, and messages before and after each.  `MaxChat` of the `Relay`
runs leaves room for two messages with their media and one panel, or for one
message delivered twice; where a handler needs more room it waits.  `MaxActs` = 3 of
`Moderation` lets the owner press Ban, confirm it and do one thing more, and lets a
third update overlap with the end of the first; `MaxChat` = 3 has room for the relayed
message, its panel and a confirmation.  Five bits in `Lifecycle` are enough for
products that wrap to below and above zero.  Five goroutines in `Throttle` fill the two
seconds of waiting (four tokens) and leave one to be refused.  No run switches
off the deadlock check: something can always happen, if only a restart, a button or a
decision of the owner.  `Faults` chooses which
failures a run considers, because all of them at once for two messages exceed
what TLC explores in minutes: store and Telegram errors without crashes in
`RelayForward`, everything for one message in `RelayCrash`, failing calls to
Telegram in `RelayReply`.  `RelayCrash` has no replies; that replies, too, are those of a
conversation, is what the proof of `ImplementsConversation` shows (section 5).

Fairness (`Fairness` in `Lifecycle`).  Weak fairness of `run()`'s next call and of the
poller's start: the Go scheduler runs them.  None of handlers, of the cleanup or of
signals: `LateSignalStops` starts from a signal that has come.

Fairness (`Fairness` in `Intake`).  Weak fairness of the clock and of each
goroutine's next step: the Go scheduler runs them.  Strong fairness of
`UpsertUser`, `GetUser` and `RefreshExpired`: a handler may end by a store error at
any step, but the store does not fail the same call every time, for ever.  Strong
fairness of `Receive`: the stranger keeps writing, for nothing but his next message
clears an expired ban (handlers.go:154).  The last one is an assumption about the
stranger, and part of what the property says: a ban ends for one who keeps writing.

## 4. Findings

The runs marked violation each refute one sentence of the documentation, or the
intention that a line of the code states.

- `OwnerBanStays`: `/ban` on a stranger under a temporary ban writes the status and
  leaves `banned_until`; when that passes, the next message lifts the owner's ban.
  An automatic ban in progress also overwrites it.  (`DecisionStays`, which holds,
  says when a decision is safe.)
- `OneMessage`: the session is deleted only after the reply was sent; a second
  message handled meanwhile goes through it too.
- `UnbanOffered`: the keyboard to refresh is looked for by the message whose button
  was pressed.  A ban is confirmed on a message of its own, which has no mapping, so the
  relayed message keeps its Ban button and no message gets an Unban button.

Also worth knowing, met while modelling and without a run of their own:

- The configuration does not compare `RATE_EVENT_RETENTION_DAYS` with the windows
  (config.go:167); `WindowBound` needs the retention to cover them, see below.
- `refreshExpiredTemporaryBan` clears the row because of an earlier copy; if another
  message has banned the stranger again meanwhile, the new ban is gone (handlers.go:730).
- `/mute` or `/unmute` on a stranger under a temporary ban leaves him refused until
  `banned_until`, and out of `/blocklist`, which selects by status (sqlite.go:427).
- The media handler does not delete the metadata message when the mapping cannot be
  stored (handlers.go:395); the text handler does.
- README.md:157 gives `/audit` a limit, but `ParseCommand` does not know the command;
  what follows it is ignored.
- The confirmation of a ban is edited to "banned" even when setting the status failed,
  after the owner was told "User not found." (callbacks.go:160); `PanelsTrue` says so.
- The keyboard of a relayed message is built from the status copied at handlers.go:149,
  before the limiter and the send.  If the owner blocks the stranger in between, a keyboard
  for "normal" is put under a message whose author has been blocked for as long as the
  message has been in the chat; `KeyboardWasTrue` counts from the copy.
- The Reply button stores its session in a call of its own (callbacks.go:36).  A message
  the owner writes before that call is done may go to the choice before, and two buttons
  pressed at once take effect in either order; `LatestChoice` speaks of a button pressed
  alone whose session is stored.
- The menu of quick replies is a message of its own (callbacks.go:68) and keeps working
  after the message it is for has been ignored.
- Of two decisions that overlap, the rows of `users` may be written in one order, the audit
  rows and the keyboard in the other (callbacks.go:227, 241); `AuditBacked` holds
  nevertheless, `LoneDecisionSettles` is about decisions that do not overlap.
- The panel sent when a keyboard cannot be attached has no mapping, so its buttons are
  never refreshed.
- The cleanup goroutine may receive the only signal and end, and the process goes on
  until the next one (main.go:82); `LateSignalStops` says from when on it cannot.
- Days, minutes and seconds are multiplied after they have been checked (main.go:76,
  config.go:210): a retention of more than 106751 days puts the cutoff into the future,
  and a ban can become as short as nothing.  Windows that wrap to zero or below are
  refused by the limiter, which is why `StartedSane` holds.

## 5. Proofs

`RateLimit_proofs` and `Quota_proofs` prove, for any strangers, number of handlers,
windows, resolution, retention, deadline and bounds:

- `TypeCorrect`: `Spec => []TypeOK`.
- `Invariance`: `RetentionCoversWindows => (Spec => []IndInv)`.
- `SlidingWindow`: under the same hypothesis `Spec => []WindowBound`.
- `RefusalsJustified`: `Spec => []LimitJustified`, under the same hypothesis.
- `CleanupIsSafe`: `Spec => []CleanupSparesChecks`, under the same hypothesis.
- `CountBacked`: `Spec => []LimitedCountBacked`.
- `ImplementsQuota`: under the same hypothesis `Spec => QuotaKept`, that is, `RateLimit`
  implements `Quota`.

`Intake_proofs` proves, for any strangers, number of handlers, threshold and length of
a ban, and under no hypothesis:

- `TypeCorrect` and `Invariance`: `Spec => []TypeOK`, `Spec => []IndInv`.
- `OwnerDecides`: `Spec => []DecisionStays`.
- `GateHolds`: `Spec => []ForwardedWasNormal`.
- `BotBansEnd`: `Spec => []EndlessBlockIsOwners`.
- `BansEarned`: `Spec => []TemporaryBanEarned`.

`Throttle_proofs` proves, for any number of goroutines, rate and grain: `TypeCorrect`,
`Invariance`, `RateKept` (`RateBound`), `InOrder` (`OneByOne`) and `RefusalsEarned`
(`RefusedBehindQueue`).

`Lifecycle_proofs` proves, for any settings, units, width of integers and number of
handlers: `Invariance`, `UpdatesServed` (`CutOffLast`), `ClosesAll` (`LeavesNothingOpen`),
`StartsSane` (`StartedSane`) and `WrittenIsInForce` (`InForceAsWritten`).

`ReplySession_proofs` proves, for any mappings, number of handlers, life of a session,
set of faults and bounds: `TypeCorrect`, `Invariance`, `LatestChosen` (`LatestChoice`),
`CancelledStaysCancelled` (`CancelIsFinal`), `ExpiryHolds` (`ExpiredStaysUnused`) and
`RecordsAreBacked` (`RecordsBacked`).

`Relay_proofs` proves, for any strangers, messages, number of handlers, set of faults and
bounds: `TypeCorrect`, `Invariance`, `AckedStaysAnswerable` (`AckedIsAnswerable`),
`ButtonsAlwaysMatch` (`ButtonsMatch`), `CountsAreBacked` (`CountsBacked`),
`RepliesReachAuthors` (`ReplyReachesAuthor`), `RecordsAreReceived` (`RecordedWasReceived`),
`BlockedStaysUnanswered` (`BlockedGetsNoReply`) and `ImplementsConversation`
(`Spec => Conversed`): `Relay` implements `Conversation`.

`Moderation_proofs` proves, for any commands, number of handlers, set of faults and bounds:
`TypeCorrect`, `Invariance`, `AuditIsBacked` (`AuditBacked`), `RulesAreKept` (`RulesKept`),
`KeyboardsWereTrue` (`KeyboardWasTrue`), `PanelsAreTrue` (`PanelsTrue`) and `LoneDecisions`
(`LoneDecisionSettles`).

Assumptions.  They are the named `ASSUME`s of the modules, which TLC evaluates on every
run, and state what the code checks or declares:

- windows have positive lengths and limits, threshold and length of a ban are positive
  (config.go); resolution, retention and deadline of `RateLimit` are positive;
- there are finitely many goroutines at a time, where cardinalities of sets of them occur;
- `Moderation`: what is not a number is not an id, and the words of a command are one or
  the other (`Word`); ids are positive;
- `Settings` and `Lifecycle`: defaults are positive and fit the integers; the values for
  "not set", "blank" and "not a number" differ from each other and from all numbers; the
  owner's id and the retention are plain integers (config.go:98, config.go:167); what the
  administrator sets is a value for each variable and lines, well formed or not;
- the bounds are natural numbers.

The hypothesis `RetentionCoversWindows` is not among them because the code does not check
it; it is a hypothesis of the theorems that need it.

The argument for the rate limiter.  `WindowBound` is about all messages let through; a check sees only
counts of rows.  `IndInv` connects the two.  `LogTimes` and `RowsKept` say that
timestamps lag the clock by at most the truncation and that only events older than
the retention are gone, hence that a check in time counts, in each window, at least
all events recorded before its own (`Preceding`).  `CheckInv` keeps, per handler,
that it owns the message event it inserted, that for every window it has passed the
events preceding its own are within the limit, and that a handler about to record
a refusal has seen a window over the limit.  `GrantCounted` is what is left of this
once the check has ended: every granted message is within the first `max` of its own
window.  `WindowBound` follows: in an interval as long as the window, the last
granted message counted all others before it.

The argument for the refinement.  Most steps change nothing that `Quota` has or add an
entry to the book.  Two steps decide: `Grant` maps to `Pass` because a handler that has
passed every window has, by `CheckInv`, its own message within the limit of each among
all that came before it, and that is what one look at the book up to that message
would have counted (`GrantWithin`); `AddLimited` maps to `Refuse` because a window it saw
exceeded in the thinned table is exceeded in the full book, which only holds more.
`Strike` needs `LimitedCountBacked`: each handler between its refusal and its increment
owns one refusal that has not been held against the stranger yet.

The argument for the intake.  None of the four properties is inductive, because
handlers act on copies.  `FirmCopies` says that while the owner's decision is firm
every handler that could still write the row holds that decision, and no end of a
ban, in its copy, so the gate stops it; a handler that arrives later reads it from the
row.  `NormalCopies` says that a copy that says normal, and a message past the gate,
go back to a moment when the row said so.  `BansDue` says that a handler on its way to
an automatic ban has seen the threshold reached, which stays so because
`limited_count` never decreases, and that the ban it writes has an end.  The three
parts do not depend on each other, and each is shown to be kept by every step in a
lemma of its own (`FirmStep`, `NormalStep`, `BansStep`).

The argument for the throttle.  What the bucket holds, with the tokens of the sleepers
put back, is `Unspent`: with sleepers it is less than one token, and the k-th sleeper is
due when k tokens less `Unspent` have flowed in.  Nobody can wake with another, then,
and a wake-up spends exactly the token that has become whole; so what was let through in
an interval, plus `Unspent`, never exceeds the burst and what flowed in.  A send is
refused if its place in that queue is later than its limit.

The argument for the life of the process.  The place of `run()` tells everything:
whether the store is open (`StoreOpen`), whether updates can be taken and goroutines
exist (`Born`), who waits for the next signal (`Queued`).  A handler meets a closed
store or a cancelled context only where `run()` has stopped the poller for good (`Cut`).
What it runs on is `AsLoaded`: past the loading, the configuration is `LoadConfig` of what
was given, and that has no errors; past `Build`, the windows are positive, since the
limiter looked at the products and not at the settings.  `WrapFits` says that a product
below half the range is what it was, `SettingMeant` that a setting without error is what
the administrator meant, a positive number.

The argument for the reply sessions.  The four properties speak of a copy of a session
that a handler carries along; the table has changed since.  `NewestOnly` is the key: a
session in the table is the newest one made, for `CreateOwnerReplySession` deletes the
others in its transaction, and no one was told that it is cancelled.  So a session found
is not older than the one in force when the message was written, and not among those
cancelled by then (`LookupTrue` becomes `ReplyTrue` at `SelectSession`); its expiry was
compared with a clock read after that.  For whom that session is, `ChosenTrue` tells: a
button pressed alone is on its way as the only one, or its session is the newest, so a
message that finds no button on its way keeps, with `chosen`, the stranger of the newest
session.  `Owed` counts, per session, the handlers between
their delivery and their audit row.  `Room` keeps the ids within their bound.

The argument for the relay.  The chat and the table almost only grow (`Careful`); what may
go away or change is a message some handler holds as its own, and no two handlers hold the
same one (`Apart`).  So the handler's knowledge of its message (`HeldTrue`, `MappedTrue`) is
not disturbed by the others, and once it acknowledges, the message is in the chat, with a
mapping and nobody's own (`AckedHeld`), which nothing takes away again: not a redelivery,
whose handler works on messages of its own, nor a crash.  An answer goes by a mapping that
belongs to the message it answers or to the buttons pressed (`Aimed`), and both belong to
one author (`RowsSound`, `ButtonsSound`).  `Counts` holds, per stranger, mappings against
counts with the handlers that still have to count.

The argument for the conversation.  Admitting, counting, the buttons, restarts and changes
of a stranger's status touch nothing that `Conversation` has.  A message in the chat more is
`Show` (the text, the metadata, a panel) or `Complete` (the media itself); a mapping is
`Complete` or nothing.  `DeleteOrphan` decides: what it deletes is the handler's own, and by
`AckedHeld`, which the step keeps, a message whose author was told stays answerable by
another place, so the step is `Withdraw` only of one he was not told of.  `Acknowledge` is
`Tell`, because what the handler holds is whole and mapped; `SendUser` is `Reply` by
`Aimed`; `MarkReplied` and `AuditReply` are `Mark` and `Log`, because their handler has its
reply among the received ones.  A mark of a mapping is one of its message: a message
delivered twice has two, and ignoring one of them takes the mark off or changes nothing.

The argument for the owner's decisions.  `AuditsOwed` counts updates against audit rows and
the handlers between the two; `About` says that what a handler is about to show has been
done, or was refused on the confirmation it is about to edit, and that whom `/reply` writes
to was open to it at some moment.  The keyboard is put up for "normal", which by
the invariant is in `had` from `GetUser` on, as the handler goes on only if that is what it
read.  `LoneDecisionSettles`
needs a second invariant, `Settled`: while a decision is alone, how far it has got tells
which of row, audit row and keyboard already show it, and whatever else moves ends its
being alone.

## 6. What is only model-checked, and what is not modelled

Every safety property that a run checks is also proved.  Only model-checked are the
liveness properties (`TemporaryBanEnds`, `LateSignalStops`), which are out of the prover's
reach, as is anything about ENABLED; and the findings, which are counterexamples.  The
inductive invariants were checked with TLC, as invariants of the runs, on the way to their
proofs.

Abstracted from: texts, names and wording; what a formatted message looks like;
`last_seen_at`, `ban_reason` and usernames; in `Moderation`, `banned_until`, which `Intake`
has; in `Relay`, which of the status buttons a keyboard shows, which `Moderation` has; in
`Settings`, strings and booleans, quotes and comments of the `.env` file; where words and
parts of commands and callback data end.

Not modelled: media detection and formatting, which are pure functions of one message
and the configuration; the domain types and the logger, which are data; the queries of
`/stats`, `/recent`, `/blocklist`, `/audit` and `/user` and of the buttons that only show
something, which read and change nothing; the scanning of rows.  The models of the
handlers keep of the throttle only that a call can fail, and of the shutdown that any
call can fail and the process can stop at any point; `Throttle` and `Lifecycle` say when.

## 7. Plan

1. `RateLimit`, `Intake`, `ReplySession`, `Relay` and the proofs about `RateLimit` and
   `Intake` (done).
2. `Quota` and the refinement; `Commands`, `Moderation`, `Settings`, `Lifecycle`, `Throttle`;
   the proofs about `Throttle` and `Lifecycle` (done).
3. The proofs about `ReplySession`, `Relay`, `Moderation` and what `Lifecycle` runs on (done).
4. `Conversation` and the refinement (done).
5. `Intake` composed with `RateLimit`, or with `Quota`, in place of the open answer of the
   limiter.
