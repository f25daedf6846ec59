--------------------------------- MODULE Intake ---------------------------------
(***************************************************************************)
(* Admission of a stranger's message (handleStrangerText and               *)
(* handleStrangerMedia of internal/bot/handlers.go) against the row of the *)
(* stranger in the users table, and everything else that writes the row's  *)
(* status: the automatic temporary ban, its expiry, and the owner's        *)
(* commands and buttons.                                                   *)
(*                                                                         *)
(* Handlers are goroutines; each store call is atomic, and a handler works *)
(* on the copy of the row it read.  The owner's handlers make one write    *)
(* to the row each, so each is one action; their audit rows and the        *)
(* keyboards they refresh are left out.  What the rate limiter answers is  *)
(* left open here (module RateLimit), except that a refusal counts towards *)
(* the automatic ban.  The media handler refuses unsupported types and     *)
(* long captions before its first store call, which leaves no trace.       *)
(*                                                                         *)
(* Times are kept as ticks remaining, in the table and in the handlers'    *)
(* copies alike: banned_until is After(now) iff its remainder is positive. *)
(* This keeps the state finite without stopping the clock.                 *)
(***************************************************************************)
EXTENDS Integers

CONSTANTS
    Users,         \* strangers
    Procs,         \* goroutines handling strangers' messages
    Threshold,     \* AUTO_BAN_ON_LIMIT_HITS
    BanTicks       \* AUTO_BAN_DURATION_MINUTES, in ticks

ASSUME ThresholdAssumption == Threshold \in Nat \ {0}
ASSUME BanAssumption       == BanTicks \in Nat \ {0}

VARIABLES
    row,       \* users, by telegram_id
    handler,   \* the goroutines
    by,        \* what wrote the status last
    audited,   \* strangers with an auto_ban row in audit_logs
    firm,      \* history: status the owner set with nothing else under way
    normal     \* history: handlers that ran while their stranger's status was normal

vars == <<row, handler, by, audited, firm, normal>>

NoBan   == -1                        \* banned_until IS NULL
Until   == {NoBan} \cup 0..BanTicks
Status  == {"normal", "muted", "blocked"}
Missing == [exists |-> FALSE, status |-> "normal", until |-> NoBan, limited |-> 0]
Row     == [exists : BOOLEAN, status : Status, until : Until, limited : 0..Threshold]

\* upsert, get, refresh, gate, allow, send: the way of a message let through;
\* check, due, ban, record: autoBanAfterLimit.
Step    == {"upsert", "get", "refresh", "gate", "allow", "send",
            "check", "due", "ban", "record"}
Idle    == [step |-> "idle"]
Active  == [step : Step, user : Users, status : Status, until : Until]
Writer  == {"new", "auto", "expiry", "ban", "mute", "unmute", "unban"}

At(p, s)       == handler[p].step = s
Handles(p, u)  == ~ At(p, "idle") /\ handler[p].user = u
GoTo(p, s)     == handler' = [handler EXCEPT ![p].step = s]
Finish(p)      == handler' = [handler EXCEPT ![p] = Idle]

--------------------------------------------------------------------------------
\* Slip: only banned_until is looked at.
blockedByTime(r) == r.until > 0

\* blockedNow, on a row or on a handler's copy of one.
blockedNow(r) == r.status = "blocked" \/ r.until > 0

\* Slip: a missing banned_until counts as expired.
ExpiredOrNull(r) == ~ (r.until > 0)

\* refreshExpiredTemporaryBan has a ban to clear.
Expired(r) == r.until = 0

\* The three statements that write a status.  SetUserStatus leaves
\* banned_until as it is.
SetUserStatus(u, status) ==
    /\ row[u].exists
    /\ row' = [row EXCEPT ![u].status = status]

SetUserBannedUntil(u, until) ==
    /\ row[u].exists
    /\ row' = [row EXCEPT ![u].status = "blocked", ![u].until = until]

\* Slip: the status is not reset.
ClearBannedUntil(u) ==
    /\ row[u].exists
    /\ row' = [row EXCEPT ![u].until = NoBan]

ClearBan(u) ==
    /\ row[u].exists
    /\ row' = [row EXCEPT ![u].status = "normal", ![u].until = NoBan]

\* Bookkeeping of the history variable normal, part of every action.
Runs(p)       == ~ At(p, "idle")
RunsNormal(p) == Runs(p) /\ row[handler[p].user].status = "normal"

Observe == normal' = {p \in Procs : RunsNormal(p)' \/ (Runs(p)' /\ p \in normal)}

--------------------------------------------------------------------------------
Init ==
    /\ row = [u \in Users |-> Missing]
    /\ handler = [p \in Procs |-> Idle]
    /\ by = [u \in Users |-> "new"]
    /\ audited = {}
    /\ firm = [u \in Users |-> "none"]
    /\ normal = {}

Receive(p, u) ==
    /\ At(p, "idle")
    /\ handler' = [handler EXCEPT ![p] =
                     [step |-> "upsert", user |-> u, status |-> "normal", until |-> NoBan]]
    /\ UNCHANGED <<row, by, audited, firm>>
    /\ Observe

\* A first message creates the row; later ones leave status and counters alone.
UpsertUser(p) ==
    /\ At(p, "upsert")
    /\ row' = [row EXCEPT ![handler[p].user].exists = TRUE]
    /\ GoTo(p, "get")
    /\ UNCHANGED <<by, audited, firm>>
    /\ Observe

\* Slip: refreshExpiredTemporaryBan is not called.
GetUserUnrefreshed(p) ==
    /\ At(p, "get")
    /\ LET r == row[handler[p].user]
       IN  handler' = [handler EXCEPT ![p].step = "gate",
                                      ![p].status = r.status, ![p].until = r.until]
    /\ UNCHANGED <<row, by, audited, firm>>
    /\ Observe

GetUser(p) ==
    /\ At(p, "get")
    /\ LET r == row[handler[p].user]
       IN  handler' = [handler EXCEPT ![p].step = "refresh",
                                      ![p].status = r.status, ![p].until = r.until]
    /\ UNCHANGED <<row, by, audited, firm>>
    /\ Observe

\* refreshExpiredTemporaryBan: the copy decides, the row is written.
RefreshExpired(p) ==
    /\ At(p, "refresh")
    /\ Expired(handler[p])
    /\ ClearBan(handler[p].user)
    /\ by' = [by EXCEPT ![handler[p].user] = "expiry"]
    /\ handler' = [handler EXCEPT ![p].step = "gate",
                                  ![p].status = "normal", ![p].until = NoBan]
    /\ UNCHANGED <<audited, firm>>
    /\ Observe

RefreshNothing(p) ==
    /\ At(p, "refresh")
    /\ ~ Expired(handler[p])
    /\ GoTo(p, "gate")
    /\ UNCHANGED <<row, by, audited, firm>>
    /\ Observe

\* Blocked strangers are told so, muted ones get "Message received.".
Reject(p) ==
    /\ At(p, "gate")
    /\ blockedNow(handler[p]) \/ handler[p].status = "muted"
    /\ Finish(p)
    /\ UNCHANGED <<row, by, audited, firm>>
    /\ Observe

TooLong(p) ==
    /\ At(p, "gate")
    /\ ~ blockedNow(handler[p]) /\ handler[p].status # "muted"
    /\ Finish(p)
    /\ UNCHANGED <<row, by, audited, firm>>
    /\ Observe

Admit(p) ==
    /\ At(p, "gate")
    /\ ~ blockedNow(handler[p]) /\ handler[p].status # "muted"
    /\ GoTo(p, "allow")
    /\ UNCHANGED <<row, by, audited, firm>>
    /\ Observe

\* The limiter lets the message through.
Allowed(p) ==
    /\ At(p, "allow")
    /\ GoTo(p, "send")
    /\ UNCHANGED <<row, by, audited, firm>>
    /\ Observe

\* The limiter refuses and has incremented limited_count; only whether it has
\* reached the threshold matters, so the counter stops there.
Limited(p) ==
    /\ At(p, "allow")
    /\ row' = [row EXCEPT ![handler[p].user].limited =
                 IF @ < Threshold THEN @ + 1 ELSE @]
    /\ GoTo(p, "check")
    /\ UNCHANGED <<by, audited, firm>>
    /\ Observe

\* autoBanAfterLimit reads the row again and works on that copy: below the
\* threshold there is nothing to do,
AutoBanNotDue(p) ==
    /\ At(p, "check")
    /\ row[handler[p].user].limited < Threshold
    /\ Finish(p)
    /\ UNCHANGED <<row, by, audited, firm>>
    /\ Observe

\* Slip: one refusal too early.
AutoBanEarly(p) ==
    /\ At(p, "check")
    /\ row[handler[p].user].limited + 1 >= Threshold
    /\ handler' = [handler EXCEPT ![p].step = "due", ![p].until = row[handler[p].user].until]
    /\ UNCHANGED <<row, by, audited, firm>>
    /\ Observe

AutoBanRead(p) ==
    /\ At(p, "check")
    /\ row[handler[p].user].limited >= Threshold
    /\ handler' = [handler EXCEPT ![p].step = "due", ![p].until = row[handler[p].user].until]
    /\ UNCHANGED <<row, by, audited, firm>>
    /\ Observe

\* nor under a temporary ban that still runs.
AutoBanRuns(p) ==
    /\ At(p, "due")
    /\ handler[p].until > 0
    /\ Finish(p)
    /\ UNCHANGED <<row, by, audited, firm>>
    /\ Observe

\* Slip: a running ban is extended.
AutoBanExtends(p) ==
    /\ At(p, "due")
    /\ handler' = [handler EXCEPT ![p].step = "ban",
                                  ![p].until = IF @ > 0 THEN @ + BanTicks ELSE BanTicks]
    /\ UNCHANGED <<row, by, audited, firm>>
    /\ Observe

\* The end of the ban is computed before the row is written.
AutoBanDue(p) ==
    /\ At(p, "due")
    /\ ~ (handler[p].until > 0)
    /\ handler' = [handler EXCEPT ![p].step = "ban", ![p].until = BanTicks]
    /\ UNCHANGED <<row, by, audited, firm>>
    /\ Observe

AutoBan(p) ==
    /\ At(p, "ban")
    /\ SetUserBannedUntil(handler[p].user, handler[p].until)
    /\ by' = [by EXCEPT ![handler[p].user] = "auto"]
    /\ GoTo(p, "record")
    /\ UNCHANGED <<audited, firm>>
    /\ Observe

\* The audit row of the ban.  (The auto_ban rate event written before it is
\* read by nothing.)
Record(p) ==
    /\ At(p, "record")
    /\ audited' = audited \cup {handler[p].user}
    /\ Finish(p)
    /\ UNCHANGED <<row, by, firm>>
    /\ Observe

\* The message goes to the owner; what follows is module Relay.
Forward(p) ==
    /\ At(p, "send")
    /\ Finish(p)
    /\ UNCHANGED <<row, by, audited, firm>>
    /\ Observe

\* A store call fails: the stranger is told, nothing is undone.
Fail(p) ==
    /\ ~ At(p, "idle")
    /\ Finish(p)
    /\ UNCHANGED <<row, by, audited, firm>>
    /\ Observe

--------------------------------------------------------------------------------
\* Handlers of u that may still write u's status from what they have read.
MayWrite(p, u) ==
    Handles(p, u) /\ handler[p].step \in {"refresh", "gate", "allow", "check", "due", "ban"}

\* The owner decides on a stranger who is under no temporary ban and has no
\* message half way through.
Undisturbed(u) == row[u].until = NoBan /\ \A p \in Procs : ~ MayWrite(p, u)

OwnerSets(u, status, how) ==
    /\ SetUserStatus(u, status)
    /\ by' = [by EXCEPT ![u] = how]
    /\ firm' = [firm EXCEPT ![u] = IF Undisturbed(u) THEN status ELSE "none"]
    /\ UNCHANGED <<handler, audited>>
    /\ Observe

Ban(u)    == OwnerSets(u, "blocked", "ban")
Mute(u)   == OwnerSets(u, "muted", "mute")
Unmute(u) ==
    /\ SetUserStatus(u, "normal")
    /\ by' = [by EXCEPT ![u] = "unmute"]
    /\ firm' = [firm EXCEPT ![u] = "none"]
    /\ UNCHANGED <<handler, audited>>
    /\ Observe
Unban(u)  ==
    /\ ClearBan(u)
    /\ by' = [by EXCEPT ![u] = "unban"]
    /\ firm' = [firm EXCEPT ![u] = "none"]
    /\ UNCHANGED <<handler, audited>>
    /\ Observe

\* Time passes for the table and for the handlers' copies.
Sooner(until) == IF until > 0 THEN until - 1 ELSE until

Tick ==
    /\ row' = [u \in Users |-> [row[u] EXCEPT !.until = Sooner(@)]]
    /\ handler' = [p \in Procs |->
                     IF At(p, "idle") THEN handler[p]
                     ELSE [handler[p] EXCEPT !.until = Sooner(@)]]
    /\ UNCHANGED <<by, audited, firm>>
    /\ Observe

\* The process dies and starts again; the table stays.
Restart ==
    /\ handler' = [p \in Procs |-> Idle]
    /\ UNCHANGED <<row, by, audited, firm>>
    /\ Observe

HandlerStep(p) ==
    \/ UpsertUser(p) \/ GetUser(p)
    \/ RefreshExpired(p) \/ RefreshNothing(p)
    \/ Reject(p) \/ TooLong(p) \/ Admit(p)
    \/ Allowed(p) \/ Limited(p)
    \/ AutoBanNotDue(p) \/ AutoBanRead(p)
    \/ AutoBanRuns(p) \/ AutoBanDue(p) \/ AutoBan(p) \/ Record(p)
    \/ Forward(p)

OwnerStep(u) == Ban(u) \/ Mute(u) \/ Unmute(u) \/ Unban(u)

Next ==
    \/ \E p \in Procs : HandlerStep(p) \/ Fail(p) \/ \E u \in Users : Receive(p, u)
    \/ \E u \in Users : OwnerStep(u)
    \/ Tick
    \/ Restart

Spec == Init /\ [][Next]_vars
--------------------------------------------------------------------------------
TypeOK ==
    /\ row \in [Users -> Row]
    /\ handler \in [Procs -> Active \cup {Idle}]
    /\ by \in [Users -> Writer]
    /\ audited \subseteq Users
    /\ firm \in [Users -> {"none", "muted", "blocked"}]
    /\ normal \subseteq Procs

\* A ban or a mute that the owner decides while the stranger is under no
\* temporary ban and has no message half way through stays until the owner
\* decides otherwise, whatever messages, refusals and restarts follow
\* (/ban, /mute: handlers.go:556, 588).
DecisionStays ==
    \A u \in Users : firm[u] # "none" =>
        row[u].status = firm[u] /\ row[u].until = NoBan

\* A message goes to the owner only if at some moment since it arrived its
\* stranger was neither blocked nor muted: a handler may decide on a stale
\* copy, but never on one from before the message.  (Nothing as strong holds
\* of a temporary ban on top of a normal status: the copy of banned_until is
\* compared with the clock again at the gate, when the row may hold a new one.)
ForwardedWasNormal == \A p \in Procs : At(p, "send") => p \in normal

\* Only the owner blocks for good: a block with no end in banned_until was
\* last written by /ban or its button, never by the bot
\* (autoBanAfterLimit, handlers.go:761).
EndlessBlockIsOwners ==
    \A u \in Users : row[u].status = "blocked" /\ row[u].until = NoBan => by[u] = "ban"

\* A temporary ban is on record, in users or in the audit log, only for a
\* stranger who was refused at least as often as the configured threshold.
TemporaryBanEarned ==
    \A u \in Users : row[u].until # NoBan \/ u \in audited => row[u].limited >= Threshold

--------------------------------------------------------------------------------
(***************************************************************************)
(* The inductive invariant behind the four properties above.               *)
(***************************************************************************)

\* While the owner's decision is firm, a handler of that stranger that could
\* still write the row holds a copy which stops it at the gate.
CopyFirm(p) ==
    /\ handler[p].step \in {"refresh", "gate"}
    /\ handler[p].status = firm[handler[p].user]
    /\ handler[p].until = NoBan

FirmCopies ==
    \A u \in Users, p \in Procs : firm[u] # "none" /\ MayWrite(p, u) => CopyFirm(p)

\* A copy that says normal was taken while the row said so.
NormalCopies ==
    \A p \in Procs :
        \/ At(p, "allow") \/ At(p, "send")
        \/ handler[p].step \in {"refresh", "gate"} /\ handler[p].status = "normal"
      => p \in normal

\* A handler past the threshold is there by right, and bans with an end.
BansDue ==
    \A p \in Procs : handler[p].step \in {"due", "ban", "record"} =>
        /\ row[handler[p].user].limited >= Threshold
        /\ At(p, "ban") => handler[p].until # NoBan

IndInv ==
    /\ TypeOK
    /\ DecisionStays /\ FirmCopies
    /\ NormalCopies
    /\ BansDue /\ EndlessBlockIsOwners /\ TemporaryBanEarned

--------------------------------------------------------------------------------
(***************************************************************************)
(* Liveness.  Goroutines are scheduled and the clock advances; the store   *)
(* does not fail a given call for ever; and the stranger keeps writing,    *)
(* for a temporary ban is only cleared when its stranger writes again.     *)
(***************************************************************************)
Fairness ==
    /\ WF_vars(Tick)
    /\ \A p \in Procs :
        /\ WF_vars(HandlerStep(p))
        /\ SF_vars(UpsertUser(p))
        /\ SF_vars(GetUser(p))
        /\ SF_vars(RefreshExpired(p))
        /\ \A u \in Users : SF_vars(Receive(p, u))

FairSpec == Spec /\ Fairness

\* A stranger under a temporary ban who keeps writing gets out of it: the ban
\* is cleared, or the owner decides, with no one resetting it for ever
\* (refreshExpiredTemporaryBan, handlers.go:726).
TemporaryBanEnds ==
    \A u \in Users :
        (row[u].status = "blocked" /\ row[u].until # NoBan)
            ~> (row[u].status # "blocked" \/ row[u].until = NoBan)

--------------------------------------------------------------------------------
(***************************************************************************)
(* What the documentation says, and the code does not do.                  *)
(***************************************************************************)

\* README.md:152, "/ban": Block a user.  Once the owner has banned, only the
\* owner lifts it.
OwnerBanStays ==
    [][\A u \in Users :
          by[u] = "ban" => by'[u] \in {"ban", "mute", "unmute", "unban"}]_vars
================================================================================
