------------------------------ MODULE ReplySession ------------------------------
(***************************************************************************)
(* The owner's reply mode: the Reply button (handleCallbackReply), the     *)
(* owner's next text or media (handleOwnerReplySession and                 *)
(* handleOwnerMediaReplySession), /cancelreply and the Cancel button, over *)
(* the owner_reply_sessions table of internal/store/sqlite.go.             *)
(*                                                                         *)
(* Every update of the owner runs in a goroutine of its own, so a message, *)
(* a button and a cancellation may overlap.  One owner: owner_id is left   *)
(* out.  The text and the media handler make the same calls in the same    *)
(* order; refusals that precede or follow the lookup without writing       *)
(* anything (too long, unsupported, unknown or blocked target) are Refuse. *)
(*                                                                         *)
(* Faults says which failures a run considers: "store" and "api" calls     *)
(* that report an error, whether or not they took effect, and "crash".     *)
(***************************************************************************)
EXTENDS Naturals, Sequences, FiniteSets

CONSTANTS
    Mappings,      \* relayed messages that carry a Reply button
    Procs,         \* goroutines handling the owner's updates
    Life,          \* a session's life (5 minutes in the code)
    Faults,        \* failures considered
    MaxTime,       \* bound: the clock stops here
    MaxSessions,   \* bound: sessions ever created
    MaxMessages    \* bound: messages the owner writes

ASSUME ProcsAssumption == IsFiniteSet(Procs)
ASSUME LifeAssumption  == Life \in Nat \ {0}
ASSUME FaultAssumption == Faults \subseteq {"store", "api", "crash"}
ASSUME BoundAssumption == MaxTime \in Nat /\ MaxSessions \in Nat /\ MaxMessages \in Nat

VARIABLES
    now,         \* the wall clock
    sessions,    \* rows of owner_reply_sessions
    created,     \* the mappings of all sessions ever created; the index is the id
    prompts,     \* sessions whose Cancel button the owner has been sent
    written,     \* messages the owner has written
    delivered,   \* messages that reached the target, by session
    audited,     \* reply rows in audit_logs, by session
    replied,     \* mappings whose status is replied
    cancelled,   \* history: sessions the owner was told are cancelled
    chosen,      \* history: the mapping of the Reply button pressed last, if that
                 \* one was pressed alone and nothing went wrong with it
    handler      \* the goroutines

vars == <<now, sessions, created, prompts, written, delivered, audited, replied,
          cancelled, chosen, handler>>

Ids     == 1..MaxSessions
Row     == [id : Ids, mapping : Mappings, expires : Nat]
Idle    == [step |-> "idle"]

\* Reply button: the expiry is computed, the session created, the prompt sent.
Button  == [step : {"create"}, mapping : Mappings, expires : Nat]
Prompt  == [step : {"prompt"}, id : Ids]
\* A message or /cancelreply looks for the active session; clock is its reading
\* of the time.  The fields since, floor, choice and gone are history: the time,
\* the newest session, the choice if no button was on its way, and the cancelled
\* sessions when the message arrived.
Task    == {"message", "cancel"}
History == [since : Nat, floor : 0..MaxSessions, choice : SUBSET Mappings, gone : SUBSET Ids]
Lookup  == [step : {"clock", "cleanup", "select"}, task : Task, clock : Nat, at : History]
\* A message on its way through a session, and a cancellation that found one.
Reply   == [step : {"deliver", "mark", "audit", "delete"}, row : Row, at : History]
Cancel  == [step : {"cancel"}, id : Ids]
Active  == Button \cup Prompt \cup Lookup \cup Reply \cup Cancel

\* The last id AUTOINCREMENT gave out.
lastId == Len(created)

At(p, s)     == handler[p].step = s
Become(p, h) == handler' = [handler EXCEPT ![p] = h]
GoTo(p, s)   == handler' = [handler EXCEPT ![p].step = s]
Finish(p)    == Become(p, Idle)

\* Reply buttons pressed whose session is not stored yet.
Creating == {p \in Procs : At(p, "create")}

\* A call that may fail ends in one of these: done, and whether it reported it.
Outcome(kind) ==
    {[took |-> TRUE, ok |-> TRUE]} \cup
    IF kind \in Faults THEN [took : BOOLEAN, ok : {FALSE}] ELSE {}

--------------------------------------------------------------------------------
Init ==
    /\ now = 0
    /\ sessions = {}
    /\ created = <<>>
    /\ prompts = {}
    /\ written = 0
    /\ delivered = [i \in Ids |-> 0]
    /\ audited = [i \in Ids |-> 0]
    /\ replied = {}
    /\ cancelled = {}
    /\ chosen = {}
    /\ handler = [p \in Procs |-> Idle]

\* The owner presses Reply: the mapping is read and the expiry computed.
PressReply(p, m) ==
    /\ At(p, "idle")
    /\ lastId + Cardinality(Creating) < MaxSessions
    /\ Become(p, [step |-> "create", mapping |-> m, expires |-> now + Life])
    /\ chosen' = IF Creating = {} THEN {m} ELSE {}
    /\ UNCHANGED <<now, sessions, created, prompts, written, delivered, audited,
                   replied, cancelled>>

\* Slip: the earlier sessions are not deleted.
AddOwnerReplySession(p) ==
    /\ At(p, "create")
    /\ created' = Append(created, handler[p].mapping)
    /\ sessions' = sessions \cup {[id |-> lastId + 1, mapping |-> handler[p].mapping,
                                   expires |-> handler[p].expires]}
    /\ Become(p, [step |-> "prompt", id |-> lastId + 1])
    /\ UNCHANGED <<now, prompts, written, delivered, audited, replied, cancelled, chosen>>

\* One transaction deletes the earlier sessions and inserts the new one.  On an
\* error after the commit the session exists and its owner is not prompted.
CreateOwnerReplySession(p) ==
    /\ At(p, "create")
    /\ \E o \in Outcome("store") :
        /\ IF o.took
           THEN /\ created' = Append(created, handler[p].mapping)
                /\ sessions' = {[id |-> lastId + 1, mapping |-> handler[p].mapping,
                                 expires |-> handler[p].expires]}
           ELSE UNCHANGED <<created, sessions>>
        /\ chosen' = IF o.ok THEN chosen ELSE {}
        /\ IF o.ok THEN Become(p, [step |-> "prompt", id |-> lastId + 1]) ELSE Finish(p)
    /\ UNCHANGED <<now, prompts, written, delivered, audited, replied, cancelled>>

\* "Reply mode active", with the Cancel button.
SendPrompt(p) ==
    /\ At(p, "prompt")
    /\ \E o \in Outcome("api") :
        prompts' = IF o.took THEN prompts \cup {handler[p].id} ELSE prompts
    /\ Finish(p)
    /\ UNCHANGED <<now, sessions, created, written, delivered, audited, replied, cancelled, chosen>>

--------------------------------------------------------------------------------
\* What a message remembers of its arrival; a cancellation needs none of it.
Arrival == [since |-> now, floor |-> lastId, gone |-> cancelled,
            choice |-> IF Creating = {} THEN chosen ELSE {}]
Blank   == [since |-> 0, floor |-> 0, gone |-> {}, choice |-> {}]

StartLookup(p, task, at) ==
    Become(p, [step |-> "clock", task |-> task, clock |-> at.since, at |-> at])

\* The owner writes a message that replies to nothing.
Write(p) ==
    /\ At(p, "idle")
    /\ written < MaxMessages
    /\ written' = written + 1
    /\ StartLookup(p, "message", Arrival)
    /\ UNCHANGED <<now, sessions, created, prompts, delivered, audited, replied, cancelled, chosen>>

CancelReplyCommand(p) ==
    /\ At(p, "idle")
    /\ StartLookup(p, "cancel", Blank)
    /\ UNCHANGED <<now, sessions, created, prompts, written, delivered, audited,
                   replied, cancelled, chosen>>

\* The handler reads the time once, before the two statements that use it.
ReadClock(p) ==
    /\ At(p, "clock")
    /\ handler' = [handler EXCEPT ![p].step = "cleanup", ![p].clock = now]
    /\ UNCHANGED <<now, sessions, created, prompts, written, delivered, audited,
                   replied, cancelled, chosen>>

\* GetActiveOwnerReplySession, first statement: an error is only logged.
DeleteExpired(p) ==
    /\ At(p, "cleanup")
    /\ \E o \in Outcome("store") :
        sessions' = IF o.took THEN {s \in sessions : s.expires > handler[p].clock}
                    ELSE sessions
    /\ GoTo(p, "select")
    /\ UNCHANGED <<now, created, prompts, written, delivered, audited, replied, cancelled, chosen>>

\* Slip: the cleanup is relied upon.
StoredSessions(clock) == sessions

\* Second statement: the newest session that has not expired.
ActiveSessions(clock) == {s \in sessions : s.expires > clock}
Newest(S) == CHOOSE s \in S : \A t \in S : t.id <= s.id

SelectSession(p) ==
    /\ At(p, "select")
    /\ LET active == ActiveSessions(handler[p].clock)
       IN  /\ active # {}
           /\ Become(p, IF handler[p].task = "message"
                        THEN [step |-> "deliver", row |-> Newest(active), at |-> handler[p].at]
                        ELSE [step |-> "cancel", id |-> Newest(active).id])
    /\ UNCHANGED <<now, sessions, created, prompts, written, delivered, audited,
                   replied, cancelled, chosen>>

NoSession(p) ==
    /\ At(p, "select")
    /\ ActiveSessions(handler[p].clock) = {} \/ "store" \in Faults
    /\ Finish(p)
    /\ UNCHANGED <<now, sessions, created, prompts, written, delivered, audited,
                   replied, cancelled, chosen>>

\* The message is refused before it is sent: the session stays.
Refuse(p) ==
    /\ At(p, "deliver")
    /\ Finish(p)
    /\ UNCHANGED <<now, sessions, created, prompts, written, delivered, audited,
                   replied, cancelled, chosen>>

\* Slip: the error of the send is only logged.
DeliverRegardless(p) ==
    /\ At(p, "deliver")
    /\ \E o \in Outcome("api") :
        /\ delivered' = IF o.took THEN [delivered EXCEPT ![handler[p].row.id] = @ + 1]
                        ELSE delivered
        /\ GoTo(p, "mark")
    /\ UNCHANGED <<now, sessions, created, prompts, written, audited, replied, cancelled, chosen>>

\* SendUser or CopyUser.  When it reports an error the session stays.
Deliver(p) ==
    /\ At(p, "deliver")
    /\ \E o \in Outcome("api") :
        /\ delivered' = IF o.took THEN [delivered EXCEPT ![handler[p].row.id] = @ + 1]
                        ELSE delivered
        /\ IF o.ok THEN GoTo(p, "mark") ELSE Finish(p)
    /\ UNCHANGED <<now, sessions, created, prompts, written, audited, replied, cancelled, chosen>>

\* Slip: the session's id is taken for the mapping's.
MarkSession(p) ==
    /\ At(p, "mark")
    /\ replied' = replied \cup {handler[p].row.id}
    /\ GoTo(p, "audit")
    /\ UNCHANGED <<now, sessions, created, prompts, written, delivered, audited, cancelled, chosen>>

\* What follows the delivery goes on whatever each call reports.
MarkReplied(p) ==
    /\ At(p, "mark")
    /\ \E o \in Outcome("store") :
        replied' = IF o.took THEN replied \cup {handler[p].row.mapping} ELSE replied
    /\ GoTo(p, "audit")
    /\ UNCHANGED <<now, sessions, created, prompts, written, delivered, audited, cancelled, chosen>>

AuditReply(p) ==
    /\ At(p, "audit")
    /\ \E o \in Outcome("store") :
        audited' = IF o.took THEN [audited EXCEPT ![handler[p].row.id] = @ + 1] ELSE audited
    /\ GoTo(p, "delete")
    /\ UNCHANGED <<now, sessions, created, prompts, written, delivered, replied, cancelled, chosen>>

Without(id) == {s \in sessions : s.id # id}

EndSession(p) ==
    /\ At(p, "delete")
    /\ \E o \in Outcome("store") :
        sessions' = IF o.took THEN Without(handler[p].row.id) ELSE sessions
    /\ Finish(p)
    /\ UNCHANGED <<now, created, prompts, written, delivered, audited, replied, cancelled, chosen>>

--------------------------------------------------------------------------------
\* Slip: the owner is told so whatever the statement reported.
DeleteUnchecked(id) ==
    \E o \in Outcome("store") :
        /\ sessions' = IF o.took THEN Without(id) ELSE sessions
        /\ cancelled' = cancelled \cup {id}

\* DeleteOwnerReplySession on behalf of the owner, who is told the mode is
\* cancelled when the statement deleted a row and reported it.
DeleteOwnerReplySession(id) ==
    \E o \in Outcome("store") :
        /\ sessions' = IF o.took THEN Without(id) ELSE sessions
        /\ cancelled' = IF o.ok /\ Without(id) # sessions THEN cancelled \cup {id}
                        ELSE cancelled

CancelActive(p) ==
    /\ At(p, "cancel")
    /\ DeleteOwnerReplySession(handler[p].id)
    /\ Finish(p)
    /\ UNCHANGED <<now, created, prompts, written, delivered, audited, replied, chosen>>

\* The Cancel button of a prompt, however old: one store call.
CallbackCancelReply(p, id) ==
    /\ At(p, "idle")
    /\ id \in prompts
    /\ DeleteOwnerReplySession(id)
    /\ UNCHANGED <<now, created, prompts, written, delivered, audited, replied, chosen, handler>>

Tick ==
    /\ now < MaxTime
    /\ now' = now + 1
    /\ UNCHANGED <<sessions, created, prompts, written, delivered, audited, replied,
                   cancelled, chosen, handler>>

\* The process dies and starts again: table and chat stay.
Restart ==
    /\ "crash" \in Faults
    /\ handler' = [p \in Procs |-> Idle]
    /\ chosen' = IF Creating = {} THEN chosen ELSE {}
    /\ UNCHANGED <<now, sessions, created, prompts, written, delivered, audited,
                   replied, cancelled>>

OwnerUpdate(p) ==
    \/ \E m \in Mappings : PressReply(p, m)
    \/ Write(p)
    \/ CancelReplyCommand(p)
    \/ \E id \in prompts : CallbackCancelReply(p, id)

HandlerStep(p) ==
    \/ CreateOwnerReplySession(p) \/ SendPrompt(p)
    \/ ReadClock(p) \/ DeleteExpired(p) \/ SelectSession(p) \/ NoSession(p)
    \/ Refuse(p) \/ Deliver(p) \/ MarkReplied(p) \/ AuditReply(p) \/ EndSession(p)
    \/ CancelActive(p)

Next ==
    \/ \E p \in Procs : OwnerUpdate(p) \/ HandlerStep(p)
    \/ Tick
    \/ Restart

Spec == Init /\ [][Next]_vars
--------------------------------------------------------------------------------
TypeOK ==
    /\ now \in Nat
    /\ sessions \subseteq Row
    /\ created \in Seq(Mappings) /\ lastId <= MaxSessions
    /\ prompts \subseteq Ids
    /\ written \in Nat
    /\ delivered \in [Ids -> Nat]
    /\ audited \in [Ids -> Nat]
    /\ replied \subseteq Mappings
    /\ cancelled \subseteq Ids
    /\ chosen \subseteq Mappings
    /\ handler \in [Procs -> Active \cup {Idle}]

Replying(p) == handler[p].step \in {"deliver", "mark", "audit", "delete"}

\* A message goes through the session that was in force when the owner wrote it or
\* one stored after that, never through an earlier one (CreateOwnerReplySession
\* replaces, sqlite.go:243); and if no Reply button was on its way by then, and the
\* last had been pressed alone and answered without an error, the session in force is
\* for the stranger of that button.  A press whose session is not stored yet does not
\* count: a message written that soon may go to the choice before (callbacks.go:35).
LatestChoice ==
    \A p \in Procs : Replying(p) =>
        LET h == handler[p]
        IN  /\ h.row.id >= h.at.floor
            /\ h.row.id = h.at.floor => h.at.choice \subseteq {h.row.mapping}

\* Once the owner has been told that the reply mode is cancelled, nothing he
\* writes afterwards goes out through it, whatever buttons, failures and
\* restarts there are (handlers.go:549, callbacks.go:212).
CancelIsFinal == \A p \in Procs : Replying(p) => handler[p].row.id \notin handler[p].at.gone

\* A message written after a session's time is up never goes out through it,
\* even when expired rows cannot be deleted (sqlite.go:267, 273).
ExpiredStaysUnused == \A p \in Procs : Replying(p) => handler[p].row.expires > handler[p].at.since

\* Handlers between the delivery of a reply through session i and its audit row.
Unaudited(i) ==
    {p \in Procs : handler[p].step \in {"mark", "audit"} /\ handler[p].row.id = i}

\* The records of a reply are true, although errors on the way are ignored and
\* everything may stop half way.  The audit log, from which /stats counts replies,
\* holds at most one row per message that really went out, rows still to be
\* written included; a mapping is marked replied only after a message for it has
\* gone out (handlers.go:296, 300, 304).
RecordsBacked ==
    /\ \A i \in Ids : audited[i] + Cardinality(Unaudited(i)) <= delivered[i]
    /\ \A m \in replied : \E i \in DOMAIN created : created[i] = m /\ delivered[i] > 0

\* README.md:167, "one-message reply mode": a session carries one message.
OneMessage == \A i \in Ids : delivered[i] <= 1
================================================================================
