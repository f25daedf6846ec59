---------------------------------- MODULE Relay ----------------------------------
(***************************************************************************)
(* What happens to a message of a stranger once it is admitted (module     *)
(* Intake): handleStrangerText and handleStrangerMedia put it in the       *)
(* owner's chat, map it to its author, attach the buttons, count it and    *)
(* acknowledge it; and what the owner does with it there: reply to it      *)
(* (handleOwnerReply, handleOwnerMediaReply), send a quick reply or ignore *)
(* it (internal/bot/handlers.go and callbacks.go, the message_mappings     *)
(* table of internal/store/sqlite.go).                                     *)
(*                                                                         *)
(* Handlers are goroutines; each call to the store or to Telegram is one   *)
(* step.  A call may report an error, whether or not it took effect, and   *)
(* the process may die between two calls; Faults says which of these a run *)
(* considers.  Telegram hands an update over again after a restart until   *)
(* the poller has asked for the next ones.                                 *)
(*                                                                         *)
(* A chat message is known by its position in chat.  Which of the status   *)
(* buttons it shows is left out; that it shows them, and for which mapping,*)
(* is not.                                                                 *)
(***************************************************************************)
EXTENDS Naturals, Sequences, FiniteSets

CONSTANTS
    Users,         \* strangers
    Texts, Media,  \* the messages they send
    AuthorOf,      \* who sends which
    Procs,         \* goroutines
    Faults,        \* failures considered: "store", "api", "crash"
    MaxChat,       \* bound: messages in the owner's chat
    MaxReplies     \* bound: replies the owner attempts

Messages == Texts \cup Media

ASSUME AuthorAssumption == AuthorOf \in [Messages -> Users]
ASSUME KindAssumption   == Texts \cap Media = {}
ASSUME FaultAssumption  == Faults \subseteq {"store", "api", "crash"}
ASSUME BoundAssumption  == MaxChat \in Nat /\ MaxReplies \in Nat
ASSUME ProcsAssumption  == IsFiniteSet(Procs)

VARIABLES
    update,      \* what Telegram knows of the delivery of each stranger's message
    chat,        \* every message ever put in the owner's chat
    visible,     \* those that have not been deleted
    mappings,    \* rows of message_mappings; the index is the id
    count,       \* users.message_count
    forwards,    \* forward rows in audit_logs, by actor
    answers,     \* what each stranger has been told of his message
    attempts,    \* replies the owner has attempted
    received,    \* replies that reached a stranger
    audited,     \* replies on record in audit_logs
    blocked,     \* strangers whose status is blocked
    handler      \* the goroutines

vars == <<update, chat, visible, mappings, count, forwards, answers, attempts,
          received, audited, blocked, handler>>

ChatIds  == 1..MaxChat

\* relay is the formatted message (for media, the metadata), copy the media
\* itself, panel the separate message that carries the buttons when they cannot
\* be attached.  buttons is the mapping they act on, 0 for none; an ignored
\* message keeps a single button.
Chat     == [msg : Messages, part : {"relay", "copy", "panel"}, buttons : Nat,
             kept : {"all", "ignored"}]
Mapping  == [owner : ChatIds, user : Users, msg : Messages,
             status : {"open", "replied", "ignored"}]

Idle     == [step |-> "idle"]
Forward  == [step : {"send", "map", "orphan", "copy", "attach", "panel", "count",
                     "forward", "ack"},
             msg : Messages, own : 0..MaxChat, mapping : Nat]
\* via is the chat message the owner acts on; clear, history: its author was
\* not blocked at some time since the owner acted.
Reply    == [step : {"lookup", "target", "quick", "reply", "mark", "audit"},
             how : {"reply", "quick"}, id : Nat, via : ChatIds, mapping : Nat,
             clear : BOOLEAN]
Ignore   == [step : {"ignore", "keyboard"}, via : ChatIds, mapping : Nat]
Active   == Forward \cup Reply \cup Ignore

At(p, s)     == handler[p].step = s
Become(p, h) == handler' = [handler EXCEPT ![p] = h]
GoTo(p, s)   == handler' = [handler EXCEPT ![p].step = s]
Finish(p)    == Become(p, Idle)

\* A call ends in one of these: whether it took effect and what it reported.
Outcome(kind) ==
    {[took |-> TRUE, ok |-> TRUE]} \cup
    IF kind \in Faults THEN [took : BOOLEAN, ok : {FALSE}] ELSE {}

--------------------------------------------------------------------------------
Init ==
    /\ update = [m \in Messages |-> "queued"]
    /\ chat = <<>>
    /\ visible = {}
    /\ mappings = <<>>
    /\ count = [u \in Users |-> 0]
    /\ forwards = [u \in Users |-> 0]
    /\ answers = [m \in Messages |-> {}]
    /\ attempts = 0
    /\ received = {}
    /\ audited = {}
    /\ blocked = {}
    /\ handler = [p \in Procs |-> Idle]

\* An admitted message gets to the point where it is sent to the owner.
Admit(p, m) ==
    /\ At(p, "idle")
    /\ update[m] = "queued"
    /\ update' = [update EXCEPT ![m] = "fetched"]
    /\ Become(p, [step |-> "send", msg |-> m, own |-> 0, mapping |-> 0])
    /\ UNCHANGED <<chat, visible, mappings, count, forwards, answers, attempts,
                   received, audited, blocked>>

\* The last call of every path: the stranger is told how it went.
Tell(p, what) ==
    /\ \E o \in Outcome("api") :
        answers' = IF o.took THEN [answers EXCEPT ![handler[p].msg] = @ \cup {what}]
                   ELSE answers
    /\ Finish(p)

\* A message appears in the owner's chat.
Post(m, part, mapping) ==
    /\ Len(chat) < MaxChat
    /\ chat' = Append(chat, [msg |-> m, part |-> part, buttons |-> mapping, kept |-> "all"])
    /\ visible' = visible \cup {Len(chat) + 1}

\* Slip: the id of the sent message is not kept.
SendForgetful(p) ==
    /\ At(p, "send")
    /\ Post(handler[p].msg, "relay", 0)
    /\ GoTo(p, "map")
    /\ UNCHANGED <<update, mappings, count, forwards, answers, attempts, received,
                   audited, blocked>>

SendRichOwner(p) ==
    /\ At(p, "send")
    /\ Post(handler[p].msg, "relay", 0)
    /\ handler' = [handler EXCEPT ![p].step = "map", ![p].own = Len(chat) + 1]
    /\ UNCHANGED <<update, mappings, count, forwards, answers, attempts, received,
                   audited, blocked>>

\* An error of the call or of the throttle before it.
SendFails(p) ==
    /\ At(p, "send")
    /\ \E o \in Outcome("api") :
        /\ ~ o.ok
        /\ IF o.took THEN Post(handler[p].msg, "relay", 0) ELSE UNCHANGED <<chat, visible>>
    /\ Tell(p, "refused")
    /\ UNCHANGED <<update, mappings, count, forwards, attempts, received, audited, blocked>>

\* On an error the text handler deletes what it sent; the media handler does
\* not.  The row is read back after the insert, so an error may leave it there.
CreateMessageMapping(p) ==
    LET h == handler[p]
        row == [owner |-> h.own, user |-> AuthorOf[h.msg], msg |-> h.msg, status |-> "open"]
    IN
    /\ At(p, "map")
    /\ \E o \in Outcome("store") :
        /\ mappings' = IF o.took THEN Append(mappings, row) ELSE mappings
        /\ \/ /\ o.ok
              /\ handler' = [handler EXCEPT ![p].mapping = Len(mappings) + 1,
                                            ![p].step = IF h.msg \in Media THEN "copy"
                                                        ELSE "attach"]
              /\ UNCHANGED answers
           \/ /\ ~ o.ok /\ h.msg \in Texts
              /\ GoTo(p, "orphan")
              /\ UNCHANGED answers
           \/ /\ ~ o.ok /\ h.msg \in Media
              /\ Tell(p, "refused")
    /\ UNCHANGED <<update, chat, visible, count, forwards, attempts, received, audited,
                   blocked>>

\* Slip: everything shown of the message is taken back.
DeleteAll(p) ==
    /\ At(p, "orphan")
    /\ \E o \in Outcome("api") :
        visible' = IF o.took THEN {i \in visible : chat[i].msg # handler[p].msg} ELSE visible
    /\ Tell(p, "refused")
    /\ UNCHANGED <<update, chat, mappings, count, forwards, attempts, received, audited,
                   blocked>>

DeleteOrphan(p) ==
    /\ At(p, "orphan")
    /\ \E o \in Outcome("api") :
        visible' = IF o.took THEN visible \ {handler[p].own} ELSE visible
    /\ Tell(p, "refused")
    /\ UNCHANGED <<update, chat, mappings, count, forwards, attempts, received, audited,
                   blocked>>

\* Slip: an error is only logged.
CopyRegardless(p) ==
    /\ At(p, "copy")
    /\ \E o \in Outcome("api") :
        IF o.took THEN Post(handler[p].msg, "copy", 0) ELSE UNCHANGED <<chat, visible>>
    /\ GoTo(p, "attach")
    /\ UNCHANGED <<update, mappings, count, forwards, answers, attempts, received, audited,
                   blocked>>

CopyOwner(p) ==
    /\ At(p, "copy")
    /\ \E o \in Outcome("api") :
        /\ IF o.took THEN Post(handler[p].msg, "copy", 0) ELSE UNCHANGED <<chat, visible>>
        /\ GoTo(p, IF o.ok THEN "attach" ELSE "orphan")
    /\ UNCHANGED <<update, mappings, count, forwards, answers, attempts, received, audited,
                   blocked>>

\* Slip: the buttons act on the newest mapping.
AttachNewest(p) ==
    /\ At(p, "attach")
    /\ chat' = [chat EXCEPT ![handler[p].own].buttons = Len(mappings)]
    /\ GoTo(p, "count")
    /\ UNCHANGED <<update, visible, mappings, count, forwards, answers, attempts, received,
                   audited, blocked>>

\* attachOwnerKeyboard: the buttons go on the message itself,
AttachKeyboard(p) ==
    /\ At(p, "attach")
    /\ \E o \in Outcome("api") :
        /\ chat' = IF o.took THEN [chat EXCEPT ![handler[p].own].buttons = handler[p].mapping]
                   ELSE chat
        /\ GoTo(p, IF o.ok THEN "count" ELSE "panel")
    /\ UNCHANGED <<update, visible, mappings, count, forwards, answers, attempts, received,
                   audited, blocked>>

\* or else on a panel of their own.
SendPanel(p) ==
    /\ At(p, "panel")
    /\ \E o \in Outcome("api") :
        IF o.took THEN Post(handler[p].msg, "panel", handler[p].mapping)
        ELSE UNCHANGED <<chat, visible>>
    /\ GoTo(p, "count")
    /\ UNCHANGED <<update, mappings, count, forwards, answers, attempts, received, audited,
                   blocked>>

IncrementMessageCount(p) ==
    /\ At(p, "count")
    /\ \E o \in Outcome("store") :
        count' = IF o.took THEN [count EXCEPT ![AuthorOf[handler[p].msg]] = @ + 1] ELSE count
    /\ GoTo(p, "forward")
    /\ UNCHANGED <<update, chat, visible, mappings, forwards, answers, attempts, received,
                   audited, blocked>>

\* Slip: an insert that reports an error is tried again.
AuditRetried(p) ==
    /\ At(p, "forward")
    /\ \E o \in Outcome("store") :
        /\ forwards' = IF o.took THEN [forwards EXCEPT ![AuthorOf[handler[p].msg]] = @ + 1]
                       ELSE forwards
        /\ GoTo(p, IF o.ok THEN "ack" ELSE "forward")
    /\ UNCHANGED <<update, chat, visible, mappings, count, answers, attempts, received,
                   audited, blocked>>

AuditForward(p) ==
    /\ At(p, "forward")
    /\ \E o \in Outcome("store") :
        forwards' = IF o.took THEN [forwards EXCEPT ![AuthorOf[handler[p].msg]] = @ + 1]
                    ELSE forwards
    /\ GoTo(p, "ack")
    /\ UNCHANGED <<update, chat, visible, mappings, count, answers, attempts, received,
                   audited, blocked>>

\* "Message relayed.  Please wait for a reply."
Acknowledge(p) ==
    /\ At(p, "ack")
    /\ Tell(p, "relayed")
    /\ UNCHANGED <<update, chat, visible, mappings, count, forwards, attempts, received,
                   audited, blocked>>

--------------------------------------------------------------------------------
ChatAuthor(i) == AuthorOf[chat[i].msg]

\* The owner answers the chat message i, by a Telegram reply or a quick reply.
StartReply(p, how, i, k, step) ==
    /\ attempts < MaxReplies
    /\ attempts' = attempts + 1
    /\ Become(p, [step |-> step, how |-> how, id |-> attempts + 1, via |-> i, mapping |-> k,
                  clear |-> ChatAuthor(i) \notin blocked])

handleOwnerReply(p, i) ==
    /\ At(p, "idle") /\ i \in visible
    /\ StartReply(p, "reply", i, 0, "lookup")
    /\ UNCHANGED <<update, chat, visible, mappings, count, forwards, answers, received,
                   audited, blocked>>

HasButtons(i) == i \in visible /\ chat[i].buttons # 0

\* The menu of quick replies is a message of its own: it stays when Ignore takes
\* the button away that has posted it.
handleCallbackQuickSend(p, i) ==
    /\ At(p, "idle") /\ HasButtons(i)
    /\ StartReply(p, "quick", i, chat[i].buttons, "quick")
    /\ UNCHANGED <<update, chat, visible, mappings, count, forwards, answers, received,
                   audited, blocked>>

\* A reply ends early: nothing mapped, target blocked, text too long, or an
\* error on the way to sending it.
GiveUp(p) ==
    /\ \/ At(p, "lookup") /\ ("store" \in Faults \/ \A k \in DOMAIN mappings :
                                  mappings[k].owner # handler[p].via)
       \/ At(p, "target")
       \/ At(p, "quick") /\ "store" \in Faults
    /\ Finish(p)
    /\ UNCHANGED <<update, chat, visible, mappings, count, forwards, answers, attempts,
                   received, audited, blocked>>

\* Slip: the query forgets owner_message_id.
GetAnyMapping(p) ==
    /\ At(p, "lookup")
    /\ \E k \in DOMAIN mappings :
        handler' = [handler EXCEPT ![p].step = "target", ![p].mapping = k]
    /\ UNCHANGED <<update, chat, visible, mappings, count, forwards, answers, attempts,
                   received, audited, blocked>>

GetMappingByOwnerMessage(p) ==
    /\ At(p, "lookup")
    /\ \E k \in DOMAIN mappings :
        /\ mappings[k].owner = handler[p].via
        /\ handler' = [handler EXCEPT ![p].step = "target", ![p].mapping = k]
    /\ UNCHANGED <<update, chat, visible, mappings, count, forwards, answers, attempts,
                   received, audited, blocked>>

\* Slip: the status is not looked at.
TargetUnchecked(p) ==
    /\ At(p, "target")
    /\ GoTo(p, "reply")
    /\ UNCHANGED <<update, chat, visible, mappings, count, forwards, answers, attempts,
                   received, audited, blocked>>

\* GetUser on the author: a blocked one gets no reply.
TargetOpen(p) ==
    /\ At(p, "target")
    /\ mappings[handler[p].mapping].user \notin blocked
    /\ GoTo(p, "reply")
    /\ UNCHANGED <<update, chat, visible, mappings, count, forwards, answers, attempts,
                   received, audited, blocked>>

\* A quick reply looks at the mapping only.
QuickTarget(p) ==
    /\ At(p, "quick")
    /\ GoTo(p, "reply")
    /\ UNCHANGED <<update, chat, visible, mappings, count, forwards, answers, attempts,
                   received, audited, blocked>>

\* Slip: the error of the send is only logged.
SendRegardless(p) ==
    LET h == handler[p] IN
    /\ At(p, "reply")
    /\ \E o \in Outcome("api") :
        received' = IF o.took
                    THEN received \cup {[id |-> h.id, via |-> h.via,
                                         to |-> mappings[h.mapping].user]}
                    ELSE received
    /\ GoTo(p, "mark")
    /\ UNCHANGED <<update, chat, visible, mappings, count, forwards, answers, attempts,
                   audited, blocked>>

SendUser(p) ==
    LET h == handler[p] IN
    /\ At(p, "reply")
    /\ \E o \in Outcome("api") :
        /\ received' = IF o.took
                       THEN received \cup {[id |-> h.id, via |-> h.via,
                                            to |-> mappings[h.mapping].user]}
                       ELSE received
        /\ IF o.ok THEN GoTo(p, "mark") ELSE Finish(p)
    /\ UNCHANGED <<update, chat, visible, mappings, count, forwards, answers, attempts,
                   audited, blocked>>

UpdateMappingStatus(k, status) ==
    mappings' = [mappings EXCEPT ![k].status = status]

MarkReplied(p) ==
    /\ At(p, "mark")
    /\ \E o \in Outcome("store") :
        IF o.took THEN UpdateMappingStatus(handler[p].mapping, "replied")
        ELSE UNCHANGED mappings
    /\ GoTo(p, "audit")
    /\ UNCHANGED <<update, chat, visible, count, forwards, answers, attempts, received,
                   audited, blocked>>

AuditReply(p) ==
    /\ At(p, "audit")
    /\ \E o \in Outcome("store") :
        audited' = IF o.took THEN audited \cup {handler[p].id} ELSE audited
    /\ Finish(p)
    /\ UNCHANGED <<update, chat, visible, mappings, count, forwards, answers, attempts,
                   received, blocked>>

--------------------------------------------------------------------------------
\* Ignore button: the mapping is read; ignored already, it only gets its button.
handleCallbackIgnore(p, i) ==
    /\ At(p, "idle") /\ HasButtons(i)
    /\ Become(p, [step |-> IF mappings[chat[i].buttons].status = "ignored"
                           THEN "keyboard" ELSE "ignore",
                  via |-> i, mapping |-> chat[i].buttons])
    /\ UNCHANGED <<update, chat, visible, mappings, count, forwards, answers, attempts,
                   received, audited, blocked>>

\* Its audit row is left out: no one counts it.
MarkIgnored(p) ==
    /\ At(p, "ignore")
    /\ \E o \in Outcome("store") :
        /\ IF o.took THEN UpdateMappingStatus(handler[p].mapping, "ignored")
           ELSE UNCHANGED mappings
        /\ IF o.ok THEN GoTo(p, "keyboard") ELSE Finish(p)
    /\ UNCHANGED <<update, chat, visible, count, forwards, answers, attempts, received,
                   audited, blocked>>

IgnoredKeyboard(p) ==
    /\ At(p, "keyboard")
    /\ \E o \in Outcome("api") :
        chat' = IF o.took
                THEN [chat EXCEPT ![handler[p].via].buttons = handler[p].mapping,
                                  ![handler[p].via].kept = "ignored"]
                ELSE chat
    /\ Finish(p)
    /\ UNCHANGED <<update, visible, mappings, count, forwards, answers, attempts, received,
                   audited, blocked>>

--------------------------------------------------------------------------------
\* The status changes (module Intake).  Only replies look at it: with none to be
\* made it is left alone, to keep the runs small.
Blocks(u) ==
    /\ MaxReplies > 0
    /\ blocked' = blocked \cup {u}
    /\ UNCHANGED <<update, chat, visible, mappings, count, forwards, answers, attempts,
                   received, audited, handler>>

Replies(p) == handler[p].step \in {"lookup", "target", "quick", "reply", "mark", "audit"}

Unblocks(u) ==
    /\ blocked' = blocked \ {u}
    /\ handler' = [p \in Procs |->
                     IF Replies(p) /\ ChatAuthor(handler[p].via) = u
                     THEN [handler[p] EXCEPT !.clear = TRUE] ELSE handler[p]]
    /\ UNCHANGED <<update, chat, visible, mappings, count, forwards, answers, attempts,
                   received, audited>>

\* The poller asks for the next updates: those fetched do not come again.  Only
\* a restart makes a difference of it.
Confirm ==
    /\ "crash" \in Faults
    /\ update' = [m \in Messages |-> IF update[m] = "fetched" THEN "confirmed" ELSE update[m]]
    /\ UNCHANGED <<chat, visible, mappings, count, forwards, answers, attempts, received,
                   audited, blocked, handler>>

\* The process dies and starts again: unconfirmed messages come once more.
Restart ==
    /\ "crash" \in Faults
    /\ handler' = [p \in Procs |-> Idle]
    /\ update' = [m \in Messages |-> IF update[m] = "fetched" THEN "queued" ELSE update[m]]
    /\ UNCHANGED <<chat, visible, mappings, count, forwards, answers, attempts, received,
                   audited, blocked>>

ForwardStep(p) ==
    \/ \E m \in Messages : Admit(p, m)
    \/ SendRichOwner(p) \/ SendFails(p) \/ CreateMessageMapping(p) \/ DeleteOrphan(p)
    \/ CopyOwner(p) \/ AttachKeyboard(p) \/ SendPanel(p)
    \/ IncrementMessageCount(p) \/ AuditForward(p) \/ Acknowledge(p)

OwnerStep(p) ==
    \/ \E i \in visible : \/ handleOwnerReply(p, i)
                          \/ handleCallbackQuickSend(p, i)
                          \/ handleCallbackIgnore(p, i)
    \/ GiveUp(p) \/ GetMappingByOwnerMessage(p) \/ TargetOpen(p) \/ QuickTarget(p)
    \/ SendUser(p) \/ MarkReplied(p) \/ AuditReply(p)
    \/ MarkIgnored(p) \/ IgnoredKeyboard(p)

Next ==
    \/ \E p \in Procs : ForwardStep(p) \/ OwnerStep(p)
    \/ \E u \in Users : Blocks(u) \/ Unblocks(u)
    \/ Confirm
    \/ Restart

Spec == Init /\ [][Next]_vars
--------------------------------------------------------------------------------
TypeOK ==
    /\ update \in [Messages -> {"queued", "fetched", "confirmed"}]
    /\ chat \in Seq(Chat) /\ Len(chat) <= MaxChat
    /\ visible \subseteq DOMAIN chat
    /\ mappings \in Seq(Mapping)
    /\ count \in [Users -> Nat]
    /\ forwards \in [Users -> Nat]
    /\ answers \in [Messages -> SUBSET {"relayed", "refused"}]
    /\ attempts \in 0..MaxReplies
    /\ received \subseteq [id : 1..MaxReplies, via : ChatIds, to : Users]
    /\ audited \subseteq 1..MaxReplies
    /\ blocked \subseteq Users
    /\ handler \in [Procs -> Active \cup {Idle}]

\* Message m can be read and answered in the owner's chat.
Answerable(m) ==
    /\ \E i \in visible, k \in DOMAIN mappings :
          /\ chat[i].msg = m /\ chat[i].part = "relay"
          /\ mappings[k].owner = i /\ mappings[k].user = AuthorOf[m]
    /\ m \in Media => \E i \in visible : chat[i].msg = m /\ chat[i].part = "copy"

\* A stranger is told that his message was relayed only if the owner has it, media
\* included, and can reply to it, whatever failed, was deleted or came twice
\* (handlers.go:220, 415).
AckedIsAnswerable == \A m \in Messages : "relayed" \in answers[m] => Answerable(m)

\* A reply reaches the author of the message it answers, and no one else, however
\* many messages are on their way at once (message_mappings, handlers.go:240).
ReplyReachesAuthor == \A r \in received : r.to = ChatAuthor(r.via)

\* The buttons under a chat message, or on its panel, act on the author of that
\* message, whoever else's message was stored meanwhile (keyboards.go:9).
ButtonsMatch ==
    \A i \in visible : chat[i].buttons # 0 =>
        /\ chat[i].buttons \in DOMAIN mappings
        /\ mappings[chat[i].buttons].msg = chat[i].msg

\* What the records say was answered, was.  A mapping says replied only if a
\* reply to that very chat message, or a quick reply from its buttons, reached its
\* author (handlers.go:263, callbacks.go:87); the audit log, from which /stats
\* counts replies, has no reply that no stranger received (handlers.go:268).
RecordedWasReceived ==
    /\ \A k \in DOMAIN mappings : mappings[k].status = "replied" =>
          \E r \in received : r.to = mappings[k].user
                              /\ (r.via = mappings[k].owner \/ chat[r.via].buttons = k)
    /\ \A id \in audited : \E r \in received : r.id = id

\* Messages of u that have a mapping, one each time they were put in the chat.
MappingsOf(u)  == {k \in DOMAIN mappings : mappings[k].user = u}
Ahead(u, step) == {p \in Procs : handler[p].step \in step /\ AuthorOf[handler[p].msg] = u}

\* message_count and the forward rows never run ahead of the messages mapped,
\* counting the handlers that have still to write theirs: errors and crashes
\* can only make them smaller (handlers.go:212, 216).
CountsBacked ==
    \A u \in Users :
        /\ count[u] + Cardinality(Ahead(u, {"copy", "attach", "panel", "count"}))
             <= Cardinality(MappingsOf(u))
        /\ forwards[u] + Cardinality(Ahead(u, {"copy", "attach", "panel", "count", "forward"}))
             <= Cardinality(MappingsOf(u))

\* A Telegram reply goes out only if its stranger was not blocked at some moment
\* since the owner wrote it (handlers.go:253, 441).  A quick reply has no such check.
BlockedGetsNoReply ==
    \A p \in Procs : At(p, "reply") /\ handler[p].how = "reply" => handler[p].clear

\* The two chats, the table and the logs as a conversation: which messages the
\* owner has, whole and answerable, what their authors know of it, and who got what
\* reply to which.
Shown    == {chat[i].msg : i \in DOMAIN chat}
Open     == {m \in Messages : Answerable(m)}
Told     == {m \in Messages : "relayed" \in answers[m]}
Answers  == {[id |-> r.id, msg |-> chat[r.via].msg, to |-> r.to] : r \in received}
Answered == {mappings[k].msg : k \in {j \in DOMAIN mappings : mappings[j].status = "replied"}}

\* All that goroutines, failing calls and deliveries that come twice do amounts to
\* a conversation: no message is taken back once its author was told of it, no
\* reply reaches anyone but the author of what it answers, and nothing is marked or
\* logged before it went out (handlers.go:188, 240, 388).
Talk == INSTANCE Conversation WITH
            Ids <- 1..MaxReplies, shown <- Shown, open <- Open, told <- Told,
            received <- Answers, answered <- Answered
Conversed == Talk!Spec
================================================================================
