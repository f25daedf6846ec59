------------------------------- MODULE Moderation -------------------------------
(***************************************************************************)
(* How the owner decides about a stranger: the buttons under a relayed     *)
(* message (internal/bot/callbacks.go) and the commands                    *)
(* (internal/bot/handlers.go).  A decision writes the row of users, then   *)
(* the audit log, then, if a button was pressed, the keyboard under the    *)
(* message of that button; several may be in progress, while the bot       *)
(* itself bans and restores the stranger (module Intake).                  *)
(*                                                                         *)
(* The owner's chat is a sequence of messages; the first is the relayed    *)
(* one, which the mapping refers to.  The others have none: the panel that *)
(* carries the keyboard if it could not be attached, and the confirmations *)
(* that the Ban button asks for.  One message is relayed, from the moment  *)
(* its handler reads the stranger's status.  banned_until and the reason   *)
(* of a ban are left out.                                                  *)
(***************************************************************************)
EXTENDS Commands, FiniteSets

CONSTANTS
    Procs,        \* goroutines
    Stranger,     \* telegram_id of the author of the relayed message
    Mapping,      \* id of its row in message_mappings
    Updates,      \* commands that arrive: [sender, chat, text]; buttons, from the same
    Faults,       \* calls that may fail: "store", "api"
    MaxChat,      \* bound: messages in the owner's chat
    MaxActs       \* bound: buttons pressed and commands written

ASSUME ProcsAssumption == IsFiniteSet(Procs)
ASSUME IdAssumption ==
    Word \notin Nat /\ Stranger \in Nat \ {0} /\ Mapping \in Nat \ {0}
ASSUME UpdateAssumption ==
    \A u \in Updates : u.text.args \in Seq(Nat \cup {Word})
ASSUME FaultAssumption == Faults \subseteq {"store", "api"}
ASSUME BoundAssumption == MaxChat \in Nat \ {0} /\ MaxActs \in Nat

Statuses  == {"normal", "muted", "blocked"}
Decisions == {"ban", "mute", "unmute", "unban"}
Recorded  == Decisions \cup {"ignore", "reply"}

\* The status a decision writes.
Result(decision) ==
    CASE decision = "ban"  -> "blocked"
      [] decision = "mute" -> "muted"
      [] OTHER             -> "normal"

VARIABLES
    status,     \* users.status of the stranger
    mapping,    \* message_mappings.status
    chat,       \* what each message of the owner's chat shows
    relay,      \* what the handler that relays the message has left to do
    handler,    \* the goroutines of the owner's updates
    acts,       \* buttons pressed and commands written
    \* history
    written,    \* how often each kind of update of a row took effect
    audited,    \* rows of audit_logs
    latest,     \* the newest of them
    had,        \* statuses the stranger has had since that handler read his
    bans,       \* confirmations whose ban took effect
    refused,    \* confirmations whose ban the owner was told found no user
    tidy,       \* the decision just made, if nothing interfered with it
    breach      \* what was done against the rules

vars == <<status, mapping, chat, relay, handler, acts, written, audited, latest,
          had, bans, refused, tidy, breach>>

\* A message shows the keyboard for a status or another text; see Buttons.
Shows == Statuses \cup {"nothing", "ignored", "confirm", "banned", "cancelled"}

\* act is what is to be done, to the stranger or mapping id, msg the message of
\* the button, 0 for a command.  History: alone, nothing else happened since
\* and nothing failed; open, the stranger was not blocked at some time since;
\* own, the update was the owner's, from the private chat.
Idle   == [step |-> "idle"]
Active == [step : {"set", "audit", "refresh", "panel", "ask", "cancel", "load", "mark",
                   "edit", "get", "send"},
           act : Recorded \cup {"ban_cancel"}, id : Nat,
           msg : 0..MaxChat, alone : BOOLEAN, open : BOOLEAN, own : BOOLEAN]

At(p, s)   == handler[p].step = s
Busy       == {p \in Procs : ~At(p, "idle")}
Outcome(kind) ==
    {[took |-> TRUE, ok |-> TRUE]} \cup
    IF kind \in Faults THEN [took : BOOLEAN, ok : {FALSE}] ELSE {}

\* The goroutine makes its next call, after one that was fine or was not.
GoTo(p, s, fine) == handler' = [handler EXCEPT ![p].step = s, ![p].alone = @ /\ fine]

\* It ends, and so does the decision, if it was one.
Finish(p, fine) ==
    /\ handler' = [handler EXCEPT ![p] = Idle]
    /\ tidy' = IF handler[p].alone /\ fine
               THEN [act |-> handler[p].act, msg |-> handler[p].msg] ELSE tidy

Buttons(m) ==
    CASE chat[m] \in Statuses -> BuildOwnerMessageKeyboard(Mapping, Stranger, chat[m])
      [] chat[m] = "confirm"  -> BuildBanConfirmKeyboard(Stranger)
      [] chat[m] = "ignored"  -> BuildIgnoredKeyboard(Mapping)
      [] OTHER                -> {}

--------------------------------------------------------------------------------
Init ==
    /\ status \in Statuses
    /\ mapping = "none"
    /\ chat = <<>>
    /\ relay = "copy"
    /\ handler = [p \in Procs |-> Idle]
    /\ acts = 0
    /\ written = [a \in Recorded |-> 0]
    /\ audited = [a \in Recorded |-> 0]
    /\ latest = "none"
    /\ had = {status}
    /\ bans = {}
    /\ refused = {}
    /\ tidy = Idle
    /\ breach = {}

\* Slip: the action is named after the button.
ButtonItself(unique) == unique

ActOf(unique) == IF unique = "ban_confirm" THEN "ban" ELSE unique

\* Slip: the confirmation is edited to say "banned" first of all.
PanelFirst(unique) ==
    CASE unique = "ban"         -> "ask"
      [] unique = "ban_confirm" -> "panel"
      [] unique = "ban_cancel"  -> "cancel"
      [] unique = "ignore"      -> "load"
      [] OTHER                  -> "set"

\* The first call of a button's handler.
FirstStep(unique) ==
    CASE unique = "ban"        -> "ask"
      [] unique = "ban_cancel" -> "cancel"
      [] unique = "ignore"     -> "load"
      [] OTHER                 -> "set"

\* A goroutine is started for an update from a sender, in a chat.
Arrive(p, step, act, id, msg, sender, place) ==
    /\ At(p, "idle")
    /\ acts < MaxActs
    /\ acts' = acts + 1
    /\ handler' = [q \in Procs |->
          IF q = p
          THEN [step |-> step, act |-> act, id |-> id, msg |-> msg,
                own |-> sender = OwnerID /\ place = "private",
                alone |-> act \in Decisions /\ Busy = {} /\ relay = "done",
                open |-> act # "reply" \/ status # "blocked"]
          ELSE IF q \in Busy THEN [handler[q] EXCEPT !.alone = FALSE] ELSE handler[q]]
    /\ tidy' = Idle
    /\ UNCHANGED <<status, mapping, chat, relay, written, audited, latest, had, bans, refused, breach>>

\* Someone presses a button that changes something here.
Press(p) ==
    \E u \in Updates, m \in DOMAIN chat : \E b \in Buttons(m) :
        LET call == ParseCallback(b.unique, b.data)
        IN  /\ ~ownerActionRejection(u.sender, u.chat)
            /\ b.unique \in Decisions \cup {"ban_confirm", "ban_cancel", "ignore"}
            /\ call # Invalid
            /\ Arrive(p, FirstStep(b.unique), ActOf(b.unique), call.id, m, u.sender, u.chat)

\* Someone writes /ban, /unban, /mute, /unmute or /reply.
Command(p) ==
    \E u \in Updates :
        LET command == ParseCommand(u.text)
        IN  /\ ~ownerActionRejection(u.sender, u.chat)
            /\ command.name \in Decisions \cup {"reply"}
            /\ Arrive(p, IF command.name = "reply" THEN "get" ELSE "set", command.name,
                      command.id, 0, u.sender, u.chat)

--------------------------------------------------------------------------------
\* The handlers, now that the stranger's status is s.
Seeing(s) ==
    [q \in Procs |-> IF q \in Busy /\ s # "blocked"
                     THEN [handler[q] EXCEPT !.open = TRUE] ELSE handler[q]]

\* Slip: an error of the statement is only logged.
SetRegardless(p) ==
    /\ At(p, "set")
    /\ \E o \in Outcome("store") :
        LET h == handler[p]
            s == IF o.took THEN Result(h.act) ELSE status
        IN  /\ status' = s
            /\ had' = had \cup {s}
            /\ written' = IF o.took THEN [written EXCEPT ![h.act] = @ + 1] ELSE written
            /\ handler' = [Seeing(s) EXCEPT ![p].step = "audit", ![p].alone = @ /\ o.ok]
    /\ UNCHANGED <<mapping, chat, relay, acts, audited, latest, bans, refused, tidy, breach>>

\* The handler of a confirmation.
Confirms(h) == h.act = "ban" /\ h.msg > 0

\* SetUserStatus or ClearBan.  Any error is answered with "User not found.",
\* and the confirmation of a ban goes on to edit its message unless that answer
\* fails as well.
SetRow(p) ==
    /\ At(p, "set")
    /\ LET h == handler[p] IN
       \E o \in IF h.id = Stranger THEN Outcome("store") ELSE {[took |-> FALSE, ok |-> FALSE]} :
        LET s == IF o.took THEN Result(h.act) ELSE status
        IN  /\ status' = s
            /\ had' = had \cup {s}
            /\ written' = IF o.took THEN [written EXCEPT ![h.act] = @ + 1] ELSE written
            /\ breach' = IF o.took /\ ~h.own THEN breach \cup {"owner"} ELSE breach
            /\ bans' = IF o.took /\ Confirms(h) THEN bans \cup {h.msg} ELSE bans
            /\ \/ /\ o.ok
                  /\ handler' = [Seeing(s) EXCEPT ![p].step = "audit"]
                  /\ UNCHANGED refused
               \/ /\ ~o.ok /\ Confirms(h)
                  /\ handler' = [Seeing(s) EXCEPT ![p].step = "panel", ![p].alone = FALSE]
                  /\ refused' = refused \cup {h.msg}
               \/ /\ ~o.ok /\ (Confirms(h) => "api" \in Faults)
                  /\ handler' = [Seeing(s) EXCEPT ![p] = Idle]
                  /\ UNCHANGED refused
            \* a button that finds no user was not tidy, whatever it reports
            /\ tidy' = IF h.alone /\ h.msg > 0 /\ h.id # Stranger
                       THEN [act |-> h.act, msg |-> h.msg] ELSE tidy
    /\ UNCHANGED <<mapping, chat, relay, acts, audited, latest>>

\* AddAuditLog, whose error is only logged; a command is then answered.
Audit(p) ==
    /\ At(p, "audit")
    /\ \E o \in Outcome("store") :
        LET act == handler[p].act
        IN  /\ audited' = IF o.took THEN [audited EXCEPT ![act] = @ + 1] ELSE audited
            /\ latest' = IF o.took THEN act ELSE latest
            /\ IF handler[p].msg = 0 THEN Finish(p, o.ok)
               ELSE GoTo(p, IF act = "ignore" THEN "edit" ELSE "refresh", o.ok) /\ UNCHANGED tidy
    /\ UNCHANGED <<status, mapping, chat, relay, acts, written, had, bans, refused, breach>>

\* Edit or EditReplyMarkup of the message of the button, fine or not.
Edit(m, shown, o) == chat' = IF o.took THEN [chat EXCEPT ![m] = shown] ELSE chat

\* refreshOwnerMessageKeyboard: only the relayed message has a mapping, and it
\* gets the keyboard of the status this handler has written.  The answer to a
\* confirmation may fail, and then its message is left as it is.
Refresh(p) ==
    /\ At(p, "refresh")
    /\ LET act == handler[p].act IN
       \/ /\ handler[p].msg = 1
          /\ \E o \in Outcome("api") : Edit(1, Result(act), o) /\ Finish(p, o.ok)
       \/ /\ handler[p].msg = 1 /\ "store" \in Faults
          /\ Finish(p, FALSE) /\ UNCHANGED chat
       \/ /\ handler[p].msg # 1 /\ UNCHANGED chat
          /\ \/ act = "ban" /\ GoTo(p, "panel", TRUE) /\ UNCHANGED tidy
             \/ act # "ban" /\ Finish(p, TRUE)
             \/ "api" \in Faults /\ Finish(p, FALSE)
    /\ UNCHANGED <<status, mapping, relay, acts, written, audited, latest, had, bans, refused, breach>>

\* "User ... banned."
EditPanel(p) ==
    /\ At(p, "panel")
    /\ \E o \in Outcome("api") : Edit(handler[p].msg, "banned", o) /\ Finish(p, o.ok)
    /\ UNCHANGED <<status, mapping, relay, acts, written, audited, latest, had, bans, refused, breach>>

--------------------------------------------------------------------------------
Post(shown) == Len(chat) < MaxChat /\ chat' = Append(chat, shown)

\* The Ban button asks for a confirmation.
handleCallbackBan(p) ==
    /\ At(p, "ask")
    /\ Post("confirm") \/ ("api" \in Faults /\ UNCHANGED chat)
    /\ Finish(p, FALSE)
    /\ UNCHANGED <<status, mapping, relay, acts, written, audited, latest, had, bans, refused, breach>>

handleCallbackBanCancel(p) ==
    /\ At(p, "cancel")
    /\ \E o \in Outcome("api") : Edit(handler[p].msg, "cancelled", o)
    /\ Finish(p, FALSE)
    /\ UNCHANGED <<status, mapping, relay, acts, written, audited, latest, had, bans, refused, breach>>

\* GetMappingByID; what is ignored already only gets its keyboard again.
handleCallbackIgnore(p) ==
    /\ At(p, "load")
    /\ \/ handler[p].id = Mapping /\ GoTo(p, IF mapping = "ignored" THEN "edit" ELSE "mark", TRUE)
                                  /\ UNCHANGED tidy
       \/ (handler[p].id # Mapping \/ "store" \in Faults) /\ Finish(p, FALSE)
    /\ UNCHANGED <<status, mapping, chat, relay, acts, written, audited, latest, had, bans, refused, breach>>

MarkIgnored(p) ==
    /\ At(p, "mark")
    /\ \E o \in Outcome("store") :
        /\ mapping' = IF o.took THEN "ignored" ELSE mapping
        /\ written' = IF o.took THEN [written EXCEPT !["ignore"] = @ + 1] ELSE written
        /\ IF o.ok THEN GoTo(p, "audit", TRUE) /\ UNCHANGED tidy ELSE Finish(p, FALSE)
    /\ UNCHANGED <<status, chat, relay, acts, audited, latest, had, bans, refused, breach>>

ShowIgnored(p) ==
    /\ At(p, "edit")
    /\ \E o \in Outcome("api") : Edit(handler[p].msg, "ignored", o)
    /\ Finish(p, FALSE)
    /\ UNCHANGED <<status, mapping, relay, acts, written, audited, latest, had, bans, refused, breach>>

--------------------------------------------------------------------------------
\* GetUser for /reply, and the check of the status.
GetTarget(p) ==
    /\ At(p, "get")
    /\ \/ handler[p].id = Stranger /\ status # "blocked" /\ GoTo(p, "send", TRUE) /\ UNCHANGED tidy
       \/ /\ handler[p].id # Stranger \/ status = "blocked" \/ "store" \in Faults
          /\ Finish(p, FALSE)
    /\ UNCHANGED <<status, mapping, chat, relay, acts, written, audited, latest, had, bans, refused, breach>>

SendUser(p) ==
    /\ At(p, "send")
    /\ \E o \in Outcome("api") :
        /\ written' = IF o.took THEN [written EXCEPT !["reply"] = @ + 1] ELSE written
        /\ breach' = breach \cup (IF o.took /\ ~handler[p].own THEN {"owner"} ELSE {})
                            \cup (IF o.took /\ ~handler[p].open THEN {"blocked"} ELSE {})
        /\ IF o.ok THEN GoTo(p, "audit", TRUE) /\ UNCHANGED tidy ELSE Finish(p, FALSE)
    /\ UNCHANGED <<status, mapping, chat, relay, acts, audited, latest, had, bans, refused>>

--------------------------------------------------------------------------------
\* The stranger's message.  Its handler reads his status and goes on if it is
\* normal, or if it has just made it so (BotSets).
GetUser ==
    /\ relay = "copy"
    /\ \/ relay' = IF status = "normal" THEN "send" ELSE "done"
       \/ "store" \in Faults /\ relay' = "done"
    /\ had' = {status}
    /\ UNCHANGED <<status, mapping, chat, handler, acts, written, audited, latest, bans,
                   refused, tidy, breach>>

\* Too long, too many, or sent to the owner, without buttons.
SendRichOwner ==
    /\ relay = "send"
    /\ \/ relay' = "done" /\ UNCHANGED chat
       \/ \E o \in Outcome("api") :
            /\ o.took /\ Post("nothing")
            /\ relay' = IF o.ok THEN "map" ELSE "done"
    /\ UNCHANGED <<status, mapping, handler, acts, written, audited, latest, had, bans,
                   refused, tidy, breach>>

\* On an error the message is deleted, or stays without buttons.
CreateMessageMapping ==
    /\ relay = "map"
    /\ \E o \in Outcome("store") :
        /\ mapping' = IF o.took THEN "open" ELSE mapping
        /\ relay' = IF o.ok THEN "attach" ELSE "done"
    /\ UNCHANGED <<status, chat, handler, acts, written, audited, latest, had, bans,
                   refused, tidy, breach>>

\* attachOwnerKeyboard, with the status the handler copied before it relayed.
AttachKeyboard ==
    /\ relay = "attach"
    /\ \E o \in Outcome("api") :
        /\ Edit(1, "normal", o)
        /\ relay' = IF o.ok THEN "done" ELSE "panel"
    /\ UNCHANGED <<status, mapping, handler, acts, written, audited, latest, had, bans, refused,
                   tidy, breach>>

SendPanel ==
    /\ relay = "panel"
    /\ relay' = "done"
    /\ Post("normal") \/ UNCHANGED chat
    /\ UNCHANGED <<status, mapping, handler, acts, written, audited, latest, had, bans, refused,
                   tidy, breach>>

\* An automatic ban, or the end of a temporary one.
BotSets ==
    /\ \E s \in {"blocked", "normal"} :
        /\ status' = s
        /\ had' = had \cup {s}
        /\ handler' = [q \in Procs |-> IF q \in Busy THEN [Seeing(s)[q] EXCEPT !.alone = FALSE]
                                       ELSE Idle]
    /\ tidy' = Idle
    /\ UNCHANGED <<mapping, chat, relay, acts, written, audited, latest, bans, refused, breach>>

\* A reply to the message marks the mapping (module Relay).
MarkReplied ==
    /\ mapping # "none"
    /\ mapping' = "replied"
    /\ UNCHANGED <<status, chat, relay, handler, acts, written, audited, latest, had,
                   bans, refused, tidy, breach>>

HandlerStep(p) ==
    \/ SetRow(p) \/ Audit(p) \/ Refresh(p) \/ EditPanel(p)
    \/ handleCallbackBan(p) \/ handleCallbackBanCancel(p)
    \/ handleCallbackIgnore(p) \/ MarkIgnored(p) \/ ShowIgnored(p)
    \/ GetTarget(p) \/ SendUser(p)

Next ==
    \/ \E p \in Procs : Press(p) \/ Command(p) \/ HandlerStep(p)
    \/ GetUser \/ SendRichOwner \/ CreateMessageMapping \/ AttachKeyboard \/ SendPanel
    \/ BotSets \/ MarkReplied

Spec == Init /\ [][Next]_vars
--------------------------------------------------------------------------------
TypeOK ==
    /\ status \in Statuses
    /\ mapping \in {"none", "open", "ignored", "replied"}
    /\ chat \in Seq(Shows) /\ Len(chat) \in 0..MaxChat
    /\ relay \in {"copy", "send", "map", "attach", "panel", "done"}
    /\ handler \in [Procs -> {Idle} \cup Active]
    /\ acts \in 0..MaxActs
    /\ written \in [Recorded -> Nat] /\ audited \in [Recorded -> Nat]
    /\ latest \in Recorded \cup {"none"}
    /\ had \subseteq Statuses
    /\ bans \subseteq 1..MaxChat /\ refused \subseteq 1..MaxChat
    /\ tidy \in {Idle} \cup [act : Decisions, msg : 0..MaxChat]
    /\ breach \subseteq {"owner", "blocked"}

\* After a decision that nothing interfered with, and no call of which failed,
\* the row, the newest audit row and the keyboard under the message of its
\* button agree; a button always finds its user (callbacks.go:227).
LoneDecisionSettles ==
    tidy # Idle => /\ status = Result(tidy.act)
                   /\ latest = tidy.act
                   /\ tidy.msg = 1 => chat[1] = Result(tidy.act)

\* Every owner's row of the audit log stands for an update of users or
\* message_mappings, or a reply, that took effect: none is written for what
\* failed, and none twice, in whatever order the handlers get to it
\* (callbacks.go:190, callbacks.go:227, callbacks.go:241).
AuditBacked == \A a \in Recorded : audited[a] <= written[a]

\* Rows are written and /reply sends for the owner only, from the private chat,
\* by commands and by buttons (middleware.go:25, callbacks.go:14); and /reply reaches
\* no stranger who was blocked all the time since it was written (handlers.go:522).
RulesKept == breach = {}

\* The buttons under a message are those for a status that the stranger has had
\* since the handler of his message read it: stale they may be, even older than the
\* message itself, but never older than that, and invented never (handlers.go:149,
\* handlers.go:211, callbacks.go:244).
KeyboardWasTrue == \A m \in DOMAIN chat : chat[m] \in Statuses => chat[m] \in had

\* What a message of the chat says has been done, has been done.  A confirmation says
\* "banned" only if its own ban took effect, or if the owner has been told there that
\* it found no user (callbacks.go:160); a message shown as ignored is on record as
\* ignored, unless a reply has been recorded over it (callbacks.go:190).
PanelsTrue ==
    \A m \in DOMAIN chat :
        /\ chat[m] = "banned" => m \in bans \cup refused
        /\ chat[m] = "ignored" => mapping \in {"ignored", "replied"}

\* What README.md:171 says of the buttons "Ban / Unban", that they block or
\* restore the stranger: after a ban by button the owner has a button Unban.
UnbanOffered ==
    tidy # Idle /\ tidy.act = "ban" /\ tidy.msg > 0 =>
        \E m \in DOMAIN chat : Button("unban", Stranger) \in Buttons(m)
================================================================================
