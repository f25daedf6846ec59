-------------------------------- MODULE Commands --------------------------------
(***************************************************************************)
(* What the bot understands of the owner's updates: the owner check        *)
(* (internal/bot/middleware.go), commands and callback data                *)
(* (internal/bot/parser.go) and the keyboards whose buttons carry that     *)
(* data (internal/bot/keyboards.go), as operators.                         *)
(*                                                                         *)
(* A text is a command's name and its words, callback data the parts       *)
(* between its colons.  Ids are positive numbers, other words Word; where  *)
(* buttons stand in their rows, and what is written on them, is left out.  *)
(***************************************************************************)
EXTENDS Integers, Sequences

CONSTANTS
    OwnerID,        \* OWNER_ID
    Word,           \* a word that is not a positive number
    DefaultLimit,   \* rows of /recent: 10
    MaxLimit        \* and never more than 50

ASSUME LimitAssumption == DefaultLimit \in 1..MaxLimit

\* An id, as parsePositiveInt64 accepts it.
IsId(word) == word # Word /\ word > 0

--------------------------------------------------------------------------------
\* Slip: the chat is not looked at.
SenderRejection(sender, chat) == sender # OwnerID

\* An owner's action is taken from the owner, and not in a group.
ownerActionRejection(sender, chat) == sender # OwnerID \/ chat # "private"

--------------------------------------------------------------------------------
Invalid == [name |-> "invalid"]

\* The commands ParseCommand knows; any other, /audit among them, is an error.
ParseCommand(text) ==
    LET args == text.args
        withId == args # <<>> /\ IsId(Head(args))
    IN  CASE text.name \in {"ban", "mute"} /\ withId ->
                [name |-> text.name, id |-> Head(args)]
          [] text.name \in {"unban", "unmute", "user"} /\ withId /\ Len(args) = 1 ->
                [name |-> text.name, id |-> Head(args)]
          [] text.name = "reply" /\ withId /\ Len(args) > 1 ->
                [name |-> "reply", id |-> Head(args)]
          [] text.name = "recent" /\ args = <<>> ->
                [name |-> "recent", limit |-> DefaultLimit]
          [] text.name = "recent" /\ Len(args) = 1 /\ withId ->
                [name |-> "recent", limit |-> IF Head(args) > MaxLimit THEN MaxLimit ELSE Head(args)]
          [] text.name = "cancelreply" /\ args = <<>> ->
                [name |-> "cancelreply"]
          [] OTHER -> Invalid

--------------------------------------------------------------------------------
\* The parts of callback data that name an action and its id.
ParseCallbackData(data) ==
    IF \/ Len(data) = 2 /\ IsId(data[2])
            /\ data[1] \in {"reply", "quick", "user", "mute", "unmute", "ban", "ban_confirm",
                            "ban_cancel", "unban", "ignore", "cancel_reply"}
       \/ Len(data) = 3 /\ IsId(data[2]) /\ data[1] = "quick_send"
    THEN [name |-> data[1], id |-> data[2]]
    ELSE Invalid

\* telebot cuts off the button's unique name; data without a colon gets it back.
ParseCallback(unique, data) ==
    IF Len(data) = 1 THEN ParseCallbackData(<<unique>> \o data) ELSE ParseCallbackData(data)

\* A button is handled by its unique name and acts on the id in its data.
Button(action, id) == [unique |-> action, data |-> <<action, id>>]

\* Slip: every button carries the mapping's id.
MappingOf(action, mapping, user) == mapping

Subject(action, mapping, user) ==
    IF action \in {"reply", "quick", "ignore"} THEN mapping ELSE user

ActionsFor(status) ==
    CASE status = "blocked" -> {"user", "unban", "ignore"}
      [] status = "muted"   -> {"reply", "quick", "user", "unmute", "ban", "ignore"}
      [] OTHER              -> {"reply", "quick", "user", "mute", "ban", "ignore"}

BuildOwnerMessageKeyboard(mapping, user, status) ==
    {Button(action, Subject(action, mapping, user)) : action \in ActionsFor(status)}

BuildBanConfirmKeyboard(user) == {Button("ban_confirm", user), Button("ban_cancel", user)}
BuildIgnoredKeyboard(mapping) == {Button("ignore", mapping)}
================================================================================
