------------------------------ MODULE Conversation ------------------------------
(***************************************************************************)
(* What the relay promises to the strangers and to the owner, with nothing *)
(* of how it does it: no goroutines, chat messages, tables, buttons,       *)
(* failures or restarts.  A message is shown to the owner, perhaps in      *)
(* parts; it may be taken back as long as its author has not been told     *)
(* that it was relayed, and never again; what the owner answers goes to    *)
(* the author of what he answers; and the records follow the replies.      *)
(***************************************************************************)
CONSTANTS
    Messages, Users,  \* what strangers write, and who they are
    AuthorOf,         \* who writes which
    Ids               \* numbers of the replies the owner writes

VARIABLES
    shown,     \* messages of which the owner has seen something
    open,      \* those he has in full and can answer
    told,      \* those whose author was told that he has it
    received,  \* replies received: which, to what message, and by whom
    answered,  \* messages that are marked as replied to
    audited    \* replies in the log

vars == <<shown, open, told, received, answered, audited>>

Init ==
    /\ shown = {} /\ open = {} /\ told = {}
    /\ received = {} /\ answered = {} /\ audited = {}

Show(m) ==
    /\ shown' = shown \cup {m}
    /\ UNCHANGED <<open, told, received, answered, audited>>

Complete(m) ==
    /\ m \in shown
    /\ open' = open \cup {m}
    /\ UNCHANGED <<shown, told, received, answered, audited>>

Withdraw(m) ==
    /\ m \notin told
    /\ open' = open \ {m}
    /\ UNCHANGED <<shown, told, received, answered, audited>>

Tell(m) ==
    /\ m \in open
    /\ told' = told \cup {m}
    /\ UNCHANGED <<shown, open, received, answered, audited>>

\* Whatever has been shown may be answered, even if it has been withdrawn since.
Reply(id, m) ==
    /\ m \in shown
    /\ received' = received \cup {[id |-> id, msg |-> m, to |-> AuthorOf[m]]}
    /\ UNCHANGED <<shown, open, told, answered, audited>>

Mark(m) ==
    /\ \E r \in received : r.msg = m
    /\ answered' = answered \cup {m}
    /\ UNCHANGED <<shown, open, told, received, audited>>

\* The owner ignores the message after all.
Unmark(m) ==
    /\ answered' = answered \ {m}
    /\ UNCHANGED <<shown, open, told, received, audited>>

Log(id) ==
    /\ \E r \in received : r.id = id
    /\ audited' = audited \cup {id}
    /\ UNCHANGED <<shown, open, told, received, answered>>

Next ==
    \/ \E m \in Messages :
        \/ Show(m) \/ Complete(m) \/ Withdraw(m) \/ Tell(m)
        \/ Mark(m) \/ Unmark(m)
        \/ \E id \in Ids : Reply(id, m)
    \/ \E id \in Ids : Log(id)

Spec == Init /\ [][Next]_vars
================================================================================
