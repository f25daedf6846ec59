--------------------------------- MODULE Quota ---------------------------------
(***************************************************************************)
(* What the rate limiter promises, with nothing of how it does it: a book  *)
(* of messages and refusals, each message let through or not by a look at  *)
(* the whole book that takes no time.  There are no goroutines, no windows *)
(* counted one after the other, no table that a cleanup thins out, no      *)
(* failures and no restarts: an implementation may be late, may let a      *)
(* message drop, and may do nothing else.                                  *)
(***************************************************************************)
EXTENDS Integers, Sequences, FiniteSets

CONSTANTS
    Users,    \* strangers
    Windows,  \* the limits: each a duration and a max
    Micro     \* resolution of the stamps in the book

VARIABLES
    clock,    \* the time
    book,     \* messages and refusals in the order they were made
    passed,   \* positions in the book of the messages let through
    strikes   \* refusals held against each stranger

vars == <<clock, book, passed, strikes>>

\* Positions up to n of u's messages stamped within window w of the time asked.
Counted(u, n, asked, w) ==
    {i \in 1..n : /\ book[i].user = u
                  /\ book[i].type = "message"
                  /\ book[i].at >= asked - Windows[w].duration}

WithinQuota(u, n, asked) ==
    \A w \in DOMAIN Windows : Cardinality(Counted(u, n, asked, w)) <= Windows[w].max

Refusals(u) == {i \in DOMAIN book : book[i].user = u /\ book[i].type = "limited"}

\* An entry is stamped now; the time asked for it has come, at most now.
Enter(u, type, asked) ==
    book' = Append(book, [user |-> u, type |-> type,
                          at |-> clock - (clock % Micro), asked |-> asked])

Init ==
    /\ clock = 0
    /\ book = <<>>
    /\ passed = {}
    /\ strikes = [u \in Users |-> 0]

\* Every message is entered, whatever becomes of it.
Record(u, asked) ==
    /\ Enter(u, "message", asked)
    /\ UNCHANGED <<clock, passed, strikes>>

\* A message goes through if it and what its stranger wrote before it keep
\* within every window.
Pass(i) ==
    /\ book[i].type = "message"
    /\ WithinQuota(book[i].user, i, book[i].asked)
    /\ passed' = passed \cup {i}
    /\ UNCHANGED <<clock, book, strikes>>

\* A stranger is refused only over quota.
Refuse(u, asked) ==
    /\ ~ WithinQuota(u, Len(book), asked)
    /\ Enter(u, "limited", asked)
    /\ UNCHANGED <<clock, passed, strikes>>

\* No refusal is held against a stranger twice.
Strike(u) ==
    /\ strikes[u] < Cardinality(Refusals(u))
    /\ strikes' = [strikes EXCEPT ![u] = @ + 1]
    /\ UNCHANGED <<clock, book, passed>>

Tick ==
    /\ clock' = clock + 1
    /\ UNCHANGED <<book, passed, strikes>>

Next ==
    \/ \E u \in Users, asked \in 0..clock : Record(u, asked) \/ Refuse(u, asked)
    \/ \E i \in DOMAIN book : Pass(i)
    \/ \E u \in Users : Strike(u)
    \/ Tick

Spec == Init /\ [][Next]_vars
================================================================================
