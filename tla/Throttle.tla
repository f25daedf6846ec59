-------------------------------- MODULE Throttle --------------------------------
(***************************************************************************)
(* The token bucket of internal/bot/sender.go.  Every send of the bot, to  *)
(* the owner or to a stranger, first waits for a token of one bucket,      *)
(* rate.NewLimiter(perSecond, perSecond), for at most two seconds and      *)
(* within the context of its request; then it calls Telegram.  The second  *)
(* send of a handler (the media after its metadata, the panel after a      *)
(* keyboard that could not be attached) waits like any other.              *)
(*                                                                         *)
(* golang.org/x/time/rate reserves: a send that must wait takes its token  *)
(* at once, which puts the bucket in debt, and sleeps until the debt is    *)
(* paid; a send whose sleep would outlast its deadline fails at once and   *)
(* takes nothing.                                                          *)
(*                                                                         *)
(* A token flows in every Grain ticks: levels are counted in ticks, a      *)
(* token is worth Grain of them.  Times are relative to now, which keeps   *)
(* the state finite while time goes on.                                    *)
(***************************************************************************)
EXTENDS Integers, FiniteSets

CONSTANTS
    Procs,       \* goroutines that may be sending at the same time
    PerSecond,   \* GLOBAL_FORWARD_PER_SECOND
    Grain        \* ticks in which one token flows in

ASSUME ThrottleAssumption == PerSecond \in Nat \ {0} /\ Grain \in Nat \ {0}
ASSUME ProcsAssumption    == IsFiniteSet(Procs)

Second  == PerSecond * Grain
MaxWait == 2 * Second
Burst   == PerSecond * Grain

VARIABLES
    level,     \* what the bucket holds; below zero it is in debt
    sender,    \* what each goroutine is doing in the sender
    released,  \* released[d]: sends that got through in the last d ticks
    refusal    \* what the last step refused, if it did

vars == <<level, sender, released, refusal>>

\* due is when the sleep ends; tight, that the deadline is at that very moment.
\* A refused send had limit left to wait and met ahead sleepers.
Idle    == [step |-> "idle"]
Waiting == [step : {"wait"}, due : 1..MaxWait, tight : BOOLEAN]
None    == [ahead |-> 0, limit |-> 0]
Refusal == [ahead : Nat, limit : 0..MaxWait]

At(p, s)     == sender[p].step = s
Become(p, s) == sender' = [sender EXCEPT ![p] = s]
Sleepers     == {p \in Procs : At(p, "wait")}

--------------------------------------------------------------------------------
Init ==
    /\ level = Burst
    /\ sender = [p \in Procs |-> Idle]
    /\ released = [d \in 0..Second |-> 0]
    /\ refusal = None

\* Slip: the token of this send is left out of its own debt.
DelayOfOthers == IF level >= Grain THEN 0 ELSE IF level < 0 THEN 1 - level ELSE 1

\* How long a send has to sleep that asks now.
Delay == IF level >= Grain THEN 0 ELSE Grain - level

\* There is a token: the send goes out.
SendAtOnce(p) ==
    /\ At(p, "idle")
    /\ Delay = 0
    /\ level' = level - Grain
    /\ released' = [d \in 0..Second |-> released[d] + 1]
    /\ refusal' = None
    /\ UNCHANGED sender

\* Slip: only the request's deadline limits the wait, not the two seconds.
SendUnlimited(p) ==
    /\ At(p, "idle")
    /\ Delay > 0
    /\ \E limit \in 0..(2 * MaxWait) :
        /\ Delay <= limit
        /\ Become(p, [step |-> "wait", due |-> Delay, tight |-> (Delay = limit)])
    /\ level' = level - Grain
    /\ refusal' = None
    /\ UNCHANGED released

\* The send takes its token in advance and sleeps.  limit is two seconds, or
\* what is left of the request if that is less.
SendLater(p) ==
    /\ At(p, "idle")
    /\ Delay > 0
    /\ \E limit \in 0..MaxWait :
        /\ Delay <= limit
        /\ Become(p, [step |-> "wait", due |-> Delay, tight |-> (Delay = limit)])
    /\ level' = level - Grain
    /\ refusal' = None
    /\ UNCHANGED released

\* Slip: a refused send keeps the token it reserved.
RefuseReserved(p) ==
    /\ At(p, "idle")
    /\ \E limit \in 0..MaxWait :
        /\ Delay > limit
        /\ refusal' = [ahead |-> Cardinality(Sleepers), limit |-> limit]
    /\ level' = level - Grain
    /\ UNCHANGED <<sender, released>>

\* "would exceed context deadline", or the request is over already: the caller
\* reports that it could not send.
Refuse(p) ==
    /\ At(p, "idle")
    /\ \E limit \in 0..MaxWait :
        /\ Delay > limit \/ limit = 0
        /\ refusal' = [ahead |-> Cardinality(Sleepers), limit |-> limit]
    /\ UNCHANGED <<level, sender, released>>

--------------------------------------------------------------------------------
\* Slip: an idle bucket goes on filling.
Refill == level + 1

Fill == IF level < Burst THEN level + 1 ELSE Burst

Waking == {p \in Sleepers : sender[p].due = 1}

\* One tick.  A sleep that ends lets its send out, except that with a deadline
\* at the same moment either may win; the token is spent all the same.
Tick ==
    /\ level' = Fill
    /\ sender' = [p \in Procs |->
                    IF p \in Waking THEN Idle
                    ELSE IF p \in Sleepers THEN [sender[p] EXCEPT !.due = @ - 1]
                    ELSE sender[p]]
    /\ \E late \in SUBSET {p \in Waking : sender[p].tight} :
        released' = [d \in 0..Second |->
                       (IF d = 0 THEN 0 ELSE released[d - 1]) + Cardinality(Waking \ late)]
    /\ refusal' = None

Next ==
    \/ \E p \in Procs : SendAtOnce(p) \/ SendLater(p) \/ Refuse(p)
    \/ Tick

Spec == Init /\ [][Next]_vars
--------------------------------------------------------------------------------
TypeOK ==
    /\ level \in (-MaxWait)..Burst
    /\ sender \in [Procs -> {Idle} \cup Waiting]
    /\ released \in [0..Second -> Nat]
    /\ refusal \in Refusal

\* However the handlers crowd, no more sends get through in any d ticks, up to
\* a second, than a full bucket and what flows in meanwhile: twice the configured
\* number in a second (sender.go:20).
RateBound == \A d \in 0..Second : released[d] * Grain <= Burst + d

\* What the bucket holds towards the next token that is waited for: its level, were
\* the tokens that the sleepers have taken in advance still in it.
Unspent == level + Grain * Cardinality(Sleepers)

\* Sleepers wake one by one, a token's time apart, each once the bucket has filled
\* up for those before it and for itself, and no later (sender.go:62).
OneByOne ==
    /\ \A p, q \in Sleepers : p # q => sender[p].due # sender[q].due
    /\ {sender[p].due : p \in Sleepers}
         = {Grain * k - Unspent : k \in 1..Cardinality(Sleepers)}
    /\ Sleepers # {} => Unspent \in 0..(Grain - 1)

\* A send is refused only behind a queue that leaves it no room: with two
\* seconds to wait, behind at least twice PerSecond other sends that are asleep.
\* The owner's replies share the bucket with the strangers' messages and fail
\* only in such a crowd (sender.go:26, handlers.go:259).
RefusedBehindQueue == refusal.limit < Grain * (refusal.ahead + 1)

--------------------------------------------------------------------------------
\* What the bucket owes to the sleepers counts as released; without sleepers it
\* owes nothing.
IndInv ==
    /\ TypeOK
    /\ OneByOne
    /\ RefusedBehindQueue
    /\ Sleepers = {} => level >= 0
    /\ \A d \in 0..Second : released[d] * Grain + Unspent <= Burst + d
================================================================================
