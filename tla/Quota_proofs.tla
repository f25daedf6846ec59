------------------------------ MODULE Quota_proofs ------------------------------
(***************************************************************************)
(* RateLimit implements Quota, for any strangers, handlers and windows.    *)
(***************************************************************************)
EXTENDS RateLimit_proofs

--------------------------------------------------------------------------------
\* Both sides of LimitedCountBacked are numbers.
LEMMA RefusalNumbers ==
  ASSUME TypeOK, NEW u \in Users
  PROVE  /\ IsFiniteSet(LimitedEvents(u)) /\ Cardinality(LimitedEvents(u)) \in Nat
         /\ IsFiniteSet(Incrementing(u)) /\ Cardinality(Incrementing(u)) \in Nat
<1>1. DOMAIN log = 1..Len(log) /\ Len(log) \in Nat
  BY LenProperties DEF TypeOK
<1>2. IsFiniteSet(1..Len(log))
  BY <1>1, FS_Interval
<1>3. LimitedEvents(u) \subseteq 1..Len(log) /\ Incrementing(u) \subseteq Procs
  BY <1>1 DEF LimitedEvents, Incrementing
<1>4. IsFiniteSet(LimitedEvents(u)) /\ IsFiniteSet(Incrementing(u))
  BY <1>2, <1>3, ProcsAssumption, FS_Subset
<1> QED BY <1>4, FS_CardinalityType

\* A message of the log never becomes a refusal, so entering one changes no
\* stranger's refusals; entering a refusal adds one to its own stranger's.
LEMMA RefusalsAfterAdd ==
  ASSUME TypeOK, NEW u \in Users, NEW v \in Users, NEW type \in EventType,
         NEW asked \in Nat, AddRateEvent(v, type, asked)
  PROVE  LimitedEvents(u)' = IF u = v /\ type = "limited"
                             THEN LimitedEvents(u) \cup {Len(log) + 1}
                             ELSE LimitedEvents(u)
<1>1. /\ DOMAIN log = 1..Len(log) /\ DOMAIN log' = 1..(Len(log) + 1)
      /\ \A i \in 1..Len(log) : log'[i] = log[i]
      /\ log'[Len(log) + 1] = [user |-> v, type |-> type, at |-> utcNow, asked |-> asked]
      /\ Len(log) \in Nat
  BY AddRateEventType, LenProperties DEF TypeOK
<1>2. DOMAIN log' = DOMAIN log \cup {Len(log) + 1}
  BY <1>1
<1> QED BY <1>1, <1>2 DEF LimitedEvents

\* A step that records no refusal and leaves alone the goroutines about to
\* count one, the counters included.
LEMMA NothingCounted ==
  ASSUME LimitedCountBacked, limitedCount' = limitedCount,
         \A u \in Users : /\ Incrementing(u)' = Incrementing(u)
                          /\ LimitedEvents(u)' = LimitedEvents(u)
  PROVE  LimitedCountBacked'
BY DEF LimitedCountBacked

\* Goroutines that give up only shrink the set of those about to count.
LEMMA GivingUp ==
  ASSUME TypeOK, LimitedCountBacked, limitedCount' = limitedCount, log' = log,
         \A q \in Procs : handler'[q] = handler[q] \/ handler'[q] = Idle
  PROVE  LimitedCountBacked'
<1> SUFFICES ASSUME NEW u \in Users
             PROVE  limitedCount[u] + Cardinality(Incrementing(u)')
                      <= Cardinality(LimitedEvents(u))
  BY DEF LimitedCountBacked, LimitedEvents
<1>1. Incrementing(u)' \subseteq Incrementing(u)
  BY DEF Incrementing, At, Idle
<1>2. /\ Cardinality(Incrementing(u)') \in Nat
      /\ Cardinality(Incrementing(u)') <= Cardinality(Incrementing(u))
  BY <1>1, RefusalNumbers, FS_Subset, FS_CardinalityType
<1>3. limitedCount[u] \in Nat
  BY DEF TypeOK
<1> QED BY <1>2, <1>3, RefusalNumbers DEF LimitedCountBacked

LEMMA AddLimitedBacked ==
  ASSUME TypeOK, LimitedCountBacked, NEW p \in Procs, AddLimited(p)
  PROVE  LimitedCountBacked'
<1>1. handler[p] \in Active /\ p \in DOMAIN handler /\ handler[p].step = "limited"
  BY DEF TypeOK, AddLimited, At, Idle
<1>2. /\ AddRateEvent(handler[p].user, "limited", handler[p].asked)
      /\ handler[p].user \in Users /\ handler[p].asked \in Nat
  BY <1>1 DEF AddLimited, Active
<1>3. /\ handler'[p].step = "increment" /\ handler'[p].user = handler[p].user
      /\ \A q \in Procs \ {p} : handler'[q] = handler[q]
  BY <1>1 DEF AddLimited, Active, TypeOK
<1> SUFFICES ASSUME NEW u \in Users
             PROVE  limitedCount[u] + Cardinality(Incrementing(u)')
                      <= Cardinality(LimitedEvents(u)')
  BY DEF LimitedCountBacked, AddLimited
<1>4. limitedCount[u] \in Nat
  BY DEF TypeOK
<1>5. CASE u = handler[p].user
  <2>1. Incrementing(u)' = Incrementing(u) \cup {p} /\ p \notin Incrementing(u)
    BY <1>1, <1>3, <1>5 DEF Incrementing, At
  <2>2. LimitedEvents(u)' = LimitedEvents(u) \cup {Len(log) + 1}
    BY <1>2, <1>5, RefusalsAfterAdd DEF EventType
  <2>3. Len(log) + 1 \notin LimitedEvents(u)
    BY LenProperties DEF LimitedEvents, TypeOK
  <2>4. /\ Cardinality(Incrementing(u)') = Cardinality(Incrementing(u)) + 1
        /\ Cardinality(LimitedEvents(u)') = Cardinality(LimitedEvents(u)) + 1
    BY <2>1, <2>2, <2>3, RefusalNumbers, FS_AddElement
  <2> QED BY <1>4, <2>4, RefusalNumbers DEF LimitedCountBacked
<1>6. CASE u # handler[p].user
  <2>1. Incrementing(u)' = Incrementing(u)
    BY <1>1, <1>3, <1>6 DEF Incrementing, At
  <2>2. LimitedEvents(u)' = LimitedEvents(u)
    BY <1>2, <1>6, RefusalsAfterAdd DEF EventType
  <2> QED BY <2>1, <2>2 DEF LimitedCountBacked
<1> QED BY <1>5, <1>6

LEMMA IncrementBacked ==
  ASSUME TypeOK, LimitedCountBacked, NEW p \in Procs, IncrementLimitedCount(p)
  PROVE  LimitedCountBacked'
<1>1. handler[p] \in Active /\ p \in DOMAIN handler /\ handler[p].step = "increment"
  BY DEF TypeOK, IncrementLimitedCount, At, Idle
<1>2. /\ handler'[p] = Idle
      /\ \A q \in Procs \ {p} : handler'[q] = handler[q]
  BY <1>1 DEF IncrementLimitedCount, TypeOK
<1> SUFFICES ASSUME NEW u \in Users
             PROVE  limitedCount'[u] + Cardinality(Incrementing(u)')
                      <= Cardinality(LimitedEvents(u))
  BY DEF LimitedCountBacked, LimitedEvents, IncrementLimitedCount
<1>3. limitedCount[u] \in Nat /\ u \in DOMAIN limitedCount
  BY DEF TypeOK
<1>4. CASE u = handler[p].user
  <2>1. Incrementing(u)' = Incrementing(u) \ {p} /\ p \in Incrementing(u)
    BY <1>1, <1>2, <1>4 DEF Incrementing, At, Idle
  <2>2. Cardinality(Incrementing(u)') = Cardinality(Incrementing(u)) - 1
    BY <2>1, RefusalNumbers, FS_RemoveElement
  <2>3. limitedCount'[u] = limitedCount[u] + 1
    BY <1>3, <1>4 DEF IncrementLimitedCount
  <2> QED BY <1>3, <2>2, <2>3, RefusalNumbers DEF LimitedCountBacked
<1>5. CASE u # handler[p].user
  <2>1. Incrementing(u)' = Incrementing(u)
    BY <1>1, <1>2, <1>5 DEF Incrementing, At, Idle
  <2>2. limitedCount'[u] = limitedCount[u]
    BY <1>3, <1>5 DEF IncrementLimitedCount
  <2> QED BY <2>1, <2>2 DEF LimitedCountBacked
<1> QED BY <1>4, <1>5

\* A goroutine that moves between two steps before the refusal is recorded.
LEMMA OtherMoves ==
  ASSUME TypeOK, LimitedCountBacked, NEW p \in Procs,
         \/ \E u \in Users : Check(p, u)
         \/ AddMessage(p) \/ CountExceeded(p) \/ CountNext(p)
  PROVE  LimitedCountBacked'
<1>1. p \in DOMAIN handler /\ handler[p].step # "increment" /\ handler'[p].step # "increment"
      /\ \A q \in Procs \ {p} : handler'[q] = handler[q]
  <2>1. CASE \E u \in Users : Check(p, u)
    BY <2>1 DEF Check, At, TypeOK
  <2>2. CASE AddMessage(p) \/ CountExceeded(p) \/ CountNext(p)
    <3>1. handler[p] \in Active
      BY <2>2 DEF TypeOK, AddMessage, CountExceeded, CountNext, At, Idle
    <3> QED BY <2>2, <3>1 DEF AddMessage, CountExceeded, CountNext, At, Active, TypeOK
  <2> QED BY <2>1, <2>2
<1>2. \A u \in Users : Incrementing(u)' = Incrementing(u)
  BY <1>1 DEF Incrementing, At
<1>3. \A u \in Users : LimitedEvents(u)' = LimitedEvents(u)
  <2>1. CASE AddMessage(p)
    <3>1. handler[p] \in Active
      BY <2>1 DEF TypeOK, AddMessage, At, Idle
    <3>2. AddRateEvent(handler[p].user, "message", handler[p].asked)
      BY <2>1 DEF AddMessage
    <3> QED BY <3>1, <3>2, RefusalsAfterAdd DEF Active, EventType
  <2>2. CASE ~ AddMessage(p)
    BY <2>2 DEF Check, CountExceeded, CountNext, LimitedEvents
  <2> QED BY <2>1, <2>2
<1>4. limitedCount' = limitedCount
  BY DEF Check, AddMessage, CountExceeded, CountNext
<1> QED BY <1>2, <1>3, <1>4, NothingCounted

LEMMA StepBacked ==
  ASSUME TypeOK, LimitedCountBacked, [Next]_vars
  PROVE  LimitedCountBacked'
<1>1. ASSUME NEW p \in Procs, Grant(p) \/ Fail(p)  PROVE LimitedCountBacked'
  <2>1. /\ limitedCount' = limitedCount /\ log' = log
        /\ \A q \in Procs : handler'[q] = handler[q] \/ handler'[q] = Idle
    BY <1>1 DEF Grant, Fail, TypeOK
  <2> QED BY <2>1, GivingUp
<1>2. ASSUME DeleteRateEventsBefore \/ Restart \/ Tick \/ UNCHANGED vars
      PROVE  LimitedCountBacked'
  <2>1. /\ limitedCount' = limitedCount /\ log' = log
        /\ \A q \in Procs : handler'[q] = handler[q] \/ handler'[q] = Idle
    BY <1>2 DEF DeleteRateEventsBefore, Restart, Tick, vars, TypeOK
  <2> QED BY <2>1, GivingUp
<1> QED BY <1>1, <1>2, OtherMoves, AddLimitedBacked, IncrementBacked
        DEF Next, HandlerStep

LEMMA InitBacked == Init => LimitedCountBacked
<1> SUFFICES ASSUME Init, NEW u \in Users
             PROVE  limitedCount[u] + Cardinality(Incrementing(u))
                      <= Cardinality(LimitedEvents(u))
  BY DEF LimitedCountBacked
<1>1. Incrementing(u) = {} /\ LimitedEvents(u) = {} /\ limitedCount[u] = 0
  BY DEF Init, Incrementing, LimitedEvents, At, Idle
<1> QED BY <1>1, FS_EmptySet

--------------------------------------------------------------------------------
\* Quota has its own instance of FiniteSets.
LEMMA SameCardinality == \A S : Q!Cardinality(S) = Cardinality(S)
BY Zenon DEF Q!Cardinality, Cardinality

\* The windows count the same messages under both names.
LEMMA SameCount ==
  \A u, n, a : \A w \in DOMAIN Windows :
      Q!Cardinality(Q!Counted(u, n, a, w)) = Cardinality(Preceding(u, n, a, w))
<1>1. \A u, n, a : \A w \in DOMAIN Windows :
        Q!Counted(u, n, a, w) = Preceding(u, n, a, w)
  BY DEF Q!Counted, Preceding, EventsSince
<1> QED BY <1>1, SameCardinality

LEMMA InitImplements == Init => Q!Init
BY DEF Init, Q!Init

LEMMA AddMessageImplements ==
  ASSUME IndInv, NEW p \in Procs, AddMessage(p)
  PROVE  Q!Next
<1>1. handler[p] \in Active /\ handler[p].asked <= now /\ now \in Nat
  BY DEF IndInv, TypeOK, CheckInv, OwnsEvent, AddMessage, At, Idle
<1>2. handler[p].user \in Users /\ handler[p].asked \in 0..now
  BY <1>1 DEF Active
<1>3. Q!Record(handler[p].user, handler[p].asked)
  BY DEF AddMessage, AddRateEvent, utcNow, Q!Record, Q!Enter
<1> QED BY <1>2, <1>3 DEF Q!Next

\* The message was counted at several moments; it could have been counted now.
LEMMA GrantImplements ==
  ASSUME IndInv, RetentionCoversWindows, NEW p \in Procs, Grant(p)
  PROVE  Q!Next
<1> DEFINE n == handler[p].own
<1>1. /\ n \in DOMAIN log /\ log[n].user = handler[p].user
      /\ log[n].asked = handler[p].asked /\ log[n].type = "message"
  BY DEF IndInv, CheckInv, OwnsEvent, Grant, At, Step
<1>2. Q!WithinQuota(log[n].user, n, log[n].asked)
  BY <1>1, GrantWithin, SameCount DEF Q!WithinQuota
<1>3. Q!Pass(n)
  BY <1>1, <1>2 DEF Q!Pass, Grant
<1> QED BY <1>1, <1>3 DEF Q!Next

\* The refusal was decided some steps ago; the windows only got fuller.
LEMMA AddLimitedImplements ==
  ASSUME IndInv, NEW p \in Procs, AddLimited(p)
  PROVE  Q!Next
<1> DEFINE u == handler[p].user
           a == handler[p].asked
<1>1. handler[p] \in Active /\ a <= now /\ now \in Nat /\ TypeOK
  BY DEF IndInv, TypeOK, CheckInv, OwnsEvent, AddLimited, At, Idle
<1>2. u \in Users /\ a \in 0..now
  BY <1>1 DEF Active
<1>3. ~ Q!WithinQuota(u, Len(log), a)
  <2>1. PICK w \in DOMAIN Windows :
               Cardinality(Preceding(u, Len(log), a, w)) > Windows[w].max
    BY DEF IndInv, CheckInv, RefusalSeen, AddLimited
  <2>2. /\ Windows[w].max \in Nat
        /\ Cardinality(Preceding(u, Len(log), a, w)) \in Nat
    <3>1. Len(log) \in 0..Len(log)
      BY <1>1, LenProperties DEF TypeOK
    <3>2. a \in Nat /\ Len(log) <= Len(log)
      BY <1>1, <1>2, <3>1
    <3> QED BY <1>1, <1>2, <3>1, <3>2, WindowsType, PrecedingMonotone
  <2>3. ~ (Q!Cardinality(Q!Counted(u, Len(log), a, w)) <= Windows[w].max)
    BY <2>1, <2>2, SameCount
  <2> QED BY <2>3 DEF Q!WithinQuota
<1>4. Q!Refuse(u, a)
  BY <1>3 DEF AddLimited, AddRateEvent, utcNow, Q!Refuse, Q!Enter
<1> QED BY <1>2, <1>4 DEF Q!Next

LEMMA IncrementImplements ==
  ASSUME TypeOK, LimitedCountBacked, NEW p \in Procs, IncrementLimitedCount(p)
  PROVE  Q!Next
<1> DEFINE u == handler[p].user
<1>1. u \in Users
  BY DEF TypeOK, IncrementLimitedCount, At, Idle, Active
<1>2. p \in Incrementing(u)
  BY DEF IncrementLimitedCount, Incrementing
<1>3. Cardinality(Incrementing(u)) > 0
  BY <1>1, <1>2, RefusalNumbers, FS_EmptySet
<1>4. limitedCount[u] < Cardinality(LimitedEvents(u))
  BY <1>1, <1>3, RefusalNumbers DEF LimitedCountBacked, TypeOK
<1>5. Q!Strike(u)
  BY <1>4, SameCardinality DEF Q!Strike, Q!Refusals, LimitedEvents, IncrementLimitedCount
<1> QED BY <1>1, <1>5 DEF Q!Next

LEMMA StepImplements ==
  ASSUME RetentionCoversWindows, IndInv, LimitedCountBacked, [Next]_vars
  PROVE  [Q!Next]_Q!vars
<1>1. ASSUME NEW p \in Procs,
             \/ \E u \in Users : Check(p, u)
             \/ CountExceeded(p) \/ CountNext(p) \/ Fail(p)
      PROVE  UNCHANGED Q!vars
  BY <1>1 DEF Check, CountExceeded, CountNext, Fail, Q!vars
<1>2. ASSUME DeleteRateEventsBefore \/ Restart \/ UNCHANGED vars
      PROVE  UNCHANGED Q!vars
  BY <1>2 DEF DeleteRateEventsBefore, Restart, vars, Q!vars
<1>3. ASSUME Tick  PROVE Q!Next
  BY <1>3 DEF Tick, Q!Tick, Q!Next
<1>4. TypeOK
  BY DEF IndInv
<1> QED BY <1>1, <1>2, <1>3, <1>4, AddMessageImplements, GrantImplements,
           AddLimitedImplements, IncrementImplements DEF Next, HandlerStep

--------------------------------------------------------------------------------
\* A stranger's limited_count, which brings the automatic ban, is never more
\* than the refusals on record, whatever fails between the two writes
\* (AddRateEvent and IncrementLimitedCount, limiter.go:124-129).
THEOREM CountBacked == Spec => []LimitedCountBacked
<1>1. TypeOK /\ LimitedCountBacked /\ [Next]_vars => LimitedCountBacked'
  BY StepBacked
<1> QED BY <1>1, InitBacked, TypeCorrect, PTL DEF Spec

\* The concurrent, fallible limiter over a table that is thinned out (limiter.go
\* and sqlite.go) implements the atomic quota, if events are kept for a window
\* and a request's life.
THEOREM ImplementsQuota == RetentionCoversWindows => (Spec => QuotaKept)
<1> SUFFICES ASSUME RetentionCoversWindows  PROVE Spec => Q!Spec
  BY DEF QuotaKept
<1>1. IndInv /\ LimitedCountBacked /\ [Next]_vars => [Q!Next]_Q!vars
  BY StepImplements
<1> QED BY <1>1, InitImplements, Invariance, CountBacked, PTL DEF Spec, Q!Spec
================================================================================
