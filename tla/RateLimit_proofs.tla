---------------------------- MODULE RateLimit_proofs ----------------------------
(***************************************************************************)
(* Theorems about RateLimit, for any strangers, handlers and windows.      *)
(***************************************************************************)
EXTENDS RateLimit, FiniteSetTheorems, SequenceTheorems, TLAPS

--------------------------------------------------------------------------------
\* A non-empty finite set of numbers has a largest element.
LEMMA FiniteSetHasMax ==
  ASSUME NEW S \in SUBSET Nat, IsFiniteSet(S), S # {}
  PROVE  \E x \in S : \A y \in S : y <= x
<1> DEFINE Above(x) == {y \in S : y > x}
           T == {Above(x) : x \in S}
<1>1. T \subseteq FiniteSubsetsOf(S) /\ T # {}
  <2>1. \A x \in S : Above(x) \in SUBSET S /\ IsFiniteSet(Above(x))
    BY FS_Subset
  <2> QED BY <2>1 DEF FiniteSubsetsOf
<1>2. PICK A \in T : \A B \in T : ~ (<<B, A>> \in StrictSubsetOrdering(S))
  <2> HIDE DEF T
  <2> QED BY <1>1, WFMin, FS_StrictSubsetOrderingWellFounded
<1>3. PICK x \in S : A = Above(x)
  BY <1>2
<1>4. ASSUME NEW z \in S, z > x
      PROVE  <<Above(z), A>> \in StrictSubsetOrdering(S)
  <2>1. Above(z) \subseteq A /\ A \subseteq S
    <3>1. \A y \in S : y \in Nat
      OBVIOUS
    <3>2. ASSUME NEW y \in S, y > z  PROVE  y > x
      BY <1>4, <3>1, <3>2
    <3> QED BY <1>3, <3>2
  <2>2. z \in A /\ z \notin Above(z)
    BY <1>3, <1>4
  <2> QED BY <2>1, <2>2 DEF StrictSubsetOrdering
<1>5. \A y \in S : y <= x
  <2>1. \A z \in S : Above(z) \in T
    OBVIOUS
  <2>2. \A z \in S : ~ (z > x)
    BY <1>2, <1>4, <2>1
  <2>3. \A z \in S : z \in Nat
    OBVIOUS
  <2> HIDE DEF T, Above
  <2> QED BY <2>2, <2>3
<1> QED BY <1>5

\* A subset of a finite set of ids has at most as many elements.
LEMMA FewerIds ==
  ASSUME NEW n \in Nat, NEW T \in SUBSET (1..n), NEW S \in SUBSET T
  PROVE  /\ Cardinality(S) \in Nat /\ Cardinality(T) \in Nat
         /\ Cardinality(S) <= Cardinality(T)
<1>1. IsFiniteSet(1..n)
  BY FS_Interval
<1>2. IsFiniteSet(T)
  BY <1>1, FS_Subset
<1>3. IsFiniteSet(S)
  BY <1>2, FS_Subset
<1> QED BY <1>2, <1>3, FS_Subset, FS_CardinalityType

LEMMA WindowsType ==
  /\ Len(Windows) \in Nat \ {0}
  /\ DOMAIN Windows = 1..Len(Windows)
  /\ \A w \in DOMAIN Windows : Windows[w].duration \in Nat /\ Windows[w].max \in Nat
<1>1. Windows \in Seq(Window) /\ Len(Windows) > 0
  BY WindowsAssumption
<1>2. Len(Windows) \in Nat \ {0} /\ DOMAIN Windows = 1..Len(Windows)
  BY <1>1, LenProperties
<1>3. \A w \in DOMAIN Windows : Windows[w] \in Window
  BY <1>1, <1>2, ElementOfSeq
<1> QED BY <1>2, <1>3 DEF Window

\* The stored stamp is at most the clock and less than one unit behind it.
LEMMA UtcNowClose ==
  ASSUME now \in Nat
  PROVE  /\ utcNow \in Nat
         /\ utcNow <= now
         /\ now < utcNow + Micro
BY TimeAssumption DEF utcNow

LEMMA LogEntries ==
  ASSUME TypeOK
  PROVE  \A i \in DOMAIN log :
            /\ log[i] \in Event
            /\ log[i].user \in Users /\ log[i].at \in Nat /\ log[i].asked \in Nat
<1>1. \A i \in DOMAIN log : log[i] \in Event
  BY ElementOfSeq, LenProperties DEF TypeOK
<1> QED BY <1>1 DEF Event

--------------------------------------------------------------------------------
\* A message or a refusal is written at the end of the log and of the table.
LEMMA AddRateEventType ==
  ASSUME TypeOK, NEW u \in Users, NEW type \in EventType, NEW asked \in Nat,
         AddRateEvent(u, type, asked)
  PROVE  /\ log' \in Seq(Event)
         /\ Len(log') = Len(log) + 1
         /\ DOMAIN log = 1..Len(log) /\ DOMAIN log' = 1..(Len(log) + 1)
         /\ \A i \in 1..Len(log) : log'[i] = log[i]
         /\ log'[Len(log) + 1] =
              [user |-> u, type |-> type, at |-> utcNow, asked |-> asked]
         /\ rows' \subseteq 1..Len(log')
<1> DEFINE e == [user |-> u, type |-> type, at |-> utcNow, asked |-> asked]
<1>1. e \in Event
  BY UtcNowClose DEF Event, TypeOK
<1>2. log' = Append(log, e) /\ rows' = rows \cup {Len(log) + 1}
  BY DEF AddRateEvent
<1>3. log \in Seq(Event) /\ Len(log) \in Nat /\ rows \subseteq 1..Len(log)
  BY DEF TypeOK
<1> HIDE DEF e
<1>4. /\ log' \in Seq(Event)
      /\ Len(log') = Len(log) + 1
      /\ \A i \in 1..Len(log) : log'[i] = log[i]
      /\ log'[Len(log) + 1] = e
  BY <1>1, <1>2, <1>3, AppendProperties
<1>5. DOMAIN log = 1..Len(log) /\ DOMAIN log' = 1..(Len(log) + 1)
  BY <1>3, <1>4, LenProperties
<1>6. rows' \subseteq 1..Len(log')
  <2>1. rows' = rows \cup {Len(log) + 1} /\ Len(log') = Len(log) + 1
    BY <1>2, <1>4
  <2>2. ASSUME NEW i \in rows'  PROVE i \in 1..Len(log')
    <3>1. i \in 1..Len(log) \/ i = Len(log) + 1
      BY <1>3, <2>1, <2>2
    <3> QED BY <1>3, <2>1, <3>1
  <2> QED BY <2>2
<1> QED BY <1>4, <1>5, <1>6 DEF e

LEMMA TypeInit == Init => TypeOK
BY DEF Init, TypeOK, Idle

LEMMA TypeStep == ASSUME TypeOK, [Next]_vars  PROVE TypeOK'
<1> USE DEF TypeOK
<1>0. DOMAIN Windows = 1..Len(Windows) /\ Len(Windows) \in Nat /\ 1 \in DOMAIN Windows
  BY WindowsAssumption
<1>1. ASSUME NEW p \in Procs, NEW u \in Users, Check(p, u)  PROVE TypeOK'
  BY <1>0, <1>1 DEF Check, Active, Step
<1>2. ASSUME NEW p \in Procs, AddMessage(p)  PROVE TypeOK'
  <2>1. handler[p] \in Active
    BY <1>2 DEF AddMessage, At, Idle
  <2>2. /\ log' \in Seq(Event) /\ rows' \subseteq 1..Len(log')
        /\ Len(log') = Len(log) + 1
    BY <1>2, <2>1, AddRateEventType DEF AddMessage, Active, EventType
  <2>3. Len(log) + 1 \in Nat
    OBVIOUS
  <2>4. handler' \in [Procs -> Active \cup {Idle}]
    BY <1>2, <2>1, <2>3 DEF AddMessage, Active, Step
  <2> QED BY <1>2, <2>2, <2>3, <2>4 DEF AddMessage
<1>3. ASSUME NEW p \in Procs, CountExceeded(p)  PROVE TypeOK'
  <2>1. handler[p] \in Active
    BY <1>3 DEF CountExceeded, At, Idle
  <2> QED BY <1>3, <2>1 DEF CountExceeded, Active, Step
<1>4. ASSUME NEW p \in Procs, CountNext(p)  PROVE TypeOK'
  <2>1. handler[p] \in Active
    BY <1>4 DEF CountNext, At, Idle
  <2>2. handler[p].window + 1 \in DOMAIN Windows
    BY <1>0, <1>4, <2>1 DEF CountNext, Active
  <2> QED BY <1>4, <2>1, <2>2 DEF CountNext, Active
<1>5. ASSUME NEW p \in Procs, Grant(p)  PROVE TypeOK'
  <2>1. handler[p] \in Active
    BY <1>5 DEF Grant, At, Idle
  <2>2. handler[p].own \in Nat
    BY <2>1 DEF Active
  <2> QED BY <1>5, <2>1, <2>2 DEF Grant
<1>6. ASSUME NEW p \in Procs, AddLimited(p)  PROVE TypeOK'
  <2>1. handler[p] \in Active
    BY <1>6 DEF AddLimited, At, Idle
  <2>2. /\ log' \in Seq(Event) /\ rows' \subseteq 1..Len(log')
        /\ Len(log') = Len(log) + 1
    BY <1>6, <2>1, AddRateEventType DEF AddLimited, Active, EventType
  <2>3. handler' \in [Procs -> Active \cup {Idle}]
    BY <1>6, <2>1 DEF AddLimited, Active, Step
  <2> QED BY <1>6, <2>2, <2>3 DEF AddLimited
<1>7. ASSUME NEW p \in Procs, IncrementLimitedCount(p)  PROVE TypeOK'
  <2>1. handler[p].user \in Users
    BY <1>7 DEF IncrementLimitedCount, At, Idle, Active
  <2> QED BY <1>7, <2>1 DEF IncrementLimitedCount
<1>8. ASSUME NEW p \in Procs, Fail(p)  PROVE TypeOK'
  BY <1>8 DEF Fail
<1>9. ASSUME DeleteRateEventsBefore  PROVE TypeOK'
  BY <1>9 DEF DeleteRateEventsBefore
<1>10. ASSUME Restart  PROVE TypeOK'
  BY <1>10 DEF Restart
<1>11. ASSUME Tick  PROVE TypeOK'
  BY <1>11 DEF Tick
<1>12. ASSUME UNCHANGED vars  PROVE TypeOK'
  BY <1>12 DEF vars
<1> QED
  BY <1>1, <1>2, <1>3, <1>4, <1>5, <1>6, <1>7, <1>8, <1>9, <1>10,
       <1>11, <1>12 DEF Next, HandlerStep

--------------------------------------------------------------------------------
\* Every step leaves the recorded events alone and may only add to them.
LEMMA LogGrows ==
  ASSUME TypeOK, [Next]_vars
  PROVE  /\ now <= now'
         /\ DOMAIN log = 1..Len(log) /\ Len(log) \in Nat
         /\ DOMAIN log' = 1..Len(log') /\ Len(log') \in Nat
         /\ Len(log) <= Len(log')
         /\ \A i \in DOMAIN log : log'[i] = log[i]
<1>1. TypeOK'
  BY TypeStep
<1>2. /\ DOMAIN log = 1..Len(log) /\ Len(log) \in Nat
      /\ DOMAIN log' = 1..Len(log') /\ Len(log') \in Nat
  BY <1>1, LenProperties DEF TypeOK
<1>3. now <= now'
  <2>1. now' = now \/ Tick
    BY DEF Next, vars, HandlerStep, Check, AddMessage, CountExceeded, CountNext, Grant,
           AddLimited, IncrementLimitedCount, Fail, DeleteRateEventsBefore, Restart
  <2>2. now' = now \/ now' = now + 1
    BY <2>1 DEF Tick
  <2> QED BY <2>2 DEF TypeOK
<1>4. CASE log' = log
  BY <1>2, <1>3, <1>4
<1>5. CASE log' # log
  <2>1. PICK p \in Procs : AddMessage(p) \/ AddLimited(p)
    BY <1>5 DEF Next, vars, HandlerStep, Check, CountExceeded, CountNext, Grant,
                IncrementLimitedCount, Fail, DeleteRateEventsBefore, Restart, Tick
  <2>2. handler[p] \in Active
    BY <2>1 DEF AddMessage, AddLimited, At, Idle, TypeOK
  <2>3. \E type \in EventType : AddRateEvent(handler[p].user, type, handler[p].asked)
    BY <2>1 DEF AddMessage, AddLimited, EventType
  <2>4. /\ Len(log') = Len(log) + 1
        /\ \A i \in 1..Len(log) : log'[i] = log[i]
    BY <2>2, <2>3, AddRateEventType DEF Active
  <2> QED BY <1>2, <1>3, <2>4
<1> QED BY <1>4, <1>5

\* What precedes an event of the log does not change.
LEMMA PrecedingStable ==
  ASSUME TypeOK, [Next]_vars, NEW id \in 0..Len(log)
  PROVE  \A u \in Users, a \in Nat, w \in DOMAIN Windows :
            Preceding(u, id, a, w)' = Preceding(u, id, a, w)
<1>1. \A i \in 1..id : log'[i] = log[i]
  BY LogGrows
<1> QED BY <1>1 DEF Preceding, EventsSince

\* A longer prefix of the log holds at least as many of a stranger's messages.
LEMMA PrecedingMonotone ==
  ASSUME TypeOK, NEW id \in 0..Len(log), NEW jd \in 0..Len(log), id <= jd,
         NEW u \in Users, NEW a \in Nat, NEW w \in DOMAIN Windows
  PROVE  /\ Cardinality(Preceding(u, id, a, w)) \in Nat
         /\ Cardinality(Preceding(u, jd, a, w)) \in Nat
         /\ Cardinality(Preceding(u, id, a, w)) <= Cardinality(Preceding(u, jd, a, w))
<1>1. Preceding(u, jd, a, w) \in SUBSET (1..jd) /\ jd \in Nat
  BY DEF Preceding, EventsSince, TypeOK
<1>2. Preceding(u, id, a, w) \in SUBSET Preceding(u, jd, a, w)
  BY DEF Preceding, EventsSince, TypeOK
<1> QED BY <1>1, <1>2, FewerIds

\* A check whose goroutine did not move keeps its part of the invariant.
LEMMA OtherCheck ==
  ASSUME IndInv, [Next]_vars, NEW q \in Procs, handler'[q] = handler[q]
  PROVE  CheckInv(q)'
<1>1. TypeOK /\ CheckInv(q) /\ TypeOK'
  BY TypeStep DEF IndInv
<1>2. CASE At(q, "idle")
  BY <1>2 DEF CheckInv, OwnsEvent, WindowsPassed, RefusalSeen, At, Step
<1>3. CASE ~ At(q, "idle")
  <2>1. handler[q] \in Active
    BY <1>1, <1>3 DEF TypeOK, At, Idle
  <2> DEFINE u == handler[q].user
             a == handler[q].asked
             n == handler[q].own
  <2>2. u \in Users /\ a \in Nat /\ n \in Nat /\ handler[q].window \in DOMAIN Windows
    BY <2>1 DEF Active
  <2>3. OwnsEvent(q)'
    BY <1>1, <2>1, LogGrows DEF CheckInv, OwnsEvent, At, Active, TypeOK
  <2>4. WindowsPassed(q)'
    <3>1. SUFFICES ASSUME At(q, "count"), NEW w \in 1..(handler[q].window - 1)
                   PROVE  Cardinality(Preceding(u, n, a, w)') <= Windows[w].max
      BY DEF WindowsPassed, At, Preceding, EventsSince
    <3>2. n \in 0..Len(log)
      BY <1>1, <3>1, LogGrows DEF CheckInv, OwnsEvent, At, Step
    <3>3. w \in DOMAIN Windows
      BY <2>2, <3>1, WindowsType
    <3>4. Cardinality(Preceding(u, n, a, w)) <= Windows[w].max
      BY <1>1, <3>1 DEF CheckInv, WindowsPassed
    <3> QED BY <1>1, <2>2, <3>2, <3>3, <3>4, PrecedingStable
  <2>5. RefusalSeen(q)'
    <3>1. SUFFICES ASSUME At(q, "limited")
                   PROVE  \E w \in DOMAIN Windows :
                             Cardinality(Preceding(u, Len(log), a, w)') > Windows[w].max
      BY DEF RefusalSeen, At, Preceding, EventsSince
    <3>2. PICK w \in DOMAIN Windows :
                 Cardinality(Preceding(u, Len(log), a, w)) > Windows[w].max
      BY <1>1, <3>1 DEF CheckInv, RefusalSeen
    <3>3. Windows[w].max \in Nat
      BY WindowsType
    <3>4. /\ Preceding(u, Len(log), a, w)' \in SUBSET (1..Len(log'))
          /\ Preceding(u, Len(log), a, w) \in SUBSET (Preceding(u, Len(log), a, w)')
      BY <1>1, LogGrows DEF Preceding, EventsSince
    <3>5. Len(log') \in Nat
      BY <1>1, LogGrows
    <3>6. LET S == Preceding(u, Len(log), a, w)
              T == Preceding(u, Len(log), a, w)'
          IN  /\ Cardinality(S) \in Nat /\ Cardinality(T) \in Nat
              /\ Cardinality(S) <= Cardinality(T)
      BY <3>4, <3>5, FewerIds
    <3>7. Cardinality(Preceding(u, Len(log), a, w)') > Windows[w].max
      BY <3>2, <3>3, <3>6
    <3> QED BY <3>7
  <2> QED BY <2>3, <2>4, <2>5 DEF CheckInv
<1> QED BY <1>2, <1>3

\* An idle goroutine has nothing to keep.
LEMMA IdleCheck ==
  ASSUME NEW q \in Procs, handler'[q] = Idle
  PROVE  CheckInv(q)'
BY DEF CheckInv, OwnsEvent, WindowsPassed, RefusalSeen, At, Idle, Step

\* The part of the invariant about the table alone.
TableInv == LogTimes /\ RowsKept /\ LimitJustified

\* A step that inserts nothing and deletes nothing keeps it.
LEMMA TableUnchanged ==
  ASSUME IndInv, [Next]_vars, log' = log, rows' = rows
  PROVE  TableInv'
<1>1. TypeOK /\ LogTimes /\ RowsKept /\ LimitJustified
  BY DEF IndInv
<1>2. now <= now' /\ now \in Nat /\ now' \in Nat
  BY <1>1, LogGrows, TypeStep DEF TypeOK
<1>3. \A i \in DOMAIN log : log[i].at \in Nat
  BY <1>1, LogEntries
<1>4. LogTimes'
  BY <1>1, <1>2, <1>3 DEF LogTimes
<1>5. RowsKept'
  BY <1>1, <1>2, <1>3, TimeAssumption DEF RowsKept
<1>6. LimitJustified'
  BY <1>1 DEF LimitJustified, Preceding, EventsSince
<1> QED BY <1>4, <1>5, <1>6 DEF TableInv

\* The messages already let through stay counted, whatever the step.
LEMMA GrantedStable ==
  ASSUME IndInv, [Next]_vars, NEW i \in granted
  PROVE  /\ i \in DOMAIN log' /\ log'[i].type = "message"
         /\ \A w \in DOMAIN Windows :
               Cardinality(Preceding(log[i].user, i, log[i].asked, w)') <= Windows[w].max
<1>1. TypeOK /\ GrantedAreMessages /\ GrantCounted
  BY DEF IndInv
<1>2. i \in DOMAIN log /\ log[i].type = "message"
  BY <1>1 DEF GrantedAreMessages
<1>3. i \in 0..Len(log) /\ i \in DOMAIN log' /\ log'[i] = log[i]
  BY <1>1, <1>2, LogGrows
<1>4. log[i].user \in Users /\ log[i].asked \in Nat
  BY <1>1, <1>2, LogEntries
<1>5. ASSUME NEW w \in DOMAIN Windows
      PROVE  Cardinality(Preceding(log[i].user, i, log[i].asked, w)') <= Windows[w].max
  <2>1. Cardinality(Preceding(log[i].user, i, log[i].asked, w)) <= Windows[w].max
    BY <1>1 DEF GrantCounted
  <2>2. \A j \in 1..i : log'[j] = log[j]
    BY <1>1, <1>3, LogGrows
  <2>3. Preceding(log[i].user, i, log[i].asked, w)'
          = Preceding(log[i].user, i, log[i].asked, w)
    BY <1>3, <2>2 DEF Preceding, EventsSince
  <2> QED BY <2>1, <2>3
<1> QED BY <1>2, <1>3, <1>5

\* What is left to show of a step that lets no message through and moves one
\* goroutine only.
LEMMA OneCheckMoves ==
  ASSUME IndInv, [Next]_vars, TableInv', granted' = granted,
         NEW p \in Procs, CheckInv(p)',
         \A q \in Procs \ {p} : handler'[q] = handler[q]
  PROVE  IndInv'
<1>1. TypeOK'
  BY TypeStep DEF IndInv
<1>2. LogTimes' /\ RowsKept' /\ LimitJustified'
  BY DEF TableInv
<1>3. \A q \in Procs : CheckInv(q)'
  BY OtherCheck
<1>4. GrantedAreMessages'
  BY GrantedStable DEF GrantedAreMessages
<1>5. GrantCounted'
  <2>1. SUFFICES ASSUME NEW i \in granted, NEW w \in DOMAIN Windows
                 PROVE  (Cardinality(Preceding(log[i].user, i, log[i].asked, w))
                          <= Windows[w].max)'
    BY DEF GrantCounted
  <2> QED BY GrantedStable
<1> QED BY <1>1, <1>2, <1>3, <1>4, <1>5 DEF IndInv

\* An insert stamps its event after the clock reading of its check.
LEMMA InsertKeepsTimes ==
  ASSUME IndInv, [Next]_vars, NEW u \in Users, NEW type \in EventType, NEW a \in Nat,
         a <= now, AddRateEvent(u, type, a), now' = now
  PROVE  LogTimes' /\ RowsKept'
<1>1. TypeOK /\ LogTimes /\ RowsKept /\ now \in Nat
  BY DEF IndInv, TypeOK
<1>2. /\ DOMAIN log = 1..Len(log) /\ DOMAIN log' = 1..(Len(log) + 1)
      /\ Len(log) \in Nat
      /\ \A i \in 1..Len(log) : log'[i] = log[i]
      /\ log'[Len(log) + 1] = [user |-> u, type |-> type, at |-> utcNow, asked |-> a]
  BY <1>1, AddRateEventType, LogGrows
<1>3. utcNow \in Nat /\ utcNow <= now /\ now < utcNow + Micro
  BY <1>1, UtcNowClose
<1>4. log'[Len(log) + 1].at = utcNow /\ log'[Len(log) + 1].asked = a
  BY <1>2
<1>5. LogTimes'
  <2>1. SUFFICES ASSUME NEW i \in DOMAIN log'
                 PROVE  log'[i].at <= now /\ log'[i].asked < log'[i].at + Micro
    BY DEF LogTimes
  <2>2. CASE i = Len(log) + 1
    <3>1. log'[i].at = utcNow /\ log'[i].asked = a
      BY <1>4, <2>2
    <3>2. a < utcNow + Micro
      BY <1>1, <1>3, TimeAssumption
    <3> QED BY <1>3, <3>1, <3>2
  <2>3. CASE i # Len(log) + 1
    <3>1. i \in DOMAIN log /\ log'[i] = log[i]
      BY <1>2, <2>1, <2>3
    <3> QED BY <1>1, <3>1 DEF LogTimes
  <2> QED BY <2>2, <2>3
<1>6. RowsKept'
  <2>1. rows' = rows \cup {Len(log) + 1}
    BY DEF AddRateEvent
  <2>2. ASSUME NEW i \in DOMAIN log' \ rows'  PROVE i \in DOMAIN log \ rows
    BY <1>2, <2>1
  <2> QED BY <1>1, <1>2, <2>2 DEF RowsKept
<1> QED BY <1>5, <1>6

LEMMA CheckStep ==
  ASSUME IndInv, NEW p \in Procs, NEW u \in Users, Check(p, u)
  PROVE  IndInv'
<1>1. [Next]_vars
  BY DEF Next, HandlerStep
<1>2. /\ log' = log /\ rows' = rows /\ granted' = granted
      /\ \A q \in Procs \ {p} : handler'[q] = handler[q]
  BY DEF Check, IndInv, TypeOK
<1>3. now \in Nat /\ now' = now /\ p \in DOMAIN handler
  BY DEF Check, IndInv, TypeOK
<1>4. CheckInv(p)'
  BY <1>3 DEF Check, CheckInv, OwnsEvent, WindowsPassed, RefusalSeen, At, Step
<1> QED BY <1>1, <1>2, <1>4, TableUnchanged, OneCheckMoves

LEMMA AddMessageStep ==
  ASSUME IndInv, NEW p \in Procs, AddMessage(p)
  PROVE  IndInv'
<1>1. [Next]_vars
  BY DEF Next, HandlerStep
<1>2. TypeOK /\ handler[p] \in Active /\ At(p, "add") /\ p \in DOMAIN handler
  BY DEF IndInv, TypeOK, AddMessage, At, Idle
<1> DEFINE u == handler[p].user
           a == handler[p].asked
<1>3. u \in Users /\ a \in Nat /\ a <= now /\ handler[p].window = 1
  BY <1>2 DEF Active, IndInv, CheckInv, OwnsEvent, At
<1>4. AddRateEvent(u, "message", a) /\ now' = now /\ granted' = granted
  BY DEF AddMessage
<1>5. /\ DOMAIN log = 1..Len(log) /\ DOMAIN log' = 1..(Len(log) + 1)
      /\ Len(log) \in Nat
      /\ \A i \in 1..Len(log) : log'[i] = log[i]
      /\ log'[Len(log) + 1] = [user |-> u, type |-> "message", at |-> utcNow, asked |-> a]
  BY <1>1, <1>2, <1>3, <1>4, AddRateEventType, LogGrows DEF EventType
<1>6. LogTimes' /\ RowsKept'
  BY <1>1, <1>3, <1>4, InsertKeepsTimes DEF EventType
<1>7. LimitJustified'
  <2>1. SUFFICES ASSUME NEW i \in DOMAIN log', log'[i].type = "limited"
                 PROVE  \E w \in DOMAIN Windows :
                          (Cardinality(Preceding(log[i].user, i, log[i].asked, w))
                             > Windows[w].max)'
    BY DEF LimitJustified
  <2>2. i \in DOMAIN log /\ log'[i] = log[i] /\ \A j \in 1..i : log'[j] = log[j]
    BY <1>5, <2>1
  <2>3. PICK w \in DOMAIN Windows :
               Cardinality(Preceding(log[i].user, i, log[i].asked, w)) > Windows[w].max
    BY <2>1, <2>2 DEF IndInv, LimitJustified
  <2>4. Preceding(log[i].user, i, log[i].asked, w)'
          = Preceding(log[i].user, i, log[i].asked, w)
    BY <2>2 DEF Preceding, EventsSince
  <2> QED BY <2>3, <2>4
<1>8. CheckInv(p)'
  <2>1. handler'[p] = [handler[p] EXCEPT !.step = "count", !.own = Len(log) + 1]
    BY <1>2 DEF AddMessage
  <2>2. /\ handler'[p].step = "count" /\ handler'[p].own = Len(log) + 1
        /\ handler'[p].user = u /\ handler'[p].asked = a /\ handler'[p].window = 1
    BY <1>2, <1>3, <2>1 DEF Active
  <2>3. OwnsEvent(p)'
    BY <1>3, <1>4, <1>5, <2>2 DEF OwnsEvent, At
  <2> QED BY <2>2, <2>3 DEF CheckInv, WindowsPassed, RefusalSeen, At
<1>9. \A q \in Procs \ {p} : handler'[q] = handler[q]
  BY DEF AddMessage, IndInv, TypeOK
<1> QED BY <1>1, <1>4, <1>6, <1>7, <1>8, <1>9, OneCheckMoves DEF TableInv

\* Nothing a check in time has to count has been deleted.
LEMMA CountIsExact ==
  ASSUME IndInv, RetentionCoversWindows, NEW p \in Procs, At(p, "count"), InTime(p),
         NEW w \in DOMAIN Windows
  PROVE  EventsSince(rows, handler[p].user, "message",
                     handler[p].asked - Windows[w].duration)
           = Preceding(handler[p].user, Len(log), handler[p].asked, w)
<1>1. TypeOK /\ RowsKept /\ handler[p] \in Active
  BY DEF IndInv, TypeOK, At, Idle
<1> DEFINE a == handler[p].asked
           d == Windows[w].duration
<1>2. a \in Nat /\ d \in Nat /\ now \in Nat /\ now < a + RequestTimeout
  BY <1>1, WindowsType DEF Active, InTime, TypeOK
<1>3. Retention >= d + RequestTimeout
  BY DEF RetentionCoversWindows
<1>4. ASSUME NEW i \in DOMAIN log, log[i].at >= a - d  PROVE i \in rows
  <2>1. log[i].at \in Nat
    BY <1>1, LogEntries
  <2>2. ~ (log[i].at <= now - Retention)
    BY <1>2, <1>3, <1>4, <2>1, TimeAssumption
  <2> QED BY <1>1, <2>2 DEF RowsKept
<1>5. rows \subseteq 1..Len(log) /\ DOMAIN log = 1..Len(log)
  BY <1>1, LenProperties DEF TypeOK
<1> QED BY <1>4, <1>5 DEF Preceding, EventsSince

\* A window that is not exceeded bounds the messages before the check's own.
LEMMA NotExceeded ==
  ASSUME IndInv, RetentionCoversWindows, NEW p \in Procs, At(p, "count"), InTime(p),
         ~ Exceeded(p)
  PROVE  Cardinality(Preceding(handler[p].user, handler[p].own, handler[p].asked,
                               handler[p].window)) <= Windows[handler[p].window].max
<1>1. TypeOK /\ handler[p] \in Active /\ OwnsEvent(p)
  BY DEF IndInv, TypeOK, At, Idle, CheckInv
<1> DEFINE u == handler[p].user
           a == handler[p].asked
           n == handler[p].own
           w == handler[p].window
<1>2. /\ u \in Users /\ a \in Nat /\ n \in Nat /\ w \in DOMAIN Windows
      /\ Windows[w].max \in Nat
  BY <1>1, WindowsType DEF Active
<1>3. n \in 0..Len(log) /\ Len(log) \in 0..Len(log) /\ n <= Len(log)
  BY <1>1, LenProperties DEF OwnsEvent, At, Step, TypeOK
<1>4. EventsSince(rows, u, "message", a - Windows[w].duration) = Preceding(u, Len(log), a, w)
  BY <1>2, CountIsExact
<1>5. ~ (Cardinality(Preceding(u, Len(log), a, w)) > Windows[w].max)
  BY <1>4 DEF Exceeded, WindowCount, CountRateEventsSince
<1>6. /\ Cardinality(Preceding(u, n, a, w)) \in Nat
      /\ Cardinality(Preceding(u, Len(log), a, w)) \in Nat
      /\ Cardinality(Preceding(u, n, a, w)) <= Cardinality(Preceding(u, Len(log), a, w))
  BY <1>1, <1>2, <1>3, PrecedingMonotone
<1> QED BY <1>2, <1>5, <1>6

LEMMA CountExceededStep ==
  ASSUME IndInv, RetentionCoversWindows, NEW p \in Procs, CountExceeded(p)
  PROVE  IndInv'
<1>1. [Next]_vars
  BY DEF Next, HandlerStep
<1>2. TypeOK /\ handler[p] \in Active /\ p \in DOMAIN handler
  BY DEF IndInv, TypeOK, CountExceeded, At, Idle
<1> DEFINE u == handler[p].user
           a == handler[p].asked
           w == handler[p].window
<1>3. w \in DOMAIN Windows /\ OwnsEvent(p) /\ At(p, "count") /\ InTime(p) /\ Exceeded(p)
  BY <1>2 DEF Active, IndInv, CheckInv, CountExceeded
<1>4. Cardinality(Preceding(u, Len(log), a, w)) > Windows[w].max
  BY <1>3, CountIsExact DEF Exceeded, WindowCount, CountRateEventsSince
<1>5. /\ log' = log /\ rows' = rows /\ granted' = granted /\ now' = now
      /\ \A q \in Procs \ {p} : handler'[q] = handler[q]
      /\ handler'[p] = [handler[p] EXCEPT !.step = "limited"]
  BY <1>2 DEF CountExceeded, TypeOK
<1>6. /\ handler'[p].step = "limited" /\ handler'[p].own = handler[p].own
      /\ handler'[p].user = u /\ handler'[p].asked = a
  BY <1>2, <1>5 DEF Active
<1>7. OwnsEvent(p)'
  BY <1>3, <1>5, <1>6 DEF OwnsEvent, At, Step
<1>8. RefusalSeen(p)'
  <2>1. \A v \in DOMAIN Windows :
          Preceding(handler[p].user, Len(log), handler[p].asked, v)'
            = Preceding(u, Len(log), a, v)
    BY <1>5, <1>6 DEF Preceding, EventsSince
  <2> QED BY <1>3, <1>4, <2>1 DEF RefusalSeen
<1>9. CheckInv(p)'
  BY <1>6, <1>7, <1>8 DEF CheckInv, WindowsPassed, At
<1> QED BY <1>1, <1>5, <1>9, TableUnchanged, OneCheckMoves

LEMMA CountNextStep ==
  ASSUME IndInv, RetentionCoversWindows, NEW p \in Procs, CountNext(p)
  PROVE  IndInv'
<1>1. [Next]_vars
  BY DEF Next, HandlerStep
<1>2. TypeOK /\ handler[p] \in Active /\ p \in DOMAIN handler
  BY DEF IndInv, TypeOK, CountNext, At, Idle
<1> DEFINE u == handler[p].user
           a == handler[p].asked
           n == handler[p].own
           w == handler[p].window
<1>3. /\ w \in Nat /\ CheckInv(p) /\ At(p, "count")
      /\ Cardinality(Preceding(u, n, a, w)) <= Windows[w].max
  BY <1>2, NotExceeded, WindowsType DEF Active, IndInv, CountNext
<1>4. /\ log' = log /\ rows' = rows /\ granted' = granted /\ now' = now
      /\ \A q \in Procs \ {p} : handler'[q] = handler[q]
      /\ handler'[p] = [handler[p] EXCEPT !.window = w + 1]
  BY <1>2 DEF CountNext, TypeOK
<1>5. /\ handler'[p].step = "count" /\ handler'[p].own = n
      /\ handler'[p].user = u /\ handler'[p].asked = a /\ handler'[p].window = w + 1
  BY <1>2, <1>3, <1>4 DEF Active, At
<1>6. OwnsEvent(p)'
  BY <1>3, <1>4, <1>5 DEF CheckInv, OwnsEvent, At, Step
<1>7. WindowsPassed(p)'
  <2>1. ASSUME NEW v \in 1..w
        PROVE  Cardinality(Preceding(u, n, a, v)) <= Windows[v].max
    <3>1. v = w \/ v \in 1..(w - 1)
      BY <1>3
    <3> QED BY <1>3, <3>1 DEF CheckInv, WindowsPassed
  <2>2. w + 1 - 1 = w
    BY <1>3
  <2>3. \A v \in DOMAIN Windows :
          Preceding(handler[p].user, handler[p].own, handler[p].asked, v)'
            = Preceding(u, n, a, v)
    BY <1>4, <1>5 DEF Preceding, EventsSince
  <2>4. 1..w \subseteq DOMAIN Windows /\ handler'[p].window - 1 = w
    BY <1>2, <1>3, <1>5, <2>2, WindowsType DEF Active
  <2> QED BY <2>1, <2>3, <2>4 DEF WindowsPassed
<1>8. CheckInv(p)'
  BY <1>5, <1>6, <1>7 DEF CheckInv, RefusalSeen, At
<1> QED BY <1>1, <1>4, <1>8, TableUnchanged, OneCheckMoves

\* When a check lets its message through, every window, also those it counted
\* some steps before, holds no more than its max up to that message.
LEMMA GrantWithin ==
  ASSUME IndInv, RetentionCoversWindows, NEW p \in Procs, Grant(p)
  PROVE  \A w \in DOMAIN Windows :
            Cardinality(Preceding(handler[p].user, handler[p].own, handler[p].asked, w))
              <= Windows[w].max
<1> DEFINE u == handler[p].user
           a == handler[p].asked
           n == handler[p].own
<1>1. Cardinality(Preceding(u, n, a, Len(Windows))) <= Windows[Len(Windows)].max
  BY NotExceeded DEF Grant
<1>2. \A w \in 1..(Len(Windows) - 1) :
         Cardinality(Preceding(u, n, a, w)) <= Windows[w].max
  BY DEF IndInv, CheckInv, WindowsPassed, Grant
<1>3. ASSUME NEW w \in DOMAIN Windows
      PROVE  w = Len(Windows) \/ w \in 1..(Len(Windows) - 1)
  BY WindowsType
<1> QED BY <1>1, <1>2, <1>3

LEMMA GrantStep ==
  ASSUME IndInv, RetentionCoversWindows, NEW p \in Procs, Grant(p)
  PROVE  IndInv'
<1>1. [Next]_vars
  BY DEF Next, HandlerStep
<1>2. TypeOK /\ handler[p] \in Active /\ p \in DOMAIN handler
  BY DEF IndInv, TypeOK, Grant, At, Idle
<1> DEFINE u == handler[p].user
           a == handler[p].asked
           n == handler[p].own
<1>3. /\ log' = log /\ rows' = rows /\ granted' = granted \cup {n}
      /\ \A q \in Procs \ {p} : handler'[q] = handler[q]
      /\ handler'[p] = Idle
  BY <1>2 DEF Grant, TypeOK
<1>4. \A w \in DOMAIN Windows : Cardinality(Preceding(u, n, a, w)) <= Windows[w].max
  BY GrantWithin
<1>5. /\ n \in DOMAIN log /\ log[n].user = u /\ log[n].asked = a
      /\ log[n].type = "message"
  BY DEF IndInv, CheckInv, OwnsEvent, Grant, At, Step
<1>6. TypeOK'
  BY <1>1, <1>2, TypeStep
<1>7. TableInv'
  BY <1>1, <1>3, TableUnchanged
<1>8. \A q \in Procs : CheckInv(q)'
  BY <1>1, <1>3, IdleCheck, OtherCheck
<1>9. GrantedAreMessages'
  BY <1>3, <1>5 DEF IndInv, GrantedAreMessages
<1>10. GrantCounted'
  <2>1. SUFFICES ASSUME NEW i \in granted', NEW w \in DOMAIN Windows
                 PROVE  Cardinality(Preceding(log[i].user, i, log[i].asked, w))
                          <= Windows[w].max
    BY <1>3 DEF GrantCounted, Preceding, EventsSince
  <2>2. CASE i \in granted
    BY <2>2 DEF IndInv, GrantCounted
  <2>3. CASE i = n
    BY <1>4, <1>5, <2>3
  <2> QED BY <1>3, <2>2, <2>3
<1> QED BY <1>6, <1>7, <1>8, <1>9, <1>10 DEF IndInv, TableInv

LEMMA AddLimitedStep ==
  ASSUME IndInv, NEW p \in Procs, AddLimited(p)
  PROVE  IndInv'
<1>1. [Next]_vars
  BY DEF Next, HandlerStep
<1>2. TypeOK /\ handler[p] \in Active /\ At(p, "limited") /\ p \in DOMAIN handler
  BY DEF IndInv, TypeOK, AddLimited, At, Idle
<1> DEFINE u == handler[p].user
           a == handler[p].asked
<1>3. u \in Users /\ a \in Nat /\ a <= now /\ OwnsEvent(p) /\ RefusalSeen(p)
  BY <1>2 DEF Active, IndInv, CheckInv, OwnsEvent, At
<1>4. AddRateEvent(u, "limited", a) /\ now' = now /\ granted' = granted
  BY DEF AddLimited
<1>5. /\ DOMAIN log = 1..Len(log) /\ DOMAIN log' = 1..(Len(log) + 1)
      /\ Len(log) \in Nat
      /\ \A i \in 1..Len(log) : log'[i] = log[i]
      /\ log'[Len(log) + 1] = [user |-> u, type |-> "limited", at |-> utcNow, asked |-> a]
  BY <1>1, <1>2, <1>3, <1>4, AddRateEventType, LogGrows DEF EventType
<1>6. LogTimes' /\ RowsKept'
  BY <1>1, <1>3, <1>4, InsertKeepsTimes DEF EventType
<1>7. LimitJustified'
  <2>1. SUFFICES ASSUME NEW i \in DOMAIN log', log'[i].type = "limited"
                 PROVE  \E w \in DOMAIN Windows :
                          (Cardinality(Preceding(log[i].user, i, log[i].asked, w))
                             > Windows[w].max)'
    BY DEF LimitJustified
  <2>2. CASE i \in DOMAIN log
    <3>1. log'[i] = log[i] /\ \A j \in 1..i : log'[j] = log[j]
      BY <1>5, <2>2
    <3>2. PICK w \in DOMAIN Windows :
                 Cardinality(Preceding(log[i].user, i, log[i].asked, w)) > Windows[w].max
      BY <2>1, <2>2, <3>1 DEF IndInv, LimitJustified
    <3>3. Preceding(log[i].user, i, log[i].asked, w)'
            = Preceding(log[i].user, i, log[i].asked, w)
      BY <3>1 DEF Preceding, EventsSince
    <3> QED BY <3>2, <3>3
  <2>3. CASE i = Len(log) + 1
    <3>1. PICK w \in DOMAIN Windows :
                 Cardinality(Preceding(u, Len(log), a, w)) > Windows[w].max
      BY <1>2, <1>3 DEF RefusalSeen
    <3>2. log'[i].user = u /\ log'[i].asked = a /\ i \in Nat
      BY <1>5, <2>3
    <3>3. /\ Preceding(log[i].user, i, log[i].asked, w)' \in SUBSET (1..i)
          /\ Preceding(u, Len(log), a, w)
               \in SUBSET (Preceding(log[i].user, i, log[i].asked, w)')
      BY <1>5, <2>3, <3>2 DEF Preceding, EventsSince
    <3>4. LET S == Preceding(u, Len(log), a, w)
              T == Preceding(log[i].user, i, log[i].asked, w)'
          IN  /\ Cardinality(S) \in Nat /\ Cardinality(T) \in Nat
              /\ Cardinality(S) <= Cardinality(T)
      BY <3>2, <3>3, FewerIds
    <3>5. Windows[w].max \in Nat
      BY WindowsType
    <3>6. Cardinality(Preceding(log[i].user, i, log[i].asked, w)') > Windows[w].max
      BY <3>1, <3>4, <3>5
    <3> QED BY <3>6
  <2> QED BY <1>5, <2>2, <2>3
<1>8. CheckInv(p)'
  <2>1. handler'[p] = [handler[p] EXCEPT !.step = "increment"]
    BY <1>2 DEF AddLimited
  <2>2. /\ handler'[p].step = "increment" /\ handler'[p].own = handler[p].own
        /\ handler'[p].user = u /\ handler'[p].asked = a
    BY <1>2, <2>1 DEF Active
  <2>3. OwnsEvent(p)'
    BY <1>2, <1>3, <1>4, <1>5, <2>2 DEF OwnsEvent, At, Step
  <2> QED BY <2>2, <2>3 DEF CheckInv, WindowsPassed, RefusalSeen, At
<1>9. \A q \in Procs \ {p} : handler'[q] = handler[q]
  BY DEF AddLimited, IndInv, TypeOK
<1> QED BY <1>1, <1>4, <1>6, <1>7, <1>8, <1>9, OneCheckMoves DEF TableInv

LEMMA CheckEnds ==
  ASSUME IndInv, NEW p \in Procs, IncrementLimitedCount(p) \/ Fail(p)
  PROVE  IndInv'
<1>1. [Next]_vars
  BY DEF Next, HandlerStep
<1>2. /\ log' = log /\ rows' = rows /\ granted' = granted
      /\ \A q \in Procs \ {p} : handler'[q] = handler[q]
      /\ handler'[p] = Idle
  BY DEF IncrementLimitedCount, Fail, IndInv, TypeOK
<1> QED BY <1>1, <1>2, IdleCheck, TableUnchanged, OneCheckMoves

\* A step in which no check proceeds: the cleanup, a restart, the clock.
LEMMA NoCheckMoves ==
  ASSUME IndInv, DeleteRateEventsBefore \/ Restart \/ Tick \/ UNCHANGED vars
  PROVE  IndInv'
<1>1. [Next]_vars
  BY DEF Next
<1>2. TypeOK /\ TypeOK'
  BY <1>1, TypeStep DEF IndInv
<1>3. log' = log /\ granted' = granted
  BY DEF DeleteRateEventsBefore, Restart, Tick, vars
<1>4. \A q \in Procs : handler'[q] = handler[q] \/ handler'[q] = Idle
  BY <1>2 DEF DeleteRateEventsBefore, Restart, Tick, vars, TypeOK
<1>5. \A q \in Procs : CheckInv(q)'
  BY <1>1, <1>4, IdleCheck, OtherCheck
<1>6. GrantedAreMessages' /\ GrantCounted'
  BY <1>3 DEF IndInv, GrantedAreMessages, GrantCounted, Preceding, EventsSince
<1>7. TableInv'
  <2>1. CASE DeleteRateEventsBefore
    <3>1. LogTimes' /\ LimitJustified'
      BY <1>3, <2>1 DEF IndInv, LogTimes, LimitJustified, Preceding, EventsSince,
                        DeleteRateEventsBefore
    <3>2. PICK before \in 0..(now - Retention) :
                 rows' = {i \in rows : log[i].at > before}
      BY <2>1 DEF DeleteRateEventsBefore
    <3>3. now \in Nat /\ Retention \in Nat /\ now' = now
      BY <1>2, <2>1, TimeAssumption DEF TypeOK, DeleteRateEventsBefore
    <3>4. ASSUME NEW i \in DOMAIN log \ rows'  PROVE log[i].at <= now - Retention
      <4>1. log[i].at \in Nat
        BY <1>2, LogEntries
      <4>2. i \notin rows \/ ~ (log[i].at > before)
        BY <3>2, <3>4
      <4> QED BY <3>2, <3>3, <4>1, <4>2 DEF IndInv, RowsKept
    <3> QED BY <1>3, <3>1, <3>3, <3>4 DEF TableInv, RowsKept
  <2>2. CASE Restart \/ Tick \/ UNCHANGED vars
    <3>1. rows' = rows
      BY <2>2 DEF Restart, Tick, vars
    <3> QED BY <1>1, <1>3, <3>1, TableUnchanged
  <2> QED BY <2>1, <2>2
<1> QED BY <1>2, <1>5, <1>6, <1>7 DEF IndInv, TableInv

LEMMA InitIndInv == Init => IndInv
<1> SUFFICES ASSUME Init  PROVE IndInv
  OBVIOUS
<1>1. TypeOK
  BY TypeInit
<1>2. DOMAIN log = {} /\ granted = {}
  BY DEF Init
<1>3. \A p \in Procs : CheckInv(p)
  BY DEF Init, CheckInv, OwnsEvent, WindowsPassed, RefusalSeen, At, Idle, Step
<1> QED BY <1>1, <1>2, <1>3 DEF IndInv, LogTimes, RowsKept, GrantedAreMessages,
                               GrantCounted, LimitJustified

LEMMA StepIndInv ==
  ASSUME RetentionCoversWindows, IndInv, [Next]_vars
  PROVE  IndInv'
BY CheckStep, AddMessageStep, CountExceededStep, CountNextStep, GrantStep,
   AddLimitedStep, CheckEnds, NoCheckMoves DEF Next, HandlerStep

\* The invariant gives the bound: the last message of an interval was counted
\* together with all the others.
LEMMA CountedGivesBound ==
  ASSUME IndInv  PROVE WindowBound
<1> SUFFICES ASSUME NEW u \in Users, NEW w \in DOMAIN Windows, NEW i \in granted
             PROVE  Cardinality(GrantedBetween(u, log[i].at,
                                   log[i].at + Windows[w].duration - Micro))
                      <= Windows[w].max
  BY DEF WindowBound
<1> DEFINE S == GrantedBetween(u, log[i].at, log[i].at + Windows[w].duration - Micro)
<1>1. TypeOK /\ LogTimes /\ GrantedAreMessages /\ GrantCounted
  BY DEF IndInv
<1>2. DOMAIN log = 1..Len(log) /\ Len(log) \in Nat
  BY <1>1, LenProperties DEF TypeOK
<1>3. S \in SUBSET (1..Len(log)) /\ i \in DOMAIN log
  BY <1>1, <1>2 DEF GrantedBetween, GrantedAreMessages
<1>4. IsFiniteSet(S)
  <2>1. IsFiniteSet(1..Len(log))
    BY <1>2, FS_Interval
  <2> HIDE DEF S
  <2> QED BY <1>3, <2>1, FS_Subset
<1>5. Windows[w].duration \in Nat /\ Windows[w].max \in Nat /\ Micro \in Nat
  BY WindowsType, TimeAssumption
<1>6. CASE S = {}
  <2>1. Cardinality(S) = 0
    BY <1>6, FS_EmptySet
  <2> QED BY <1>5, <2>1
<1>7. CASE S # {}
  <2>1. PICK c \in S : \A j \in S : j <= c
    <3>1. S \in SUBSET Nat
      BY <1>2, <1>3
    <3> HIDE DEF S
    <3> QED BY <1>4, <1>7, <3>1, FiniteSetHasMax
  <2>2. c \in granted /\ c \in DOMAIN log /\ log[c].user = u
    BY <1>1 DEF GrantedBetween, GrantedAreMessages
  <2>3. Cardinality(Preceding(u, c, log[c].asked, w)) <= Windows[w].max
    BY <1>1, <2>2 DEF GrantCounted
  <2>4. log[c].asked - Windows[w].duration < log[i].at
    <3>1. /\ log[c].asked < log[c].at + Micro
          /\ log[c].at <= log[i].at + Windows[w].duration - Micro
      BY <1>1, <2>2 DEF LogTimes, GrantedBetween
    <3>2. log[c].asked \in Nat /\ log[c].at \in Nat /\ log[i].at \in Nat
      BY <1>1, <1>3, <2>2, LogEntries
    <3> QED BY <1>5, <3>1, <3>2
  <2>5. ASSUME NEW j \in S  PROVE j \in Preceding(u, c, log[c].asked, w)
    <3>1. /\ j \in granted /\ j \in DOMAIN log /\ log[j].user = u
          /\ log[j].type = "message" /\ log[i].at <= log[j].at
      BY <1>1 DEF GrantedBetween, GrantedAreMessages
    <3>2. log[j].at >= log[c].asked - Windows[w].duration
      BY <1>1, <1>3, <1>5, <2>2, <2>4, <3>1, LogEntries
    <3>3. j \in 1..c
      BY <1>2, <2>1, <2>2, <3>1
    <3> QED BY <3>1, <3>2, <3>3 DEF Preceding, EventsSince
  <2>6. /\ c \in Nat /\ Preceding(u, c, log[c].asked, w) \in SUBSET (1..c)
        /\ S \in SUBSET Preceding(u, c, log[c].asked, w)
    BY <1>2, <2>2, <2>5 DEF Preceding, EventsSince
  <2>7. /\ Cardinality(S) \in Nat
        /\ Cardinality(Preceding(u, c, log[c].asked, w)) \in Nat
        /\ Cardinality(S) <= Cardinality(Preceding(u, c, log[c].asked, w))
    <3> HIDE DEF S
    <3> QED BY <2>6, FewerIds
  <2> QED BY <1>5, <2>3, <2>7
<1> QED BY <1>6, <1>7

--------------------------------------------------------------------------------
\* The state of the limiter, its table and its checks keeps its shape.
THEOREM TypeCorrect == Spec => []TypeOK
<1>1. TypeOK /\ [Next]_vars => TypeOK'
  BY TypeStep
<1> QED BY <1>1, TypeInit, PTL DEF Spec

\* The inductive invariant holds when the retention covers the windows.
THEOREM Invariance == RetentionCoversWindows => (Spec => []IndInv)
<1> SUFFICES ASSUME RetentionCoversWindows  PROVE Spec => []IndInv
  OBVIOUS
<1>1. IndInv /\ [Next]_vars => IndInv'
  BY StepIndInv
<1> QED BY <1>1, InitIndInv, PTL DEF Spec

\* No stranger gets more messages through than a window admits, in any
\* interval, if events are kept for a window and a request's life (Check and
\* the cleanup, limiter.go:93 and main.go:76).
THEOREM SlidingWindow == RetentionCoversWindows => (Spec => []WindowBound)
<1> SUFFICES ASSUME RetentionCoversWindows  PROVE Spec => []WindowBound
  OBVIOUS
<1>1. IndInv => WindowBound
  BY CountedGivesBound
<1> QED BY <1>1, Invariance, PTL

\* Every refusal on record is backed by more messages of the same stranger
\* than one of the windows admits (limiter.go:113).
THEOREM RefusalsJustified == RetentionCoversWindows => (Spec => []LimitJustified)
<1> SUFFICES ASSUME RetentionCoversWindows  PROVE Spec => []LimitJustified
  OBVIOUS
<1>1. IndInv => LimitJustified
  BY DEF IndInv
<1> QED BY <1>1, Invariance, PTL

\* Under the same hypothesis no event is deleted that a check in progress
\* still has to count (CountRateEventsSince against DeleteRateEventsBefore).
THEOREM CleanupIsSafe == RetentionCoversWindows => (Spec => []CleanupSparesChecks)
<1> SUFFICES ASSUME RetentionCoversWindows  PROVE Spec => []CleanupSparesChecks
  OBVIOUS
<1>1. IndInv => CleanupSparesChecks
  <2> SUFFICES ASSUME IndInv, NEW p \in Procs, At(p, "count"), InTime(p),
                      NEW w \in DOMAIN Windows
               PROVE  EventsSince(DOMAIN log, handler[p].user, "message",
                          handler[p].asked - Windows[w].duration) \subseteq rows
    BY DEF CleanupSparesChecks
  <2>1. DOMAIN log = 1..Len(log)
    BY LenProperties DEF IndInv, TypeOK
  <2>2. EventsSince(rows, handler[p].user, "message",
                    handler[p].asked - Windows[w].duration)
          = Preceding(handler[p].user, Len(log), handler[p].asked, w)
    BY CountIsExact
  <2> QED BY <2>1, <2>2 DEF Preceding, EventsSince
<1> QED BY <1>1, Invariance, PTL
================================================================================
