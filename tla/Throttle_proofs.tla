------------------------------ MODULE Throttle_proofs ------------------------------
(***************************************************************************)
(* Theorems about Throttle, for any number of goroutines and any rate.     *)
(***************************************************************************)
EXTENDS Throttle, FiniteSetTheorems, TLAPS

--------------------------------------------------------------------------------
\* One token more is Grain ticks more.
LEMMA OneMore ==
  ASSUME NEW k \in Int
  PROVE  /\ Grain * k \in Int
         /\ Grain * (k + 1) = Grain * k + Grain
         /\ Grain * (k - 1) = Grain * k - Grain
         /\ Grain * 0 = 0 /\ Grain * 1 = Grain
         /\ k * Grain = Grain * k
BY ThrottleAssumption

LEMMA OneSent ==
  \A r \in Nat : r * Grain \in Nat /\ (r + 1) * Grain = r * Grain + Grain
BY ThrottleAssumption

\* Several tokens are worth more than one.
LEMMA Several ==
  ASSUME NEW k \in Nat
  PROVE  /\ Grain * k \in Nat
         /\ k >= 1 => Grain * k >= Grain
         /\ k >= 2 => Grain * k >= 2 * Grain
BY ThrottleAssumption

LEMMA Sizes ==
  /\ Grain \in Nat \ {0}
  /\ Burst \in Nat /\ Burst >= Grain
  /\ Second = Burst /\ MaxWait = 2 * Burst
<1>1. PerSecond \in Nat /\ PerSecond >= 1 /\ Grain \in Nat \ {0}
  BY ThrottleAssumption
<1>2. Grain * PerSecond \in Nat /\ Grain * PerSecond >= Grain
  BY <1>1, Several
<1>3. PerSecond * Grain = Grain * PerSecond
  BY <1>1
<1> QED BY <1>1, <1>2, <1>3 DEF Burst, Second, MaxWait

LEMMA FewSleepers ==
  /\ IsFiniteSet(Sleepers)
  /\ Cardinality(Sleepers) \in Nat
  /\ Cardinality(Sleepers) = 0 <=> Sleepers = {}
<1>1. IsFiniteSet(Sleepers)
  BY ProcsAssumption, FS_Subset DEF Sleepers
<1> QED BY <1>1, FS_CardinalityType, FS_EmptySet

--------------------------------------------------------------------------------
LEMMA InitHolds == Init => IndInv
<1> SUFFICES ASSUME Init PROVE IndInv
  OBVIOUS
<1> USE Sizes
<1>1. Sleepers = {} /\ Cardinality(Sleepers) = 0
  BY FS_EmptySet DEF Init, Sleepers, At, Idle
<1>2. Unspent = Burst
  BY <1>1, OneMore DEF Init, Unspent
<1>3. TypeOK
  BY DEF Init, TypeOK, Refusal, None
<1>4. OneByOne
  BY <1>1 DEF OneByOne
<1>5. RefusedBehindQueue
  <2>1. Grain * 1 = Grain
    BY OneMore
  <2> QED BY <2>1 DEF Init, RefusedBehindQueue, None
<1>6. \A d \in 0..Second : released[d] * Grain + Unspent <= Burst + d
  <2>1. 0 * Grain = 0
    BY OneMore
  <2> QED BY <1>2, <2>1 DEF Init
<1> QED BY <1>3, <1>4, <1>5, <1>6 DEF IndInv, Init

\* The level and the delay of one more send, told by the sleepers.
LEMMA Debt ==
  ASSUME IndInv
  PROVE  /\ level \in Int /\ Unspent \in Nat
         /\ Unspent <= Burst
         /\ level = Unspent - Grain * Cardinality(Sleepers)
         /\ Sleepers # {} => level < 0 /\ Unspent < Grain
         /\ Delay \in Nat
         /\ Delay > 0 => Unspent < Grain /\ Delay = Grain * (Cardinality(Sleepers) + 1) - Unspent
<1> DEFINE n == Cardinality(Sleepers)
<1> USE Sizes
<1>1. n \in Nat /\ (n = 0 <=> Sleepers = {})
  BY FewSleepers
<1>2. level \in Int /\ level <= Burst
  BY DEF IndInv, TypeOK
<1>3. Grain * n \in Nat /\ (n >= 1 => Grain * n >= Grain) /\ Grain * 0 = 0
      /\ Grain * (n + 1) = Grain * n + Grain
  BY <1>1, Several, OneMore
<1>4. Unspent = level + Grain * n
  BY DEF Unspent
<1>5. Sleepers # {} => Unspent \in 0..(Grain - 1)
  BY DEF IndInv, OneByOne
<1>6. Sleepers = {} => level >= 0
  BY DEF IndInv
<1> HIDE DEF n
<1>7. CASE Sleepers = {}
  <2>1. Grain * n = 0
    BY <1>1, <1>3, <1>7
  <2>2. Unspent = level
    BY <1>2, <1>4, <2>1
  <2> QED BY <1>2, <1>3, <1>6, <1>7, <2>1, <2>2 DEF Delay, n
<1>8. CASE Sleepers # {}
  <2>1. level < 0
    BY <1>1, <1>2, <1>3, <1>4, <1>5, <1>8
  <2> QED BY <1>2, <1>3, <1>4, <1>5, <1>8, <2>1 DEF Delay, n
<1> QED BY <1>7, <1>8

--------------------------------------------------------------------------------
\* A send that finds a token only spends it.
LEMMA AtOnceKeeps ==
  ASSUME IndInv, NEW p \in Procs, SendAtOnce(p)
  PROVE  IndInv'
<1> USE Sizes
<1>1. Sleepers = {} /\ Sleepers' = {} /\ level >= Grain /\ level = Unspent
  <2>1. Delay = 0 /\ level \in Int
    BY Debt DEF SendAtOnce
  <2>2. level >= Grain
    BY <2>1 DEF Delay
  <2>3. Sleepers = {}
    BY <2>2, Debt
  <2>4. Sleepers' = Sleepers
    BY DEF Sleepers, At, SendAtOnce
  <2> QED BY <2>2, <2>3, <2>4, Debt, FewSleepers, OneMore
<1>2. level \in Int /\ level <= Burst /\ level' = level - Grain /\ Cardinality({}) = 0
  BY FS_EmptySet DEF IndInv, TypeOK, SendAtOnce
<1>3. Unspent' = Unspent - Grain
  BY <1>1, <1>2, OneMore DEF Unspent
<1>4. TypeOK'
  <2>1. released \in [0..Second -> Nat] /\ sender \in [Procs -> {Idle} \cup Waiting]
    BY DEF IndInv, TypeOK
  <2>2. released' \in [0..Second -> Nat]
    BY <2>1 DEF SendAtOnce
  <2>3. sender' = sender /\ refusal' = None
    BY DEF SendAtOnce
  <2>4. level' \in (-MaxWait)..Burst
    BY <1>1, <1>2
  <2> QED BY <2>1, <2>2, <2>3, <2>4 DEF TypeOK, Refusal, None
<1>5. OneByOne'
  BY <1>1, <1>2 DEF OneByOne
<1>6. RefusedBehindQueue'
  <2>1. Grain * 1 = Grain
    BY OneMore
  <2> QED BY <2>1 DEF SendAtOnce, RefusedBehindQueue, None
<1>7. ASSUME NEW d \in 0..Second
      PROVE  released'[d] * Grain + Unspent' <= Burst + d
  <2>1. released[d] \in Nat /\ released'[d] = released[d] + 1
    BY DEF IndInv, TypeOK, SendAtOnce
  <2>2. (released[d] + 1) * Grain = released[d] * Grain + Grain /\ released[d] * Grain \in Int
    <3>1. released[d] \in Nat
      BY <2>1
    <3>2. released[d] * Grain \in Nat /\ (released[d] + 1) * Grain = released[d] * Grain + Grain
      BY <3>1, OneSent, Zenon
    <3> QED BY <3>2
  <2>3. released[d] * Grain + Unspent <= Burst + d
    BY DEF IndInv
  <2> QED BY <1>1, <1>2, <1>3, <2>1, <2>2, <2>3
<1> QED BY <1>1, <1>2, <1>4, <1>5, <1>6, <1>7 DEF IndInv

\* A send that goes to sleep queues up behind those who sleep.
LEMMA LaterKeeps ==
  ASSUME IndInv, NEW p \in Procs, SendLater(p)
  PROVE  IndInv'
<1> DEFINE n == Cardinality(Sleepers)
<1> USE Sizes
<1>1. PICK limit \in 0..MaxWait :
        /\ Delay <= limit
        /\ sender' = [sender EXCEPT ![p] = [step |-> "wait", due |-> Delay,
                                            tight |-> (Delay = limit)]]
  BY DEF SendLater, Become
<1>2. /\ At(p, "idle") /\ Delay \in 1..MaxWait /\ level' = level - Grain
      /\ released' = released /\ refusal' = None
      /\ sender \in [Procs -> {Idle} \cup Waiting] /\ level \in Int /\ Unspent \in Nat
  <2>1. Delay \in 1..MaxWait
    BY <1>1, Debt DEF SendLater
  <2>2. sender \in [Procs -> {Idle} \cup Waiting]
    BY DEF IndInv, TypeOK
  <2> QED BY <2>1, <2>2, Debt DEF SendLater
<1>3. n \in Nat /\ Unspent < Grain /\ Delay = Grain * (n + 1) - Unspent
      /\ Unspent = level + Grain * n /\ Grain * n \in Int
  <2>1. n \in Nat
    BY FewSleepers
  <2> QED BY <1>2, <2>1, Debt, OneMore
<1>4. p \notin Sleepers /\ Sleepers' = Sleepers \cup {p}
  BY <1>1, <1>2 DEF Sleepers, At
<1>5. Cardinality(Sleepers') = n + 1
  BY <1>4, FewSleepers, FS_AddElement
<1>6. Unspent' = Unspent
  <2>1. Grain * (n + 1) = Grain * n + Grain
    BY <1>3, OneMore
  <2>2. Unspent' = level' + Grain * Cardinality(Sleepers')
    BY DEF Unspent
  <2> HIDE DEF n
  <2> QED BY <1>2, <1>3, <1>5, <2>1, <2>2
<1>7. TypeOK'
  <2>1. [step |-> "wait", due |-> Delay, tight |-> (Delay = limit)] \in Waiting
    BY <1>2 DEF Waiting
  <2>2. sender' \in [Procs -> {Idle} \cup Waiting]
    BY <1>1, <1>2, <2>1
  <2>3. level' >= -MaxWait /\ level' <= Burst
    BY <1>2, Sizes DEF IndInv, TypeOK, Delay
  <2> QED BY <1>2, <2>2, <2>3 DEF IndInv, TypeOK, Refusal, None
<1>8. OneByOne'
  <2> HIDE DEF n
  <2>1. {sender[q].due : q \in Sleepers} = {Grain * k - Unspent : k \in 1..n}
    BY DEF IndInv, OneByOne, n
  <2>2. \A q \in Sleepers : sender'[q] = sender[q] /\ q # p
    BY <1>1, <1>2, <1>4 DEF Sleepers
  <2>3. sender'[p].due = Grain * (n + 1) - Unspent
    BY <1>1, <1>2, <1>3
  <2>4. {sender'[q].due : q \in Sleepers'} = {Grain * k - Unspent : k \in 1..(n + 1)}
    <3>1. {sender'[q].due : q \in Sleepers'} = {sender[q].due : q \in Sleepers} \cup {sender'[p].due}
      BY <1>4, <2>2
    <3>2. 1..(n + 1) = (1..n) \cup {n + 1}
      BY <1>3
    <3>3. {Grain * k - Unspent : k \in (1..n) \cup {n + 1}}
            = {Grain * k - Unspent : k \in 1..n} \cup {Grain * (n + 1) - Unspent}
      OBVIOUS
    <3> QED BY <2>1, <2>3, <3>1, <3>2, <3>3
  <2>5. \A q \in Sleepers : sender[q].due # sender'[p].due
    <3>1. ASSUME NEW q \in Sleepers  PROVE sender[q].due # Grain * (n + 1) - Unspent
      <4>1. PICK k \in 1..n : sender[q].due = Grain * k - Unspent
        BY <2>1
      <4>2. Grain * k # Grain * (n + 1)
        <5>1. Grain * (n + 1 - k) >= Grain /\ Grain * (n + 1 - k) \in Int
          BY <1>3, Several
        <5>2. Grain * (n + 1 - k) = Grain * (n + 1) - Grain * k
          BY <1>3
        <5> QED BY <1>3, <5>1, <5>2
      <4>3. Grain * k \in Int /\ Grain * (n + 1) \in Int
        BY <1>3
      <4> QED BY <1>2, <4>1, <4>2, <4>3
    <3> QED BY <2>3, <3>1
  <2>6. \A q, r \in Sleepers' : q # r => sender'[q].due # sender'[r].due
    <3>1. \A q, r \in Sleepers : q # r => sender[q].due # sender[r].due
      BY DEF IndInv, OneByOne
    <3> QED BY <1>4, <2>2, <2>5, <3>1
  <2>7. Unspent' \in 0..(Grain - 1)
    BY <1>2, <1>3, <1>6
  <2>8. {sender'[q].due : q \in Sleepers'} = {Grain * k - Unspent' : k \in 1..Cardinality(Sleepers')}
    BY <1>5, <1>6, <2>4
  <2> QED BY <2>6, <2>7, <2>8 DEF OneByOne
<1>9. RefusedBehindQueue'
  <2>1. Grain * 1 = Grain
    BY OneMore
  <2> QED BY <1>2, <2>1 DEF RefusedBehindQueue, None
<1>10. \A d \in 0..Second : released'[d] * Grain + Unspent' <= Burst + d
  BY <1>2, <1>6 DEF IndInv
<1> QED BY <1>4, <1>7, <1>8, <1>9, <1>10 DEF IndInv

\* A refused send leaves everything as it is.
LEMMA RefuseKeeps ==
  ASSUME IndInv, NEW p \in Procs, Refuse(p)
  PROVE  IndInv'
<1> DEFINE n == Cardinality(Sleepers)
<1> USE Sizes
<1>1. PICK limit \in 0..MaxWait :
        /\ Delay > limit \/ limit = 0
        /\ refusal' = [ahead |-> n, limit |-> limit]
  BY DEF Refuse
<1>2. level' = level /\ sender' = sender /\ released' = released
  BY DEF Refuse
<1>3. n \in Nat
  BY FewSleepers
<1>4. TypeOK'
  BY <1>1, <1>2, <1>3 DEF IndInv, TypeOK, Refusal
<1>5. OneByOne' /\ (Sleepers = {} => level >= 0)'
  BY <1>2 DEF IndInv, OneByOne, Unspent, Sleepers, At
<1>6. RefusedBehindQueue'
  <2>1. refusal'.limit = limit /\ refusal'.ahead = n
    BY <1>1
  <2>2. limit < Grain * (n + 1)
    <3>1. Grain * (n + 1) \in Nat /\ Grain * (n + 1) >= Grain
      BY <1>3, Several
    <3> HIDE DEF n
    <3>2. CASE limit = 0
      BY <3>1, <3>2
    <3>3. CASE limit > 0
      <4>1. Delay > limit /\ Delay > 0 /\ Delay \in Nat
        BY <1>1, <3>3, Debt
      <4>2. Delay = Grain * (n + 1) - Unspent /\ Unspent \in Nat
        BY <4>1, Debt DEF n
      <4> QED BY <3>1, <4>1, <4>2
    <3> QED BY <3>2, <3>3
  <2> QED BY <2>1, <2>2 DEF RefusedBehindQueue
<1>7. \A d \in 0..Second : released'[d] * Grain + Unspent' <= Burst + d
  BY <1>2 DEF IndInv, Unspent, Sleepers, At
<1> QED BY <1>4, <1>5, <1>6, <1>7 DEF IndInv

--------------------------------------------------------------------------------
\* Without sleepers a tick only lets a token flow in.
LEMMA QuietTickKeeps ==
  ASSUME IndInv, Tick, Sleepers = {}
  PROVE  IndInv'
<1> USE Sizes
<1>1. Sleepers' = {} /\ Waking = {} /\ sender' = sender
  <2>1. sender \in [Procs -> {Idle} \cup Waiting]
    BY DEF IndInv, TypeOK
  <2>2. Waking = {}
    BY DEF Waking
  <2>3. sender' = [q \in Procs |-> sender[q]]
    BY <2>2 DEF Tick
  <2>4. sender' = sender
    BY <2>1, <2>3
  <2> QED BY <2>2, <2>4 DEF Sleepers, At
<1>2. /\ level \in Int /\ level <= Burst /\ level >= 0
      /\ level' \in Int /\ level' <= level + 1 /\ level' <= Burst /\ level' >= 0
  BY DEF IndInv, TypeOK, Tick, Fill
<1>3. Unspent = level /\ Unspent' = level'
  <2>1. Cardinality({}) = 0
    BY FS_EmptySet
  <2> QED BY <1>1, <1>2, <2>1, OneMore DEF Unspent
<1>4. released' = [d \in 0..Second |-> (IF d = 0 THEN 0 ELSE released[d - 1])]
  <2>1. PICK late \in SUBSET {q \in Waking : sender[q].tight} :
          released' = [d \in 0..Second |-> (IF d = 0 THEN 0 ELSE released[d - 1])
                                             + Cardinality(Waking \ late)]
    BY DEF Tick
  <2>2. Waking \ late = {} /\ Cardinality({}) = 0
    BY <1>1, FS_EmptySet
  <2>3. ASSUME NEW d \in 0..Second
        PROVE  (IF d = 0 THEN 0 ELSE released[d - 1]) + Cardinality(Waking \ late)
                 = IF d = 0 THEN 0 ELSE released[d - 1]
    <3>1. (IF d = 0 THEN 0 ELSE released[d - 1]) \in Nat
      BY DEF IndInv, TypeOK
    <3>2. Cardinality(Waking \ late) = 0
      BY <2>2
    <3> QED BY <3>1, <3>2
  <2> QED BY <2>1, <2>3
<1>5. TypeOK'
  <2>1. released' \in [0..Second -> Nat]
    BY <1>4 DEF IndInv, TypeOK
  <2>2. refusal' = None /\ sender \in [Procs -> {Idle} \cup Waiting]
    BY DEF Tick, IndInv, TypeOK
  <2> QED BY <1>1, <1>2, <2>1, <2>2 DEF TypeOK, Refusal, None
<1>6. OneByOne'
  <2>1. Cardinality({}) = 0
    BY FS_EmptySet
  <2> QED BY <1>1, <2>1 DEF OneByOne
<1>7. RefusedBehindQueue'
  <2>1. Grain * 1 = Grain
    BY OneMore
  <2> QED BY <2>1 DEF Tick, RefusedBehindQueue, None
<1>8. ASSUME NEW d \in 0..Second
      PROVE  released'[d] * Grain + Unspent' <= Burst + d
  <2>1. CASE d = 0
    <3>1. released'[d] = 0 /\ 0 * Grain = 0
      BY <1>4, <2>1, OneMore
    <3>2. released'[d] * Grain = 0
      BY <3>1
    <3> QED BY <1>2, <1>3, <2>1, <3>2
  <2>2. CASE d > 0
    <3>1. d - 1 \in 0..Second /\ released'[d] = released[d - 1]
      BY <1>4, <2>2
    <3>2. released[d - 1] * Grain + Unspent <= Burst + (d - 1)
      BY <3>1 DEF IndInv
    <3>3. released[d - 1] * Grain \in Nat
      BY <3>1, OneSent DEF IndInv, TypeOK
    <3> QED BY <1>2, <1>3, <2>2, <3>1, <3>2, <3>3
  <2> QED BY <2>1, <2>2
<1> QED BY <1>2, <1>5, <1>6, <1>7, <1>8 DEF IndInv

\* A tick shortens every sleep, or ends it.
LEMMA SleepersAfterTick ==
  ASSUME IndInv, Tick
  PROVE  /\ Waking \subseteq Sleepers
         /\ Sleepers' = Sleepers \ Waking
         /\ \A q \in Sleepers' : sender'[q].due = sender[q].due - 1
         /\ \A q \in Sleepers : sender[q].due \in 1..MaxWait
         /\ sender' \in [Procs -> {Idle} \cup Waiting]
<1>1. Waking \subseteq Sleepers /\ Sleepers \subseteq Procs
  BY DEF Waking, Sleepers
<1>2. sender' = [q \in Procs |->
                    IF q \in Waking THEN Idle
                    ELSE IF q \in Sleepers THEN [sender[q] EXCEPT !.due = @ - 1]
                    ELSE sender[q]]
  BY DEF Tick
<1>3. \A q \in Procs : sender[q] \in {Idle} \cup Waiting
  BY DEF IndInv, TypeOK
<1>4. \A q \in Sleepers : sender[q] \in Waiting
  BY <1>1, <1>3 DEF Sleepers, At, Idle
<1>5. ASSUME NEW q \in Sleepers \ Waking
      PROVE  sender'[q] \in Waiting /\ sender'[q].due = sender[q].due - 1
  <2>1. sender'[q] = [sender[q] EXCEPT !.due = @ - 1]
    BY <1>1, <1>2
  <2>2. PICK x \in 1..MaxWait, b \in BOOLEAN : sender[q] = [step |-> "wait", due |-> x, tight |-> b]
    BY <1>4 DEF Waiting
  <2>3. x # 1
    BY <1>5, <2>2 DEF Waking
  <2>4. sender'[q] = [step |-> "wait", due |-> x - 1, tight |-> b]
    BY <2>1, <2>2
  <2>5. x - 1 \in 1..MaxWait
    BY <2>3, Sizes
  <2> QED BY <2>2, <2>4, <2>5 DEF Waiting
<1>6. \A q \in Procs : q \in Waking => sender'[q] = Idle
  BY <1>2
<1>7. \A q \in Procs : q \notin Sleepers => sender'[q] = sender[q]
  BY <1>1, <1>2
<1>8. \A q \in Sleepers \ Waking : sender'[q].step = "wait"
  BY <1>5 DEF Waiting
<1>9. Sleepers' = Sleepers \ Waking
  BY <1>1, <1>6, <1>7, <1>8 DEF Sleepers, At, Idle
<1>10. \A q \in Procs : sender'[q] \in {Idle} \cup Waiting
  BY <1>3, <1>5, <1>6, <1>7
<1>11. \A q \in Sleepers : sender[q].due \in 1..MaxWait
  BY <1>4 DEF Waiting
<1> QED BY <1>1, <1>2, <1>5, <1>9, <1>10, <1>11

\* The first sleeper sleeps on as long as the bucket lacks a part of its token,
\* and wakes alone when the token is whole.
LEMMA FirstSleeper ==
  ASSUME IndInv, Tick, Sleepers # {}
  PROVE  /\ Unspent < Grain - 1 => Waking = {}
         /\ Unspent = Grain - 1 => \E w \in Sleepers : Waking = {w}
<1> DEFINE n == Cardinality(Sleepers)
<1> USE Sizes
<1>1. n \in Nat /\ n >= 1 /\ Unspent \in 0..(Grain - 1)
  BY FewSleepers DEF IndInv, OneByOne
<1>2. {sender[q].due : q \in Sleepers} = {Grain * k - Unspent : k \in 1..n}
  BY DEF IndInv, OneByOne
<1> HIDE DEF n
<1>3. ASSUME Unspent < Grain - 1  PROVE Waking = {}
  <2>1. ASSUME NEW q \in Sleepers  PROVE sender[q].due # 1
    <3>1. PICK k \in 1..n : sender[q].due = Grain * k - Unspent
      BY <1>2
    <3>2. Grain * k \in Nat /\ Grain * k >= Grain
      BY <1>1, Several
    <3> QED BY <1>1, <1>3, <3>1, <3>2
  <2> QED BY <2>1 DEF Waking
<1>4. ASSUME Unspent = Grain - 1  PROVE \E w \in Sleepers : Waking = {w}
  <2>1. 1 \in 1..n /\ Grain * 1 - Unspent = 1
    BY <1>1, <1>4, OneMore
  <2>2. PICK w \in Sleepers : sender[w].due = 1
    BY <1>2, <2>1
  <2>3. \A q \in Sleepers : sender[q].due = 1 => q = w
    BY <2>2 DEF IndInv, OneByOne
  <2> QED BY <2>2, <2>3 DEF Waking
<1> QED BY <1>3, <1>4

\* What gets through in a tick is at most what wakes.
LEMMA ReleasedAfterTick ==
  ASSUME IndInv, Tick, NEW d \in 0..Second
  PROVE  LET before == IF d = 0 THEN 0 ELSE released[d - 1]
         IN  /\ before \in Nat
             /\ released' \in [0..Second -> Nat]
             /\ Waking = {} => released'[d] = before
             /\ \A w : Waking = {w} => released'[d] \in {before, before + 1}
<1> DEFINE before(e) == IF e = 0 THEN 0 ELSE released[e - 1]
<1>1. PICK late \in SUBSET {q \in Waking : sender[q].tight} :
        released' = [e \in 0..Second |-> before(e) + Cardinality(Waking \ late)]
  BY DEF Tick
<1>2. \A e \in 0..Second : before(e) \in Nat
  BY Sizes DEF IndInv, TypeOK
<1>3. IsFiniteSet(Waking \ late)
  <2>1. Waking \ late \subseteq Sleepers
    BY DEF Waking
  <2> QED BY <2>1, FewSleepers, FS_Subset
<1>4. Cardinality(Waking \ late) \in Nat
  BY <1>3, FS_CardinalityType
<1>5. Waking = {} => Cardinality(Waking \ late) = 0
  BY FS_EmptySet
<1>6. ASSUME NEW w, Waking = {w}  PROVE Cardinality(Waking \ late) \in {0, 1}
  <2>1. Waking \ late \in {{}, {w}}
    BY <1>6
  <2> QED BY <2>1, FS_EmptySet, FS_Singleton
<1>7. released'[d] = before(d) + Cardinality(Waking \ late)
  BY <1>1
<1> HIDE DEF before
<1>8. released' \in [0..Second -> Nat]
  BY <1>1, <1>2, <1>4
<1>9. before(d) \in Nat
  BY <1>2
<1>10. Waking = {} => released'[d] = before(d)
  BY <1>5, <1>7, <1>9
<1>11. ASSUME NEW w, Waking = {w}  PROVE released'[d] \in {before(d), before(d) + 1}
  BY <1>6, <1>7, <1>9, <1>11
<1> QED BY <1>8, <1>9, <1>10, <1>11 DEF before

\* What a tick leaves of the types, without the sleepers.
LEMMA TickTypes ==
  ASSUME IndInv, Tick, Sleepers # {}
  PROVE  TypeOK' /\ RefusedBehindQueue' /\ level' = level + 1
<1> USE Sizes
<1>1. level < 0 /\ level \in (-MaxWait)..Burst
  BY Debt DEF IndInv, TypeOK
<1>2. level' = level + 1 /\ level' \in (-MaxWait)..Burst
  BY <1>1 DEF Tick, Fill
<1>3. released' \in [0..Second -> Nat]
  <2>1. 0 \in 0..Second
    OBVIOUS
  <2> QED BY <2>1, ReleasedAfterTick
<1>4. refusal' = None
  BY DEF Tick
<1>5. Grain * 1 = Grain
  BY OneMore
<1>6. RefusedBehindQueue'
  BY <1>4, <1>5 DEF RefusedBehindQueue, None
<1>7. TypeOK'
  BY <1>2, <1>3, <1>4, SleepersAfterTick DEF TypeOK, Refusal, None
<1> QED BY <1>2, <1>6, <1>7

\* Everybody sleeps on.
LEMMA SleepTickKeeps ==
  ASSUME IndInv, Tick, Sleepers # {}, Unspent < Grain - 1
  PROVE  IndInv'
<1> DEFINE n == Cardinality(Sleepers)
<1> USE Sizes
<1>1. Waking = {} /\ Sleepers' = Sleepers
  BY FirstSleeper, SleepersAfterTick
<1>2. n \in Nat /\ Unspent \in Nat /\ level \in Int /\ level' = level + 1 /\ Grain * n \in Int
  BY FewSleepers, Debt, TickTypes, OneMore
<1>3. Unspent' = Unspent + 1
  <2>1. Unspent = level + Grain * n /\ Unspent' = level' + Grain * n
    BY <1>1 DEF Unspent
  <2> HIDE DEF n
  <2> QED BY <1>2, <2>1
<1>4. OneByOne'
  <2>1. \A q \in Sleepers : sender'[q].due = sender[q].due - 1 /\ sender[q].due \in Int
    BY <1>1, SleepersAfterTick
  <2>2. {sender[q].due : q \in Sleepers} = {Grain * k - Unspent : k \in 1..n}
    BY DEF IndInv, OneByOne
  <2>3. \A k \in 1..n : Grain * k \in Int
    BY Several
  <2> HIDE DEF n
  <2>4. {sender'[q].due : q \in Sleepers} = {Grain * k - Unspent' : k \in 1..n}
    <3>1. ASSUME NEW q \in Sleepers  PROVE \E k \in 1..n : sender'[q].due = Grain * k - Unspent'
      <4>1. PICK k \in 1..n : sender[q].due = Grain * k - Unspent
        BY <2>2
      <4>2. Grain * k - Unspent - 1 = Grain * k - Unspent'
        BY <1>2, <1>3, <2>3
      <4> QED BY <2>1, <4>1, <4>2
    <3>2. ASSUME NEW k \in 1..n  PROVE \E q \in Sleepers : sender'[q].due = Grain * k - Unspent'
      <4>1. PICK q \in Sleepers : sender[q].due = Grain * k - Unspent
        BY <2>2
      <4>2. Grain * k - Unspent - 1 = Grain * k - Unspent'
        BY <1>2, <1>3, <2>3
      <4> QED BY <2>1, <4>1, <4>2
    <3> QED BY <3>1, <3>2
  <2>5. \A q, r \in Sleepers : q # r => sender'[q].due # sender'[r].due
    <3>1. \A q, r \in Sleepers : q # r => sender[q].due # sender[r].due
      BY DEF IndInv, OneByOne
    <3> QED BY <2>1, <3>1
  <2>6. Unspent' \in 0..(Grain - 1)
    BY <1>2, <1>3
  <2> QED BY <1>1, <2>4, <2>5, <2>6 DEF OneByOne, n
<1>5. ASSUME NEW d \in 0..Second
      PROVE  released'[d] * Grain + Unspent' <= Burst + d
  <2>1. CASE d = 0
    <3>1. released'[d] = 0 /\ 0 * Grain = 0
      BY <1>1, <2>1, ReleasedAfterTick, OneMore
    <3>2. released'[d] * Grain = 0
      BY <3>1
    <3> QED BY <1>2, <1>3, <2>1, <3>2
  <2>2. CASE d > 0
    <3>1. d - 1 \in 0..Second /\ released'[d] = released[d - 1]
      BY <1>1, <2>2, ReleasedAfterTick
    <3>2. released[d - 1] * Grain + Unspent <= Burst + (d - 1)
      BY <3>1 DEF IndInv
    <3>3. released[d - 1] * Grain \in Nat
      BY <3>1, OneSent DEF IndInv, TypeOK
    <3> QED BY <1>2, <1>3, <2>2, <3>1, <3>2, <3>3
  <2> QED BY <2>1, <2>2
<1> QED BY <1>1, <1>4, <1>5, TickTypes DEF IndInv

\* The first sleeper's token is whole; the others move up by one.
LEMMA WakeTickKeeps ==
  ASSUME IndInv, Tick, Sleepers # {}, Unspent = Grain - 1
  PROVE  IndInv'
<1> DEFINE n == Cardinality(Sleepers)
<1> USE Sizes
<1>1. PICK w \in Sleepers : Waking = {w}
  BY FirstSleeper
<1>2. Sleepers' = Sleepers \ {w} /\ sender[w].due = 1
  BY <1>1, SleepersAfterTick DEF Waking
<1>3. n \in Nat /\ n >= 1 /\ level \in Int /\ level' = level + 1 /\ Unspent \in Nat
      /\ Grain * n \in Int /\ Grain * (n - 1) = Grain * n - Grain
  BY FewSleepers, Debt, TickTypes, OneMore
<1>4. Cardinality(Sleepers') = n - 1
  BY <1>1, <1>2, FewSleepers, FS_RemoveElement
<1>5. Unspent' = 0
  <2>1. Unspent = level + Grain * n /\ Unspent' = level' + Grain * (n - 1)
    BY <1>4 DEF Unspent
  <2> HIDE DEF n
  <2> QED BY <1>3, <2>1
<1>6. OneByOne'
  <2>1. \A q \in Sleepers \ {w} : sender'[q].due = sender[q].due - 1 /\ sender[q].due \in Int
    BY <1>2, SleepersAfterTick
  <2>2. {sender[q].due : q \in Sleepers} = {Grain * k - Unspent : k \in 1..n}
    BY DEF IndInv, OneByOne
  <2>3. \A q, r \in Sleepers : q # r => sender[q].due # sender[r].due
    BY DEF IndInv, OneByOne
  <2> HIDE DEF n
  <2>4. \A k \in 1..n : Grain * k \in Int /\ Grain * (k - 1) = Grain * k - Grain
                         /\ Grain * (k - 1) - 0 = Grain * k - Unspent - 1
    <3>1. ASSUME NEW k \in 1..n
          PROVE Grain * k \in Int /\ Grain * (k - 1) = Grain * k - Grain
      BY OneMore
    <3> QED BY <1>3, <3>1
  <2>5. {sender'[q].due : q \in Sleepers \ {w}} = {Grain * k - 0 : k \in 1..(n - 1)}
    <3>1. ASSUME NEW q \in Sleepers \ {w}
          PROVE  \E j \in 1..(n - 1) : sender'[q].due = Grain * j - 0
      <4>1. PICK k \in 1..n : sender[q].due = Grain * k - Unspent
        BY <2>2
      <4>2. k # 1
        <5>1. sender[q].due # 1
          BY <1>2, <2>3
        <5> QED BY <1>3, <4>1, <5>1, OneMore
      <4>3. k - 1 \in 1..(n - 1)
        BY <1>3, <4>2
      <4>4. sender'[q].due = Grain * (k - 1) - 0
        BY <2>1, <2>4, <4>1
      <4> QED BY <4>3, <4>4
    <3>2. ASSUME NEW j \in 1..(n - 1)
          PROVE  \E q \in Sleepers \ {w} : sender'[q].due = Grain * j - 0
      <4>1. j + 1 \in 1..n /\ Grain * (j + 1) = Grain * j + Grain /\ Grain * j \in Int
            /\ Grain * j >= Grain
        BY <1>3, OneMore, Several
      <4>2. PICK q \in Sleepers : sender[q].due = Grain * (j + 1) - Unspent
        BY <2>2, <4>1
      <4>3. sender[q].due = Grain * j + 1
        BY <1>3, <4>1, <4>2
      <4>4. q # w
        BY <1>2, <4>1, <4>3
      <4> QED BY <2>1, <4>1, <4>3, <4>4
    <3> QED BY <3>1, <3>2
  <2>6. \A q, r \in Sleepers \ {w} : q # r => sender'[q].due # sender'[r].due
    BY <2>1, <2>3
  <2> QED BY <1>2, <1>4, <1>5, <2>5, <2>6 DEF OneByOne, n
<1>7. Sleepers' = {} => level' >= 0
  <2>1. Sleepers' = {} => n - 1 = 0
    BY <1>4, FS_EmptySet
  <2>2. Unspent' = level' + Grain * (n - 1) /\ Grain * 0 = 0
    BY <1>4, OneMore DEF Unspent
  <2> HIDE DEF n
  <2> QED BY <1>3, <1>5, <2>1, <2>2
<1>8. ASSUME NEW d \in 0..Second
      PROVE  released'[d] * Grain + Unspent' <= Burst + d
  <2>1. CASE d = 0
    <3>1. released'[d] \in {0, 0 + 1}
      BY <1>1, <2>1, ReleasedAfterTick, Zenon
    <3>2. released'[d] * Grain \in {0, Grain}
      BY <3>1, OneMore
    <3> QED BY <1>5, <2>1, <3>2
  <2>2. CASE d > 0
    <3>1. d - 1 \in 0..Second /\ released'[d] \in {released[d - 1], released[d - 1] + 1}
      <4>1. d # 0 /\ d - 1 \in 0..Second
        BY <2>2
      <4>2. released'[d] \in {released[d - 1], released[d - 1] + 1}
        BY <1>1, <4>1, ReleasedAfterTick, Zenon
      <4> QED BY <4>1, <4>2
    <3>2. released[d - 1] * Grain + Unspent <= Burst + (d - 1)
      BY <3>1 DEF IndInv
    <3>3. released[d - 1] \in Nat
      BY <3>1 DEF IndInv, TypeOK
    <3>4. released[d - 1] * Grain \in Nat
          /\ (released[d - 1] + 1) * Grain = released[d - 1] * Grain + Grain
      BY <3>3, OneSent, Zenon
    <3>5. released'[d] * Grain \in {released[d - 1] * Grain, released[d - 1] * Grain + Grain}
      BY <3>1, <3>4
    <3> QED BY <1>3, <1>5, <2>2, <3>2, <3>4, <3>5
  <2> QED BY <2>1, <2>2
<1> QED BY <1>6, <1>7, <1>8, TickTypes DEF IndInv

--------------------------------------------------------------------------------
\* The invariant holds in every reachable state: what the bucket owes is exactly
\* what those who sleep are waiting for.
THEOREM Invariance == Spec => []IndInv
<1>1. Init => IndInv
  BY InitHolds
<1>2. IndInv /\ [Next]_vars => IndInv'
  <2> SUFFICES ASSUME IndInv, [Next]_vars PROVE IndInv'
    OBVIOUS
  <2>1. ASSUME NEW p \in Procs, SendAtOnce(p)  PROVE IndInv'
    BY <2>1, AtOnceKeeps
  <2>2. ASSUME NEW p \in Procs, SendLater(p)  PROVE IndInv'
    BY <2>2, LaterKeeps
  <2>3. ASSUME NEW p \in Procs, Refuse(p)  PROVE IndInv'
    BY <2>3, RefuseKeeps
  <2>4. CASE Tick
    <3>1. CASE Sleepers = {}
      BY <2>4, <3>1, QuietTickKeeps
    <3>2. CASE Sleepers # {}
      <4>1. Unspent \in 0..(Grain - 1)
        BY <3>2 DEF IndInv, OneByOne
      <4>2. Unspent < Grain - 1 \/ Unspent = Grain - 1
        BY <4>1, Sizes
      <4> QED BY <2>4, <3>2, <4>2, SleepTickKeeps, WakeTickKeeps
    <3> QED BY <3>1, <3>2
  <2>5. CASE UNCHANGED vars
    BY <2>5 DEF vars, IndInv, TypeOK, OneByOne, RefusedBehindQueue, Unspent, Sleepers, At
  <2> QED BY <2>1, <2>2, <2>3, <2>4, <2>5 DEF Next
<1> QED BY <1>1, <1>2, PTL DEF Spec

\* Type correctness of the sender's bucket and its goroutines (sender.go:20).
THEOREM TypeCorrect == Spec => []TypeOK
<1>1. IndInv => TypeOK
  BY DEF IndInv
<1> QED BY <1>1, Invariance, PTL

\* At most the burst and what flows in gets through, in any interval up to a
\* second, whatever the rate and the number of goroutines (sender.go:20).
THEOREM RateKept == Spec => []RateBound
<1>1. IndInv => RateBound
  <2> SUFFICES ASSUME IndInv, NEW d \in 0..Second  PROVE released[d] * Grain <= Burst + d
    BY DEF RateBound
  <2>1. released[d] * Grain \in Nat /\ Unspent \in Nat
    BY Debt, OneSent DEF IndInv, TypeOK
  <2>2. released[d] * Grain + Unspent <= Burst + d
    BY DEF IndInv
  <2> QED BY <2>1, <2>2, Sizes
<1> QED BY <1>1, Invariance, PTL

\* Sleepers wake in the order of their reservations, a token apart (sender.go:62).
THEOREM InOrder == Spec => []OneByOne
<1>1. IndInv => OneByOne
  BY DEF IndInv
<1> QED BY <1>1, Invariance, PTL

\* Who is refused with two seconds to wait stands behind twice the configured
\* number of sends per second (sender.go:26).
THEOREM RefusalsEarned == Spec => []RefusedBehindQueue
<1>1. IndInv => RefusedBehindQueue
  BY DEF IndInv
<1> QED BY <1>1, Invariance, PTL
================================================================================
