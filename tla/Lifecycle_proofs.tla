------------------------------ MODULE Lifecycle_proofs ------------------------------
(***************************************************************************)
(* Theorems about Lifecycle, for any settings and any number of handlers:  *)
(* how run() takes the process down again, and what it runs on until then. *)
(***************************************************************************)
EXTENDS Lifecycle, FiniteSetTheorems, TLAPS

--------------------------------------------------------------------------------
\* The places of run() before and after the store is opened, while updates may
\* be taken, and once the contexts are cancelled.
Closed   == {"load", "open", "done"}
Opened   == {"migrate", "connect", "build", "notify", "spawn", "start", "wait", "waiting",
             "stop", "cancel"}
Serving  == {"wait", "waiting", "stop"}
Torn     == {"close", "done"}
Spawned  == {"start", "wait", "waiting"} \cup Ending

Steps ==
    /\ run \in Closed \cup Opened \cup Torn
    /\ code \in {"nil", "error"}
    /\ code = "error" => run \in {"cancel", "close", "done"}

\* A queue of the receivers that wait, each at most once.
Line(q) ==
    /\ q \in Seq({"run", "cleanup"}) /\ Len(q) <= 2
    /\ Len(q) = 2 => q[1] # q[2]

In(q, x) == \E i \in 1..Len(q) : q[i] = x

\* The signal that run() waits for is its own.
Queued ==
    /\ Line(queue)
    /\ In(queue, "run") <=> run = "waiting"
    /\ In(queue, "cleanup") <=> cleanup = "waiting"

\* The store is open from Open to Close, the context live until Cancel.
StoreOpen ==
    /\ run \in Closed => db = "nil"
    /\ run \in Opened => db = "open"
    /\ ~live => run \in Torn

\* The poller, the goroutines of handlers and the cleanup begin after the setup.
Born ==
    /\ poller \in BOOLEAN
    /\ poller => run \in Serving /\ code = "nil"
    /\ handler \in [Procs -> {"idle", "check", "use"}]
    /\ \A p \in Procs : handler[p] # "idle" => run \in Serving \cup Ending /\ code = "nil"
    /\ cleanup # "none" => run \in Spawned /\ code = "nil"

\* What is cut off is cut off by a store that is closed or a context cancelled.
Cut == cut \/ exit = "panic" => run \in Torn /\ code = "nil"

IndInv == Steps /\ Queued /\ StoreOpen /\ Born /\ Cut /\ LeavesNothingOpen

\* The process goes by what it was given, once that was found free of errors, and
\* gets to serve only with the windows that the limiter accepts.
AsLoaded ==
    /\ given \in Given
    /\ run # "load" => ~ LoadFails(given.env, given.file) /\ cfg = LoadConfig(given.env, given.file)
    /\ run \in {"notify", "spawn", "start"} \cup Serving => \A w \in Windows : cfg[w] > 0
    /\ cutoff # Unset => run # "load" /\ cutoff = Wrap(cfg[Retention] * Day)

\* What the administrator wrote, or the default.
Meant(k) ==
    LET value == IF given.env[k] = Unset THEN FileValue(given.file, k) ELSE given.env[k]
    IN  IF value \in {Unset, Blank} THEN Default[k] ELSE value

--------------------------------------------------------------------------------
\* Whoever queues up is last, and the first leaves.
LEMMA LineGrows ==
  ASSUME NEW q, Line(q), NEW x \in {"run", "cleanup"}, ~In(q, x)
  PROVE  /\ Line(Append(q, x))
         /\ \A y : In(Append(q, x), y) <=> y = x \/ In(q, y)
<1> DEFINE r == Append(q, x)
<1>1. /\ r \in Seq({"run", "cleanup"}) /\ Len(r) = Len(q) + 1 /\ Len(q) \in Nat
      /\ \A i \in 1..Len(q) : r[i] = q[i]
      /\ r[Len(q) + 1] = x
  BY DEF Line
<1>2. \A i \in 1..Len(q) : q[i] # x /\ q[i] \in {"run", "cleanup"}
  BY DEF Line, In
<1>3. Len(q) # 2
  <2>1. SUFFICES ASSUME Len(q) = 2 PROVE FALSE
    OBVIOUS
  <2>2. 1 \in 1..Len(q) /\ 2 \in 1..Len(q)
    BY <2>1
  <2>3. q[1] # q[2]
    BY <2>1 DEF Line
  <2> QED BY <1>2, <2>2, <2>3
<1> HIDE DEF r
<1>4. Len(q) \in {0, 1}
  <2>1. Len(q) \in Nat /\ Len(q) <= 2
    BY DEF Line
  <2>2. \A n \in Nat : n <= 2 /\ n # 2 => n \in {0, 1}
    OBVIOUS
  <2> QED BY <1>3, <2>1, <2>2, Zenon
<1>5. Len(r) <= 2 /\ (Len(r) = 2 => r[1] # r[2])
  <2>1. CASE Len(q) = 0
    BY <1>1, <2>1
  <2>2. CASE Len(q) = 1
    <3>1. 1 \in 1..Len(q) /\ Len(r) = 2 /\ r[2] = x
      BY <1>1, <2>2
    <3> QED BY <1>1, <1>2, <3>1
  <2> QED BY <1>4, <2>1, <2>2
<1>6. ASSUME NEW y  PROVE In(r, y) <=> y = x \/ In(q, y)
  BY <1>1 DEF In
<1> QED BY <1>1, <1>5, <1>6 DEF Line, r

LEMMA LineShrinks ==
  ASSUME NEW q, Line(q), q # <<>>
  PROVE  /\ Line(Tail(q)) /\ In(q, Head(q))
         /\ \A y : In(Tail(q), y) <=> y # Head(q) /\ In(q, y)
<1> DEFINE r == Tail(q)
<1>1. /\ r \in Seq({"run", "cleanup"}) /\ Len(r) = Len(q) - 1 /\ Len(q) \in {1, 2}
      /\ \A i \in 1..Len(r) : r[i] = q[i + 1]
      /\ Head(q) = q[1]
  <2>1. q \in Seq({"run", "cleanup"}) /\ Len(q) \in Nat /\ Len(q) <= 2
    BY DEF Line
  <2>2. Len(q) # 0
    BY <2>1
  <2>3. Len(q) \in {1, 2}
    <3>1. \A n \in Nat : n <= 2 /\ n # 0 => n \in {1, 2}
      OBVIOUS
    <3> QED BY <2>1, <2>2, <3>1, Zenon
  <2>4. r \in Seq({"run", "cleanup"}) /\ Len(r) = Len(q) - 1
        /\ \A i \in 1..Len(r) : r[i] = q[i + 1]
    BY <2>1, <2>2
  <2>5. Head(q) = q[1]
    BY <2>1, <2>2
  <2> QED BY <2>3, <2>4, <2>5
<1> HIDE DEF r
<1>2. In(q, Head(q))
  BY <1>1 DEF In
<1>3. Line(r)
  BY <1>1 DEF Line
<1>4. ASSUME NEW y  PROVE In(r, y) <=> y # Head(q) /\ In(q, y)
  <2>1. CASE Len(q) = 1
    BY <1>1, <2>1 DEF In
  <2>2. CASE Len(q) = 2
    <3>1. Len(r) = 1 /\ r[1] = q[2] /\ q[1] # q[2]
      BY <1>1, <2>2 DEF Line
    <3> QED BY <1>1, <2>2, <3>1 DEF In
  <2> QED BY <1>1, <2>1, <2>2
<1> QED BY <1>2, <1>3, <1>4 DEF r

LEMMA LineShort ==
  /\ Line(<<>>) /\ \A y : ~In(<<>>, y)
  /\ Line(<<"run">>) /\ \A y : In(<<"run">>, y) <=> y = "run"
BY DEF Line, In

LEMMA InitHolds == Init => IndInv
<1> SUFFICES ASSUME Init PROVE IndInv
  OBVIOUS
<1> USE DEF Init
<1>1. Steps
  BY DEF Steps, Closed
<1>2. Queued
  BY LineShort DEF Queued
<1>3. StoreOpen /\ Born /\ Cut /\ LeavesNothingOpen
  BY DEF StoreOpen, Opened, Closed, Torn, Born, Cut, LeavesNothingOpen
<1> QED BY <1>1, <1>2, <1>3 DEF IndInv

\* The call after each one that has a successor.
LEMMA Successors ==
  ASSUME GoOn, Steps
  PROVE  /\ run = "load" => run' = "open"
         /\ run = "open" => run' = "migrate"
         /\ run = "migrate" => run' = "connect"
         /\ run = "connect" => run' = "build"
         /\ run = "build" => run' = "notify"
         /\ run = "notify" => run' = "spawn"
         /\ run = "spawn" => run' = "start"
         /\ run = "start" => run' = "wait"
<1>1. DOMAIN Calls = 1..9
  BY DEF Calls
<1>2. /\ Calls[1] = "load" /\ Calls[2] = "open" /\ Calls[3] = "migrate"
      /\ Calls[4] = "connect" /\ Calls[5] = "build" /\ Calls[6] = "notify"
      /\ Calls[7] = "spawn" /\ Calls[8] = "start" /\ Calls[9] = "wait"
  BY DEF Calls
<1>3. \A i \in 1..9 : i \in {1, 2, 3, 4, 5, 6, 7, 8, 9}
  OBVIOUS
<1>4. \A i, j \in 1..9 : Calls[i] = Calls[j] => i = j
  BY <1>2, <1>3
<1> DEFINE Place(r) == CHOOSE i \in DOMAIN Calls : Calls[i] = r
<1>5. \A i \in 1..9 : Place(Calls[i]) = i
  BY <1>1, <1>4
<1>6. run' = Calls[1 + Place(run)]
  BY DEF GoOn
<1> HIDE DEF Place
<1>7. /\ Place("load") = 1 /\ Place("open") = 2 /\ Place("migrate") = 3 /\ Place("connect") = 4
      /\ Place("build") = 5 /\ Place("notify") = 6 /\ Place("spawn") = 7 /\ Place("start") = 8
  BY <1>2, <1>5
<1> QED BY <1>2, <1>6, <1>7

\* The calls that set the process up, each with its way out.
LEMMA SetupKeeps ==
  ASSUME IndInv,
         LoadConfigOrExit \/ Open \/ Migrate \/ Connect \/ Build \/ Notify \/ SpawnCleanup
           \/ Start \/ Wait
  PROVE  IndInv'
<1> USE DEF At, Alive, Continue, Return, process, work, signals, IndInv
<1> USE DEF Steps, Queued, StoreOpen, Born, Cut, LeavesNothingOpen,
            Closed, Opened, Serving, Torn, Spawned, Ending
<1>1. CASE LoadConfigOrExit
  BY <1>1, Successors DEF LoadConfigOrExit
<1>2. CASE Open
  BY <1>2, Successors DEF Open
<1>3. CASE Migrate
  BY <1>3, Successors DEF Migrate
<1>4. CASE Connect
  BY <1>4, Successors DEF Connect
<1>5. CASE Build
  BY <1>5, Successors DEF Build
<1>6. CASE Notify
  BY <1>6, Successors DEF Notify
<1>7. CASE SpawnCleanup
  BY <1>7, Successors DEF SpawnCleanup
<1>8. CASE Start
  BY <1>8, Successors DEF Start
<1>9. CASE Wait
  <2>1. run = "wait" /\ ~In(queue, "run")
    BY <1>9 DEF Wait
  <2>3. Queued'
    BY <1>9, <2>1, LineGrows DEF Wait
  <2> QED BY <1>9, <2>3 DEF Wait
<1> QED BY <1>1, <1>2, <1>3, <1>4, <1>5, <1>6, <1>7, <1>8, <1>9

\* The deferred calls that take it down.
LEMMA ShutdownKeeps ==
  ASSUME IndInv, Stop \/ Cancel \/ Close \/ Exit \/ Begin
  PROVE  IndInv'
<1> USE DEF At, Alive, process, work, signals, IndInv
<1> USE DEF Steps, Queued, StoreOpen, Born, Cut, LeavesNothingOpen,
            Closed, Opened, Serving, Torn, Spawned, Ending
<1>1. CASE Stop
  BY <1>1 DEF Stop
<1>2. CASE Cancel
  BY <1>2 DEF Cancel
<1>3. CASE Close
  BY <1>3 DEF Close
<1>4. CASE Exit
  BY <1>4 DEF Exit
<1>5. CASE Begin
  BY <1>5 DEF Begin
<1> QED BY <1>1, <1>2, <1>3, <1>4, <1>5

\* The goroutines beside run().
LEMMA CleanupKeeps ==
  ASSUME IndInv, Sweep \/ Select \/ Hour
  PROVE  IndInv'
<1> USE DEF Alive, process, work, signals, IndInv
<1> USE DEF Steps, Queued, StoreOpen, Born, Cut, LeavesNothingOpen,
            Closed, Opened, Serving, Torn, Spawned, Ending
<1>1. CASE Sweep
  BY <1>1 DEF Sweep
<1>2. CASE Select
  <2>1. cleanup = "select" /\ ~In(queue, "cleanup")
    BY <1>2 DEF Select
  <2>3. Queued'
    BY <1>2, <2>1, LineGrows DEF Select
  <2> QED BY <1>2, <2>3 DEF Select
<1>3. CASE Hour
  BY <1>3, LineShort DEF Hour
<1> QED BY <1>1, <1>2, <1>3

LEMMA HandlersKeep ==
  ASSUME IndInv, NEW p \in Procs, Receive(p) \/ RequireOpen(p) \/ UseStore(p)
  PROVE  IndInv'
<1> USE DEF Alive, process, work, signals, IndInv
<1> USE DEF Steps, Queued, StoreOpen, Born, Cut, LeavesNothingOpen,
            Closed, Opened, Serving, Torn, Spawned, Ending
<1>1. CASE Receive(p)
  BY <1>1 DEF Receive
<1>2. CASE RequireOpen(p)
  BY <1>2 DEF RequireOpen
<1>3. CASE UseStore(p)
  BY <1>3 DEF UseStore
<1> QED BY <1>1, <1>2, <1>3

LEMMA OutsideKeeps ==
  ASSUME IndInv, Signal \/ Respawn
  PROVE  IndInv'
<1> USE DEF Alive, process, work, signals, IndInv
<1> USE DEF Steps, Queued, StoreOpen, Born, Cut, LeavesNothingOpen,
            Closed, Opened, Serving, Torn, Spawned, Ending
<1>1. CASE Signal
  <2>1. CASE ~Notified
    BY <1>1, <2>1 DEF Signal
  <2>2. CASE Notified /\ queue = <<>>
    BY <1>1, <2>2 DEF Signal
  <2>3. CASE Notified /\ queue # <<>>
    <3>1. /\ Line(Tail(queue)) /\ In(queue, Head(queue))
          /\ \A y : In(Tail(queue), y) <=> y # Head(queue) /\ In(queue, y)
      BY <2>3, LineShrinks
    <3>2. /\ queue' = Tail(queue)
          /\ run' = IF Head(queue) = "run" THEN "stop" ELSE run
          /\ cleanup' = IF Head(queue) = "cleanup" THEN "gone" ELSE cleanup
          /\ UNCHANGED <<slot, exit, process, db, live, poller, handler, cutoff, settled, cut>>
      BY <1>1, <2>3 DEF Signal
    <3>3. Queued'
      BY <3>1, <3>2
    <3>4. Head(queue) = "run" => run = "waiting"
      BY <2>3, <3>1
    <3>5. Head(queue) = "cleanup" => cleanup = "waiting"
      BY <2>3, <3>1
    <3> QED BY <2>3, <3>2, <3>3, <3>4, <3>5
  <2> QED BY <2>1, <2>2, <2>3
<1>2. CASE Respawn
  <2>1. /\ run' = "load" /\ code' = "nil" /\ exit' = "none" /\ db' = "nil" /\ live' = TRUE
        /\ poller' = FALSE /\ handler' = [p \in Procs |-> "idle"] /\ cleanup' = "none"
        /\ queue' = <<>> /\ cut' = FALSE
    BY <1>2 DEF Respawn
  <2>2. Queued'
    BY <2>1, LineShort
  <2>3. Born'
    BY <2>1
  <2>4. Steps' /\ StoreOpen' /\ Cut' /\ LeavesNothingOpen'
    BY <2>1
  <2> QED BY <2>2, <2>3, <2>4
<1> QED BY <1>1, <1>2

--------------------------------------------------------------------------------
\* The invariant of the process's life holds in every reachable state.
THEOREM Invariance == Spec => []IndInv
<1>1. Init => IndInv
  BY InitHolds
<1>2. IndInv /\ [Next]_vars => IndInv'
  <2> SUFFICES ASSUME IndInv, [Next]_vars PROVE IndInv'
    OBVIOUS
  <2>1. CASE RunStep \/ Begin
    BY <2>1, SetupKeeps, ShutdownKeeps DEF RunStep
  <2>2. CASE Sweep \/ Select \/ Hour
    BY <2>2, CleanupKeeps
  <2>3. ASSUME NEW p \in Procs, Receive(p) \/ RequireOpen(p) \/ UseStore(p)  PROVE IndInv'
    BY <2>3, HandlersKeep
  <2>4. CASE Signal \/ Respawn
    BY <2>4, OutsideKeeps
  <2>5. CASE UNCHANGED vars
    BY <2>5 DEF vars, process, work, signals, IndInv, Steps, Queued, StoreOpen, Born, Cut,
                LeavesNothingOpen
  <2> QED BY <2>1, <2>2, <2>3, <2>4, <2>5 DEF Next
<1> QED BY <1>1, <1>2, PTL DEF Spec

\* Handlers are cut off by the shutdown last of all, after the poller has stopped
\* (main.go:91), for any settings, handlers and order of signals.
THEOREM UpdatesServed == Spec => []CutOffLast
<1>1. IndInv => CutOffLast
  BY DEF IndInv, Cut, Born, CutOffLast, Torn, Serving, Ending
<1> QED BY <1>1, Invariance, PTL

\* Every way out of run() closes what it has opened (main.go:36).
THEOREM ClosesAll == Spec => []LeavesNothingOpen
<1>1. IndInv => LeavesNothingOpen
  BY DEF IndInv
<1> QED BY <1>1, Invariance, PTL

--------------------------------------------------------------------------------
\* A value that fits its width stays what it is.
LEMMA HalfType == Half \in Int /\ Half > 1
<1>1. Half \in Int
  BY WidthAssumption DEF Half
<1>2. Default[Owner] \in 1..(Half - 1)
  BY DefaultAssumption, KeysAssumption, RoleAssumption
<1> QED BY <1>1, <1>2

LEMMA WrapFits ==
  ASSUME NEW n \in Nat, n < Half
  PROVE  Wrap(n) = n
<1>1. Half \in Nat /\ Half > 0
  BY HalfType
<1> DEFINE h == Half
<1>2. h \in Nat /\ n < h
  BY <1>1
<1> HIDE DEF h
<1>3. (n + h) % (2 * h) = n + h
  BY <1>2
<1> QED BY <1>2, <1>3 DEF Wrap, h

\* A non-empty finite set of numbers has a largest element.
LEMMA FiniteSetHasMax ==
  ASSUME NEW S \in SUBSET Nat, IsFiniteSet(S), S # {}
  PROVE  \E x \in S : \A y \in S : y <= x
<1> DEFINE Above(x) == {y \in S : y > x}
           T == {Above(x) : x \in S}
<1>1. T \subseteq FiniteSubsetsOf(S) /\ T # {}
  <2>1. \A x \in S : Above(x) \in SUBSET S /\ IsFiniteSet(Above(x))
    BY FS_Subset
  <2> QED BY <2>1 DEF FiniteSubsetsOf
<1>2. PICK A \in T : \A B \in T : ~ (<<B, A>> \in StrictSubsetOrdering(S))
  <2> HIDE DEF T
  <2> QED BY <1>1, WFMin, FS_StrictSubsetOrderingWellFounded
<1>3. PICK x \in S : A = Above(x)
  BY <1>2
<1>4. ASSUME NEW z \in S, z > x
      PROVE  <<Above(z), A>> \in StrictSubsetOrdering(S)
  <2>1. Above(z) \subseteq A /\ A \subseteq S
    <3>1. \A y \in S : y \in Nat
      OBVIOUS
    <3>2. ASSUME NEW y \in S, y > z  PROVE  y > x
      BY <1>4, <3>1, <3>2
    <3> QED BY <1>3, <3>2
  <2>2. z \in A /\ z \notin Above(z)
    BY <1>3, <1>4
  <2> QED BY <2>1, <2>2 DEF StrictSubsetOrdering
<1>5. \A y \in S : y <= x
  <2>1. \A z \in S : Above(z) \in T
    OBVIOUS
  <2>2. \A z \in S : ~ (z > x)
    BY <1>2, <1>4, <2>1
  <2>3. \A z \in S : z \in Nat
    OBVIOUS
  <2> HIDE DEF T, Above
  <2> QED BY <2>2, <2>3
<1> QED BY <1>5

\* There is a last line for a setting, if any.
LEMMA LastLine ==
  ASSUME NEW n \in Nat, NEW S \in SUBSET (1..n), S # {}
  PROVE  \E i \in S : \A j \in S : j <= i
<1>1. IsFiniteSet(1..n)
  BY FS_Interval
<1>2. IsFiniteSet(S)
  BY <1>1, FS_Subset
<1> QED BY <1>2, FiniteSetHasMax

LEMMA FileValueType ==
  ASSUME NEW file \in Seq(Entry \cup {Malformed}), NEW k \in Keys
  PROVE  FileValue(file, k) \in Raw
<1> DEFINE lines == {i \in DOMAIN file : file[i].key = k}
<1>1. DOMAIN file = 1..Len(file) /\ Len(file) \in Nat
      /\ \A i \in DOMAIN file : file[i] \in Entry \cup {Malformed}
  OBVIOUS
<1>2. CASE lines = {}
  BY <1>2 DEF FileValue, Raw
<1>3. CASE lines # {}
  <2>1. \E i \in lines : \A j \in lines : j <= i
    <3>1. lines \in SUBSET (1..Len(file))
      BY <1>1
    <3> HIDE DEF lines
    <3> QED BY <1>1, <1>3, <3>1, LastLine
  <2> DEFINE last == CHOOSE i \in lines : \A j \in lines : j <= i
  <2>2. last \in lines
    BY <2>1
  <2>3. file[last] \in Entry \cup {Malformed}
    BY <1>1, <2>2
  <2>4. FileValue(file, k) = file[last].value
    BY <1>3 DEF FileValue
  <2> HIDE DEF last
  <2>5. file[last].value \in Raw
    <3>1. CASE file[last] \in Entry
      BY <3>1 DEF Entry
    <3>2. CASE file[last] = Malformed
      <4>1. Malformed.value = Junk
        BY DEF Malformed
      <4>2. Junk \in Raw
        BY DEF Raw
      <4> QED BY <3>2, <4>1, <4>2
    <3> QED BY <2>3, <3>1, <3>2
  <2> QED BY <2>4, <2>5
<1> QED BY <1>2, <1>3

\* LoadConfig lets only positive values through, and those are what was meant.
LEMMA SettingMeant ==
  ASSUME given \in Given, ~ LoadFails(given.env, given.file), NEW k \in Keys
  PROVE  Setting(given.env, given.file, k) = Meant(k) /\ Meant(k) \in 1..(Half - 1)
<1> DEFINE v == Lookup(given.env, given.file, k)
           d == IF k \in Required THEN Error ELSE Default[k]
<1>1. given.env[k] \in Raw /\ FileValue(given.file, k) \in Raw
  BY GivenAssumption, FileValueType
<1>2. v \in Raw /\ Meant(k) = IF v \in {Unset, Blank} THEN Default[k] ELSE v
  BY <1>1 DEF Lookup, Meant
<1>3. Setting(given.env, given.file, k) = getPositiveInt(v, d)
  BY DEF Setting
<1>4. getPositiveInt(v, d) # 0
  BY <1>3 DEF LoadFails, Error
<1> HIDE DEF v
<1>5. CASE v \in {Unset, Blank}
  <2>1. getPositiveInt(v, d) = d
    BY <1>5, ValueAssumption DEF getPositiveInt, Raw
  <2>2. d = Default[k]
    BY <1>4, <2>1 DEF Error
  <2>3. Default[k] \in 1..(Half - 1)
    BY DefaultAssumption
  <2> QED BY <1>2, <1>3, <1>5, <2>1, <2>2, <2>3
<1>6. CASE v = Junk
  BY <1>4, <1>6, ValueAssumption DEF getPositiveInt, Error
<1>7. CASE v \in -Half..(Half - 1)
  <2>1. v \notin {Unset, Blank} /\ v # Junk
    BY <1>7, ValueAssumption
  <2>2. getPositiveInt(v, d) = IF v > 0 THEN v ELSE Error
    BY <2>1 DEF getPositiveInt
  <2>3. v > 0
    BY <1>4, <2>2 DEF Error
  <2> QED BY <1>2, <1>3, <1>7, <2>1, <2>2, <2>3, HalfType
<1> QED BY <1>2, <1>5, <1>6, <1>7 DEF Raw

--------------------------------------------------------------------------------
\* A step that leaves the settings alone and takes run() no further than the
\* checks that were made.
LEMMA OnwardKeeps ==
  ASSUME AsLoaded, UNCHANGED <<given, cfg, cutoff>>, (run = "load") <=> (run' = "load"),
         run' \in {"notify", "spawn", "start"} \cup Serving =>
           run \in {"notify", "spawn", "start"} \cup Serving
  PROVE  AsLoaded'
<1>1. given' \in Given
  BY DEF AsLoaded
<1>3. run' # "load" =>
        ~ LoadFails(given.env, given.file)' /\ cfg' = LoadConfig(given.env, given.file)'
  BY DEF AsLoaded
<1>4. run' \in {"notify", "spawn", "start"} \cup Serving => \A w \in Windows : cfg'[w] > 0
  BY DEF AsLoaded
<1>5. cutoff' # Unset => run' # "load" /\ cutoff' = Wrap(cfg'[Retention] * Day)
  BY DEF AsLoaded
<1> QED BY <1>1, <1>3, <1>4, <1>5 DEF AsLoaded, Serving

LEMMA SetupAsLoaded ==
  ASSUME IndInv, AsLoaded,
         LoadConfigOrExit \/ Open \/ Migrate \/ Connect \/ Build \/ Notify \/ SpawnCleanup
           \/ Start \/ Wait
  PROVE  AsLoaded'
<1> USE DEF At, Alive, Continue, Return, process, work
<1>0. Steps
  BY DEF IndInv
<1>1. CASE LoadConfigOrExit
  <2>1. CASE LoadFails(given.env, given.file)
    BY <1>1, <2>1, OnwardKeeps DEF LoadConfigOrExit
  <2>2. CASE ~ LoadFails(given.env, given.file)
    <3>1. /\ run = "load" /\ UNCHANGED <<given, cutoff>> /\ GoOn
          /\ cfg' = LoadConfig(given.env, given.file)
      BY <1>1, <2>2 DEF LoadConfigOrExit
    <3>2. run' = "open"
      BY <1>0, <3>1, Successors
    <3>3. cutoff' = Unset
      BY <3>1 DEF AsLoaded
    <3>4. given' \in Given
      BY <3>1 DEF AsLoaded
    <3>5. ~ LoadFails(given.env, given.file)' /\ cfg' = LoadConfig(given.env, given.file)'
      BY <2>2, <3>1
    <3> QED BY <3>2, <3>3, <3>4, <3>5 DEF AsLoaded, Serving
  <2> QED BY <2>1, <2>2
<1>2. CASE Open
  BY <1>0, <1>2, OnwardKeeps, Successors DEF Open, Serving
<1>3. CASE Migrate
  BY <1>0, <1>3, OnwardKeeps, Successors DEF Migrate, Serving
<1>4. CASE Connect
  BY <1>0, <1>4, OnwardKeeps, Successors DEF Connect, Serving
<1>5. CASE Build
  <2>1. run = "build" /\ UNCHANGED <<given, cfg, cutoff>>
    BY <1>5 DEF Build
  <2>2. CASE \A w \in Windows : cfg[w] > 0
    <3>1. run' = "notify"
      BY <1>0, <1>5, <2>1, <2>2, Successors DEF Build
    <3>2. given' \in Given /\ (cutoff' # Unset => cutoff' = Wrap(cfg'[Retention] * Day))
      BY <2>1 DEF AsLoaded
    <3>3. ~ LoadFails(given.env, given.file)' /\ cfg' = LoadConfig(given.env, given.file)'
      BY <2>1 DEF AsLoaded
    <3>4. \A w \in Windows : cfg'[w] > 0
      BY <2>1, <2>2
    <3> QED BY <3>1, <3>2, <3>3, <3>4 DEF AsLoaded
  <2>3. CASE ~ \A w \in Windows : cfg[w] > 0
    <3>1. run' = "cancel"
      BY <1>5, <2>3 DEF Build
    <3> QED BY <2>1, <3>1, OnwardKeeps DEF Serving
  <2> QED BY <2>2, <2>3
<1>6. CASE Notify
  BY <1>0, <1>6, OnwardKeeps, Successors DEF Notify, Serving
<1>7. CASE SpawnCleanup
  BY <1>0, <1>7, OnwardKeeps, Successors DEF SpawnCleanup, Serving
<1>8. CASE Start
  BY <1>0, <1>8, OnwardKeeps, Successors DEF Start, Serving
<1>9. CASE Wait
  BY <1>9, OnwardKeeps DEF Wait, Serving
<1> QED BY <1>1, <1>2, <1>3, <1>4, <1>5, <1>6, <1>7, <1>8, <1>9

LEMMA ShutdownAsLoaded ==
  ASSUME AsLoaded, Stop \/ Cancel \/ Close \/ Exit \/ Begin
  PROVE  AsLoaded'
<1> USE DEF At, Alive, process, work, Serving
<1>1. CASE Stop
  BY <1>1, OnwardKeeps DEF Stop
<1>2. CASE Cancel
  BY <1>2, OnwardKeeps DEF Cancel
<1>3. CASE Close
  BY <1>3, OnwardKeeps DEF Close
<1>4. CASE Exit
  BY <1>4, OnwardKeeps DEF Exit
<1>5. CASE Begin
  BY <1>5, OnwardKeeps DEF Begin
<1> QED BY <1>1, <1>2, <1>3, <1>4, <1>5

\* The cleanup was started by a run() that has its settings.
LEMMA CleanupAsLoaded ==
  ASSUME IndInv, AsLoaded, Sweep \/ Select \/ Hour
  PROVE  AsLoaded'
<1> USE DEF Alive, process, work
<1>1. CASE Sweep
  <2>1. UNCHANGED <<given, cfg, run>> /\ cleanup = "sweep"
    BY <1>1 DEF Sweep
  <2>2. run # "load"
    BY <2>1 DEF IndInv, Born, Spawned, Ending
  <2>3. cutoff' \in {cutoff, Wrap(cfg[Retention] * Day)}
    BY <1>1 DEF Sweep
  <2>4. CASE cutoff' = cutoff
    BY <2>1, <2>4, OnwardKeeps
  <2>5. CASE cutoff' = Wrap(cfg[Retention] * Day)
    <3>1. given' \in Given /\ run' # "load" /\ cutoff' = Wrap(cfg'[Retention] * Day)
      BY <2>1, <2>2, <2>5 DEF AsLoaded
    <3>2. ~ LoadFails(given.env, given.file)' /\ cfg' = LoadConfig(given.env, given.file)'
      BY <2>1, <2>2 DEF AsLoaded
    <3>3. run' \in {"notify", "spawn", "start"} \cup Serving => \A w \in Windows : cfg'[w] > 0
      BY <2>1 DEF AsLoaded
    <3> QED BY <3>1, <3>2, <3>3 DEF AsLoaded, Serving
  <2> QED BY <2>3, <2>4, <2>5
<1>2. CASE Select
  BY <1>2, OnwardKeeps DEF Select
<1>3. CASE Hour
  BY <1>3, OnwardKeeps DEF Hour
<1> QED BY <1>1, <1>2, <1>3

LEMMA HandlersAsLoaded ==
  ASSUME AsLoaded, NEW p \in Procs, Receive(p) \/ RequireOpen(p) \/ UseStore(p)
  PROVE  AsLoaded'
<1>1. UNCHANGED <<given, cfg, cutoff, run>>
  BY DEF Receive, RequireOpen, UseStore, process
<1> QED BY <1>1, OnwardKeeps

\* A signal wakes run() where it waits; a new process begins with nothing.
LEMMA OutsideAsLoaded ==
  ASSUME IndInv, AsLoaded, Signal \/ Respawn
  PROVE  AsLoaded'
<1> USE DEF Alive, process
<1>1. CASE Signal
  <2>1. UNCHANGED <<given, cfg, cutoff>>
    BY <1>1 DEF Signal
  <2>2. run' = run \/ (run = "waiting" /\ run' = "stop")
    <3>1. CASE ~Notified \/ queue = <<>>
      BY <1>1, <3>1 DEF Signal
    <3>2. CASE Notified /\ queue # <<>>
      <4>1. run' = IF Head(queue) = "run" THEN "stop" ELSE run
        BY <1>1, <3>2 DEF Signal
      <4>2. In(queue, Head(queue))
        BY <3>2, LineShrinks DEF IndInv, Queued
      <4>3. Head(queue) = "run" => run = "waiting"
        BY <4>2 DEF IndInv, Queued
      <4> QED BY <4>1, <4>3
    <3> QED BY <3>1, <3>2
  <2>3. (run = "load") <=> (run' = "load")
    BY <2>2
  <2> QED BY <2>1, <2>2, <2>3, OnwardKeeps DEF Serving
<1>2. CASE Respawn
  <2>1. given' \in Given /\ run' = "load" /\ cutoff' = Unset
    BY <1>2 DEF Respawn
  <2> QED BY <2>1 DEF AsLoaded, Serving
<1> QED BY <1>1, <1>2

\* What the process goes by is what it was given, in every reachable state.
THEOREM Loaded == Spec => []AsLoaded
<1>1. Init => AsLoaded
  BY DEF Init, AsLoaded, Serving
<1>2. IndInv /\ AsLoaded /\ [Next]_vars => AsLoaded'
  <2> SUFFICES ASSUME IndInv, AsLoaded, [Next]_vars PROVE AsLoaded'
    OBVIOUS
  <2>1. CASE RunStep \/ Begin
    BY <2>1, SetupAsLoaded, ShutdownAsLoaded DEF RunStep
  <2>2. CASE Sweep \/ Select \/ Hour
    BY <2>2, CleanupAsLoaded
  <2>3. ASSUME NEW p \in Procs, Receive(p) \/ RequireOpen(p) \/ UseStore(p)  PROVE AsLoaded'
    BY <2>3, HandlersAsLoaded
  <2>4. CASE Signal \/ Respawn
    BY <2>4, OutsideAsLoaded
  <2>5. CASE UNCHANGED vars
    BY <2>5, OnwardKeeps DEF vars, process, work
  <2> QED BY <2>1, <2>2, <2>3, <2>4, <2>5 DEF Next
<1> QED BY <1>1, <1>2, Invariance, PTL DEF Spec

--------------------------------------------------------------------------------
\* A product that fits is in force as it is.
LEMMA InForce ==
  ASSUME given \in Given, ~ LoadFails(given.env, given.file),
         cfg = LoadConfig(given.env, given.file), NEW k \in Keys
  PROVE  /\ Meant(k) \in Nat \ {0}
         /\ Meant(k) * Unit[k] < Half => cfg[k] = Meant(k) * Unit[k]
         /\ Unit[k] = 1 => cfg[k] = Meant(k)
<1>1. Setting(given.env, given.file, k) = Meant(k) /\ Meant(k) \in 1..(Half - 1)
  BY SettingMeant
<1>2. cfg[k] = Wrap(Meant(k) * Unit[k])
  BY <1>1 DEF LoadConfig
<1>3. Unit[k] \in Nat \ {0}
  BY KeysAssumption
<1> DEFINE m == Meant(k)
           u == Unit[k]
           h == Half
<1>4. h \in Int /\ m \in 1..(h - 1) /\ u \in Nat \ {0}
  BY <1>1, <1>3, HalfType
<1>5. cfg[k] = Wrap(m * u) /\ \A n \in Nat : n < h => Wrap(n) = n
  BY <1>2, WrapFits
<1> HIDE DEF m, u, h
<1>6. m \in Nat \ {0} /\ m < h /\ m * u \in Nat
  BY <1>4
<1>7. m * u < h => cfg[k] = m * u
  BY <1>5, <1>6
<1>8. u = 1 => m * u = m
  BY <1>6
<1>9. u = 1 => cfg[k] = m
  BY <1>6, <1>7, <1>8
<1> QED BY <1>6, <1>7, <1>9 DEF m, u, h

\* A process that takes updates has an owner and positive windows (config.go:210),
\* for any settings, units and width of integers.
THEOREM StartsSane == Spec => []StartedSane
<1>1. IndInv /\ AsLoaded => StartedSane
  <2> SUFFICES ASSUME IndInv, AsLoaded, poller
               PROVE  cfg[Owner] > 0 /\ \A w \in Windows : cfg[w] > 0
    BY DEF StartedSane
  <2>1. run \in Serving
    BY DEF IndInv, Born
  <2>2. \A w \in Windows : cfg[w] > 0
    BY <2>1 DEF AsLoaded
  <2>3. /\ given \in Given /\ ~ LoadFails(given.env, given.file)
        /\ cfg = LoadConfig(given.env, given.file)
    BY <2>1 DEF AsLoaded, Serving
  <2>4. Owner \in Keys /\ Unit[Owner] = 1
    BY KeysAssumption, RoleAssumption
  <2>5. cfg[Owner] \in Nat \ {0}
    BY <2>3, <2>4, InForce
  <2> QED BY <2>2, <2>5
<1> QED BY <1>1, Invariance, Loaded, PTL

\* What the administrator wrote is in force wherever the product fits, so that
\* the cleanup spares what the retention covers (config.go:64, main.go:76).
THEOREM WrittenIsInForce == Spec => []InForceAsWritten
<1>1. IndInv /\ AsLoaded => InForceAsWritten
  <2> SUFFICES ASSUME IndInv, AsLoaded PROVE InForceAsWritten
    OBVIOUS
  <2>1. ASSUME run # "load"
        PROVE  /\ given \in Given /\ ~ LoadFails(given.env, given.file)
               /\ cfg = LoadConfig(given.env, given.file)
    BY <2>1 DEF AsLoaded
  <2>2. poller => run # "load"
    BY DEF IndInv, Born, Serving
  <2>3. ASSUME poller, NEW k \in Keys, Meant(k) * Unit[k] < Half
        PROVE  cfg[k] = Meant(k) * Unit[k]
    BY <2>1, <2>2, <2>3, InForce
  <2>4. ASSUME cutoff # Unset, Meant(Retention) * Day < Half
        PROVE  cutoff = Meant(Retention) * Day
    <3>1. run # "load" /\ cutoff = Wrap(cfg[Retention] * Day)
      BY <2>4 DEF AsLoaded
    <3>2. Retention \in Keys /\ Unit[Retention] = 1 /\ Day \in Nat
      BY RoleAssumption
    <3>3. cfg[Retention] = Meant(Retention) /\ Meant(Retention) \in Nat \ {0}
      BY <2>1, <3>1, <3>2, InForce
    <3>4. Meant(Retention) * Day \in Nat
      BY <3>2, <3>3
    <3> QED BY <2>4, <3>1, <3>3, <3>4, WrapFits
  <2> QED BY <2>3, <2>4 DEF InForceAsWritten, Meant
<1> QED BY <1>1, Invariance, Loaded, PTL
================================================================================
