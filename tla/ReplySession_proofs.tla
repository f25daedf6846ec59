--------------------------- MODULE ReplySession_proofs ---------------------------
(***************************************************************************)
(* Theorems about ReplySession, for any mappings, handlers, life and       *)
(* bounds.  The table never holds a session but the newest: CREATE deletes *)
(* the others.  So whatever a message finds, and carries along while it is *)
(* sent, was made after what it must not find.                             *)
(***************************************************************************)
EXTENDS ReplySession, FiniteSetTheorems, SequenceTheorems, TLAPS

--------------------------------------------------------------------------------
\* The ids still to be given out suffice for the buttons pressed.
Room == lastId + Cardinality(Creating) <= MaxSessions

\* A session in the table is the newest, and nobody was told it is cancelled.
NewestOnly ==
    /\ \A s \in sessions : /\ s.id = lastId /\ s.id \notin cancelled
                           /\ created[s.id] = s.mapping
    /\ \A id \in cancelled : id <= lastId

\* A message looks for a session with a clock that is not older than itself.
LookupTrue(h) ==
    /\ h.at.since <= h.clock /\ h.at.since <= now
    /\ h.at.floor <= lastId /\ h.at.gone \subseteq cancelled
    /\ h.at.choice # {} => h.at.floor > 0 /\ h.at.choice = {created[h.at.floor]}

\* The session it goes out through was there when it was written, or came later.
ReplyTrue(h) ==
    /\ h.row.id >= h.at.floor /\ h.row.id \notin h.at.gone /\ h.row.expires > h.at.since
    /\ h.row.id = h.at.floor => h.at.choice \subseteq {h.row.mapping}
    /\ h.row.id <= lastId /\ created[h.row.id] = h.row.mapping
    /\ h.step = "mark" => delivered[h.row.id] > 0

HandlerTrue(h) ==
    /\ h.step \in {"clock", "cleanup", "select"} => LookupTrue(h)
    /\ h.step \in {"deliver", "mark", "audit", "delete"} => ReplyTrue(h)

HandlersTrue == \A p \in Procs : HandlerTrue(handler[p])

\* The two halves of RecordsBacked.
Owed  == \A i \in Ids : audited[i] + Cardinality(Unaudited(i)) <= delivered[i]
Marks == \A m \in replied : \E i \in DOMAIN created : created[i] = m /\ delivered[i] > 0

\* A button pressed alone is on its way to its session, alone, or that is the newest.
ChosenTrue ==
    /\ \A p \in Creating : chosen # {} => Creating = {p} /\ chosen = {handler[p].mapping}
    /\ Creating = {} /\ chosen # {} => lastId > 0 /\ chosen = {created[lastId]}

Base   == TypeOK /\ Room /\ NewestOnly /\ HandlersTrue /\ Owed /\ Marks
IndInv == Base /\ ChosenTrue

--------------------------------------------------------------------------------
\* What the handlers rely on only grows.
Onward ==
    /\ now' \in Nat /\ created' \in Seq(Mappings) /\ delivered' \in [Ids -> Nat]
    /\ now' >= now
    /\ lastId' >= lastId /\ \A i \in 1..lastId : created'[i] = created[i]
    /\ cancelled \subseteq cancelled'
    /\ \A i \in Ids : delivered'[i] >= delivered[i]

\* No handler but p changes.
Only(p) ==
    /\ handler' \in [Procs -> Active \cup {Idle}]
    /\ \A q \in Procs : q # p => handler'[q] = handler[q]

LEMMA StepKinds ==
  ASSUME TypeOK, NEW p \in Procs
  PROVE  /\ handler[p].step = "create" => handler[p] \in Button
         /\ handler[p].step = "prompt" => handler[p] \in Prompt
         /\ handler[p].step \in {"clock", "cleanup", "select"} => handler[p] \in Lookup
         /\ handler[p].step \in {"deliver", "mark", "audit", "delete"} => handler[p] \in Reply
         /\ handler[p].step = "cancel" => handler[p] \in Cancel
<1>1. handler[p] \in Active \cup {Idle}
  BY DEF TypeOK
<1> QED BY <1>1 DEF Active, Button, Prompt, Lookup, Reply, Cancel, Idle

LEMMA Becomes ==
  ASSUME TypeOK, NEW p \in Procs, NEW h \in Active \cup {Idle}, Become(p, h)
  PROVE  Only(p) /\ handler'[p] = h
BY DEF TypeOK, Become, Only

LEMMA Ends ==
  ASSUME TypeOK, NEW p \in Procs, Finish(p)
  PROVE  Only(p) /\ handler'[p] = Idle
BY Becomes DEF Finish

LEMMA ReplyGoes ==
  ASSUME TypeOK, NEW p \in Procs, handler[p] \in Reply,
         NEW s \in {"deliver", "mark", "audit", "delete"}, GoTo(p, s)
  PROVE  /\ Only(p) /\ handler'[p].step = s
         /\ handler'[p].row = handler[p].row /\ handler'[p].at = handler[p].at
<1>1. handler \in [Procs -> Active \cup {Idle}]
  BY DEF TypeOK
<1>2. handler'[p] = [handler[p] EXCEPT !.step = s]
  BY <1>1 DEF GoTo
<1>3. [handler[p] EXCEPT !.step = s] \in Reply
  BY DEF Reply
<1>4. /\ handler'[p].step = s
      /\ handler'[p].row = handler[p].row /\ handler'[p].at = handler[p].at
  BY <1>2 DEF Reply
<1>5. handler'[p] \in Active
  BY <1>2, <1>3 DEF Active
<1>6. Only(p)
  BY <1>1, <1>5 DEF GoTo, Only
<1> QED BY <1>4, <1>6

--------------------------------------------------------------------------------
LEMMA StaysTrue ==
  ASSUME TypeOK, HandlersTrue, Onward,
         \A q \in Procs : handler'[q] = handler[q] \/ HandlerTrue(handler[q])'
  PROVE  HandlersTrue'
<1> SUFFICES ASSUME NEW q \in Procs, handler'[q] = handler[q]  PROVE HandlerTrue(handler[q])'
  BY DEF HandlersTrue
<1>1. HandlerTrue(handler[q])
  BY DEF HandlersTrue
<1>2. lastId \in Nat /\ lastId' \in Nat /\ now \in Nat /\ now' \in Nat
  BY DEF TypeOK, lastId, Onward
<1>3. ASSUME handler[q].step \in {"clock", "cleanup", "select"}  PROVE LookupTrue(handler[q])'
  <2>1. handler[q] \in Lookup /\ LookupTrue(handler[q])
    BY <1>1, <1>3, StepKinds DEF HandlerTrue
  <2>2. /\ handler[q].clock \in Nat /\ handler[q].at.since \in Nat
        /\ handler[q].at.floor \in 0..MaxSessions
    BY <2>1 DEF Lookup, History
  <2>3. handler[q].at.floor > 0 => created'[handler[q].at.floor] = created[handler[q].at.floor]
    BY <1>2, <2>1, <2>2, BoundAssumption DEF LookupTrue, Onward
  <2> QED BY <1>2, <2>1, <2>2, <2>3, BoundAssumption DEF LookupTrue, Onward
<1>4. ASSUME handler[q].step \in {"deliver", "mark", "audit", "delete"}
      PROVE  ReplyTrue(handler[q])'
  <2>1. handler[q] \in Reply /\ ReplyTrue(handler[q])
    BY <1>1, <1>4, StepKinds DEF HandlerTrue
  <2>2. handler[q].row.id \in Ids /\ handler[q].row.id \in 1..lastId
    BY <1>2, <2>1 DEF Reply, Row, ReplyTrue, Ids
  <2>3. delivered[handler[q].row.id] \in Nat /\ delivered'[handler[q].row.id] \in Nat
        /\ delivered'[handler[q].row.id] >= delivered[handler[q].row.id]
    BY <2>2 DEF Onward, TypeOK
  <2>4. handler[q].row.id <= lastId' /\ created'[handler[q].row.id] = handler[q].row.mapping
    BY <1>2, <2>1, <2>2 DEF ReplyTrue, Onward
  <2>5. handler[q].step = "mark" => delivered'[handler[q].row.id] > 0
    BY <2>1, <2>3 DEF ReplyTrue, Onward
  <2> QED BY <2>1, <2>4, <2>5 DEF ReplyTrue
<1> QED BY <1>3, <1>4 DEF HandlerTrue

LEMMA RoomKept ==
  ASSUME Room, lastId' = lastId, lastId \in Nat, Creating' \subseteq Creating, MaxSessions \in Nat
  PROVE  Room'
<1>1. IsFiniteSet(Creating)
  BY ProcsAssumption, FS_Subset DEF Creating
<1>2. IsFiniteSet(Creating') /\ Cardinality(Creating') <= Cardinality(Creating)
  BY <1>1, FS_Subset
<1>3. Cardinality(Creating) \in Nat /\ Cardinality(Creating') \in Nat
  BY <1>1, <1>2, FS_CardinalityType
<1> QED BY <1>2, <1>3 DEF Room

LEMMA RowsGo ==
  ASSUME NewestOnly, sessions' \subseteq sessions, UNCHANGED <<created, cancelled>>
  PROVE  NewestOnly'
BY DEF NewestOnly, lastId

LEMMA MarksKept ==
  ASSUME TypeOK, Marks, Onward, replied' = replied
  PROVE  Marks'
<1> SUFFICES ASSUME NEW m \in replied
             PROVE  \E i \in DOMAIN created' : created'[i] = m /\ delivered'[i] > 0
  BY DEF Marks
<1>1. PICK i \in DOMAIN created : created[i] = m /\ delivered[i] > 0
  BY DEF Marks
<1>2. i \in Ids /\ i \in 1..lastId
  BY BoundAssumption DEF TypeOK, lastId, Ids
<1>3. i \in DOMAIN created' /\ created'[i] = m
  BY <1>1, <1>2 DEF Onward, lastId, TypeOK
<1>4. delivered'[i] > 0
  BY <1>1, <1>2 DEF Onward, TypeOK
<1> QED BY <1>3, <1>4

--------------------------------------------------------------------------------
\* No handler gets to owe an audit row; one does; one is done with it.
LEMMA NothingOwed ==
  ASSUME TypeOK, Owed, audited' = audited, delivered' \in [Ids -> Nat],
         \A i \in Ids : delivered'[i] >= delivered[i],
         \A i \in Ids : Unaudited(i)' \subseteq Unaudited(i)
  PROVE  Owed'
<1> SUFFICES ASSUME NEW i \in Ids
             PROVE  audited'[i] + Cardinality(Unaudited(i)') <= delivered'[i]
  BY DEF Owed
<1>1. IsFiniteSet(Unaudited(i))
  BY ProcsAssumption, FS_Subset DEF Unaudited
<1>2. IsFiniteSet(Unaudited(i)') /\ Cardinality(Unaudited(i)') <= Cardinality(Unaudited(i))
  BY <1>1, FS_Subset
<1>3. Cardinality(Unaudited(i)') \in Nat /\ Cardinality(Unaudited(i)) \in Nat
  BY <1>1, <1>2, FS_CardinalityType
<1>4. audited[i] + Cardinality(Unaudited(i)) <= delivered[i] /\ audited[i] \in Nat
      /\ delivered[i] \in Nat
  BY DEF Owed, TypeOK
<1> QED BY <1>2, <1>3, <1>4

LEMMA OneOwed ==
  ASSUME TypeOK, Owed, audited' = audited, NEW p \in Procs, NEW b \in Ids,
         delivered' = [delivered EXCEPT ![b] = @ + 1],
         \A i \in Ids : i # b => Unaudited(i)' \subseteq Unaudited(i),
         Unaudited(b)' \subseteq Unaudited(b) \cup {p}
  PROVE  Owed'
<1> SUFFICES ASSUME NEW i \in Ids
             PROVE  audited'[i] + Cardinality(Unaudited(i)') <= delivered'[i]
  BY DEF Owed
<1>1. IsFiniteSet(Unaudited(i)) /\ Cardinality(Unaudited(i)) \in Nat
  BY ProcsAssumption, FS_Subset, FS_CardinalityType DEF Unaudited
<1>2. audited[i] + Cardinality(Unaudited(i)) <= delivered[i] /\ audited[i] \in Nat
      /\ delivered[i] \in Nat /\ delivered \in [Ids -> Nat]
  BY DEF Owed, TypeOK
<1>3. CASE i = b
  <2>1. /\ IsFiniteSet(Unaudited(i) \cup {p})
        /\ Cardinality(Unaudited(i) \cup {p})
             = IF p \in Unaudited(i) THEN Cardinality(Unaudited(i)) ELSE Cardinality(Unaudited(i)) + 1
    BY <1>1, FS_AddElement
  <2>2. IsFiniteSet(Unaudited(i)')
        /\ Cardinality(Unaudited(i)') <= Cardinality(Unaudited(i) \cup {p})
    BY <1>3, <2>1, FS_Subset
  <2>3. Cardinality(Unaudited(i)') \in Nat
    BY <2>2, FS_CardinalityType
  <2>4. delivered'[i] = delivered[i] + 1
    BY <1>2, <1>3
  <2> QED BY <1>1, <1>2, <2>1, <2>2, <2>3, <2>4
<1>4. CASE i # b
  <2>1. IsFiniteSet(Unaudited(i)') /\ Cardinality(Unaudited(i)') <= Cardinality(Unaudited(i))
    BY <1>1, <1>4, FS_Subset
  <2>2. Cardinality(Unaudited(i)') \in Nat
    BY <2>1, FS_CardinalityType
  <2>3. delivered'[i] = delivered[i]
    BY <1>2, <1>4
  <2> QED BY <1>1, <1>2, <2>1, <2>2, <2>3
<1> QED BY <1>3, <1>4

LEMMA OnePaid ==
  ASSUME TypeOK, Owed, delivered' = delivered, NEW b \in Ids, NEW p \in Unaudited(b),
         NEW took \in BOOLEAN,
         audited' = IF took THEN [audited EXCEPT ![b] = @ + 1] ELSE audited,
         \A i \in Ids : Unaudited(i)' \subseteq Unaudited(i) \ {p}
  PROVE  Owed'
<1> SUFFICES ASSUME NEW i \in Ids
             PROVE  audited'[i] + Cardinality(Unaudited(i)') <= delivered'[i]
  BY DEF Owed
<1>1. IsFiniteSet(Unaudited(i)) /\ Cardinality(Unaudited(i)) \in Nat
  BY ProcsAssumption, FS_Subset, FS_CardinalityType DEF Unaudited
<1>2. audited[i] + Cardinality(Unaudited(i)) <= delivered[i] /\ audited[i] \in Nat
      /\ delivered[i] \in Nat /\ audited \in [Ids -> Nat]
  BY DEF Owed, TypeOK
<1>3. /\ IsFiniteSet(Unaudited(i) \ {p})
      /\ Cardinality(Unaudited(i) \ {p})
           = IF p \in Unaudited(i) THEN Cardinality(Unaudited(i)) - 1 ELSE Cardinality(Unaudited(i))
  BY <1>1, FS_RemoveElement
<1>4. IsFiniteSet(Unaudited(i)')
      /\ Cardinality(Unaudited(i)') <= Cardinality(Unaudited(i) \ {p})
  BY <1>3, FS_Subset
<1>5. Cardinality(Unaudited(i)') \in Nat
  BY <1>4, FS_CardinalityType
<1>6. CASE i = b
  <2>1. audited'[i] \in {audited[i], audited[i] + 1}
    BY <1>2, <1>6
  <2> QED BY <1>1, <1>2, <1>3, <1>4, <1>5, <1>6, <2>1
<1>7. CASE i # b
  <2>1. audited'[i] = audited[i]
    BY <1>2, <1>7
  <2> QED BY <1>1, <1>2, <1>3, <1>4, <1>5, <2>1
<1> QED BY <1>6, <1>7

--------------------------------------------------------------------------------
\* A step of one handler that gives out no session and promises none.
LEMMA Moves ==
  ASSUME IndInv, NEW p \in Procs, Only(p), handler'[p].step # "create",
         UNCHANGED <<now, created>>, cancelled \subseteq cancelled',
         delivered' \in [Ids -> Nat], \A i \in Ids : delivered'[i] >= delivered[i],
         HandlerTrue(handler[p])'
  PROVE  Room' /\ HandlersTrue' /\ Onward
<1>1. TypeOK /\ Room /\ HandlersTrue /\ lastId \in Nat /\ lastId' = lastId
  BY DEF IndInv, Base, TypeOK, lastId
<1>2. Creating' \subseteq Creating
  BY DEF Creating, At, Only
<1>3. Onward
  BY <1>1 DEF Onward, TypeOK
<1>4. HandlersTrue'
  BY <1>1, <1>3, StaysTrue DEF Only
<1> QED BY <1>1, <1>2, <1>3, <1>4, RoomKept, BoundAssumption

\* A step that sends and records nothing.
LEMMA Quiet ==
  ASSUME IndInv, NEW p \in Procs, Only(p), handler'[p].step \notin {"create", "mark", "audit"},
         UNCHANGED <<now, created, delivered, audited, replied>>, cancelled \subseteq cancelled',
         HandlerTrue(handler[p])'
  PROVE  Room' /\ HandlersTrue' /\ Owed' /\ Marks'
<1>1. TypeOK /\ Owed /\ Marks /\ delivered' \in [Ids -> Nat]
      /\ \A i \in Ids : delivered'[i] >= delivered[i]
  BY DEF IndInv, Base, TypeOK
<1>2. Room' /\ HandlersTrue' /\ Onward
  BY <1>1, Moves
<1>3. \A i \in Ids : Unaudited(i)' \subseteq Unaudited(i)
  BY DEF Unaudited, Only
<1> QED BY <1>1, <1>2, <1>3, NothingOwed, MarksKept

LEMMA QuietEnd ==
  ASSUME IndInv, NEW p \in Procs, Finish(p),
         UNCHANGED <<now, created, delivered, audited, replied>>, cancelled \subseteq cancelled'
  PROVE  handler' \in [Procs -> Active \cup {Idle}] /\ Room' /\ HandlersTrue' /\ Owed' /\ Marks'
<1>1. Only(p) /\ handler'[p] = Idle
  BY Ends DEF IndInv, Base
<1>2. handler'[p].step \notin {"create", "mark", "audit"} /\ HandlerTrue(handler[p])'
  BY <1>1 DEF Idle, HandlerTrue
<1> QED BY <1>1, <1>2, Quiet DEF Only

LEMMA OutcomeType ==
  ASSUME NEW kind, NEW o \in Outcome(kind)
  PROVE  o.took \in BOOLEAN /\ o.ok \in BOOLEAN /\ (o.ok => o.took)
<1>1. CASE o = [took |-> TRUE, ok |-> TRUE]
  BY <1>1
<1>2. CASE o \in [took : BOOLEAN, ok : {FALSE}]
  BY <1>2
<1> QED BY <1>1, <1>2 DEF Outcome

--------------------------------------------------------------------------------
LEMMA InitHolds == Init => IndInv
<1> SUFFICES ASSUME Init  PROVE IndInv
  OBVIOUS
<1>1. lastId = 0 /\ Creating = {} /\ \A i \in Ids : Unaudited(i) = {}
  BY DEF Init, lastId, Creating, Unaudited, At, Idle
<1>2. Cardinality({}) = 0
  BY FS_EmptySet
<1>3. TypeOK
  BY <1>1, BoundAssumption DEF Init, TypeOK
<1>4. Room /\ Owed
  <2>1. Room
    BY <1>1, <1>2, BoundAssumption DEF Room
  <2>2. ASSUME NEW i \in Ids  PROVE audited[i] + Cardinality(Unaudited(i)) <= delivered[i]
    <3>1. audited[i] = 0 /\ delivered[i] = 0 /\ Cardinality(Unaudited(i)) = 0
      BY <1>1, <1>2 DEF Init
    <3> QED BY <3>1
  <2> QED BY <2>1, <2>2 DEF Owed
<1>5. HandlersTrue
  BY DEF Init, HandlersTrue, HandlerTrue, Idle
<1> QED BY <1>1, <1>3, <1>4, <1>5 DEF Init, IndInv, Base, ChosenTrue, NewestOnly, Marks

\* The Reply button takes one of the ids left.
LEMMA PressReplyKeeps ==
  ASSUME IndInv, NEW p \in Procs, NEW m \in Mappings, PressReply(p, m)
  PROVE  Base'
<1>1. TypeOK /\ Room /\ NewestOnly /\ HandlersTrue /\ Owed /\ Marks
  BY DEF IndInv, Base
<1> DEFINE h == [step |-> "create", mapping |-> m, expires |-> now + Life]
<1>2. /\ p \notin Creating /\ lastId + Cardinality(Creating) < MaxSessions /\ Become(p, h)
      /\ UNCHANGED <<now, sessions, created, prompts, written, delivered, audited,
                     replied, cancelled>>
  BY DEF PressReply, Creating, At
<1>3. h \in Active
  BY <1>1, LifeAssumption DEF Active, Button, TypeOK
<1>4. Only(p) /\ handler'[p] = h
  BY <1>1, <1>2, <1>3, Becomes
<1>5. TypeOK'
  <2>1. chosen' \subseteq Mappings
    BY DEF PressReply
  <2> QED BY <1>1, <1>2, <1>4, <2>1 DEF TypeOK, Only, lastId
<1>6. Room'
  <2>1. IsFiniteSet(Creating)
    BY ProcsAssumption, FS_Subset DEF Creating
  <2>2. Creating' = Creating \cup {p}
    BY <1>4 DEF Creating, At, Only
  <2>3. Cardinality(Creating \cup {p}) = Cardinality(Creating) + 1
    BY <1>2, <2>1, FS_AddElement
  <2>4. Cardinality(Creating) \in Nat /\ lastId \in Nat /\ lastId' = lastId
    BY <1>1, <1>2, <2>1, FS_CardinalityType DEF TypeOK, lastId
  <2> QED BY <1>2, <2>2, <2>3, <2>4, BoundAssumption DEF Room
<1>7. Onward
  BY <1>1, <1>2 DEF Onward, TypeOK, lastId
<1>8. HandlersTrue'
  <2>1. HandlerTrue(handler[p])'
    BY <1>4 DEF HandlerTrue
  <2> QED BY <1>1, <1>4, <1>7, <2>1, StaysTrue DEF Only
<1>9. Owed' /\ Marks'
  <2>1. \A i \in Ids : Unaudited(i)' \subseteq Unaudited(i)
    BY <1>4 DEF Unaudited, Only
  <2> QED BY <1>1, <1>2, <1>7, <2>1, NothingOwed, MarksKept DEF Onward
<1>10. NewestOnly'
  BY <1>1, <1>2 DEF NewestOnly, lastId
<1> QED BY <1>5, <1>6, <1>8, <1>9, <1>10 DEF IndInv, Base

\* The new session is the only one, and no one was told of its id before.
LEMMA CreateKeeps ==
  ASSUME IndInv, NEW p \in Procs, CreateOwnerReplySession(p)
  PROVE  Base'
<1>1. /\ TypeOK /\ Room /\ NewestOnly /\ HandlersTrue /\ Owed /\ Marks
      /\ p \in Creating /\ handler[p] \in Button
  BY StepKinds DEF IndInv, Base, CreateOwnerReplySession, Creating, At
<1> DEFINE h == handler[p]
           row == [id |-> lastId + 1, mapping |-> h.mapping, expires |-> h.expires]
           next == [step |-> "prompt", id |-> lastId + 1]
<1>2. PICK o \in Outcome("store") :
        /\ IF o.took THEN created' = Append(created, h.mapping) /\ sessions' = {row}
                     ELSE UNCHANGED <<created, sessions>>
        /\ IF o.ok THEN Become(p, next) ELSE Finish(p)
  BY DEF CreateOwnerReplySession
<1>3. UNCHANGED <<now, prompts, written, delivered, audited, replied, cancelled>>
  BY DEF CreateOwnerReplySession
<1>4. o.took \in BOOLEAN /\ o.ok \in BOOLEAN /\ (o.ok => o.took)
  BY OutcomeType
<1>0. chosen' \subseteq Mappings
  BY <1>1 DEF CreateOwnerReplySession, TypeOK
<1>5. lastId \in Nat /\ lastId + 1 \in Ids
  <2>1. IsFiniteSet(Creating) /\ Cardinality(Creating) \in Nat
    BY ProcsAssumption, FS_Subset, FS_CardinalityType DEF Creating
  <2>2. Cardinality(Creating) # 0
    BY <1>1, <2>1, FS_EmptySet
  <2>3. lastId \in Nat
    BY <1>1 DEF TypeOK, lastId
  <2> QED BY <1>1, <2>1, <2>2, <2>3, BoundAssumption DEF Room, Ids
<1>6. next \in Active /\ row \in Row
  BY <1>1, <1>5 DEF Active, Prompt, Row, Button
<1>7. Only(p) /\ handler'[p].step \notin {"create", "mark", "audit"} /\ HandlerTrue(handler[p])'
  <2>1. Only(p) /\ (handler'[p] = next \/ handler'[p] = Idle)
    BY <1>1, <1>2, <1>6, Becomes, Ends
  <2> QED BY <2>1 DEF Idle, HandlerTrue
<1>8. CASE ~o.took
  <2>1. UNCHANGED <<created, sessions>>
    BY <1>2, <1>8
  <2>2. Room' /\ HandlersTrue' /\ Owed' /\ Marks'
    BY <1>3, <1>7, <2>1, Quiet
  <2>3. TypeOK'
    BY <1>0, <1>1, <1>3, <1>7, <2>1 DEF TypeOK, Only, lastId
  <2>4. NewestOnly'
    BY <1>1, <1>3, <2>1, RowsGo
  <2> QED BY <2>2, <2>3, <2>4 DEF IndInv, Base
<1>9. CASE o.took
  <2>1. created' = Append(created, h.mapping) /\ sessions' = {row}
    BY <1>2, <1>9
  <2>2. h.mapping \in Mappings
    BY <1>1 DEF Button
  <2>3. /\ created' \in Seq(Mappings) /\ lastId' = lastId + 1
        /\ \A i \in 1..lastId : created'[i] = created[i]
        /\ created'[lastId + 1] = h.mapping
    BY <1>1, <2>1, <2>2, AppendProperties DEF TypeOK, lastId
  <2>4. Onward
    BY <1>1, <1>3, <1>5, <2>3 DEF Onward, TypeOK
  <2>5. TypeOK'
    BY <1>0, <1>1, <1>3, <1>5, <1>6, <1>7, <2>1, <2>3 DEF TypeOK, Only, Ids
  <2>6. Room'
    <3>1. IsFiniteSet(Creating \ {p}) /\ Cardinality(Creating \ {p}) = Cardinality(Creating) - 1
          /\ Cardinality(Creating) \in Nat
      BY <1>1, ProcsAssumption, FS_Subset, FS_CardinalityType, FS_RemoveElement DEF Creating
    <3>2. Creating' \subseteq Creating \ {p}
      BY <1>7 DEF Creating, At, Only
    <3>3. IsFiniteSet(Creating') /\ Cardinality(Creating') <= Cardinality(Creating \ {p})
      BY <3>1, <3>2, FS_Subset
    <3>4. Cardinality(Creating') \in Nat /\ Cardinality(Creating \ {p}) \in Nat
      BY <3>1, <3>3, FS_CardinalityType
    <3> QED BY <1>1, <1>5, <2>3, <3>1, <3>3, <3>4, BoundAssumption DEF Room
  <2>7. HandlersTrue'
    BY <1>1, <1>7, <2>4, StaysTrue DEF Only
  <2>8. Owed' /\ Marks'
    <3>1. \A i \in Ids : Unaudited(i)' \subseteq Unaudited(i)
      BY <1>7 DEF Unaudited, Only
    <3> QED BY <1>1, <1>3, <2>4, <3>1, NothingOwed, MarksKept DEF Onward
  <2>9. NewestOnly'
    <3>1. ASSUME NEW id \in cancelled  PROVE id \in Nat /\ id <= lastId
      <4>1. id \in Ids /\ id <= lastId
        BY <1>1 DEF NewestOnly, TypeOK
      <4> QED BY <4>1 DEF Ids
    <3>2. lastId + 1 \notin cancelled
      BY <1>5, <3>1
    <3>3. ASSUME NEW s \in sessions'
          PROVE  s.id = lastId' /\ s.id \notin cancelled' /\ created'[s.id] = s.mapping
      <4>1. s.id = lastId + 1 /\ s.mapping = h.mapping
        BY <2>1
      <4> QED BY <1>3, <2>3, <3>2, <4>1
    <3>4. ASSUME NEW id \in cancelled'  PROVE id <= lastId'
      BY <1>3, <1>5, <2>3, <3>1
    <3> QED BY <3>3, <3>4 DEF NewestOnly
  <2> QED BY <2>5, <2>6, <2>7, <2>8, <2>9 DEF IndInv, Base
<1> QED BY <1>4, <1>8, <1>9

--------------------------------------------------------------------------------
LEMMA SendPromptKeeps ==
  ASSUME IndInv, NEW p \in Procs, SendPrompt(p)
  PROVE  Base'
<1>1. TypeOK /\ NewestOnly /\ handler[p] \in Prompt /\ Finish(p)
      /\ UNCHANGED <<now, sessions, created, written, delivered, audited, replied, cancelled, chosen>>
  BY StepKinds DEF IndInv, Base, SendPrompt, At
<1>2. /\ handler' \in [Procs -> Active \cup {Idle}]
      /\ Room' /\ HandlersTrue' /\ Owed' /\ Marks'
  BY <1>1, QuietEnd
<1>3. prompts' \subseteq Ids
  <2>1. handler[p].id \in Ids
    BY <1>1 DEF Prompt
  <2> QED BY <1>1, <2>1 DEF SendPrompt, TypeOK
<1>4. TypeOK' /\ NewestOnly'
  BY <1>1, <1>2, <1>3, RowsGo DEF TypeOK, lastId
<1> QED BY <1>2, <1>4 DEF IndInv, Base

\* A message and /cancelreply note what there is when they arrive.
LEMMA StartKeeps ==
  ASSUME IndInv, NEW p \in Procs, Write(p) \/ CancelReplyCommand(p)
  PROVE  Base'
<1>1. TypeOK /\ NewestOnly
      /\ UNCHANGED <<now, sessions, created, prompts, delivered, audited, replied, cancelled, chosen>>
  BY DEF IndInv, Base, Write, CancelReplyCommand
<1>2. PICK task \in Task, at \in {Arrival, Blank} : StartLookup(p, task, at)
  BY DEF Write, CancelReplyCommand, Task
<1> DEFINE h == [step |-> "clock", task |-> task, clock |-> at.since, at |-> at]
<1>3. lastId \in 0..MaxSessions /\ now \in Nat
  BY <1>1 DEF TypeOK, lastId
<1>10. /\ at \in History /\ at.since <= now /\ at.floor <= lastId /\ at.gone \subseteq cancelled
       /\ at.choice # {} => at.floor > 0 /\ at.choice = {created[at.floor]}
  <2>1. CASE at = Blank
    BY <1>3, <2>1, BoundAssumption DEF Blank, History
  <2>2. CASE at = Arrival
    <3>1. Arrival \in History
      BY <1>1, <1>3 DEF Arrival, History, TypeOK
    <3>2. Arrival.choice # {} => lastId > 0 /\ Arrival.choice = {created[lastId]}
      BY DEF IndInv, ChosenTrue, Arrival
    <3> QED BY <1>3, <2>2, <3>1, <3>2 DEF Arrival
  <2> QED BY <2>1, <2>2
<1>4. h \in Lookup
  BY <1>10 DEF Lookup, History
<1>5. Only(p) /\ handler'[p] = h
  BY <1>1, <1>2, <1>4, Becomes DEF StartLookup, Active
<1>6. HandlerTrue(handler[p])' /\ handler'[p].step \notin {"create", "mark", "audit"}
  BY <1>1, <1>3, <1>5, <1>10 DEF HandlerTrue, LookupTrue, lastId, History
<1>7. Room' /\ HandlersTrue' /\ Owed' /\ Marks'
  BY <1>1, <1>5, <1>6, Quiet
<1>8. written' \in Nat
  BY <1>1 DEF TypeOK, Write, CancelReplyCommand
<1>9. TypeOK' /\ NewestOnly'
  BY <1>1, <1>5, <1>8, RowsGo DEF TypeOK, lastId, Only
<1> QED BY <1>7, <1>9 DEF IndInv, Base

LEMMA ReadClockKeeps ==
  ASSUME IndInv, NEW p \in Procs, ReadClock(p)
  PROVE  Base'
<1>1. TypeOK /\ NewestOnly /\ HandlersTrue /\ handler[p].step = "clock" /\ handler[p] \in Lookup
      /\ UNCHANGED <<now, sessions, created, prompts, written, delivered, audited, replied,
                     cancelled, chosen>>
  BY StepKinds DEF IndInv, Base, ReadClock, At
<1> DEFINE h == [handler[p] EXCEPT !.step = "cleanup", !.clock = now]
<1>2. h \in Lookup /\ h.step = "cleanup" /\ h.clock = now /\ h.at = handler[p].at
  BY <1>1 DEF Lookup, TypeOK
<1>3. Only(p) /\ handler'[p] = h
  BY <1>1, <1>2 DEF ReadClock, TypeOK, Active, Only
<1> HIDE DEF h
<1>4. LookupTrue(handler[p])
  BY <1>1 DEF HandlersTrue, HandlerTrue
<1>5. HandlerTrue(handler[p])' /\ handler'[p].step \notin {"create", "mark", "audit"}
  BY <1>1, <1>2, <1>3, <1>4 DEF HandlerTrue, LookupTrue, lastId
<1>6. Room' /\ HandlersTrue' /\ Owed' /\ Marks'
  BY <1>1, <1>3, <1>5, Quiet
<1>7. TypeOK' /\ NewestOnly'
  BY <1>1, <1>3, RowsGo DEF TypeOK, lastId, Only
<1> QED BY <1>6, <1>7 DEF IndInv, Base

LEMMA DeleteExpiredKeeps ==
  ASSUME IndInv, NEW p \in Procs, DeleteExpired(p)
  PROVE  Base'
<1>1. TypeOK /\ NewestOnly /\ HandlersTrue /\ handler[p].step = "cleanup" /\ handler[p] \in Lookup
      /\ sessions' \subseteq sessions
      /\ UNCHANGED <<now, created, prompts, written, delivered, audited, replied, cancelled, chosen>>
  BY StepKinds DEF IndInv, Base, DeleteExpired, At
<1> DEFINE h == [handler[p] EXCEPT !.step = "select"]
<1>2. h \in Lookup /\ h.step = "select" /\ h.clock = handler[p].clock /\ h.at = handler[p].at
  BY <1>1 DEF Lookup
<1>3. Only(p) /\ handler'[p] = h
  BY <1>1, <1>2 DEF DeleteExpired, GoTo, TypeOK, Active, Only
<1> HIDE DEF h
<1>4. LookupTrue(handler[p])
  BY <1>1 DEF HandlersTrue, HandlerTrue
<1>5. HandlerTrue(handler[p])' /\ handler'[p].step \notin {"create", "mark", "audit"}
  BY <1>1, <1>2, <1>3, <1>4 DEF HandlerTrue, LookupTrue, lastId
<1>6. Room' /\ HandlersTrue' /\ Owed' /\ Marks'
  BY <1>1, <1>3, <1>5, Quiet
<1>7. TypeOK' /\ NewestOnly'
  BY <1>1, <1>3, RowsGo DEF TypeOK, lastId, Only
<1> QED BY <1>6, <1>7 DEF IndInv, Base

\* The session found is the newest ever made, was not cancelled when the message
\* was written, and had time left then.
LEMMA SelectKeeps ==
  ASSUME IndInv, NEW p \in Procs, SelectSession(p)
  PROVE  Base'
<1>1. TypeOK /\ NewestOnly /\ HandlersTrue /\ handler[p].step = "select" /\ handler[p] \in Lookup
      /\ UNCHANGED <<now, sessions, created, prompts, written, delivered, audited, replied,
                     cancelled, chosen>>
  BY StepKinds DEF IndInv, Base, SelectSession, At
<1> DEFINE s == Newest(ActiveSessions(handler[p].clock))
           message == [step |-> "deliver", row |-> s, at |-> handler[p].at]
           cancel  == [step |-> "cancel", id |-> s.id]
<1>2. ActiveSessions(handler[p].clock) # {}
      /\ Become(p, IF handler[p].task = "message" THEN message ELSE cancel)
  BY DEF SelectSession
<1>3. s \in ActiveSessions(handler[p].clock)
  <2>1. \A t, u \in ActiveSessions(handler[p].clock) : t.id <= u.id
    <3> SUFFICES ASSUME NEW t \in ActiveSessions(handler[p].clock),
                        NEW u \in ActiveSessions(handler[p].clock)
                 PROVE  t.id <= u.id
      OBVIOUS
    <3>1. t.id = lastId /\ u.id = lastId /\ lastId \in Nat
      BY <1>1 DEF ActiveSessions, NewestOnly, TypeOK, lastId
    <3> QED BY <3>1
  <2>2. \E t \in ActiveSessions(handler[p].clock) :
           \A u \in ActiveSessions(handler[p].clock) : u.id <= t.id
    BY <1>2, <2>1
  <2> QED BY <2>2 DEF Newest
<1> HIDE DEF s
<1>4. s \in sessions /\ s.expires > handler[p].clock /\ s \in Row
  BY <1>1, <1>3 DEF ActiveSessions, TypeOK
<1>5. s.id = lastId /\ s.id \notin cancelled /\ created[s.id] = s.mapping /\ lastId \in Nat
      /\ s.id \in Ids /\ s.expires \in Nat
  BY <1>1, <1>4 DEF NewestOnly, TypeOK, lastId, Row
<1>6. LookupTrue(handler[p]) /\ handler[p].clock \in Nat /\ handler[p].at \in History
      /\ handler[p].at.since \in Nat
  BY <1>1 DEF HandlersTrue, HandlerTrue, Lookup, History
<1>7. message \in Active /\ cancel \in Active
  BY <1>4, <1>5, <1>6 DEF Active, Reply, Cancel
<1>8. Only(p) /\ (handler'[p] = message \/ handler'[p] = cancel)
  BY <1>1, <1>2, <1>7, Becomes
<1>9. handler'[p].step \in {"deliver", "cancel"}
      /\ (handler'[p].step = "deliver" => handler'[p].row = s /\ handler'[p].at = handler[p].at)
  BY <1>8
<1>10. HandlerTrue(handler[p])'
  <2>1. s.id >= handler[p].at.floor /\ s.id \notin handler[p].at.gone
        /\ s.expires > handler[p].at.since
    BY <1>4, <1>5, <1>6 DEF LookupTrue
  <2>2. s.id = handler[p].at.floor => handler[p].at.choice \subseteq {s.mapping}
    BY <1>5, <1>6 DEF LookupTrue
  <2> QED BY <1>1, <1>5, <1>9, <2>1, <2>2 DEF HandlerTrue, ReplyTrue, lastId
<1>11. Room' /\ HandlersTrue' /\ Owed' /\ Marks'
  BY <1>1, <1>8, <1>9, <1>10, Quiet
<1>12. TypeOK' /\ NewestOnly'
  BY <1>1, <1>8, RowsGo DEF TypeOK, lastId, Only
<1> QED BY <1>11, <1>12 DEF IndInv, Base

\* No session, or a refusal: the handler ends.
LEMMA NothingSentKeeps ==
  ASSUME IndInv, NEW p \in Procs, NoSession(p) \/ Refuse(p)
  PROVE  Base'
<1>1. TypeOK /\ NewestOnly /\ Finish(p)
      /\ UNCHANGED <<now, sessions, created, prompts, written, delivered, audited, replied,
                     cancelled, chosen>>
  BY DEF IndInv, Base, NoSession, Refuse
<1>2. /\ handler' \in [Procs -> Active \cup {Idle}]
      /\ Room' /\ HandlersTrue' /\ Owed' /\ Marks'
  BY <1>1, QuietEnd
<1>3. TypeOK' /\ NewestOnly'
  BY <1>1, <1>2, RowsGo DEF TypeOK, lastId
<1> QED BY <1>2, <1>3 DEF IndInv, Base

--------------------------------------------------------------------------------
\* A message that got through is paid for by the rows still to be written.
LEMMA DeliverKeeps ==
  ASSUME IndInv, NEW p \in Procs, Deliver(p)
  PROVE  Base'
<1>1. TypeOK /\ NewestOnly /\ HandlersTrue /\ Owed /\ Marks
      /\ handler[p].step = "deliver" /\ handler[p] \in Reply
      /\ UNCHANGED <<now, sessions, created, prompts, written, audited, replied, cancelled, chosen>>
  BY StepKinds DEF IndInv, Base, Deliver, At
<1>2. PICK id \in Ids : id = handler[p].row.id
  BY <1>1 DEF Reply, Row
<1>3. PICK o \in Outcome("api") :
        /\ delivered' = IF o.took THEN [delivered EXCEPT ![id] = @ + 1] ELSE delivered
        /\ IF o.ok THEN GoTo(p, "mark") ELSE Finish(p)
  BY <1>2 DEF Deliver
<1>4. o.took \in BOOLEAN /\ o.ok \in BOOLEAN /\ (o.ok => o.took)
  BY OutcomeType
<1>5. /\ delivered' \in [Ids -> Nat] /\ \A i \in Ids : delivered'[i] >= delivered[i]
      /\ o.took => delivered'[id] > 0
  BY <1>1, <1>3, <1>4 DEF TypeOK
<1>6. ReplyTrue(handler[p])
  BY <1>1 DEF HandlersTrue, HandlerTrue
<1>7. CASE ~o.ok
  <2>1. Only(p) /\ handler'[p] = Idle
    BY <1>1, <1>3, <1>7, Ends
  <2>2. HandlerTrue(handler[p])' /\ handler'[p].step = "idle"
    BY <2>1 DEF Idle, HandlerTrue
  <2>3. Room' /\ HandlersTrue' /\ Onward
    BY <1>1, <1>5, <2>1, <2>2, Moves
  <2>4. \A i \in Ids : Unaudited(i)' \subseteq Unaudited(i)
    BY <2>1, <2>2 DEF Unaudited, Only
  <2>5. Owed' /\ Marks'
    BY <1>1, <1>5, <2>3, <2>4, NothingOwed, MarksKept
  <2>6. TypeOK' /\ NewestOnly'
    BY <1>1, <1>5, <2>1, RowsGo DEF TypeOK, lastId, Only
  <2> QED BY <2>3, <2>5, <2>6 DEF IndInv, Base
<1>8. CASE o.ok
  <2>1. /\ Only(p) /\ handler'[p].step = "mark"
        /\ handler'[p].row = handler[p].row /\ handler'[p].at = handler[p].at
    BY <1>1, <1>3, <1>8, ReplyGoes
  <2>2. HandlerTrue(handler[p])'
    <3>1. delivered'[handler[p].row.id] > 0
      BY <1>2, <1>4, <1>5, <1>8
    <3> QED BY <1>1, <1>6, <2>1, <3>1 DEF HandlerTrue, ReplyTrue, lastId
  <2>3. Room' /\ HandlersTrue' /\ Onward
    BY <1>1, <1>5, <2>1, <2>2, Moves
  <2>4. /\ \A i \in Ids : i # id => Unaudited(i)' \subseteq Unaudited(i)
        /\ Unaudited(id)' \subseteq Unaudited(id) \cup {p}
    BY <1>2, <2>1 DEF Unaudited, Only
  <2>5. delivered' = [delivered EXCEPT ![id] = @ + 1]
    BY <1>3, <1>4, <1>8
  <2>6. Owed' /\ Marks'
    BY <1>1, <2>3, <2>4, <2>5, OneOwed, MarksKept
  <2>7. TypeOK' /\ NewestOnly'
    BY <1>1, <1>5, <2>1, RowsGo DEF TypeOK, lastId, Only
  <2> QED BY <2>3, <2>6, <2>7 DEF IndInv, Base
<1> QED BY <1>4, <1>7, <1>8

LEMMA MarkKeeps ==
  ASSUME IndInv, NEW p \in Procs, MarkReplied(p)
  PROVE  Base'
<1>1. TypeOK /\ NewestOnly /\ HandlersTrue /\ Owed /\ Marks
      /\ handler[p].step = "mark" /\ handler[p] \in Reply /\ GoTo(p, "audit")
      /\ UNCHANGED <<now, sessions, created, prompts, written, delivered, audited, cancelled, chosen>>
      /\ replied' \subseteq replied \cup {handler[p].row.mapping}
  BY StepKinds DEF IndInv, Base, MarkReplied, At
<1>2. ReplyTrue(handler[p]) /\ handler[p].row \in Row
  BY <1>1 DEF HandlersTrue, HandlerTrue, Reply
<1>3. /\ Only(p) /\ handler'[p].step = "audit"
      /\ handler'[p].row = handler[p].row /\ handler'[p].at = handler[p].at
  BY <1>1, ReplyGoes
<1>4. HandlerTrue(handler[p])'
  BY <1>1, <1>2, <1>3 DEF HandlerTrue, ReplyTrue, lastId
<1>5. delivered' \in [Ids -> Nat] /\ \A i \in Ids : delivered'[i] >= delivered[i]
  BY <1>1 DEF TypeOK
<1>6. Room' /\ HandlersTrue' /\ Onward
  BY <1>1, <1>3, <1>4, <1>5, Moves
<1>7. Owed'
  <2>1. \A i \in Ids : Unaudited(i)' \subseteq Unaudited(i)
    BY <1>1, <1>3 DEF Unaudited, Only
  <2> QED BY <1>1, <1>5, <2>1, NothingOwed
<1>8. Marks'
  <2>1. /\ handler[p].row.id \in DOMAIN created
        /\ created[handler[p].row.id] = handler[p].row.mapping
        /\ delivered[handler[p].row.id] > 0
    BY <1>1, <1>2 DEF ReplyTrue, Row, Ids, lastId, TypeOK
  <2> QED BY <1>1, <2>1 DEF Marks
<1>9. TypeOK' /\ NewestOnly'
  <2>1. handler[p].row.mapping \in Mappings
    BY <1>2 DEF Row
  <2> QED BY <1>1, <1>3, <2>1, RowsGo DEF TypeOK, lastId, Only
<1> QED BY <1>6, <1>7, <1>8, <1>9 DEF IndInv, Base

LEMMA AuditKeeps ==
  ASSUME IndInv, NEW p \in Procs, AuditReply(p)
  PROVE  Base'
<1>1. TypeOK /\ NewestOnly /\ HandlersTrue /\ Owed /\ Marks
      /\ handler[p].step = "audit" /\ handler[p] \in Reply /\ GoTo(p, "delete")
      /\ UNCHANGED <<now, sessions, created, prompts, written, delivered, replied, cancelled, chosen>>
  BY StepKinds DEF IndInv, Base, AuditReply, At
<1>2. PICK id \in Ids : id = handler[p].row.id
  BY <1>1 DEF Reply, Row
<1>3. PICK o \in Outcome("store") :
        audited' = IF o.took THEN [audited EXCEPT ![id] = @ + 1] ELSE audited
  BY <1>2 DEF AuditReply
<1>4. o.took \in BOOLEAN
  BY OutcomeType
<1>5. ReplyTrue(handler[p])
  BY <1>1 DEF HandlersTrue, HandlerTrue
<1>6. /\ Only(p) /\ handler'[p].step = "delete"
      /\ handler'[p].row = handler[p].row /\ handler'[p].at = handler[p].at
  BY <1>1, ReplyGoes
<1>7. HandlerTrue(handler[p])'
  BY <1>1, <1>5, <1>6 DEF HandlerTrue, ReplyTrue, lastId
<1>8. delivered' \in [Ids -> Nat] /\ \A i \in Ids : delivered'[i] >= delivered[i]
  BY <1>1 DEF TypeOK
<1>9. Room' /\ HandlersTrue' /\ Onward
  BY <1>1, <1>6, <1>7, <1>8, Moves
<1>10. Owed'
  <2>1. p \in Unaudited(id)
    BY <1>1, <1>2 DEF Unaudited
  <2>2. \A i \in Ids : Unaudited(i)' \subseteq Unaudited(i) \ {p}
    BY <1>6 DEF Unaudited, Only
  <2> QED BY <1>1, <1>3, <1>4, <2>1, <2>2, OnePaid
<1>11. Marks'
  BY <1>1, <1>9, MarksKept
<1>12. TypeOK' /\ NewestOnly'
  <2>1. audited' \in [Ids -> Nat]
    BY <1>1, <1>3, <1>4 DEF TypeOK
  <2> QED BY <1>1, <1>6, <2>1, RowsGo DEF TypeOK, lastId, Only
<1> QED BY <1>9, <1>10, <1>11, <1>12 DEF IndInv, Base

LEMMA EndSessionKeeps ==
  ASSUME IndInv, NEW p \in Procs, EndSession(p)
  PROVE  Base'
<1>1. TypeOK /\ NewestOnly /\ Finish(p) /\ sessions' \subseteq sessions
      /\ UNCHANGED <<now, created, prompts, written, delivered, audited, replied, cancelled, chosen>>
  BY DEF IndInv, Base, EndSession, Without
<1>2. /\ handler' \in [Procs -> Active \cup {Idle}]
      /\ Room' /\ HandlersTrue' /\ Owed' /\ Marks'
  BY <1>1, QuietEnd
<1>3. TypeOK' /\ NewestOnly'
  BY <1>1, <1>2, RowsGo DEF TypeOK, lastId
<1> QED BY <1>2, <1>3 DEF IndInv, Base

--------------------------------------------------------------------------------
\* The owner is told of a cancellation only if the row was there and is gone.
LEMMA Cancelled ==
  ASSUME TypeOK, NewestOnly, NEW id \in Ids, DeleteOwnerReplySession(id), UNCHANGED created
  PROVE  /\ sessions' \subseteq sessions /\ cancelled \subseteq cancelled'
         /\ cancelled' \subseteq Ids /\ NewestOnly'
<1>1. PICK o \in Outcome("store") :
        /\ sessions' = IF o.took THEN Without(id) ELSE sessions
        /\ cancelled' = IF o.ok /\ Without(id) # sessions THEN cancelled \cup {id} ELSE cancelled
  BY DEF DeleteOwnerReplySession
<1>2. o.took \in BOOLEAN /\ o.ok \in BOOLEAN /\ (o.ok => o.took)
  BY OutcomeType
<1>3. sessions' \subseteq sessions
  BY <1>1 DEF Without
<1>4. CASE o.ok /\ Without(id) # sessions
  <2>1. PICK s \in sessions : s.id = id
    BY <1>4 DEF Without
  <2>2. id = lastId /\ lastId \in Nat
    BY <2>1 DEF NewestOnly, TypeOK, lastId
  <2>3. cancelled' = cancelled \cup {id} /\ \A t \in sessions' : t.id # id
    BY <1>1, <1>2, <1>4 DEF Without
  <2>4. NewestOnly'
    BY <1>3, <2>2, <2>3 DEF NewestOnly, lastId
  <2> QED BY <1>3, <2>3, <2>4 DEF TypeOK
<1>5. CASE ~(o.ok /\ Without(id) # sessions)
  BY <1>1, <1>3, <1>5, RowsGo DEF TypeOK
<1> QED BY <1>4, <1>5

LEMMA CancelKeeps ==
  ASSUME IndInv, NEW p \in Procs, CancelActive(p)
  PROVE  Base'
<1>1. TypeOK /\ NewestOnly /\ handler[p] \in Cancel /\ Finish(p)
      /\ DeleteOwnerReplySession(handler[p].id)
      /\ UNCHANGED <<now, created, prompts, written, delivered, audited, replied, chosen>>
  BY StepKinds DEF IndInv, Base, CancelActive, At
<1>2. PICK id \in Ids : id = handler[p].id
  BY <1>1 DEF Cancel
<1>3. /\ sessions' \subseteq sessions /\ cancelled \subseteq cancelled'
      /\ cancelled' \subseteq Ids /\ NewestOnly'
  BY <1>1, <1>2, Cancelled
<1>4. /\ handler' \in [Procs -> Active \cup {Idle}]
      /\ Room' /\ HandlersTrue' /\ Owed' /\ Marks'
  BY <1>1, <1>3, QuietEnd
<1>5. TypeOK'
  BY <1>1, <1>3, <1>4 DEF TypeOK, lastId
<1> QED BY <1>3, <1>4, <1>5 DEF IndInv, Base

LEMMA CallbackCancelKeeps ==
  ASSUME IndInv, NEW p \in Procs, NEW id \in prompts, CallbackCancelReply(p, id)
  PROVE  Base'
<1>1. TypeOK /\ NewestOnly /\ HandlersTrue /\ handler[p].step = "idle" /\ id \in Ids
      /\ DeleteOwnerReplySession(id)
      /\ UNCHANGED <<now, created, prompts, written, delivered, audited, replied, handler, chosen>>
  BY DEF IndInv, Base, CallbackCancelReply, At, TypeOK
<1>2. /\ sessions' \subseteq sessions /\ cancelled \subseteq cancelled'
      /\ cancelled' \subseteq Ids /\ NewestOnly'
  BY <1>1, Cancelled
<1>3. Only(p) /\ handler'[p].step = "idle" /\ HandlerTrue(handler[p])'
  BY <1>1 DEF TypeOK, Only, HandlerTrue
<1>4. Room' /\ HandlersTrue' /\ Owed' /\ Marks'
  BY <1>1, <1>2, <1>3, Quiet
<1>5. TypeOK'
  BY <1>1, <1>2, <1>3 DEF TypeOK, lastId
<1> QED BY <1>2, <1>4, <1>5 DEF IndInv, Base

--------------------------------------------------------------------------------
\* Time passes; the process dies and starts again.
LEMMA WorldKeeps ==
  ASSUME IndInv, Tick \/ Restart \/ UNCHANGED vars
  PROVE  Base'
<1>1. TypeOK /\ Room /\ NewestOnly /\ HandlersTrue /\ Owed /\ Marks
      /\ UNCHANGED <<sessions, created, prompts, written, delivered, audited, replied, cancelled>>
      /\ (now' = now \/ now' = now + 1)
  BY DEF IndInv, Base, Tick, Restart, vars
<1>2. handler' = handler \/ \A p \in Procs : handler'[p] = Idle
  BY DEF Tick, Restart, vars
<1>3. TypeOK'
  <2>1. chosen' \subseteq Mappings
    BY <1>1 DEF TypeOK, Tick, Restart, vars
  <2> QED BY <1>1, <2>1 DEF TypeOK, lastId, Tick, Restart, vars
<1>4. Onward
  BY <1>1, <1>3 DEF Onward, TypeOK, lastId
<1>5. HandlersTrue'
  <2>1. \A q \in Procs : handler'[q] = Idle => HandlerTrue(handler[q])'
    BY DEF Idle, HandlerTrue
  <2> QED BY <1>1, <1>2, <1>4, <2>1, StaysTrue
<1>6. Room'
  <2>1. Creating' \subseteq Creating
    BY <1>2 DEF Creating, At, Idle
  <2> QED BY <1>1, <2>1, RoomKept, BoundAssumption DEF TypeOK, lastId
<1>7. Owed' /\ Marks'
  <2>1. \A i \in Ids : Unaudited(i)' \subseteq Unaudited(i)
    BY <1>2 DEF Unaudited, Idle
  <2> QED BY <1>1, <1>4, <2>1, NothingOwed, MarksKept DEF Onward
<1>8. NewestOnly'
  BY <1>1, RowsGo
<1> QED BY <1>3, <1>5, <1>6, <1>7, <1>8 DEF IndInv, Base

--------------------------------------------------------------------------------
\* What is chosen changes with the Reply button, its session and a restart only.
LEMMA ChosenStays ==
  ASSUME ChosenTrue, NEW p \in Procs, p \notin Creating, handler'[p].step # "create",
         \A q \in Procs : q # p => handler'[q] = handler[q],
         UNCHANGED <<created, chosen>>
  PROVE  ChosenTrue'
<1>1. Creating' = Creating /\ \A q \in Creating : handler'[q] = handler[q]
  BY DEF Creating, At
<1> QED BY <1>1 DEF ChosenTrue, lastId

LEMMA ChosenPressed ==
  ASSUME IndInv, NEW p \in Procs, NEW m \in Mappings, PressReply(p, m)
  PROVE  ChosenTrue'
<1>1. /\ handler' = [handler EXCEPT ![p] = [step |-> "create", mapping |-> m, expires |-> now + Life]]
      /\ chosen' = IF Creating = {} THEN {m} ELSE {}
      /\ handler \in [Procs -> Active \cup {Idle}]
  BY DEF PressReply, Become, IndInv, Base, TypeOK
<1>2. handler'[p].step = "create" /\ handler'[p].mapping = m
      /\ \A q \in Procs : q # p => handler'[q] = handler[q]
  BY <1>1
<1>3. p \in Creating' /\ Creating' \subseteq Creating \cup {p}
  BY <1>2 DEF Creating, At
<1> QED BY <1>1, <1>2, <1>3 DEF ChosenTrue

LEMMA ChosenStored ==
  ASSUME IndInv, NEW p \in Procs, CreateOwnerReplySession(p)
  PROVE  ChosenTrue'
<1>1. /\ TypeOK /\ ChosenTrue /\ p \in Creating /\ handler[p] \in Button /\ lastId \in Nat
  BY StepKinds DEF IndInv, Base, CreateOwnerReplySession, Creating, At, TypeOK, lastId
<1>2. PICK o \in Outcome("store") :
        /\ o.took => created' = Append(created, handler[p].mapping)
        /\ chosen' = IF o.ok THEN chosen ELSE {}
        /\ handler' = [handler EXCEPT ![p] = IF o.ok THEN [step |-> "prompt", id |-> lastId + 1]
                                                    ELSE Idle]
  BY DEF CreateOwnerReplySession, Become, Finish
<1>3. o.ok => o.took
  BY OutcomeType
<1>4. handler'[p].step # "create" /\ \A q \in Procs : q # p => handler'[q] = handler[q]
  BY <1>1, <1>2 DEF TypeOK, Idle
<1>5. Creating' = Creating \ {p}
  BY <1>4 DEF Creating, At
<1>6. CASE chosen' = {}
  BY <1>6 DEF ChosenTrue
<1>7. CASE o.ok /\ chosen # {}
  <2>1. Creating = {p} /\ chosen = {handler[p].mapping} /\ chosen' = chosen
    BY <1>1, <1>2, <1>7 DEF ChosenTrue
  <2>2. created' = Append(created, handler[p].mapping) /\ handler[p].mapping \in Mappings
    BY <1>1, <1>2, <1>3, <1>7 DEF Button
  <2>3. lastId' = lastId + 1 /\ created'[lastId + 1] = handler[p].mapping
    BY <1>1, <2>2, AppendProperties DEF TypeOK, lastId
  <2> QED BY <1>1, <1>5, <2>1, <2>3 DEF ChosenTrue
<1> QED BY <1>2, <1>6, <1>7

LEMMA ChosenElsewhere ==
  ASSUME IndInv, NEW p \in Procs,
         \/ Write(p) \/ CancelReplyCommand(p) \/ \E id \in prompts : CallbackCancelReply(p, id)
         \/ SendPrompt(p) \/ ReadClock(p) \/ DeleteExpired(p) \/ SelectSession(p) \/ NoSession(p)
         \/ Refuse(p) \/ Deliver(p) \/ MarkReplied(p) \/ AuditReply(p) \/ EndSession(p)
         \/ CancelActive(p)
  PROVE  ChosenTrue'
<1>1. TypeOK /\ ChosenTrue /\ handler \in [Procs -> Active \cup {Idle}]
  BY DEF IndInv, Base, TypeOK
<1>2. ASSUME NEW h, Become(p, h), h.step # "create", p \notin Creating,
             UNCHANGED <<created, chosen>>
      PROVE  ChosenTrue'
  <2>1. handler'[p] = h /\ \A q \in Procs : q # p => handler'[q] = handler[q]
    BY <1>1, <1>2 DEF Become
  <2> QED BY <1>1, <1>2, <2>1, ChosenStays
<1>3. ASSUME Finish(p), p \notin Creating, UNCHANGED <<created, chosen>>  PROVE ChosenTrue'
  <2>1. Idle.step # "create"
    BY DEF Idle
  <2> QED BY <1>2, <1>3, <2>1 DEF Finish
<1>4. ASSUME NEW s \in {"mark", "audit", "delete"}, GoTo(p, s), handler[p] \in Reply,
             UNCHANGED <<created, chosen>>
      PROVE  ChosenTrue'
  <2>1. handler'[p].step = s /\ \A q \in Procs : q # p => handler'[q] = handler[q]
    BY <1>1, <1>4, ReplyGoes DEF Only
  <2>2. p \notin Creating
    BY <1>4 DEF Creating, At, Reply
  <2> QED BY <1>1, <1>4, <2>1, <2>2, ChosenStays
<1>5. CASE Write(p) \/ CancelReplyCommand(p)
  <2>1. PICK task \in Task, at \in {Arrival, Blank} : StartLookup(p, task, at)
    BY <1>5 DEF Write, CancelReplyCommand, Task
  <2>2. p \notin Creating /\ UNCHANGED <<created, chosen>>
    BY <1>5 DEF Write, CancelReplyCommand, Creating, At
  <2> QED BY <1>2, <2>1, <2>2 DEF StartLookup
<1>6. CASE \E id \in prompts : CallbackCancelReply(p, id)
  <2>1. UNCHANGED <<created, chosen, handler>> /\ handler[p].step = "idle"
    BY <1>6 DEF CallbackCancelReply, At
  <2> QED BY <1>1, <2>1, ChosenStays DEF Creating, At
<1>7. CASE SendPrompt(p) \/ NoSession(p) \/ Refuse(p) \/ EndSession(p) \/ CancelActive(p)
  <2>1. Finish(p) /\ p \notin Creating /\ UNCHANGED <<created, chosen>>
    BY <1>7 DEF SendPrompt, NoSession, Refuse, EndSession, CancelActive, Creating, At
  <2> QED BY <1>3, <2>1
<1>8. CASE ReadClock(p) \/ DeleteExpired(p)
  <2>1. handler[p] \in Lookup /\ p \notin Creating /\ UNCHANGED <<created, chosen>>
    BY <1>1, <1>8, StepKinds DEF ReadClock, DeleteExpired, Creating, At
  <2>2. PICK s \in {"cleanup", "select"}, t \in {now, handler[p].clock} :
          handler' = [handler EXCEPT ![p] = [handler[p] EXCEPT !.step = s, !.clock = t]]
    <3>1. CASE ReadClock(p)
      BY <1>1, <3>1 DEF ReadClock
    <3>2. CASE DeleteExpired(p)
      <4>1. [handler[p] EXCEPT !.step = "select"]
              = [handler[p] EXCEPT !.step = "select", !.clock = handler[p].clock]
        BY <2>1 DEF Lookup
      <4> QED BY <1>1, <3>2, <4>1 DEF DeleteExpired, GoTo
    <3> QED BY <1>8, <3>1, <3>2
  <2>3. [handler[p] EXCEPT !.step = s, !.clock = t].step = s
    BY <2>1 DEF Lookup
  <2> QED BY <1>2, <2>1, <2>2, <2>3 DEF Become
<1>9. CASE SelectSession(p)
  <2>1. p \notin Creating /\ UNCHANGED <<created, chosen>>
    BY <1>9 DEF SelectSession, Creating, At
  <2> DEFINE s == Newest(ActiveSessions(handler[p].clock))
             message == [step |-> "deliver", row |-> s, at |-> handler[p].at]
             cancel  == [step |-> "cancel", id |-> s.id]
  <2>2. Become(p, message) \/ Become(p, cancel)
    BY <1>9 DEF SelectSession
  <2> QED BY <1>2, <2>1, <2>2
<1>10. CASE Deliver(p) \/ MarkReplied(p) \/ AuditReply(p)
  <2>1. handler[p] \in Reply /\ UNCHANGED <<created, chosen>>
        /\ (Finish(p) \/ \E s \in {"mark", "audit", "delete"} : GoTo(p, s))
    BY <1>1, <1>10, StepKinds DEF Deliver, MarkReplied, AuditReply, At
  <2>2. p \notin Creating
    BY <2>1 DEF Creating, At, Reply
  <2> QED BY <1>3, <1>4, <2>1, <2>2
<1> QED BY <1>5, <1>6, <1>7, <1>8, <1>9, <1>10

LEMMA ChosenWorld ==
  ASSUME IndInv, Tick \/ Restart \/ UNCHANGED vars
  PROVE  ChosenTrue'
<1>1. ChosenTrue /\ created' = created
  BY DEF IndInv, Base, Tick, Restart, vars
<1>2. CASE UNCHANGED <<handler, chosen>>
  BY <1>1, <1>2 DEF ChosenTrue, Creating, At, lastId
<1>3. CASE Restart
  <2>1. Creating' = {} /\ chosen' = IF Creating = {} THEN chosen ELSE {}
    BY <1>3 DEF Restart, Creating, At, Idle
  <2> QED BY <1>1, <2>1 DEF ChosenTrue, lastId
<1> QED BY <1>2, <1>3 DEF Tick, vars

LEMMA NextKeeps == IndInv /\ [Next]_vars => IndInv'
<1> SUFFICES ASSUME IndInv, [Next]_vars  PROVE IndInv'
  OBVIOUS
<1>1. ASSUME NEW p \in Procs, OwnerUpdate(p)  PROVE Base' /\ ChosenTrue'
  BY <1>1, PressReplyKeeps, StartKeeps, CallbackCancelKeeps, ChosenPressed, ChosenElsewhere
     DEF OwnerUpdate
<1>2. ASSUME NEW p \in Procs, HandlerStep(p)  PROVE Base'
  BY <1>2, CreateKeeps, SendPromptKeeps, ReadClockKeeps, DeleteExpiredKeeps, SelectKeeps,
     NothingSentKeeps, DeliverKeeps, MarkKeeps, AuditKeeps, EndSessionKeeps, CancelKeeps
     DEF HandlerStep
<1>3. ASSUME NEW p \in Procs, HandlerStep(p)  PROVE ChosenTrue'
  BY <1>3, ChosenStored, ChosenElsewhere DEF HandlerStep
<1> QED BY <1>1, <1>2, <1>3, WorldKeeps, ChosenWorld DEF Next, IndInv

\* The inductive invariant: the table holds no session but the newest, and each
\* message on its way has looked, or will look, for one it may go out through.
THEOREM Invariance == Spec => []IndInv
BY InitHolds, NextKeeps, PTL DEF Spec

\* Every variable keeps its type, and the ids suffice.
THEOREM TypeCorrect == Spec => []TypeOK
BY Invariance, PTL DEF IndInv, Base

\* A message goes through the session in force when it was written or a later one,
\* and that session is for the button pressed last, if that was pressed alone and
\* stored without an error (sqlite.go:243, callbacks.go:35).
THEOREM LatestChosen == Spec => []LatestChoice
<1>1. IndInv => LatestChoice
  BY DEF IndInv, Base, HandlersTrue, HandlerTrue, ReplyTrue, LatestChoice, Replying
<1> QED BY <1>1, Invariance, PTL

\* A cancellation the owner has been told of is final (handlers.go:549,
\* callbacks.go:212).
THEOREM CancelledStaysCancelled == Spec => []CancelIsFinal
<1>1. IndInv => CancelIsFinal
  BY DEF IndInv, Base, HandlersTrue, HandlerTrue, ReplyTrue, CancelIsFinal, Replying
<1> QED BY <1>1, Invariance, PTL

\* A session whose time was up carries no message written after that, whether or
\* not its row could be deleted (sqlite.go:267, 273).
THEOREM ExpiryHolds == Spec => []ExpiredStaysUnused
<1>1. IndInv => ExpiredStaysUnused
  BY DEF IndInv, Base, HandlersTrue, HandlerTrue, ReplyTrue, ExpiredStaysUnused, Replying
<1> QED BY <1>1, Invariance, PTL

\* Every audit row of a reply and every mapping marked replied stands for a
\* message that went out (handlers.go:296, 300, 304).
THEOREM RecordsAreBacked == Spec => []RecordsBacked
<1>1. IndInv => RecordsBacked
  BY DEF IndInv, Base, Owed, Marks, RecordsBacked
<1> QED BY <1>1, Invariance, PTL
================================================================================
