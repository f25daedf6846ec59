------------------------------ MODULE Relay_proofs ------------------------------
(***************************************************************************)
(* Theorems about Relay, for any strangers, messages, handlers, failures   *)
(* and bounds.  The message a forwarding handler has put in the chat is    *)
(* its own: no other handler deletes it or puts buttons on it, and once    *)
(* the handler has acknowledged it no one ever will.  What the chat and    *)
(* the table say of each other otherwise only grows.                       *)
(***************************************************************************)
EXTENDS Relay, FiniteSetTheorems, SequenceTheorems, TLAPS

--------------------------------------------------------------------------------
\* Steps at which a handler has its message in the chat; and a mapping for it.
Holding  == {"map", "orphan", "copy", "attach", "panel", "count", "forward", "ack"}
Mapped   == {"copy", "attach", "panel", "count", "forward", "ack"}
Holds(p) == handler[p].step \in Holding
Own(p, i) == Holds(p) /\ handler[p].own = i
Free(i)  == \A p \in Procs : ~ Own(p, i)

\* Steps at which it has still to count it; and to log it.
Uncounted == {"copy", "attach", "panel", "count"}
Unlogged  == {"copy", "attach", "panel", "count", "forward"}
Backed(c, steps) == \A u \in Users : c[u] + Cardinality(Ahead(u, steps)) <= Cardinality(MappingsOf(u))

\* Steps of a reply that knows where it goes.
Answering == {"lookup", "target", "quick", "reply", "mark", "audit"}
Aiming    == {"target", "quick", "reply", "mark", "audit"}

\* A mapping and its chat message are about one message, buttons act on that of
\* the message they are under.
RowsSound ==
    \A k \in DOMAIN mappings :
        /\ mappings[k].owner \in DOMAIN chat
        /\ chat[mappings[k].owner].msg = mappings[k].msg
        /\ mappings[k].user = AuthorOf[mappings[k].msg]

ButtonsSound ==
    \A i \in DOMAIN chat : chat[i].buttons # 0 =>
        /\ chat[i].buttons \in DOMAIN mappings
        /\ mappings[chat[i].buttons].msg = chat[i].msg

\* No two handlers hold the same chat message.
Apart == \A p, q \in Procs : Holds(p) /\ Holds(q) /\ p # q => handler[p].own # handler[q].own

Copied(m) == \E i \in visible : chat[i].msg = m /\ chat[i].part = "copy"

HeldTrue(h) ==
    /\ h.own \in visible /\ chat[h.own].msg = h.msg /\ chat[h.own].part = "relay"
    /\ h.step = "map" => chat[h.own].buttons = 0

MappedTrue(h) ==
    /\ h.mapping \in DOMAIN mappings /\ mappings[h.mapping].owner = h.own
    /\ mappings[h.mapping].msg = h.msg /\ chat[h.own].buttons \in {0, h.mapping}
    /\ h.msg \in Media => h.step = "copy" \/ Copied(h.msg)

ForwardTrue(h) ==
    /\ h.step \in Holding => HeldTrue(h)
    /\ h.step \in Mapped  => MappedTrue(h)

\* The mapping a reply goes by: that of the message answered, or of its buttons.
Aimed(h) ==
    /\ h.mapping \in DOMAIN mappings
    /\ h.how = "reply" => mappings[h.mapping].owner = h.via
    /\ h.how = "quick" => chat[h.via].buttons = h.mapping

Entry(h) == [id |-> h.id, via |-> h.via, to |-> ChatAuthor(h.via)]

AnswerTrue(h) ==
    /\ h.step \in Answering => h.via \in DOMAIN chat /\ h.id \in 1..attempts
    /\ h.step \in Aiming => Aimed(h)
    /\ h.step \in {"lookup", "target"} =>
          h.how = "reply" /\ (h.clear \/ ChatAuthor(h.via) \in blocked)
    /\ h.step = "quick" => h.how = "quick"
    /\ h.step = "reply" /\ h.how = "reply" => h.clear
    /\ h.step \in {"mark", "audit"} => Entry(h) \in received

IgnoreTrue(h) ==
    h.step \in {"ignore", "keyboard"} =>
        h.via \in DOMAIN chat /\ h.mapping \in DOMAIN mappings /\ chat[h.via].buttons = h.mapping

HandlerTrue(h) == ForwardTrue(h) /\ AnswerTrue(h) /\ IgnoreTrue(h)
HandlersTrue   == \A p \in Procs : HandlerTrue(handler[p])

\* What was acknowledged is in the chat, with a mapping, and no handler's own.
AckedHeld ==
    \A m \in Messages : "relayed" \in answers[m] =>
        /\ \E i \in visible, k \in DOMAIN mappings :
              /\ Free(i) /\ chat[i].msg = m /\ chat[i].part = "relay"
              /\ mappings[k].owner = i
        /\ m \in Media => Copied(m)

Reached == \A r \in received : r.via \in DOMAIN chat /\ r.to = ChatAuthor(r.via)

\* The two halves of RecordedWasReceived.
Marked(k) == \E r \in received : /\ r.to = mappings[k].user
                                 /\ r.via = mappings[k].owner \/ chat[r.via].buttons = k
Marks   == \A k \in DOMAIN mappings : mappings[k].status = "replied" => Marked(k)
Audits  == \A id \in audited : \E r \in received : r.id = id

Counts  == Backed(count, Uncounted) /\ Backed(forwards, Unlogged)

Sound ==
    /\ RowsSound /\ ButtonsSound /\ Apart /\ HandlersTrue /\ AckedHeld /\ Reached
    /\ Counts /\ Marks /\ Audits

IndInv == TypeOK /\ Sound

--------------------------------------------------------------------------------
\* No handler but p changes.
Only(p) ==
    /\ handler' \in [Procs -> Active \cup {Idle}]
    /\ \A q \in Procs : q # p => handler'[q] = handler[q]

\* What p may do to the chat and the table: add to them, and put buttons on its
\* own message or delete it.
Careful(p) ==
    /\ \A i \in DOMAIN chat :
          /\ i \in DOMAIN chat'
          /\ chat'[i].msg = chat[i].msg /\ chat'[i].part = chat[i].part
          /\ chat'[i].buttons = chat[i].buttons \/ (Own(p, i) /\ chat[i].buttons = 0)
    /\ \A i \in visible : i \in visible' \/ Own(p, i)
    /\ \A k \in DOMAIN mappings :
          /\ k \in DOMAIN mappings'
          /\ mappings'[k].owner = mappings[k].owner /\ mappings'[k].user = mappings[k].user
          /\ mappings'[k].msg = mappings[k].msg
    /\ received \subseteq received'

\* p gets no message of its own but a new one.
NoneTaken(p) == Holds(p)' => \/ Own(p, handler'[p].own)
                             \/ handler'[p].own \notin DOMAIN chat

LEMMA StepKinds ==
  ASSUME TypeOK, NEW p \in Procs
  PROVE  /\ handler[p].step \in Holding \cup {"send"} => handler[p] \in Forward
         /\ handler[p].step \in Answering => handler[p] \in Reply
         /\ handler[p].step \in {"ignore", "keyboard"} => handler[p] \in Ignore
<1>1. handler[p] \in Active \cup {Idle}
  BY DEF TypeOK
<1> QED BY <1>1 DEF Active, Forward, Reply, Ignore, Idle, Holding, Answering

LEMMA Places ==
  ASSUME TypeOK
  PROVE  /\ Len(chat) \in Nat /\ DOMAIN chat = 1..Len(chat) /\ DOMAIN chat \subseteq ChatIds
         /\ \A i \in DOMAIN chat : chat[i] \in Chat
         /\ visible \subseteq DOMAIN chat
         /\ Len(mappings) \in Nat /\ DOMAIN mappings = 1..Len(mappings)
         /\ \A k \in DOMAIN mappings : mappings[k] \in Mapping
<1>1. chat \in Seq(Chat) /\ Len(chat) <= MaxChat /\ mappings \in Seq(Mapping)
      /\ visible \subseteq DOMAIN chat
  BY DEF TypeOK
<1>2. /\ Len(chat) \in Nat /\ DOMAIN chat = 1..Len(chat)
      /\ Len(mappings) \in Nat /\ DOMAIN mappings = 1..Len(mappings)
  BY <1>1, LenProperties
<1>3. DOMAIN chat \subseteq ChatIds
  BY <1>1, <1>2, BoundAssumption DEF ChatIds
<1>4. ASSUME NEW i \in DOMAIN chat  PROVE chat[i] \in Chat
  BY <1>1, <1>2, ElementOfSeq
<1>5. ASSUME NEW k \in DOMAIN mappings  PROVE mappings[k] \in Mapping
  BY <1>1, <1>2, ElementOfSeq
<1> QED BY <1>1, <1>2, <1>3, <1>4, <1>5

LEMMA Becomes ==
  ASSUME TypeOK, NEW p \in Procs, NEW h \in Active \cup {Idle}, Become(p, h)
  PROVE  Only(p) /\ handler'[p] = h
BY DEF TypeOK, Become, Only

LEMMA Ends ==
  ASSUME TypeOK, NEW p \in Procs, Finish(p)
  PROVE  Only(p) /\ handler'[p] = Idle
BY Becomes DEF Finish

LEMMA ForwardGoes ==
  ASSUME TypeOK, NEW p \in Procs, handler[p] \in Forward,
         NEW s \in Holding, GoTo(p, s)
  PROVE  /\ Only(p) /\ handler'[p].step = s /\ handler'[p].msg = handler[p].msg
         /\ handler'[p].own = handler[p].own /\ handler'[p].mapping = handler[p].mapping
<1>1. handler \in [Procs -> Active \cup {Idle}]
  BY DEF TypeOK
<1>2. handler'[p] = [handler[p] EXCEPT !.step = s]
  BY <1>1 DEF GoTo
<1>3. [handler[p] EXCEPT !.step = s] \in Forward
  BY DEF Forward, Holding
<1>4. /\ handler'[p].step = s /\ handler'[p].msg = handler[p].msg
      /\ handler'[p].own = handler[p].own /\ handler'[p].mapping = handler[p].mapping
  BY <1>2 DEF Forward
<1>5. handler'[p] \in Active
  BY <1>2, <1>3 DEF Active
<1>6. Only(p)
  BY <1>1, <1>5 DEF GoTo, Only
<1> QED BY <1>4, <1>6

LEMMA ReplyGoes ==
  ASSUME TypeOK, NEW p \in Procs, handler[p] \in Reply,
         NEW s \in Answering, GoTo(p, s)
  PROVE  /\ Only(p) /\ handler'[p].step = s /\ handler'[p].how = handler[p].how
         /\ handler'[p].id = handler[p].id /\ handler'[p].via = handler[p].via
         /\ handler'[p].mapping = handler[p].mapping /\ handler'[p].clear = handler[p].clear
<1>1. handler \in [Procs -> Active \cup {Idle}]
  BY DEF TypeOK
<1>2. handler'[p] = [handler[p] EXCEPT !.step = s]
  BY <1>1 DEF GoTo
<1>3. [handler[p] EXCEPT !.step = s] \in Reply
  BY DEF Reply, Answering
<1>4. /\ handler'[p].step = s /\ handler'[p].how = handler[p].how
      /\ handler'[p].id = handler[p].id /\ handler'[p].via = handler[p].via
      /\ handler'[p].mapping = handler[p].mapping /\ handler'[p].clear = handler[p].clear
  BY <1>2 DEF Reply
<1>5. handler'[p] \in Active
  BY <1>2, <1>3 DEF Active
<1>6. Only(p)
  BY <1>1, <1>5 DEF GoTo, Only
<1> QED BY <1>4, <1>6

LEMMA OutcomeType ==
  ASSUME NEW kind, NEW o \in Outcome(kind)
  PROVE  o.took \in BOOLEAN /\ o.ok \in BOOLEAN /\ (o.ok => o.took)
<1>1. CASE o = [took |-> TRUE, ok |-> TRUE]
  BY <1>1
<1>2. CASE o \in [took : BOOLEAN, ok : {FALSE}]
  BY <1>2
<1> QED BY <1>1, <1>2 DEF Outcome

--------------------------------------------------------------------------------
LEMMA RowsKept ==
  ASSUME TypeOK, RowsSound, NEW p \in Procs, Careful(p), DOMAIN mappings' = DOMAIN mappings
  PROVE  RowsSound'
BY DEF RowsSound, Careful

LEMMA ButtonsKept ==
  ASSUME TypeOK, ButtonsSound, NEW p \in Procs, Careful(p),
         \A i \in DOMAIN chat' : \/ i \in DOMAIN chat /\ chat'[i].buttons = chat[i].buttons
                                 \/ chat'[i].buttons = 0
                                 \/ /\ chat'[i].buttons \in DOMAIN mappings
                                    /\ mappings[chat'[i].buttons].msg = chat'[i].msg
  PROVE  ButtonsSound'
<1> SUFFICES ASSUME NEW i \in DOMAIN chat', chat'[i].buttons # 0
             PROVE  /\ chat'[i].buttons \in DOMAIN mappings'
                    /\ mappings'[chat'[i].buttons].msg = chat'[i].msg
  BY DEF ButtonsSound
<1>1. chat'[i].buttons \in DOMAIN mappings /\ mappings[chat'[i].buttons].msg = chat'[i].msg
  BY DEF ButtonsSound, Careful
<1> QED BY <1>1 DEF Careful

LEMMA ApartKept ==
  ASSUME TypeOK, Apart, HandlersTrue, NEW p \in Procs, Only(p), NoneTaken(p)
  PROVE  Apart'
<1> SUFFICES ASSUME NEW q \in Procs, NEW r \in Procs, Holds(q)', Holds(r)', q # r
             PROVE  handler'[q].own # handler'[r].own
  BY DEF Apart
<1>1. ASSUME NEW s \in Procs, s # p, Holds(s)', Holds(p)'
      PROVE  handler'[s].own # handler'[p].own
  <2>1. handler'[s] = handler[s] /\ Holds(s)
    BY <1>1 DEF Only, Holds
  <2>2. handler[s].own \in DOMAIN chat
    BY <2>1, Places DEF HandlersTrue, HandlerTrue, ForwardTrue, HeldTrue, Holds
  <2> QED BY <1>1, <2>1, <2>2 DEF NoneTaken, Own, Apart
<1>2. CASE q # p /\ r # p
  BY <1>2 DEF Only, Apart, Holds
<1> QED BY <1>1, <1>2

LEMMA OwnIsRelay ==
  ASSUME TypeOK, HandlersTrue, NEW p \in Procs, NEW i, Own(p, i)
  PROVE  i \in visible /\ chat[i].part = "relay"
BY DEF HandlersTrue, HandlerTrue, ForwardTrue, HeldTrue, Own, Holds

LEMMA CopiedStays ==
  ASSUME TypeOK, HandlersTrue, NEW p \in Procs, Careful(p), NEW m, Copied(m)
  PROVE  Copied(m)'
<1>1. PICK i \in visible : chat[i].msg = m /\ chat[i].part = "copy"
  BY DEF Copied
<1>2. ~ Own(p, i) /\ i \in DOMAIN chat
  BY <1>1, OwnIsRelay, Places
<1> QED BY <1>1, <1>2 DEF Copied, Careful

\* What p does leaves every other handler as right as it was.
LEMMA OthersForward ==
  ASSUME TypeOK, Apart, HandlersTrue, NEW p \in Procs, Only(p), Careful(p),
         NEW q \in Procs, q # p
  PROVE  ForwardTrue(handler[q])'
<1>1. handler'[q] = handler[q] /\ ForwardTrue(handler[q])
  BY DEF Only, HandlersTrue, HandlerTrue
<1>2. ASSUME handler[q].step \in Holding
      PROVE  HeldTrue(handler[q])' /\ chat'[handler[q].own].buttons = chat[handler[q].own].buttons
  <2>1. HeldTrue(handler[q]) /\ Holds(q)
    BY <1>1, <1>2 DEF ForwardTrue, Holds
  <2>2. ~ Own(p, handler[q].own) /\ handler[q].own \in DOMAIN chat
    BY <2>1, Places DEF Apart, Own, HeldTrue
  <2> QED BY <1>1, <2>1, <2>2 DEF HeldTrue, Careful
<1>3. ASSUME handler[q].step \in Mapped
      PROVE  MappedTrue(handler[q])'
  <2>1. MappedTrue(handler[q]) /\ handler[q].step \in Holding
    BY <1>1, <1>3 DEF ForwardTrue, Mapped, Holding
  <2>2. chat'[handler[q].own].buttons = chat[handler[q].own].buttons
    BY <1>2, <2>1
  <2>3. Copied(handler[q].msg) => Copied(handler[q].msg)'
    BY <1>1, CopiedStays
  <2> QED BY <1>1, <2>1, <2>2, <2>3 DEF MappedTrue, Careful
<1> QED BY <1>1, <1>2, <1>3 DEF ForwardTrue

LEMMA AimedStays ==
  ASSUME TypeOK, NEW p \in Procs, Careful(p), NEW q \in Procs, handler[q] \in Reply,
         handler[q].via \in DOMAIN chat, Aimed(handler[q]),
         handler'[q].how = handler[q].how, handler'[q].via = handler[q].via,
         handler'[q].mapping = handler[q].mapping
  PROVE  Aimed(handler[q])'
<1>1. handler[q].mapping # 0
  BY Places DEF Aimed
<1> QED BY <1>1 DEF Aimed, Careful

LEMMA OthersAnswer ==
  ASSUME TypeOK, HandlersTrue, NEW p \in Procs, Only(p), Careful(p),
         blocked' = blocked, attempts' \in Nat, attempts' >= attempts,
         NEW q \in Procs, q # p
  PROVE  AnswerTrue(handler[q])' /\ IgnoreTrue(handler[q])'
<1>1. handler'[q] = handler[q] /\ AnswerTrue(handler[q]) /\ IgnoreTrue(handler[q])
  BY DEF Only, HandlersTrue, HandlerTrue
<1>2. ASSUME handler[q].step \in Answering  PROVE AnswerTrue(handler[q])'
  <2>1. handler[q].via \in DOMAIN chat /\ handler[q].id \in 1..attempts /\ handler[q] \in Reply
    BY <1>1, <1>2, StepKinds DEF AnswerTrue
  <2>2. handler[q].via \in DOMAIN chat' /\ ChatAuthor(handler[q].via)' = ChatAuthor(handler[q].via)
    BY <1>1, <2>1 DEF Careful, ChatAuthor
  <2>3. handler[q].id \in 1..attempts'
    BY <2>1 DEF TypeOK
  <2>4. handler[q].step \in Aiming => Aimed(handler[q])'
    BY <1>1, <2>1, AimedStays DEF AnswerTrue
  <2>5. handler[q].step \in {"mark", "audit"} => Entry(handler[q])' \in received'
    <3>1. Entry(handler[q])' = Entry(handler[q])
      BY <1>1, <2>2 DEF Entry
    <3> QED BY <1>1, <3>1 DEF AnswerTrue, Careful
  <2> QED BY <1>1, <2>2, <2>3, <2>4, <2>5 DEF AnswerTrue
<1>3. ASSUME handler[q].step \notin Answering  PROVE AnswerTrue(handler[q])'
  BY <1>1, <1>3 DEF AnswerTrue, Answering, Aiming
<1>4. IgnoreTrue(handler[q])'
  <2>1. handler[q].mapping \in DOMAIN mappings => handler[q].mapping # 0
    BY Places
  <2> QED BY <1>1, <2>1 DEF IgnoreTrue, Careful
<1> QED BY <1>2, <1>3, <1>4

LEMMA AckedKept ==
  ASSUME TypeOK, HandlersTrue, AckedHeld, NEW p \in Procs, Only(p), Careful(p), NoneTaken(p),
         \A m \in Messages : "relayed" \in answers'[m] => "relayed" \in answers[m]
  PROVE  AckedHeld'
<1> SUFFICES ASSUME NEW m \in Messages, "relayed" \in answers[m]
             PROVE  /\ \E i \in visible', k \in DOMAIN mappings' :
                          /\ Free(i)' /\ chat'[i].msg = m /\ chat'[i].part = "relay"
                          /\ mappings'[k].owner = i
                    /\ m \in Media => Copied(m)'
  BY DEF AckedHeld
<1>1. PICK i \in visible, k \in DOMAIN mappings :
              /\ Free(i) /\ chat[i].msg = m /\ chat[i].part = "relay"
              /\ mappings[k].owner = i
  BY DEF AckedHeld
<1>2. i \in DOMAIN chat /\ ~ Own(p, i)
  BY <1>1, Places DEF Free
<1>3. /\ i \in visible' /\ chat'[i].msg = m /\ chat'[i].part = "relay"
      /\ k \in DOMAIN mappings' /\ mappings'[k].owner = i
  BY <1>1, <1>2 DEF Careful
<1>4. Free(i)'
  <2> SUFFICES ASSUME NEW q \in Procs, Own(q, i)'  PROVE FALSE
    BY DEF Free
  <2>1. CASE q = p
    BY <1>2, <2>1 DEF NoneTaken, Own
  <2>2. CASE q # p
    BY <1>1, <2>2 DEF Free, Own, Holds, Only
  <2> QED BY <2>1, <2>2
<1>5. m \in Media => Copied(m)'
  BY CopiedStays DEF AckedHeld
<1> QED BY <1>3, <1>4, <1>5

LEMMA ReachedKept ==
  ASSUME TypeOK, Reached, NEW p \in Procs, Careful(p), received' = received
  PROVE  Reached'
BY DEF Reached, Careful, ChatAuthor

\* A mapping with a reply keeps it.
LEMMA MarkedStays ==
  ASSUME TypeOK, Reached, NEW p \in Procs, Careful(p), NEW k \in DOMAIN mappings, Marked(k)
  PROVE  Marked(k)'
<1>1. PICK r \in received : /\ r.to = mappings[k].user
                            /\ r.via = mappings[k].owner \/ chat[r.via].buttons = k
  BY DEF Marked
<1>2. r.via \in DOMAIN chat /\ k # 0
  BY Places DEF Reached
<1> QED BY <1>1, <1>2 DEF Marked, Careful

LEMMA MarksKept ==
  ASSUME TypeOK, Reached, Marks, NEW p \in Procs, Careful(p),
         \A k \in DOMAIN mappings' : mappings'[k].status = "replied" =>
             k \in DOMAIN mappings /\ mappings[k].status = "replied"
  PROVE  Marks'
BY MarkedStays DEF Marks

--------------------------------------------------------------------------------
\* What is counted stays covered by the mappings: when nothing gets to be owed,
LEMMA LedgerHolds ==
  ASSUME NEW n \in Nat, NEW A, NEW B, NEW R, NEW S, IsFiniteSet(A), IsFiniteSet(S),
         B \subseteq A, R \subseteq S, n + Cardinality(A) <= Cardinality(R)
  PROVE  n + Cardinality(B) <= Cardinality(S)
<1>1. Cardinality(B) <= Cardinality(A) /\ IsFiniteSet(B)
  BY FS_Subset
<1>2. Cardinality(R) <= Cardinality(S) /\ IsFiniteSet(R)
  BY FS_Subset
<1>3. /\ Cardinality(A) \in Nat /\ Cardinality(B) \in Nat
      /\ Cardinality(R) \in Nat /\ Cardinality(S) \in Nat
  BY <1>1, <1>2, FS_CardinalityType
<1> QED BY <1>1, <1>2, <1>3

\* when one handler gets to owe, by a new mapping,
LEMMA LedgerGrows ==
  ASSUME NEW n \in Nat, NEW A, NEW B, NEW R, NEW S, IsFiniteSet(A), IsFiniteSet(S),
         NEW x \in Procs, B \subseteq A \cup {x}, R \subseteq S, NEW k \in S, k \notin R,
         n + Cardinality(A) <= Cardinality(R)
  PROVE  n + Cardinality(B) <= Cardinality(S)
<1>1. /\ IsFiniteSet(A \cup {x}) /\ IsFiniteSet(R \cup {k}) /\ IsFiniteSet(R)
      /\ Cardinality(R \cup {k}) <= Cardinality(S)
  <2>1. IsFiniteSet(A \cup {x})
    BY FS_AddElement
  <2>2. IsFiniteSet(R \cup {k}) /\ Cardinality(R \cup {k}) <= Cardinality(S)
    BY FS_Subset
  <2>3. IsFiniteSet(R)
    BY <2>2, FS_Subset
  <2> QED BY <2>1, <2>2, <2>3
<1>2. /\ Cardinality(A \cup {x}) <= Cardinality(A) + 1
      /\ Cardinality(R \cup {k}) = Cardinality(R) + 1
  <2>1. Cardinality(A \cup {x}) = IF x \in A THEN Cardinality(A) ELSE Cardinality(A) + 1
    BY FS_AddElement
  <2>2. Cardinality(R \cup {k}) = Cardinality(R) + 1
    BY <1>1, FS_AddElement
  <2>3. Cardinality(A) \in Nat
    BY FS_CardinalityType
  <2> QED BY <2>1, <2>2, <2>3
<1>3. IsFiniteSet(B) /\ Cardinality(B) <= Cardinality(A \cup {x})
  BY <1>1, FS_Subset
<1>4. /\ Cardinality(A) \in Nat /\ Cardinality(B) \in Nat /\ Cardinality(A \cup {x}) \in Nat
      /\ Cardinality(R) \in Nat /\ Cardinality(S) \in Nat
  BY <1>1, <1>3, FS_CardinalityType
<1> QED BY <1>1, <1>2, <1>3, <1>4

\* and when one is done, whether or not its row was written.
LEMMA LedgerPaid ==
  ASSUME NEW n \in Nat, NEW A, NEW B, NEW R, IsFiniteSet(A), IsFiniteSet(R), NEW x \in A,
         NEW m \in {n, n + 1}, B \subseteq A \ {x}, n + Cardinality(A) <= Cardinality(R)
  PROVE  m + Cardinality(B) <= Cardinality(R)
<1>1. IsFiniteSet(A \ {x}) /\ Cardinality(A \ {x}) = Cardinality(A) - 1
  BY FS_RemoveElement
<1>2. IsFiniteSet(B) /\ Cardinality(B) <= Cardinality(A \ {x})
  BY <1>1, FS_Subset
<1>3. /\ Cardinality(A) \in Nat /\ Cardinality(B) \in Nat /\ Cardinality(R) \in Nat
  BY <1>2, FS_CardinalityType
<1> QED BY <1>1, <1>2, <1>3

LEMMA Finite ==
  ASSUME TypeOK, NEW u, NEW steps
  PROVE  IsFiniteSet(MappingsOf(u)) /\ IsFiniteSet(Ahead(u, steps))
<1>1. IsFiniteSet(DOMAIN mappings)
  BY Places, FS_Interval
<1>2. IsFiniteSet(MappingsOf(u))
  BY <1>1, FS_Subset DEF MappingsOf
<1>3. IsFiniteSet(Ahead(u, steps))
  BY ProcsAssumption, FS_Subset DEF Ahead
<1> QED BY <1>2, <1>3

LEMMA AheadKept ==
  ASSUME NEW p \in Procs, Only(p), NEW steps,
         handler'[p].step \in steps =>
             handler[p].step \in steps /\ handler'[p].msg = handler[p].msg
  PROVE  \A u \in Users : Ahead(u, steps)' \subseteq Ahead(u, steps)
BY DEF Ahead, Only

LEMMA CountsKept ==
  ASSUME TypeOK, Counts, NEW p \in Procs, Only(p), UNCHANGED <<mappings, count, forwards>>,
         handler'[p].step \in Uncounted =>
             handler[p].step \in Uncounted /\ handler'[p].msg = handler[p].msg,
         handler'[p].step \in Unlogged =>
             handler[p].step \in Unlogged /\ handler'[p].msg = handler[p].msg
  PROVE  Counts'
<1> SUFFICES ASSUME NEW u \in Users
             PROVE  /\ count'[u] + Cardinality(Ahead(u, Uncounted)') <= Cardinality(MappingsOf(u)')
                    /\ forwards'[u] + Cardinality(Ahead(u, Unlogged)') <= Cardinality(MappingsOf(u)')
  BY DEF Counts, Backed
<1>1. MappingsOf(u)' = MappingsOf(u) /\ count' = count /\ forwards' = forwards
      /\ count[u] \in Nat /\ forwards[u] \in Nat
  BY DEF MappingsOf, TypeOK
<1>2. /\ count[u] + Cardinality(Ahead(u, Uncounted)) <= Cardinality(MappingsOf(u))
      /\ forwards[u] + Cardinality(Ahead(u, Unlogged)) <= Cardinality(MappingsOf(u))
  BY DEF Counts, Backed
<1>3. /\ Ahead(u, Uncounted)' \subseteq Ahead(u, Uncounted)
      /\ Ahead(u, Unlogged)' \subseteq Ahead(u, Unlogged)
  BY AheadKept
<1>4. /\ IsFiniteSet(MappingsOf(u)) /\ IsFiniteSet(Ahead(u, Uncounted))
      /\ IsFiniteSet(Ahead(u, Unlogged))
  BY Finite
<1>5. count[u] + Cardinality(Ahead(u, Uncounted)') <= Cardinality(MappingsOf(u))
  BY <1>1, <1>2, <1>3, <1>4, LedgerHolds
<1>6. forwards[u] + Cardinality(Ahead(u, Unlogged)') <= Cardinality(MappingsOf(u))
  BY <1>1, <1>2, <1>3, <1>4, LedgerHolds
<1> QED BY <1>1, <1>5, <1>6

--------------------------------------------------------------------------------
LEMMA Untouched ==
  ASSUME NEW p \in Procs, UNCHANGED <<chat, visible, mappings>>, received \subseteq received'
  PROVE  Careful(p)
BY DEF Careful

\* A careful step of p, right in itself, that acknowledges nothing.
LEMMA Keeps ==
  ASSUME IndInv, NEW p \in Procs, Only(p), Careful(p), NoneTaken(p), HandlerTrue(handler[p])',
         blocked' = blocked, attempts' \in Nat, attempts' >= attempts,
         \A m \in Messages : "relayed" \in answers'[m] => "relayed" \in answers[m]
  PROVE  HandlersTrue' /\ Apart' /\ AckedHeld'
<1>1. TypeOK /\ Apart /\ HandlersTrue /\ AckedHeld
  BY DEF IndInv, Sound
<1>2. ASSUME NEW q \in Procs  PROVE HandlerTrue(handler[q])'
  <2>1. CASE q = p
    BY <2>1
  <2>2. CASE q # p
    BY <1>1, <2>2, OthersForward, OthersAnswer DEF HandlerTrue
  <2> QED BY <2>1, <2>2
<1>3. HandlersTrue'
  BY <1>2 DEF HandlersTrue
<1>4. Apart'
  BY <1>1, ApartKept
<1>5. AckedHeld'
  BY <1>1, AckedKept
<1> QED BY <1>3, <1>4, <1>5

\* A step of p that deletes at most its own message, and leaves the table alone.
LEMMA QuietButCounts ==
  ASSUME IndInv, NEW p \in Procs, Only(p), NoneTaken(p), HandlerTrue(handler[p])',
         \A i \in visible : i \in visible' \/ Own(p, i),
         UNCHANGED <<chat, mappings, received, audited, blocked>>,
         attempts' \in Nat, attempts' >= attempts,
         \A m \in Messages : "relayed" \in answers'[m] => "relayed" \in answers[m]
  PROVE  Counts' => Sound'
<1>1. /\ TypeOK /\ RowsSound /\ ButtonsSound /\ Apart /\ HandlersTrue /\ AckedHeld /\ Reached
      /\ Marks /\ Audits
  BY DEF IndInv, Sound
<1>2. Careful(p)
  BY DEF Careful
<1>3. HandlersTrue' /\ Apart' /\ AckedHeld'
  BY <1>2, Keeps
<1>4. RowsSound' /\ ButtonsSound' /\ Reached' /\ Audits'
  BY <1>1 DEF RowsSound, ButtonsSound, Reached, Audits, ChatAuthor
<1>5. Marks'
  BY <1>1 DEF Marks, Marked
<1> QED BY <1>3, <1>4, <1>5 DEF Sound

LEMMA Quiet ==
  ASSUME IndInv, NEW p \in Procs, Only(p), NoneTaken(p), HandlerTrue(handler[p])',
         \A i \in visible : i \in visible' \/ Own(p, i),
         UNCHANGED <<chat, mappings, count, forwards, received, audited, blocked>>,
         handler'[p].step \in Uncounted =>
             handler[p].step \in Uncounted /\ handler'[p].msg = handler[p].msg,
         handler'[p].step \in Unlogged =>
             handler[p].step \in Unlogged /\ handler'[p].msg = handler[p].msg,
         attempts' \in Nat, attempts' >= attempts,
         \A m \in Messages : "relayed" \in answers'[m] => "relayed" \in answers[m]
  PROVE  Sound'
<1>1. Counts'
  BY CountsKept DEF IndInv, Sound
<1> QED BY <1>1, QuietButCounts

\* The same when p is done.
LEMMA QuietEnd ==
  ASSUME IndInv, NEW p \in Procs, Finish(p),
         UNCHANGED <<chat, visible, mappings, count, forwards, received, audited, blocked, attempts>>,
         \A m \in Messages : "relayed" \in answers'[m] => "relayed" \in answers[m]
  PROVE  handler' \in [Procs -> Active \cup {Idle}] /\ Sound'
<1>1. TypeOK /\ attempts \in Nat
  BY BoundAssumption DEF IndInv, TypeOK
<1>2. Only(p) /\ handler'[p] = Idle
  BY <1>1, Ends
<1>3. handler'[p].step = "idle"
  BY <1>2 DEF Idle
<1>4. HandlerTrue(handler[p])'
  BY <1>3 DEF HandlerTrue, ForwardTrue, AnswerTrue, IgnoreTrue, Holding, Mapped, Answering, Aiming
<1>5. NoneTaken(p) /\ handler'[p].step \notin Uncounted /\ handler'[p].step \notin Unlogged
  BY <1>3 DEF NoneTaken, Holds, Holding, Uncounted, Unlogged
<1>6. Sound'
  BY <1>1, <1>2, <1>4, <1>5, Quiet
<1> QED BY <1>2, <1>6 DEF Only

LEMMA EndsTrue ==
  ASSUME NEW p \in Procs, handler'[p] = Idle
  PROVE  /\ HandlerTrue(handler[p])' /\ NoneTaken(p)
         /\ handler'[p].step \notin Uncounted /\ handler'[p].step \notin Unlogged
BY DEF Idle, HandlerTrue, ForwardTrue, AnswerTrue, IgnoreTrue, Holding, Mapped, Answering, Aiming,
       NoneTaken, Holds, Uncounted, Unlogged

--------------------------------------------------------------------------------
LEMMA Posts ==
  ASSUME TypeOK, NEW m \in Messages, NEW part \in {"relay", "copy", "panel"}, NEW b \in Nat,
         Post(m, part, b)
  PROVE  /\ chat' \in Seq(Chat) /\ Len(chat') <= MaxChat /\ Len(chat) + 1 \in ChatIds
         /\ DOMAIN chat' = DOMAIN chat \cup {Len(chat) + 1} /\ Len(chat) + 1 \notin DOMAIN chat
         /\ \A i \in DOMAIN chat : chat'[i] = chat[i]
         /\ chat'[Len(chat) + 1] = [msg |-> m, part |-> part, buttons |-> b, kept |-> "all"]
         /\ visible' = visible \cup {Len(chat) + 1} /\ visible' \subseteq DOMAIN chat'
<1> DEFINE new == [msg |-> m, part |-> part, buttons |-> b, kept |-> "all"]
<1>1. new \in Chat
  BY DEF Chat
<1>2. chat \in Seq(Chat) /\ Len(chat) \in Nat /\ DOMAIN chat = 1..Len(chat) /\ Len(chat) < MaxChat
      /\ chat' = Append(chat, new) /\ visible' = visible \cup {Len(chat) + 1}
  BY Places DEF Post, TypeOK
<1>3. /\ chat' \in Seq(Chat) /\ Len(chat') = Len(chat) + 1
      /\ \A i \in 1..Len(chat) : chat'[i] = chat[i]
      /\ chat'[Len(chat) + 1] = new
  BY <1>1, <1>2, AppendProperties
<1>4. DOMAIN chat' = 1..(Len(chat) + 1)
  BY <1>3, LenProperties
<1>5. DOMAIN chat' = DOMAIN chat \cup {Len(chat) + 1} /\ Len(chat) + 1 \notin DOMAIN chat
  BY <1>2, <1>4
<1>6. Len(chat) + 1 \in ChatIds /\ Len(chat') <= MaxChat
  BY <1>2, <1>3, BoundAssumption DEF ChatIds
<1>7. visible' \subseteq DOMAIN chat'
  BY <1>2, <1>5, Places
<1> QED BY <1>2, <1>3, <1>5, <1>6, <1>7

\* A step of p that puts a message in the chat.
LEMMA PostKeeps ==
  ASSUME IndInv, NEW p \in Procs, Only(p), NoneTaken(p), HandlerTrue(handler[p])',
         NEW m \in Messages, NEW part \in {"relay", "copy", "panel"}, NEW b \in Nat,
         Post(m, part, b), b # 0 => b \in DOMAIN mappings /\ mappings[b].msg = m,
         UNCHANGED <<mappings, count, forwards, received, audited, blocked, attempts>>,
         handler'[p].step \in Uncounted =>
             handler[p].step \in Uncounted /\ handler'[p].msg = handler[p].msg,
         handler'[p].step \in Unlogged =>
             handler[p].step \in Unlogged /\ handler'[p].msg = handler[p].msg,
         \A n \in Messages : "relayed" \in answers'[n] => "relayed" \in answers[n]
  PROVE  Sound'
<1>1. /\ TypeOK /\ RowsSound /\ ButtonsSound /\ Apart /\ HandlersTrue /\ AckedHeld /\ Reached
      /\ Counts /\ Marks /\ Audits /\ attempts \in Nat
  BY BoundAssumption DEF IndInv, Sound, TypeOK
<1>2. /\ DOMAIN chat' = DOMAIN chat \cup {Len(chat) + 1}
      /\ \A i \in DOMAIN chat : chat'[i] = chat[i]
      /\ chat'[Len(chat) + 1] = [msg |-> m, part |-> part, buttons |-> b, kept |-> "all"]
      /\ visible' = visible \cup {Len(chat) + 1}
  BY <1>1, Posts
<1>3. Careful(p)
  BY <1>2 DEF Careful
<1>4. HandlersTrue' /\ Apart' /\ AckedHeld'
  BY <1>1, <1>3, Keeps
<1>5. RowsSound' /\ Reached'
  BY <1>1, <1>3, RowsKept, ReachedKept
<1>6. ButtonsSound'
  BY <1>1, <1>2, <1>3, ButtonsKept
<1>7. Marks' /\ Audits'
  BY <1>1, <1>3, MarksKept DEF Audits
<1>8. Counts'
  BY <1>1, CountsKept
<1> QED BY <1>4, <1>5, <1>6, <1>7, <1>8 DEF Sound

--------------------------------------------------------------------------------
LEMMA InitHolds == Init => IndInv
<1> SUFFICES ASSUME Init  PROVE IndInv
  OBVIOUS
<1>1. DOMAIN chat = {} /\ DOMAIN mappings = {} /\ \A p \in Procs : handler[p].step = "idle"
  BY DEF Init, Idle
<1>2. TypeOK
  BY BoundAssumption DEF Init, TypeOK
<1>3. HandlersTrue /\ Apart
  BY <1>1 DEF HandlersTrue, HandlerTrue, ForwardTrue, AnswerTrue, IgnoreTrue, Apart, Holds,
              Holding, Mapped, Answering, Aiming
<1>4. Counts
  <2>1. ASSUME NEW u \in Users
        PROVE  MappingsOf(u) = {} /\ Ahead(u, Uncounted) = {} /\ Ahead(u, Unlogged) = {}
    BY <1>1 DEF MappingsOf, Ahead, Uncounted, Unlogged
  <2>2. Cardinality({}) = 0
    BY FS_EmptySet
  <2>3. ASSUME NEW u \in Users
        PROVE  /\ count[u] + Cardinality(Ahead(u, Uncounted)) <= Cardinality(MappingsOf(u))
               /\ forwards[u] + Cardinality(Ahead(u, Unlogged)) <= Cardinality(MappingsOf(u))
    <3>1. count[u] = 0 /\ forwards[u] = 0
      BY DEF Init
    <3> QED BY <2>1, <2>2, <3>1
  <2> QED BY <2>3 DEF Counts, Backed
<1>5. RowsSound /\ ButtonsSound /\ Marks
  BY <1>1 DEF RowsSound, ButtonsSound, Marks
<1>6. AckedHeld /\ Reached /\ Audits
  BY DEF Init, AckedHeld, Reached, Audits
<1> QED BY <1>2, <1>3, <1>4, <1>5, <1>6 DEF IndInv, Sound

LEMMA AdmitKeeps ==
  ASSUME IndInv, NEW p \in Procs, NEW m \in Messages, Admit(p, m)
  PROVE  IndInv'
<1> DEFINE h == [step |-> "send", msg |-> m, own |-> 0, mapping |-> 0]
<1>1. TypeOK /\ Become(p, h) /\ attempts \in Nat
      /\ UNCHANGED <<chat, visible, mappings, count, forwards, answers, attempts, received,
                     audited, blocked>>
      /\ update' \in [Messages -> {"queued", "fetched", "confirmed"}]
  BY BoundAssumption DEF IndInv, Admit, TypeOK
<1>2. h \in Active
  BY BoundAssumption DEF Active, Forward
<1>3. Only(p) /\ handler'[p] = h
  BY <1>1, <1>2, Becomes
<1>4. handler'[p].step = "send"
  BY <1>3
<1>5. HandlerTrue(handler[p])' /\ NoneTaken(p)
      /\ handler'[p].step \notin Uncounted /\ handler'[p].step \notin Unlogged
  BY <1>4 DEF HandlerTrue, ForwardTrue, AnswerTrue, IgnoreTrue, Holding, Mapped, Answering,
              Aiming, NoneTaken, Holds, Uncounted, Unlogged
<1>6. Sound'
  BY <1>1, <1>3, <1>5, Quiet
<1>7. TypeOK'
  BY <1>1, <1>3 DEF TypeOK, Only
<1> QED BY <1>6, <1>7 DEF IndInv

\* The message is the handler's own from the moment it is in the chat.
LEMMA SendKeeps ==
  ASSUME IndInv, NEW p \in Procs, SendRichOwner(p)
  PROVE  IndInv'
<1>1. TypeOK /\ handler[p] \in Forward
      /\ UNCHANGED <<update, mappings, count, forwards, answers, attempts, received, audited,
                     blocked>>
  BY StepKinds DEF IndInv, SendRichOwner, At
<1>2. PICK m \in Messages : m = handler[p].msg
  BY <1>1 DEF Forward
<1>3. Post(m, "relay", 0)
  BY <1>2 DEF SendRichOwner
<1> DEFINE h == [handler[p] EXCEPT !.step = "map", !.own = Len(chat) + 1]
<1>4. /\ Len(chat) + 1 \in ChatIds /\ Len(chat) + 1 \notin DOMAIN chat
      /\ chat' \in Seq(Chat) /\ Len(chat') <= MaxChat
      /\ chat'[Len(chat) + 1] = [msg |-> m, part |-> "relay", buttons |-> 0, kept |-> "all"]
      /\ Len(chat) + 1 \in visible' /\ visible' \subseteq DOMAIN chat'
  BY <1>1, <1>3, Posts
<1>5. h \in Forward /\ h.step = "map" /\ h.own = Len(chat) + 1 /\ h.msg = m
  <2>1. Len(chat) + 1 \in 0..MaxChat
    BY <1>4, BoundAssumption DEF ChatIds
  <2> QED BY <1>1, <1>2, <2>1 DEF Forward
<1>6. Only(p) /\ handler'[p] = h
  BY <1>1, <1>5 DEF SendRichOwner, TypeOK, Active, Only
<1> HIDE DEF h
<1>7. HandlerTrue(handler[p])' /\ NoneTaken(p)
      /\ handler'[p].step \notin Uncounted /\ handler'[p].step \notin Unlogged
  BY <1>4, <1>5, <1>6 DEF HandlerTrue, ForwardTrue, HeldTrue, AnswerTrue, IgnoreTrue, Holding,
         Mapped, Answering, Aiming, NoneTaken, Holds, Uncounted, Unlogged
<1>8. Sound'
  BY <1>1, <1>3, <1>6, <1>7, PostKeeps
<1>9. TypeOK'
  BY <1>1, <1>4, <1>6 DEF TypeOK, Only
<1> QED BY <1>8, <1>9 DEF IndInv

LEMMA TellType ==
  ASSUME TypeOK, NEW p \in Procs, handler[p] \in Forward,
         NEW what \in {"relayed", "refused"}, Tell(p, what)
  PROVE  /\ answers' \in [Messages -> SUBSET {"relayed", "refused"}]
         /\ what = "refused" =>
              \A m \in Messages : "relayed" \in answers'[m] => "relayed" \in answers[m]
         /\ \A m \in Messages : "relayed" \in answers'[m] =>
              "relayed" \in answers[m] \/ m = handler[p].msg
<1>1. PICK m \in Messages : m = handler[p].msg
  BY DEF Forward
<1>2. answers' = answers \/ answers' = [answers EXCEPT ![m] = @ \cup {what}]
  BY <1>1 DEF Tell
<1>3. answers \in [Messages -> SUBSET {"relayed", "refused"}]
  BY DEF TypeOK
<1>4. ASSUME NEW n \in Messages
      PROVE  answers'[n] = answers[n] \/ (n = m /\ answers'[n] = answers[n] \cup {what})
  BY <1>2, <1>3
<1>5. answers' \in [Messages -> SUBSET {"relayed", "refused"}]
  BY <1>2, <1>3
<1> QED BY <1>1, <1>4, <1>5

LEMMA SendFailsKeeps ==
  ASSUME IndInv, NEW p \in Procs, SendFails(p)
  PROVE  IndInv'
<1>1. TypeOK /\ handler[p] \in Forward /\ Tell(p, "refused") /\ Finish(p)
      /\ UNCHANGED <<update, mappings, count, forwards, attempts, received, audited, blocked>>
  BY StepKinds DEF IndInv, SendFails, At, Tell
<1>2. PICK m \in Messages : m = handler[p].msg
  BY <1>1 DEF Forward
<1>3. Post(m, "relay", 0) \/ UNCHANGED <<chat, visible>>
  BY <1>2 DEF SendFails
<1>4. Only(p) /\ handler'[p] = Idle
  BY <1>1, Ends
<1>5. /\ answers' \in [Messages -> SUBSET {"relayed", "refused"}]
      /\ \A n \in Messages : "relayed" \in answers'[n] => "relayed" \in answers[n]
  BY <1>1, TellType
<1>6. CASE Post(m, "relay", 0)
  <2>1. Sound'
    BY <1>1, <1>4, <1>5, <1>6, EndsTrue, PostKeeps
  <2>2. chat' \in Seq(Chat) /\ Len(chat') <= MaxChat /\ visible' \subseteq DOMAIN chat'
    BY <1>1, <1>6, Posts
  <2>3. TypeOK'
    BY <1>1, <1>4, <1>5, <2>2 DEF TypeOK, Only
  <2> QED BY <2>1, <2>3 DEF IndInv
<1>7. CASE UNCHANGED <<chat, visible>>
  <2>1. Sound'
    BY <1>1, <1>5, <1>7, QuietEnd
  <2>2. TypeOK'
    BY <1>1, <1>4, <1>5, <1>7 DEF TypeOK, Only
  <2> QED BY <2>1, <2>2 DEF IndInv
<1> QED BY <1>3, <1>6, <1>7

--------------------------------------------------------------------------------
LEMMA Appends ==
  ASSUME TypeOK, NEW row \in Mapping, mappings' = Append(mappings, row)
  PROVE  /\ mappings' \in Seq(Mapping) /\ Len(mappings) + 1 \notin DOMAIN mappings
         /\ DOMAIN mappings' = DOMAIN mappings \cup {Len(mappings) + 1}
         /\ IsFiniteSet(DOMAIN mappings')
         /\ \A k \in DOMAIN mappings : mappings'[k] = mappings[k]
         /\ mappings'[Len(mappings) + 1] = row
<1>1. mappings \in Seq(Mapping) /\ Len(mappings) \in Nat /\ DOMAIN mappings = 1..Len(mappings)
  BY Places DEF TypeOK
<1>2. /\ mappings' \in Seq(Mapping) /\ Len(mappings') = Len(mappings) + 1
      /\ \A k \in 1..Len(mappings) : mappings'[k] = mappings[k]
      /\ mappings'[Len(mappings) + 1] = row
  BY <1>1, AppendProperties
<1>3. DOMAIN mappings' = 1..(Len(mappings) + 1)
  BY <1>2, LenProperties
<1>4. IsFiniteSet(DOMAIN mappings')
  BY <1>1, <1>3, FS_Interval
<1> QED BY <1>1, <1>2, <1>3, <1>4

\* A new mapping of a's pays for one handler with a message of a's.
LEMMA CountsGrow ==
  ASSUME TypeOK, Counts, NEW p \in Procs, Only(p), UNCHANGED <<count, forwards>>,
         NEW row \in Mapping, mappings' = Append(mappings, row),
         handler'[p].step \in Unlogged => AuthorOf[handler'[p].msg] = row.user
  PROVE  Counts'
<1> SUFFICES ASSUME NEW u \in Users
             PROVE  /\ count'[u] + Cardinality(Ahead(u, Uncounted)') <= Cardinality(MappingsOf(u)')
                    /\ forwards'[u] + Cardinality(Ahead(u, Unlogged)') <= Cardinality(MappingsOf(u)')
  BY DEF Counts, Backed
<1> DEFINE k == Len(mappings) + 1
<1>1. /\ k \notin MappingsOf(u) /\ MappingsOf(u) \subseteq MappingsOf(u)'
      /\ u = row.user => k \in MappingsOf(u)'
      /\ IsFiniteSet(DOMAIN mappings')
  BY Appends DEF MappingsOf
<1>2. IsFiniteSet(MappingsOf(u)')
  BY <1>1, FS_Subset DEF MappingsOf
<1>3. /\ count[u] + Cardinality(Ahead(u, Uncounted)) <= Cardinality(MappingsOf(u))
      /\ forwards[u] + Cardinality(Ahead(u, Unlogged)) <= Cardinality(MappingsOf(u))
      /\ count[u] \in Nat /\ forwards[u] \in Nat /\ count' = count /\ forwards' = forwards
  BY DEF Counts, Backed, TypeOK
<1>4. IsFiniteSet(Ahead(u, Uncounted)) /\ IsFiniteSet(Ahead(u, Unlogged))
  BY Finite
<1>5. CASE u = row.user
  <2>1. /\ Ahead(u, Uncounted)' \subseteq Ahead(u, Uncounted) \cup {p}
        /\ Ahead(u, Unlogged)' \subseteq Ahead(u, Unlogged) \cup {p}
    BY DEF Ahead, Only
  <2>2. k \in MappingsOf(u)'
    BY <1>1, <1>5
  <2> HIDE DEF k
  <2>3. count[u] + Cardinality(Ahead(u, Uncounted)') <= Cardinality(MappingsOf(u)')
    BY <1>1, <1>2, <1>3, <1>4, <2>1, <2>2, LedgerGrows
  <2>4. forwards[u] + Cardinality(Ahead(u, Unlogged)') <= Cardinality(MappingsOf(u)')
    BY <1>1, <1>2, <1>3, <1>4, <2>1, <2>2, LedgerGrows
  <2> QED BY <1>3, <2>3, <2>4
<1>6. CASE u # row.user
  <2>1. /\ Ahead(u, Uncounted)' \subseteq Ahead(u, Uncounted)
        /\ Ahead(u, Unlogged)' \subseteq Ahead(u, Unlogged)
    BY <1>6 DEF Ahead, Only, Uncounted, Unlogged
  <2>2. count[u] + Cardinality(Ahead(u, Uncounted)') <= Cardinality(MappingsOf(u)')
    BY <1>1, <1>2, <1>3, <1>4, <2>1, LedgerHolds
  <2>3. forwards[u] + Cardinality(Ahead(u, Unlogged)') <= Cardinality(MappingsOf(u)')
    BY <1>1, <1>2, <1>3, <1>4, <2>1, LedgerHolds
  <2> QED BY <1>3, <2>2, <2>3
<1> QED BY <1>5, <1>6

\* The mapping made is that of the handler's own message; if it is not the
\* handler's to know, the handler forwards nothing more.
LEMMA MapKeeps ==
  ASSUME IndInv, NEW p \in Procs, CreateMessageMapping(p)
  PROVE  IndInv'
<1>1. /\ TypeOK /\ RowsSound /\ ButtonsSound /\ Apart /\ HandlersTrue /\ AckedHeld /\ Reached
      /\ Counts /\ Marks /\ Audits /\ attempts \in Nat
      /\ handler[p].step = "map" /\ handler[p] \in Forward
      /\ UNCHANGED <<update, chat, visible, count, forwards, attempts, received, audited,
                     blocked>>
  BY StepKinds, BoundAssumption DEF IndInv, Sound, CreateMessageMapping, At, TypeOK, Holding
<1>2. PICK m \in Messages, i \in DOMAIN chat :
        m = handler[p].msg /\ i = handler[p].own /\ HeldTrue(handler[p]) /\ i \in ChatIds
  BY <1>1, Places DEF Forward, HandlersTrue, HandlerTrue, ForwardTrue, HeldTrue, Holding
<1> DEFINE row == [owner |-> i, user |-> AuthorOf[m], msg |-> m, status |-> "open"]
           h == [handler[p] EXCEPT !.mapping = Len(mappings) + 1,
                                   !.step = IF m \in Media THEN "copy" ELSE "attach"]
<1>3. row \in Mapping
  BY <1>2, AuthorAssumption DEF Mapping
<1>4. PICK o \in Outcome("store") :
        /\ mappings' = IF o.took THEN Append(mappings, row) ELSE mappings
        /\ \/ o.ok /\ handler' = [handler EXCEPT ![p] = h] /\ UNCHANGED answers
           \/ ~ o.ok /\ GoTo(p, "orphan") /\ UNCHANGED answers
           \/ ~ o.ok /\ Tell(p, "refused")
  BY <1>2 DEF CreateMessageMapping
<1>5. o.took \in BOOLEAN /\ (o.ok => o.took)
  BY OutcomeType
<1>6. /\ h \in Forward /\ h.step = (IF m \in Media THEN "copy" ELSE "attach")
      /\ h.mapping = Len(mappings) + 1 /\ h.msg = m /\ h.own = i
  <2>1. Len(mappings) + 1 \in Nat
    BY <1>1, Places
  <2> QED BY <1>1, <1>2, <2>1 DEF Forward
<1> HIDE DEF h
<1>7. /\ answers' \in [Messages -> SUBSET {"relayed", "refused"}]
      /\ \A n \in Messages : "relayed" \in answers'[n] => "relayed" \in answers[n]
  <2>1. CASE UNCHANGED answers
    BY <1>1, <2>1 DEF TypeOK
  <2>2. CASE Tell(p, "refused")
    BY <1>1, <2>2, TellType
  <2> QED BY <1>4, <2>1, <2>2
<1>8. \/ o.ok /\ Only(p) /\ handler'[p] = h
      \/ /\ ~ o.ok /\ Only(p) /\ handler'[p].step = "orphan"
         /\ handler'[p].msg = m /\ handler'[p].own = i
      \/ ~ o.ok /\ Only(p) /\ handler'[p] = Idle
  <2>1. CASE o.ok
    BY <1>1, <1>4, <1>6, <2>1 DEF TypeOK, Active, Only
  <2>2. CASE ~ o.ok /\ GoTo(p, "orphan")
    BY <1>1, <1>2, <2>2, ForwardGoes DEF Holding
  <2>3. CASE ~ o.ok /\ Tell(p, "refused")
    BY <1>1, <2>3, Ends DEF Tell
  <2> QED BY <1>4, <2>1, <2>2, <2>3
<1>9. NoneTaken(p)
  <2>1. handler'[p].step = "idle" \/ handler'[p].own = i
    BY <1>6, <1>8 DEF Idle
  <2>2. Own(p, i)
    BY <1>1, <1>2 DEF Own, Holds, Holding
  <2> QED BY <2>1, <2>2 DEF NoneTaken, Holds, Holding
<1>10. CASE ~ o.took
  <2>1. handler'[p].step \in {"orphan", "idle"} /\ Only(p) /\ mappings' = mappings
        /\ (handler'[p].step = "orphan" => handler'[p].msg = m /\ handler'[p].own = i)
    BY <1>4, <1>5, <1>8, <1>10 DEF Idle
  <2>2. HandlerTrue(handler[p])'
    BY <1>1, <1>2, <2>1 DEF HandlerTrue, ForwardTrue, HeldTrue, AnswerTrue, IgnoreTrue, Holding,
                            Mapped, Answering, Aiming
  <2>3. Sound'
    BY <1>1, <1>7, <1>9, <2>1, <2>2, Quiet DEF Uncounted, Unlogged
  <2>4. TypeOK'
    BY <1>1, <1>7, <2>1 DEF TypeOK, Only
  <2> QED BY <2>3, <2>4 DEF IndInv
<1>11. CASE o.took
  <2>1. mappings' = Append(mappings, row)
    BY <1>4, <1>11
  <2>2. /\ mappings' \in Seq(Mapping) /\ Len(mappings) + 1 \notin DOMAIN mappings
        /\ DOMAIN mappings' = DOMAIN mappings \cup {Len(mappings) + 1}
        /\ \A k \in DOMAIN mappings : mappings'[k] = mappings[k]
        /\ mappings'[Len(mappings) + 1] = row
    BY <1>1, <1>3, <2>1, Appends
  <2>3. Careful(p) /\ Only(p)
    BY <1>1, <1>8, <2>2 DEF Careful
  <2>4. HandlerTrue(handler[p])'
    <3>1. CASE handler'[p] = h
      <4>1. handler'[p].step \in {"copy", "attach"} /\ HeldTrue(handler[p])'
        BY <1>1, <1>2, <1>6, <3>1 DEF HeldTrue
      <4>2. MappedTrue(handler[p])'
        BY <1>1, <1>2, <1>6, <2>2, <3>1 DEF MappedTrue, HeldTrue
      <4> QED BY <4>1, <4>2 DEF HandlerTrue, ForwardTrue, AnswerTrue, IgnoreTrue, Answering, Aiming
    <3>2. CASE handler'[p].step = "orphan" /\ handler'[p].msg = m /\ handler'[p].own = i
      BY <1>1, <1>2, <3>2 DEF HandlerTrue, ForwardTrue, HeldTrue, AnswerTrue, IgnoreTrue, Holding,
                              Mapped, Answering, Aiming
    <3>3. CASE handler'[p] = Idle
      BY <3>3, EndsTrue
    <3> QED BY <1>8, <3>1, <3>2, <3>3
  <2>5. HandlersTrue' /\ Apart' /\ AckedHeld'
    BY <1>1, <1>7, <1>9, <2>3, <2>4, Keeps
  <2>6. RowsSound'
    BY <1>1, <1>2, <2>2 DEF RowsSound, HeldTrue
  <2>7. ButtonsSound' /\ Reached' /\ Audits'
    BY <1>1, <2>3, ButtonsKept, ReachedKept DEF Audits
  <2>8. Marks'
    <3>1. row.status # "replied"
      OBVIOUS
    <3> QED BY <1>1, <2>2, <2>3, <3>1, MarksKept
  <2>9. Counts'
    <3>1. handler'[p].step \in Unlogged => handler'[p].msg = m
      BY <1>6, <1>8 DEF Idle, Unlogged
    <3> QED BY <1>1, <1>3, <2>1, <2>3, <3>1, CountsGrow
  <2>10. TypeOK'
    BY <1>1, <1>7, <2>2, <2>3 DEF TypeOK, Only
  <2> QED BY <2>5, <2>6, <2>7, <2>8, <2>9, <2>10 DEF IndInv, Sound
<1> QED BY <1>5, <1>10, <1>11

--------------------------------------------------------------------------------
LEMMA DeleteOrphanKeeps ==
  ASSUME IndInv, NEW p \in Procs, DeleteOrphan(p)
  PROVE  IndInv'
<1>1. /\ TypeOK /\ handler[p].step = "orphan" /\ handler[p] \in Forward
      /\ Tell(p, "refused") /\ Finish(p) /\ attempts \in Nat
      /\ UNCHANGED <<update, chat, mappings, count, forwards, attempts, received, audited, blocked>>
  BY StepKinds, BoundAssumption DEF IndInv, DeleteOrphan, At, Tell, Holding, TypeOK
<1>2. visible' \subseteq visible /\ \A i \in visible : i \in visible' \/ Own(p, i)
  BY <1>1 DEF DeleteOrphan, Own, Holds, Holding
<1>3. Only(p) /\ handler'[p] = Idle
  BY <1>1, Ends
<1>4. /\ answers' \in [Messages -> SUBSET {"relayed", "refused"}]
      /\ \A n \in Messages : "relayed" \in answers'[n] => "relayed" \in answers[n]
  BY <1>1, TellType
<1>5. Sound'
  BY <1>1, <1>2, <1>3, <1>4, EndsTrue, Quiet
<1>6. TypeOK'
  BY <1>1, <1>2, <1>3, <1>4 DEF TypeOK, Only
<1> QED BY <1>5, <1>6 DEF IndInv

\* What a forwarding handler knows, as constants.
LEMMA ForwardFacts ==
  ASSUME IndInv, NEW p \in Procs, handler[p].step \in Holding
  PROVE  \E m \in Messages, i \in visible :
            /\ handler[p] \in Forward /\ handler[p].msg = m /\ handler[p].own = i
            /\ HeldTrue(handler[p]) /\ (handler[p].step \in Mapped => MappedTrue(handler[p]))
            /\ i \in DOMAIN chat /\ Own(p, i)
<1>1. TypeOK /\ handler[p] \in Forward /\ ForwardTrue(handler[p])
  BY StepKinds DEF IndInv, Sound, HandlersTrue, HandlerTrue
<1>2. handler[p].msg \in Messages /\ handler[p].own \in visible /\ HeldTrue(handler[p])
  BY <1>1 DEF Forward, ForwardTrue, HeldTrue
<1>3. handler[p].own \in DOMAIN chat /\ Own(p, handler[p].own)
  BY <1>1, <1>2, Places DEF Own, Holds
<1> QED BY <1>1, <1>2, <1>3 DEF ForwardTrue

LEMMA CopyKeeps ==
  ASSUME IndInv, NEW p \in Procs, CopyOwner(p)
  PROVE  IndInv'
<1>1. /\ TypeOK /\ handler[p].step = "copy" /\ attempts \in Nat
      /\ UNCHANGED <<update, mappings, count, forwards, answers, attempts, received, audited,
                     blocked>>
  BY BoundAssumption DEF IndInv, CopyOwner, At, TypeOK
<1>2. PICK m \in Messages, i \in visible :
        /\ handler[p] \in Forward /\ handler[p].msg = m /\ handler[p].own = i
        /\ HeldTrue(handler[p]) /\ MappedTrue(handler[p]) /\ i \in DOMAIN chat /\ Own(p, i)
  BY <1>1, ForwardFacts DEF Holding, Mapped
<1>3. PICK o \in Outcome("api") :
        /\ IF o.took THEN Post(m, "copy", 0) ELSE UNCHANGED <<chat, visible>>
        /\ GoTo(p, IF o.ok THEN "attach" ELSE "orphan")
  BY <1>2 DEF CopyOwner
<1>4. o.took \in BOOLEAN /\ o.ok \in BOOLEAN /\ (o.ok => o.took)
  BY OutcomeType
<1>5. /\ Only(p) /\ handler'[p].step = (IF o.ok THEN "attach" ELSE "orphan")
      /\ handler'[p].msg = m /\ handler'[p].own = i /\ handler'[p].mapping = handler[p].mapping
  BY <1>1, <1>2, <1>3, ForwardGoes DEF Holding
<1>6. NoneTaken(p) /\ handler'[p].step \notin {"copy", "forward", "idle"}
  BY <1>2, <1>5 DEF NoneTaken
<1>7. /\ handler'[p].step \in Uncounted => handler[p].step \in Uncounted /\ handler'[p].msg = handler[p].msg
      /\ handler'[p].step \in Unlogged => handler[p].step \in Unlogged /\ handler'[p].msg = handler[p].msg
  BY <1>1, <1>2, <1>5 DEF Uncounted, Unlogged
<1>8. CASE o.took
  <2>1. Post(m, "copy", 0)
    BY <1>3, <1>8
  <2>2. /\ chat' \in Seq(Chat) /\ Len(chat') <= MaxChat /\ visible' \subseteq DOMAIN chat'
        /\ chat'[i] = chat[i] /\ i \in visible' /\ Len(chat) + 1 \in visible'
        /\ chat'[Len(chat) + 1] = [msg |-> m, part |-> "copy", buttons |-> 0, kept |-> "all"]
    BY <1>1, <1>2, <2>1, Posts
  <2>3. Copied(m)'
    BY <2>2 DEF Copied
  <2>4. HandlerTrue(handler[p])'
    <3>1. HeldTrue(handler[p])' /\ MappedTrue(handler[p])'
      BY <1>1, <1>2, <1>5, <2>2, <2>3 DEF HeldTrue, MappedTrue
    <3> QED BY <1>5, <3>1 DEF HandlerTrue, ForwardTrue, AnswerTrue, IgnoreTrue, Answering, Aiming
  <2>5. Sound'
    BY <1>1, <1>5, <1>6, <1>7, <2>1, <2>4, PostKeeps
  <2>6. TypeOK'
    BY <1>1, <1>5, <2>2 DEF TypeOK, Only
  <2> QED BY <2>5, <2>6 DEF IndInv
<1>9. CASE ~ o.took
  <2>1. UNCHANGED <<chat, visible>> /\ handler'[p].step = "orphan"
    BY <1>3, <1>4, <1>5, <1>9
  <2>2. HandlerTrue(handler[p])'
    BY <1>2, <1>5, <2>1 DEF HandlerTrue, ForwardTrue, HeldTrue, AnswerTrue, IgnoreTrue, Holding,
                            Mapped, Answering, Aiming
  <2>3. Sound'
    BY <1>1, <1>5, <1>6, <1>7, <2>1, <2>2, Quiet
  <2>4. TypeOK'
    BY <1>1, <1>5, <2>1 DEF TypeOK, Only
  <2> QED BY <2>3, <2>4 DEF IndInv
<1> QED BY <1>4, <1>8, <1>9

\* Only the chat message's own handler puts buttons on it, once, and they act on
\* the mapping it made.
LEMMA AttachKeeps ==
  ASSUME IndInv, NEW p \in Procs, AttachKeyboard(p)
  PROVE  IndInv'
<1>1. /\ TypeOK /\ RowsSound /\ ButtonsSound /\ Apart /\ HandlersTrue /\ AckedHeld /\ Reached
      /\ Counts /\ Marks /\ Audits /\ attempts \in Nat /\ handler[p].step = "attach"
      /\ UNCHANGED <<update, visible, mappings, count, forwards, answers, attempts, received,
                     audited, blocked>>
  BY BoundAssumption DEF IndInv, Sound, AttachKeyboard, At, TypeOK
<1>2. PICK m \in Messages, i \in visible :
        /\ handler[p] \in Forward /\ handler[p].msg = m /\ handler[p].own = i
        /\ HeldTrue(handler[p]) /\ MappedTrue(handler[p]) /\ i \in DOMAIN chat /\ Own(p, i)
  BY <1>1, ForwardFacts DEF Holding, Mapped
<1>3. PICK k \in DOMAIN mappings :
        k = handler[p].mapping /\ mappings[k].msg = m /\ chat[i].buttons \in {0, k} /\ k \in Nat
  BY <1>1, <1>2, Places DEF MappedTrue
<1> DEFINE e == [chat[i] EXCEPT !.buttons = k]
<1>4. PICK o \in Outcome("api") :
        /\ chat' = IF o.took THEN [chat EXCEPT ![i] = e] ELSE chat
        /\ GoTo(p, IF o.ok THEN "count" ELSE "panel")
  BY <1>2, <1>3 DEF AttachKeyboard
<1>5. /\ Only(p) /\ handler'[p].step \in {"count", "panel"} /\ handler'[p].msg = m
      /\ handler'[p].own = i /\ handler'[p].mapping = k
  BY <1>1, <1>2, <1>3, <1>4, ForwardGoes DEF Holding
<1>6. /\ e \in Chat /\ e.buttons = k /\ e.msg = chat[i].msg /\ e.part = chat[i].part
      /\ chat \in Seq(Chat) /\ DOMAIN chat = 1..Len(chat)
  BY <1>1, <1>2, <1>3, Places DEF Chat, TypeOK
<1> HIDE DEF e
<1>7. /\ chat' \in Seq(Chat) /\ Len(chat') = Len(chat)
      /\ \A j \in DOMAIN chat : chat'[j] = chat[j] \/ (j = i /\ chat'[j] = e)
  <2>1. i \in 1..Len(chat)
    BY <1>2, <1>6
  <2> QED BY <1>4, <1>6, <2>1, ExceptSeq
<1>8. DOMAIN chat' = DOMAIN chat
  BY <1>6, <1>7, LenProperties
<1>9. Careful(p)
  BY <1>1, <1>2, <1>3, <1>6, <1>7, <1>8 DEF Careful
<1>10. NoneTaken(p)
  BY <1>2, <1>5 DEF NoneTaken
<1>11. HandlerTrue(handler[p])'
  <2>1. chat'[i].msg = chat[i].msg /\ chat'[i].part = chat[i].part /\ chat'[i].buttons \in {0, k}
    BY <1>2, <1>3, <1>6, <1>7
  <2>2. m \in Media => Copied(m)'
    BY <1>1, <1>2, <1>9, CopiedStays DEF MappedTrue
  <2>3. HeldTrue(handler[p])' /\ MappedTrue(handler[p])'
    BY <1>1, <1>2, <1>3, <1>5, <2>1, <2>2 DEF HeldTrue, MappedTrue
  <2> QED BY <1>5, <2>3 DEF HandlerTrue, ForwardTrue, AnswerTrue, IgnoreTrue, Answering, Aiming
<1>12. HandlersTrue' /\ Apart' /\ AckedHeld'
  BY <1>1, <1>5, <1>9, <1>10, <1>11, Keeps
<1>13. RowsSound' /\ Reached' /\ Marks' /\ Audits'
  BY <1>1, <1>9, RowsKept, ReachedKept, MarksKept DEF Audits
<1>14. ButtonsSound'
  <2>1. chat[i].msg = m
    BY <1>2 DEF HeldTrue
  <2> QED BY <1>1, <1>3, <1>6, <1>7, <1>8, <1>9, <2>1, ButtonsKept
<1>15. Counts'
  BY <1>1, <1>2, <1>5, CountsKept DEF Uncounted, Unlogged
<1>16. TypeOK'
  BY <1>1, <1>5, <1>7, <1>8 DEF TypeOK, Only
<1> QED BY <1>12, <1>13, <1>14, <1>15, <1>16 DEF IndInv, Sound

LEMMA SendPanelKeeps ==
  ASSUME IndInv, NEW p \in Procs, SendPanel(p)
  PROVE  IndInv'
<1>1. /\ TypeOK /\ handler[p].step = "panel" /\ attempts \in Nat
      /\ UNCHANGED <<update, mappings, count, forwards, answers, attempts, received, audited,
                     blocked>>
  BY BoundAssumption DEF IndInv, SendPanel, At, TypeOK
<1>2. PICK m \in Messages, i \in visible :
        /\ handler[p] \in Forward /\ handler[p].msg = m /\ handler[p].own = i
        /\ HeldTrue(handler[p]) /\ MappedTrue(handler[p]) /\ i \in DOMAIN chat /\ Own(p, i)
  BY <1>1, ForwardFacts DEF Holding, Mapped
<1>3. PICK k \in DOMAIN mappings : k = handler[p].mapping /\ mappings[k].msg = m /\ k \in Nat
  BY <1>1, <1>2, Places DEF MappedTrue
<1>4. /\ Only(p) /\ handler'[p].step = "count"
      /\ handler'[p].msg = m /\ handler'[p].own = i /\ handler'[p].mapping = k
  BY <1>1, <1>2, <1>3, ForwardGoes DEF SendPanel, Holding
<1>5. Post(m, "panel", k) \/ UNCHANGED <<chat, visible>>
  BY <1>2, <1>3 DEF SendPanel
<1>6. /\ chat' \in Seq(Chat) /\ Len(chat') <= MaxChat /\ visible' \subseteq DOMAIN chat'
      /\ \A j \in DOMAIN chat : chat'[j] = chat[j]
      /\ visible \subseteq visible'
  <2>1. CASE Post(m, "panel", k)
    BY <1>1, <1>3, <2>1, Posts
  <2>2. CASE UNCHANGED <<chat, visible>>
    BY <1>1, <2>2 DEF TypeOK
  <2> QED BY <1>5, <2>1, <2>2
<1>7. NoneTaken(p)
  BY <1>2, <1>4 DEF NoneTaken
<1>8. HandlerTrue(handler[p])'
  <2>1. chat'[i] = chat[i] /\ i \in visible'
    BY <1>2, <1>6
  <2>2. m \in Media => Copied(m)'
    <3>1. ASSUME m \in Media  PROVE Copied(m)
      BY <1>1, <1>2, <3>1 DEF MappedTrue
    <3> QED BY <1>1, <1>6, <3>1, Places DEF Copied
  <2>3. HeldTrue(handler[p])' /\ MappedTrue(handler[p])'
    BY <1>1, <1>2, <1>3, <1>4, <2>1, <2>2 DEF HeldTrue, MappedTrue
  <2> QED BY <1>4, <2>3 DEF HandlerTrue, ForwardTrue, AnswerTrue, IgnoreTrue, Answering, Aiming
<1>9. /\ handler'[p].step \in Uncounted => handler[p].step \in Uncounted /\ handler'[p].msg = handler[p].msg
      /\ handler'[p].step \in Unlogged => handler[p].step \in Unlogged /\ handler'[p].msg = handler[p].msg
  BY <1>1, <1>2, <1>4 DEF Uncounted, Unlogged
<1>10. Sound'
  <2>1. CASE Post(m, "panel", k)
    BY <1>1, <1>3, <1>4, <1>7, <1>8, <1>9, <2>1, PostKeeps
  <2>2. CASE UNCHANGED <<chat, visible>>
    BY <1>1, <1>4, <1>7, <1>8, <1>9, <2>2, Quiet
  <2> QED BY <1>5, <2>1, <2>2
<1>11. TypeOK'
  BY <1>1, <1>4, <1>6 DEF TypeOK, Only
<1> QED BY <1>10, <1>11 DEF IndInv

--------------------------------------------------------------------------------
\* A handler past its counting is one fewer to owe.
LEMMA IncrementKeeps ==
  ASSUME IndInv, NEW p \in Procs, IncrementMessageCount(p)
  PROVE  IndInv'
<1>1. /\ TypeOK /\ Counts /\ handler[p].step = "count" /\ attempts \in Nat
      /\ UNCHANGED <<update, chat, visible, mappings, forwards, answers, attempts, received,
                     audited, blocked>>
  BY BoundAssumption DEF IndInv, Sound, IncrementMessageCount, At, TypeOK
<1>2. PICK m \in Messages, i \in visible :
        /\ handler[p] \in Forward /\ handler[p].msg = m /\ handler[p].own = i
        /\ HeldTrue(handler[p]) /\ MappedTrue(handler[p]) /\ i \in DOMAIN chat /\ Own(p, i)
  BY <1>1, ForwardFacts DEF Holding, Mapped
<1>3. PICK a \in Users : a = AuthorOf[m]
  BY AuthorAssumption
<1>4. count' = count \/ count' = [count EXCEPT ![a] = @ + 1]
  BY <1>2, <1>3 DEF IncrementMessageCount
<1>5. /\ Only(p) /\ handler'[p].step = "forward"
      /\ handler'[p].msg = m /\ handler'[p].own = i /\ handler'[p].mapping = handler[p].mapping
  BY <1>1, <1>2, ForwardGoes DEF IncrementMessageCount, Holding
<1>6. HandlerTrue(handler[p])' /\ NoneTaken(p)
  <2>1. HeldTrue(handler[p])' /\ MappedTrue(handler[p])'
    BY <1>1, <1>2, <1>5 DEF HeldTrue, MappedTrue, Copied
  <2> QED BY <1>2, <1>5, <2>1 DEF HandlerTrue, ForwardTrue, AnswerTrue, IgnoreTrue, Answering, Aiming,
                                  NoneTaken
<1>7. count' \in [Users -> Nat]
  <2>1. count \in [Users -> Nat] /\ count[a] + 1 \in Nat
    BY <1>1 DEF TypeOK
  <2> QED BY <1>4, <2>1
<1>8. Counts'
  <2> SUFFICES ASSUME NEW u \in Users
               PROVE  /\ count'[u] + Cardinality(Ahead(u, Uncounted)') <= Cardinality(MappingsOf(u)')
                      /\ forwards'[u] + Cardinality(Ahead(u, Unlogged)') <= Cardinality(MappingsOf(u)')
    BY DEF Counts, Backed
  <2>1. /\ count[u] + Cardinality(Ahead(u, Uncounted)) <= Cardinality(MappingsOf(u))
        /\ forwards[u] + Cardinality(Ahead(u, Unlogged)) <= Cardinality(MappingsOf(u))
        /\ count[u] \in Nat /\ forwards[u] \in Nat /\ forwards' = forwards
        /\ MappingsOf(u)' = MappingsOf(u)
    BY <1>1 DEF Counts, Backed, TypeOK, MappingsOf
  <2>2. /\ IsFiniteSet(MappingsOf(u)) /\ IsFiniteSet(Ahead(u, Uncounted))
        /\ IsFiniteSet(Ahead(u, Unlogged))
    BY <1>1, Finite
  <2>3. /\ Ahead(u, Uncounted)' \subseteq Ahead(u, Uncounted) \ {p}
        /\ Ahead(u, Unlogged)' \subseteq Ahead(u, Unlogged)
    BY <1>1, <1>2, <1>5 DEF Ahead, Only, Uncounted, Unlogged
  <2>4. forwards[u] + Cardinality(Ahead(u, Unlogged)') <= Cardinality(MappingsOf(u))
    BY <2>1, <2>2, <2>3, LedgerHolds
  <2>5. count'[u] + Cardinality(Ahead(u, Uncounted)') <= Cardinality(MappingsOf(u))
    <3>1. CASE u = a
      <4>1. p \in Ahead(u, Uncounted)
        BY <1>1, <1>2, <1>3, <3>1 DEF Ahead, Uncounted
      <4>2. count'[u] \in {count[u], count[u] + 1}
        BY <1>1, <1>4 DEF TypeOK
      <4> QED BY <2>1, <2>2, <2>3, <4>1, <4>2, LedgerPaid
    <3>2. CASE u # a
      <4>1. count'[u] = count[u]
        BY <1>1, <1>4, <3>2 DEF TypeOK
      <4>2. Ahead(u, Uncounted)' \subseteq Ahead(u, Uncounted)
        BY <2>3
      <4>3. count[u] + Cardinality(Ahead(u, Uncounted)') <= Cardinality(MappingsOf(u))
        BY <2>1, <2>2, <4>2, LedgerHolds
      <4> QED BY <4>1, <4>3
    <3> QED BY <3>1, <3>2
  <2> QED BY <2>1, <2>4, <2>5
<1>9. Sound'
  BY <1>1, <1>5, <1>6, <1>8, QuietButCounts
<1>10. TypeOK'
  BY <1>1, <1>5, <1>7 DEF TypeOK, Only
<1> QED BY <1>9, <1>10 DEF IndInv

LEMMA AuditForwardKeeps ==
  ASSUME IndInv, NEW p \in Procs, AuditForward(p)
  PROVE  IndInv'
<1>1. /\ TypeOK /\ Counts /\ handler[p].step = "forward" /\ attempts \in Nat
      /\ UNCHANGED <<update, chat, visible, mappings, count, answers, attempts, received,
                     audited, blocked>>
  BY BoundAssumption DEF IndInv, Sound, AuditForward, At, TypeOK
<1>2. PICK m \in Messages, i \in visible :
        /\ handler[p] \in Forward /\ handler[p].msg = m /\ handler[p].own = i
        /\ HeldTrue(handler[p]) /\ MappedTrue(handler[p]) /\ i \in DOMAIN chat /\ Own(p, i)
  BY <1>1, ForwardFacts DEF Holding, Mapped
<1>3. PICK a \in Users : a = AuthorOf[m]
  BY AuthorAssumption
<1>4. forwards' = forwards \/ forwards' = [forwards EXCEPT ![a] = @ + 1]
  BY <1>2, <1>3 DEF AuditForward
<1>5. /\ Only(p) /\ handler'[p].step = "ack"
      /\ handler'[p].msg = m /\ handler'[p].own = i /\ handler'[p].mapping = handler[p].mapping
  BY <1>1, <1>2, ForwardGoes DEF AuditForward, Holding
<1>6. HandlerTrue(handler[p])' /\ NoneTaken(p)
  <2>1. HeldTrue(handler[p])' /\ MappedTrue(handler[p])'
    BY <1>1, <1>2, <1>5 DEF HeldTrue, MappedTrue, Copied
  <2> QED BY <1>2, <1>5, <2>1 DEF HandlerTrue, ForwardTrue, AnswerTrue, IgnoreTrue, Answering, Aiming,
                                  NoneTaken
<1>7. forwards' \in [Users -> Nat]
  <2>1. forwards \in [Users -> Nat] /\ forwards[a] + 1 \in Nat
    BY <1>1 DEF TypeOK
  <2> QED BY <1>4, <2>1
<1>8. Counts'
  <2> SUFFICES ASSUME NEW u \in Users
               PROVE  /\ count'[u] + Cardinality(Ahead(u, Uncounted)') <= Cardinality(MappingsOf(u)')
                      /\ forwards'[u] + Cardinality(Ahead(u, Unlogged)') <= Cardinality(MappingsOf(u)')
    BY DEF Counts, Backed
  <2>1. /\ count[u] + Cardinality(Ahead(u, Uncounted)) <= Cardinality(MappingsOf(u))
        /\ forwards[u] + Cardinality(Ahead(u, Unlogged)) <= Cardinality(MappingsOf(u))
        /\ count[u] \in Nat /\ forwards[u] \in Nat /\ count' = count
        /\ MappingsOf(u)' = MappingsOf(u)
    BY <1>1 DEF Counts, Backed, TypeOK, MappingsOf
  <2>2. /\ IsFiniteSet(MappingsOf(u)) /\ IsFiniteSet(Ahead(u, Uncounted))
        /\ IsFiniteSet(Ahead(u, Unlogged))
    BY <1>1, Finite
  <2>3. /\ Ahead(u, Uncounted)' \subseteq Ahead(u, Uncounted)
        /\ Ahead(u, Unlogged)' \subseteq Ahead(u, Unlogged) \ {p}
    BY <1>1, <1>2, <1>5 DEF Ahead, Only, Uncounted, Unlogged
  <2>4. count[u] + Cardinality(Ahead(u, Uncounted)') <= Cardinality(MappingsOf(u))
    BY <2>1, <2>2, <2>3, LedgerHolds
  <2>5. forwards'[u] + Cardinality(Ahead(u, Unlogged)') <= Cardinality(MappingsOf(u))
    <3>1. CASE u = a
      <4>1. p \in Ahead(u, Unlogged)
        BY <1>1, <1>2, <1>3, <3>1 DEF Ahead, Unlogged
      <4>2. forwards'[u] \in {forwards[u], forwards[u] + 1}
        BY <1>1, <1>4 DEF TypeOK
      <4> QED BY <2>1, <2>2, <2>3, <4>1, <4>2, LedgerPaid
    <3>2. CASE u # a
      <4>1. forwards'[u] = forwards[u]
        BY <1>1, <1>4, <3>2 DEF TypeOK
      <4>2. Ahead(u, Unlogged)' \subseteq Ahead(u, Unlogged)
        BY <2>3
      <4>3. forwards[u] + Cardinality(Ahead(u, Unlogged)') <= Cardinality(MappingsOf(u))
        BY <2>1, <2>2, <4>2, LedgerHolds
      <4> QED BY <4>1, <4>3
    <3> QED BY <3>1, <3>2
  <2> QED BY <2>1, <2>4, <2>5
<1>9. Sound'
  BY <1>1, <1>5, <1>6, <1>8, QuietButCounts
<1>10. TypeOK'
  BY <1>1, <1>5, <1>7 DEF TypeOK, Only
<1> QED BY <1>9, <1>10 DEF IndInv

\* What the handler acknowledges it holds until this very step, and no one after.
LEMMA AcknowledgeKeeps ==
  ASSUME IndInv, NEW p \in Procs, Acknowledge(p)
  PROVE  IndInv'
<1>1. /\ TypeOK /\ RowsSound /\ ButtonsSound /\ Apart /\ HandlersTrue /\ AckedHeld /\ Reached
      /\ Counts /\ Marks /\ Audits /\ attempts \in Nat /\ handler[p].step = "ack"
      /\ Tell(p, "relayed") /\ Finish(p)
      /\ UNCHANGED <<update, chat, visible, mappings, count, forwards, attempts, received,
                     audited, blocked>>
  BY BoundAssumption DEF IndInv, Sound, Acknowledge, At, Tell, TypeOK
<1>2. PICK m \in Messages, i \in visible :
        /\ handler[p] \in Forward /\ handler[p].msg = m /\ handler[p].own = i
        /\ HeldTrue(handler[p]) /\ MappedTrue(handler[p]) /\ i \in DOMAIN chat /\ Own(p, i)
  BY <1>1, ForwardFacts DEF Holding, Mapped
<1>3. Only(p) /\ handler'[p] = Idle
  BY <1>1, Ends
<1>4. /\ answers' \in [Messages -> SUBSET {"relayed", "refused"}]
      /\ \A n \in Messages : "relayed" \in answers'[n] => "relayed" \in answers[n] \/ n = m
  BY <1>1, <1>2, TellType
<1>5. HandlerTrue(handler[p])' /\ NoneTaken(p)
      /\ handler'[p].step \notin Uncounted /\ handler'[p].step \notin Unlogged
  BY <1>3, EndsTrue
<1>6. Careful(p) /\ ~ Holds(p)'
  BY <1>1, <1>3, Untouched DEF Holds, Idle, Holding
<1>7. HandlersTrue'
  <2>1. ASSUME NEW q \in Procs  PROVE HandlerTrue(handler[q])'
    <3>1. CASE q = p
      BY <1>5, <3>1
    <3>2. CASE q # p
      BY <1>1, <1>3, <1>6, <3>2, OthersForward, OthersAnswer DEF HandlerTrue
    <3> QED BY <3>1, <3>2
  <2> QED BY <2>1 DEF HandlersTrue
<1>8. Apart'
  BY <1>1, <1>3, <1>5, ApartKept
<1>9. AckedHeld'
  <2>1. ASSUME NEW j, Free(j) \/ j = i  PROVE Free(j)'
    <3> SUFFICES ASSUME NEW q \in Procs, Own(q, j)'  PROVE FALSE
      BY DEF Free
    <3>1. q # p /\ Own(q, j)
      BY <1>3, <1>6 DEF Own, Holds, Only
    <3> QED BY <1>1, <1>2, <2>1, <3>1 DEF Free, Apart, Own
  <2>2. handler[p].mapping \in DOMAIN mappings /\ mappings[handler[p].mapping].owner = i
        /\ chat[i].msg = m /\ chat[i].part = "relay" /\ (m \in Media => Copied(m))
    BY <1>1, <1>2 DEF HeldTrue, MappedTrue
  <2>3. ASSUME NEW n \in Messages, "relayed" \in answers'[n]
        PROVE  \E j \in visible, k \in DOMAIN mappings :
                  /\ Free(j)' /\ chat[j].msg = n /\ chat[j].part = "relay"
                  /\ mappings[k].owner = j
    <3>1. CASE "relayed" \in answers[n]
      BY <1>1, <2>1, <3>1 DEF AckedHeld
    <3>2. CASE n = m
      BY <2>1, <2>2, <3>2
    <3> QED BY <1>4, <2>3, <3>1, <3>2
  <2>4. ASSUME NEW n \in Messages, "relayed" \in answers'[n], n \in Media
        PROVE  Copied(n)'
    <3>1. Copied(n)
      BY <1>1, <1>4, <2>2, <2>4 DEF AckedHeld
    <3> QED BY <1>1, <3>1 DEF Copied
  <2> QED BY <1>1, <2>3, <2>4 DEF AckedHeld
<1>10. RowsSound' /\ ButtonsSound' /\ Reached' /\ Audits'
  BY <1>1 DEF RowsSound, ButtonsSound, Reached, Audits, ChatAuthor
<1>11. Marks'
  BY <1>1 DEF Marks, Marked
<1>12. Counts'
  BY <1>1, <1>3, <1>5, CountsKept
<1>13. TypeOK'
  BY <1>1, <1>3, <1>4 DEF TypeOK, Only
<1> QED BY <1>7, <1>8, <1>9, <1>10, <1>11, <1>12, <1>13 DEF IndInv, Sound

--------------------------------------------------------------------------------
\* The owner's handlers hold nothing and owe no count.
LEMMA OwnerStepTrue ==
  ASSUME NEW p \in Procs, handler'[p].step \in Answering \cup {"ignore", "keyboard"}
  PROVE  /\ ForwardTrue(handler[p])' /\ NoneTaken(p)
         /\ handler'[p].step \notin Uncounted /\ handler'[p].step \notin Unlogged
         /\ handler'[p].step \in Answering => IgnoreTrue(handler[p])'
         /\ handler'[p].step \notin Answering => AnswerTrue(handler[p])'
BY DEF ForwardTrue, AnswerTrue, IgnoreTrue, Holding, Mapped, Answering, Aiming, NoneTaken, Holds,
       Uncounted, Unlogged

\* A reply is aimed at the author of the message it answers.
LEMMA AimIsTrue ==
  ASSUME TypeOK, RowsSound, ButtonsSound, NEW p \in Procs, handler[p] \in Reply,
         handler[p].via \in DOMAIN chat, Aimed(handler[p])
  PROVE  mappings[handler[p].mapping].user = ChatAuthor(handler[p].via)
<1>1. handler[p].how \in {"reply", "quick"} /\ handler[p].mapping # 0
  BY Places DEF Reply, Aimed
<1>2. CASE handler[p].how = "reply"
  BY <1>2 DEF Aimed, RowsSound, ChatAuthor
<1>3. CASE handler[p].how = "quick"
  BY <1>1, <1>3 DEF Aimed, RowsSound, ButtonsSound, ChatAuthor
<1> QED BY <1>1, <1>2, <1>3

LEMMA OwnerReplyKeeps ==
  ASSUME IndInv, NEW p \in Procs, NEW i \in visible, handleOwnerReply(p, i)
  PROVE  IndInv'
<1>1. /\ TypeOK /\ attempts \in Nat /\ attempts < MaxReplies /\ attempts' = attempts + 1
      /\ i \in DOMAIN chat /\ i \in ChatIds
      /\ UNCHANGED <<update, chat, visible, mappings, count, forwards, answers, received,
                     audited, blocked>>
  BY Places, BoundAssumption DEF IndInv, handleOwnerReply, StartReply, TypeOK
<1>2. PICK c \in BOOLEAN : c = (ChatAuthor(i) \notin blocked)
  OBVIOUS
<1> DEFINE h == [step |-> "lookup", how |-> "reply", id |-> attempts + 1, via |-> i,
                 mapping |-> 0, clear |-> c]
<1>3. Become(p, h)
  BY <1>2 DEF handleOwnerReply, StartReply
<1>4. h \in Active
  BY <1>1 DEF Active, Reply
<1>5. Only(p) /\ handler'[p] = h
  BY <1>1, <1>3, <1>4, Becomes
<1>6. attempts' \in Nat /\ attempts' >= attempts /\ attempts' \in 0..MaxReplies
      /\ attempts + 1 \in 1..attempts'
  BY <1>1, BoundAssumption
<1>7. handler'[p].step = "lookup"
  BY <1>5
<1>8. AnswerTrue(handler[p])'
  <2>1. handler'[p].clear \/ ChatAuthor(i) \in blocked
    <3>1. handler'[p].clear = c
      BY <1>5
    <3> HIDE DEF h
    <3>2. CASE c = TRUE
      BY <3>1, <3>2
    <3>3. CASE c = FALSE
      BY <1>2, <3>3
    <3> QED BY <3>2, <3>3
  <2>2. handler'[p].via = i /\ handler'[p].id = attempts + 1 /\ handler'[p].how = "reply"
    BY <1>5
  <2> QED BY <1>1, <1>6, <1>7, <2>1, <2>2 DEF AnswerTrue, Aiming, ChatAuthor
<1>9. Sound'
  BY <1>1, <1>5, <1>6, <1>7, <1>8, OwnerStepTrue, Quiet DEF HandlerTrue, Answering
<1>10. TypeOK'
  BY <1>1, <1>5, <1>6 DEF TypeOK, Only
<1> QED BY <1>9, <1>10 DEF IndInv

LEMMA QuickSendKeeps ==
  ASSUME IndInv, NEW p \in Procs, NEW i \in visible, handleCallbackQuickSend(p, i)
  PROVE  IndInv'
<1>1. /\ TypeOK /\ ButtonsSound /\ attempts \in Nat /\ attempts < MaxReplies
      /\ attempts' = attempts + 1 /\ i \in DOMAIN chat /\ i \in ChatIds /\ chat[i].buttons # 0
      /\ UNCHANGED <<update, chat, visible, mappings, count, forwards, answers, received,
                     audited, blocked>>
  BY Places, BoundAssumption
     DEF IndInv, Sound, handleCallbackQuickSend, HasButtons, StartReply, TypeOK
<1>2. PICK c \in BOOLEAN : c = (ChatAuthor(i) \notin blocked)
  OBVIOUS
<1>3. PICK k \in DOMAIN mappings : k = chat[i].buttons /\ k \in Nat
  BY <1>1, Places DEF ButtonsSound
<1> DEFINE h == [step |-> "quick", how |-> "quick", id |-> attempts + 1, via |-> i,
                 mapping |-> k, clear |-> c]
<1>4. Become(p, h)
  BY <1>2, <1>3 DEF handleCallbackQuickSend, StartReply
<1>5. h \in Active
  BY <1>1, <1>3 DEF Active, Reply
<1>6. Only(p) /\ handler'[p] = h
  BY <1>1, <1>4, <1>5, Becomes
<1>7. attempts' \in Nat /\ attempts' >= attempts /\ attempts' \in 0..MaxReplies
      /\ attempts + 1 \in 1..attempts'
  BY <1>1, BoundAssumption
<1>8. handler'[p].step = "quick" /\ handler'[p].via = i /\ handler'[p].id = attempts + 1
      /\ handler'[p].how = "quick" /\ handler'[p].mapping = k
  BY <1>6
<1>9. AnswerTrue(handler[p])'
  BY <1>1, <1>3, <1>7, <1>8 DEF AnswerTrue, Aiming, Aimed
<1>10. Sound'
  BY <1>1, <1>6, <1>7, <1>8, <1>9, OwnerStepTrue, Quiet DEF HandlerTrue, Answering
<1>11. TypeOK'
  BY <1>1, <1>6, <1>7 DEF TypeOK, Only
<1> QED BY <1>10, <1>11 DEF IndInv

LEMMA IgnoreKeeps ==
  ASSUME IndInv, NEW p \in Procs, NEW i \in visible, handleCallbackIgnore(p, i)
  PROVE  IndInv'
<1>1. /\ TypeOK /\ ButtonsSound /\ attempts \in Nat
      /\ i \in DOMAIN chat /\ i \in ChatIds /\ chat[i].buttons # 0
      /\ UNCHANGED <<update, chat, visible, mappings, count, forwards, answers, attempts,
                     received, audited, blocked>>
  BY Places, BoundAssumption DEF IndInv, Sound, handleCallbackIgnore, HasButtons, TypeOK
<1>2. PICK k \in DOMAIN mappings : k = chat[i].buttons /\ k \in Nat
  BY <1>1, Places DEF ButtonsSound
<1>3. PICK s \in {"ignore", "keyboard"} : Become(p, [step |-> s, via |-> i, mapping |-> k])
  BY <1>2 DEF handleCallbackIgnore
<1> DEFINE h == [step |-> s, via |-> i, mapping |-> k]
<1>4. h \in Active
  BY <1>1, <1>2 DEF Active, Ignore
<1>5. Only(p) /\ handler'[p] = h
  BY <1>1, <1>3, <1>4, Becomes
<1>6. handler'[p].step \in {"ignore", "keyboard"} /\ handler'[p].via = i /\ handler'[p].mapping = k
  BY <1>5
<1>7. IgnoreTrue(handler[p])' /\ AnswerTrue(handler[p])'
  BY <1>1, <1>2, <1>6, OwnerStepTrue DEF IgnoreTrue, Answering
<1>8. Sound'
  BY <1>1, <1>5, <1>6, <1>7, OwnerStepTrue, Quiet DEF HandlerTrue
<1>9. TypeOK'
  BY <1>1, <1>5 DEF TypeOK, Only
<1> QED BY <1>8, <1>9 DEF IndInv

LEMMA GiveUpKeeps ==
  ASSUME IndInv, NEW p \in Procs, GiveUp(p)
  PROVE  IndInv'
<1>1. /\ TypeOK /\ Finish(p)
      /\ UNCHANGED <<update, chat, visible, mappings, count, forwards, answers, attempts,
                     received, audited, blocked>>
  BY DEF IndInv, GiveUp
<1>2. handler' \in [Procs -> Active \cup {Idle}] /\ Sound'
  BY <1>1, QuietEnd
<1>3. TypeOK'
  BY <1>1, <1>2 DEF TypeOK
<1> QED BY <1>2, <1>3 DEF IndInv

LEMMA GetMappingKeeps ==
  ASSUME IndInv, NEW p \in Procs, GetMappingByOwnerMessage(p)
  PROVE  IndInv'
<1>1. /\ TypeOK /\ attempts \in Nat /\ handler[p].step = "lookup" /\ handler[p] \in Reply
      /\ AnswerTrue(handler[p])
      /\ UNCHANGED <<update, chat, visible, mappings, count, forwards, answers, attempts,
                     received, audited, blocked>>
  BY StepKinds, BoundAssumption
     DEF IndInv, Sound, GetMappingByOwnerMessage, At, TypeOK, HandlersTrue, HandlerTrue, Answering
<1>2. PICK k \in DOMAIN mappings :
        /\ mappings[k].owner = handler[p].via
        /\ handler' = [handler EXCEPT ![p].step = "target", ![p].mapping = k]
  BY DEF GetMappingByOwnerMessage
<1> DEFINE h == [handler[p] EXCEPT !.step = "target", !.mapping = k]
<1>3. /\ h \in Reply /\ h.step = "target" /\ h.mapping = k /\ h.how = handler[p].how
      /\ h.via = handler[p].via /\ h.id = handler[p].id /\ h.clear = handler[p].clear
  <2>1. k \in Nat
    BY <1>1, Places
  <2> QED BY <1>1, <2>1 DEF Reply
<1>4. Only(p) /\ handler'[p] = h
  BY <1>1, <1>2, <1>3 DEF TypeOK, Active, Only
<1> HIDE DEF h
<1>5. AnswerTrue(handler[p])'
  BY <1>1, <1>2, <1>3, <1>4 DEF AnswerTrue, Answering, Aiming, Aimed, ChatAuthor
<1>6. Sound'
  BY <1>1, <1>3, <1>4, <1>5, OwnerStepTrue, Quiet DEF HandlerTrue, Answering
<1>7. TypeOK'
  BY <1>1, <1>4 DEF TypeOK, Only
<1> QED BY <1>6, <1>7 DEF IndInv

\* The status looked at is that of the author of the message answered.
LEMMA TargetKeeps ==
  ASSUME IndInv, NEW p \in Procs, TargetOpen(p) \/ QuickTarget(p)
  PROVE  IndInv'
<1>1. /\ TypeOK /\ RowsSound /\ ButtonsSound /\ attempts \in Nat /\ handler[p] \in Reply
      /\ handler[p].step \in {"target", "quick"} /\ AnswerTrue(handler[p]) /\ GoTo(p, "reply")
      /\ UNCHANGED <<update, chat, visible, mappings, count, forwards, answers, attempts,
                     received, audited, blocked>>
  BY StepKinds, BoundAssumption
     DEF IndInv, Sound, TargetOpen, QuickTarget, At, TypeOK, HandlersTrue, HandlerTrue, Answering
<1>2. /\ Only(p) /\ handler'[p].step = "reply" /\ handler'[p].how = handler[p].how
      /\ handler'[p].id = handler[p].id /\ handler'[p].via = handler[p].via
      /\ handler'[p].mapping = handler[p].mapping /\ handler'[p].clear = handler[p].clear
  BY <1>1, ReplyGoes DEF Answering
<1>3. handler[p].via \in DOMAIN chat /\ handler[p].id \in 1..attempts /\ Aimed(handler[p])
  BY <1>1 DEF AnswerTrue, Answering, Aiming
<1>4. handler[p].how = "reply" => handler[p].clear
  <2>1. CASE TargetOpen(p)
    <3>1. ChatAuthor(handler[p].via) \notin blocked
      BY <1>1, <1>3, <2>1, AimIsTrue DEF TargetOpen
    <3>2. handler[p].step = "target"
      BY <2>1 DEF TargetOpen, At
    <3> QED BY <1>1, <3>1, <3>2 DEF AnswerTrue
  <2>2. CASE QuickTarget(p)
    BY <1>1, <2>2 DEF QuickTarget, At, AnswerTrue
  <2> QED BY <2>1, <2>2
<1>5. AnswerTrue(handler[p])'
  <2>1. Aimed(handler[p])'
    BY <1>1, <1>2, <1>3 DEF Aimed
  <2> QED BY <1>1, <1>2, <1>3, <1>4, <2>1 DEF AnswerTrue
<1>6. Sound'
  BY <1>1, <1>2, <1>5, OwnerStepTrue, Quiet DEF HandlerTrue, Answering
<1>7. TypeOK'
  BY <1>1, <1>2 DEF TypeOK, Only
<1> QED BY <1>6, <1>7 DEF IndInv

--------------------------------------------------------------------------------
\* A reply that gets through reaches the author of the message it answers.
LEMMA SendUserKeeps ==
  ASSUME IndInv, NEW p \in Procs, SendUser(p)
  PROVE  IndInv'
<1>1. /\ TypeOK /\ RowsSound /\ ButtonsSound /\ HandlersTrue /\ Reached /\ Counts /\ Marks /\ Audits
      /\ attempts \in Nat /\ attempts <= MaxReplies
      /\ handler[p] \in Reply /\ handler[p].step = "reply" /\ AnswerTrue(handler[p])
      /\ UNCHANGED <<update, chat, visible, mappings, count, forwards, answers, attempts,
                     audited, blocked>>
  BY StepKinds, BoundAssumption
     DEF IndInv, Sound, SendUser, At, TypeOK, HandlersTrue, HandlerTrue, Answering
<1>2. handler[p].via \in DOMAIN chat /\ handler[p].id \in 1..attempts /\ Aimed(handler[p])
  BY <1>1 DEF AnswerTrue, Answering, Aiming
<1> DEFINE r == Entry(handler[p])
<1>3. mappings[handler[p].mapping].user = ChatAuthor(handler[p].via)
  BY <1>1, <1>2, AimIsTrue
<1>4. PICK o \in Outcome("api") :
        /\ received' = IF o.took THEN received \cup {r} ELSE received
        /\ IF o.ok THEN GoTo(p, "mark") ELSE Finish(p)
  BY <1>3 DEF SendUser, Entry
<1>5. o.took \in BOOLEAN /\ o.ok \in BOOLEAN /\ (o.ok => o.took)
  BY OutcomeType
<1>6. r \in [id : 1..MaxReplies, via : ChatIds, to : Users]
  <2>1. handler[p].id \in 1..MaxReplies
    BY <1>1, <1>2, BoundAssumption
  <2>2. handler[p].via \in ChatIds /\ ChatAuthor(handler[p].via) \in Users
    BY <1>1, <1>2, Places, AuthorAssumption DEF ChatAuthor, Chat
  <2> QED BY <2>1, <2>2 DEF Entry
<1>7. r.via = handler[p].via /\ r.to = ChatAuthor(handler[p].via)
  BY DEF Entry
<1> HIDE DEF r
<1>8. /\ received \subseteq received' /\ received' \subseteq received \cup {r}
      /\ received' \subseteq [id : 1..MaxReplies, via : ChatIds, to : Users]
      /\ o.ok => r \in received'
  BY <1>1, <1>4, <1>5, <1>6 DEF TypeOK
<1>9. \/ Only(p) /\ handler'[p] = Idle
      \/ /\ o.ok /\ Only(p) /\ handler'[p].step = "mark" /\ handler'[p].how = handler[p].how
         /\ handler'[p].id = handler[p].id /\ handler'[p].via = handler[p].via
         /\ handler'[p].mapping = handler[p].mapping
  <2>1. CASE o.ok
    BY <1>1, <1>4, <2>1, ReplyGoes DEF Answering
  <2>2. CASE ~ o.ok
    BY <1>1, <1>4, <2>2, Ends
  <2> QED BY <1>5, <2>1, <2>2
<1>10. Careful(p) /\ Only(p)
  BY <1>1, <1>8, <1>9, Untouched
<1>11. HandlerTrue(handler[p])' /\ NoneTaken(p)
       /\ handler'[p].step \notin Uncounted /\ handler'[p].step \notin Unlogged
  <2>1. CASE handler'[p] = Idle
    BY <2>1, EndsTrue
  <2>2. CASE /\ o.ok /\ handler'[p].step = "mark" /\ handler'[p].how = handler[p].how
             /\ handler'[p].id = handler[p].id /\ handler'[p].via = handler[p].via
             /\ handler'[p].mapping = handler[p].mapping
    <3>1. Aimed(handler[p])'
      BY <1>1, <1>2, <2>2 DEF Aimed
    <3>2. Entry(handler[p])' \in received'
      <4>1. Entry(handler[p])' = Entry(handler[p])
        BY <1>1, <2>2 DEF Entry, ChatAuthor
      <4> QED BY <1>8, <2>2, <4>1 DEF r
    <3>3. AnswerTrue(handler[p])'
      BY <1>1, <1>2, <2>2, <3>1, <3>2 DEF AnswerTrue
    <3> QED BY <2>2, <3>3, OwnerStepTrue DEF HandlerTrue, Answering
  <2> QED BY <1>9, <2>1, <2>2
<1>12. HandlersTrue' /\ Apart' /\ AckedHeld'
  BY <1>1, <1>10, <1>11, Keeps
<1>13. RowsSound' /\ ButtonsSound'
  BY <1>1 DEF RowsSound, ButtonsSound
<1>14. Reached'
  BY <1>1, <1>2, <1>7, <1>8 DEF Reached, ChatAuthor
<1>15. Marks' /\ Audits'
  BY <1>1, <1>8, <1>10, MarksKept DEF Audits
<1>16. Counts'
  BY <1>1, <1>10, <1>11, CountsKept
<1>17. TypeOK'
  BY <1>1, <1>8, <1>10 DEF TypeOK, Only
<1> QED BY <1>12, <1>13, <1>14, <1>15, <1>16, <1>17 DEF IndInv, Sound

\* A mapping's status changes, and nothing else of the table.
LEMMA StatusSet ==
  ASSUME TypeOK, NEW k \in DOMAIN mappings, NEW s \in {"open", "replied", "ignored"},
         UpdateMappingStatus(k, s) \/ UNCHANGED mappings
  PROVE  /\ mappings' \in Seq(Mapping) /\ DOMAIN mappings' = DOMAIN mappings
         /\ \A j \in DOMAIN mappings :
              /\ mappings'[j].owner = mappings[j].owner /\ mappings'[j].user = mappings[j].user
              /\ mappings'[j].msg = mappings[j].msg
              /\ mappings'[j].status = mappings[j].status \/ (j = k /\ mappings'[j].status = s)
<1>1. /\ mappings \in Seq(Mapping) /\ DOMAIN mappings = 1..Len(mappings)
      /\ mappings[k] \in Mapping
  BY Places DEF TypeOK
<1> DEFINE e == [mappings[k] EXCEPT !.status = s]
<1>2. /\ e \in Mapping /\ e.owner = mappings[k].owner /\ e.user = mappings[k].user
      /\ e.msg = mappings[k].msg /\ e.status = s
  BY <1>1 DEF Mapping
<1>3. mappings' = [mappings EXCEPT ![k] = e] \/ mappings' = mappings
  BY DEF UpdateMappingStatus
<1> HIDE DEF e
<1>4. /\ mappings' \in Seq(Mapping) /\ Len(mappings') = Len(mappings)
      /\ \A j \in DOMAIN mappings : mappings'[j] = mappings[j] \/ (j = k /\ mappings'[j] = e)
  BY <1>1, <1>2, <1>3, ExceptSeq
<1>5. DOMAIN mappings' = DOMAIN mappings
  BY <1>1, <1>4, LenProperties
<1> QED BY <1>2, <1>4, <1>5

\* The rest of the invariant when only statuses change, for p right in itself.
LEMMA StatusKeeps ==
  ASSUME IndInv, NEW p \in Procs, Only(p), HandlerTrue(handler[p])', NoneTaken(p),
         handler'[p].step \notin Uncounted, handler'[p].step \notin Unlogged,
         NEW k \in DOMAIN mappings, NEW s \in {"open", "replied", "ignored"},
         UpdateMappingStatus(k, s) \/ UNCHANGED mappings, s = "replied" => Marked(k),
         UNCHANGED <<update, chat, visible, count, forwards, answers, attempts, received,
                     audited, blocked>>
  PROVE  IndInv'
<1>1. /\ TypeOK /\ RowsSound /\ ButtonsSound /\ Reached /\ Counts /\ Marks /\ Audits
      /\ attempts \in Nat
  BY BoundAssumption DEF IndInv, Sound, TypeOK
<1>2. /\ mappings' \in Seq(Mapping) /\ DOMAIN mappings' = DOMAIN mappings
      /\ \A j \in DOMAIN mappings :
              /\ mappings'[j].owner = mappings[j].owner /\ mappings'[j].user = mappings[j].user
              /\ mappings'[j].msg = mappings[j].msg
              /\ mappings'[j].status = mappings[j].status \/ (j = k /\ mappings'[j].status = s)
  BY <1>1, StatusSet
<1>3. Careful(p)
  BY <1>2 DEF Careful
<1>4. HandlersTrue' /\ Apart' /\ AckedHeld'
  BY <1>1, <1>3, Keeps
<1>5. RowsSound' /\ ButtonsSound' /\ Reached' /\ Audits'
  BY <1>1, <1>2, <1>3, RowsKept, ButtonsKept, ReachedKept DEF Audits
<1>6. Marks'
  BY <1>1, <1>2, <1>3, MarkedStays DEF Marks
<1>7. Counts'
  <2> SUFFICES ASSUME NEW u \in Users
               PROVE  /\ count'[u] + Cardinality(Ahead(u, Uncounted)') <= Cardinality(MappingsOf(u)')
                      /\ forwards'[u] + Cardinality(Ahead(u, Unlogged)') <= Cardinality(MappingsOf(u)')
    BY DEF Counts, Backed
  <2>1. MappingsOf(u)' = MappingsOf(u)
    BY <1>2 DEF MappingsOf
  <2>2. /\ count[u] + Cardinality(Ahead(u, Uncounted)) <= Cardinality(MappingsOf(u))
        /\ forwards[u] + Cardinality(Ahead(u, Unlogged)) <= Cardinality(MappingsOf(u))
        /\ count[u] \in Nat /\ forwards[u] \in Nat
    BY <1>1 DEF Counts, Backed, TypeOK
  <2>3. /\ Ahead(u, Uncounted)' \subseteq Ahead(u, Uncounted)
        /\ Ahead(u, Unlogged)' \subseteq Ahead(u, Unlogged)
    BY AheadKept
  <2>4. /\ IsFiniteSet(MappingsOf(u)) /\ IsFiniteSet(Ahead(u, Uncounted))
        /\ IsFiniteSet(Ahead(u, Unlogged))
    BY <1>1, Finite
  <2>5. count[u] + Cardinality(Ahead(u, Uncounted)') <= Cardinality(MappingsOf(u))
    BY <2>2, <2>3, <2>4, LedgerHolds
  <2>6. forwards[u] + Cardinality(Ahead(u, Unlogged)') <= Cardinality(MappingsOf(u))
    BY <2>2, <2>3, <2>4, LedgerHolds
  <2> QED BY <2>1, <2>5, <2>6
<1>8. TypeOK'
  BY <1>1, <1>2 DEF TypeOK, Only
<1> QED BY <1>4, <1>5, <1>6, <1>7, <1>8 DEF IndInv, Sound

\* A mapping is marked by the reply that went by it.
LEMMA MarkRepliedKeeps ==
  ASSUME IndInv, NEW p \in Procs, MarkReplied(p)
  PROVE  IndInv'
<1>1. /\ TypeOK /\ RowsSound /\ ButtonsSound
      /\ handler[p] \in Reply /\ handler[p].step = "mark" /\ AnswerTrue(handler[p])
      /\ GoTo(p, "audit")
      /\ UNCHANGED <<update, chat, visible, count, forwards, answers, attempts, received,
                     audited, blocked>>
  BY StepKinds DEF IndInv, Sound, MarkReplied, At, HandlersTrue, HandlerTrue, Answering
<1>2. /\ handler[p].via \in DOMAIN chat /\ handler[p].id \in 1..attempts /\ Aimed(handler[p])
      /\ Entry(handler[p]) \in received
  BY <1>1 DEF AnswerTrue, Answering, Aiming
<1>3. PICK k \in DOMAIN mappings : k = handler[p].mapping
  BY <1>2 DEF Aimed
<1>4. UpdateMappingStatus(k, "replied") \/ UNCHANGED mappings
  BY <1>3 DEF MarkReplied
<1>5. Marked(k)
  <2>1. mappings[k].user = ChatAuthor(handler[p].via)
    BY <1>1, <1>2, <1>3, AimIsTrue
  <2>2. handler[p].via = mappings[k].owner \/ chat[handler[p].via].buttons = k
    BY <1>1, <1>2, <1>3 DEF Aimed, Reply
  <2>3. Entry(handler[p]).to = mappings[k].user /\ Entry(handler[p]).via = handler[p].via
    BY <2>1 DEF Entry
  <2> QED BY <1>2, <2>2, <2>3 DEF Marked
<1>6. /\ Only(p) /\ handler'[p].step = "audit" /\ handler'[p].how = handler[p].how
      /\ handler'[p].id = handler[p].id /\ handler'[p].via = handler[p].via
      /\ handler'[p].mapping = handler[p].mapping
  BY <1>1, ReplyGoes DEF Answering
<1>7. AnswerTrue(handler[p])'
  <2>1. Aimed(handler[p])'
    BY <1>1, <1>2, <1>3, <1>4, <1>6, StatusSet DEF Aimed
  <2>2. Entry(handler[p])' = Entry(handler[p])
    BY <1>1, <1>6 DEF Entry, ChatAuthor
  <2> QED BY <1>1, <1>2, <1>6, <2>1, <2>2 DEF AnswerTrue
<1> QED BY <1>1, <1>4, <1>5, <1>6, <1>7, OwnerStepTrue, StatusKeeps DEF HandlerTrue, Answering

LEMMA MarkIgnoredKeeps ==
  ASSUME IndInv, NEW p \in Procs, MarkIgnored(p)
  PROVE  IndInv'
<1>1. /\ TypeOK /\ handler[p] \in Ignore /\ handler[p].step = "ignore" /\ IgnoreTrue(handler[p])
      /\ UNCHANGED <<update, chat, visible, count, forwards, answers, attempts, received,
                     audited, blocked>>
  BY StepKinds DEF IndInv, Sound, MarkIgnored, At, HandlersTrue, HandlerTrue
<1>2. PICK k \in DOMAIN mappings :
        /\ k = handler[p].mapping /\ handler[p].via \in DOMAIN chat
        /\ chat[handler[p].via].buttons = k
  BY <1>1 DEF IgnoreTrue
<1>3. UpdateMappingStatus(k, "ignored") \/ UNCHANGED mappings
  BY <1>2 DEF MarkIgnored
<1>4. GoTo(p, "keyboard") \/ Finish(p)
  BY DEF MarkIgnored
<1>5. CASE GoTo(p, "keyboard")
  <2> DEFINE h == [handler[p] EXCEPT !.step = "keyboard"]
  <2>1. /\ h \in Ignore /\ h.step = "keyboard" /\ h.via = handler[p].via
        /\ h.mapping = handler[p].mapping
    BY <1>1 DEF Ignore
  <2>2. Only(p) /\ handler'[p] = h
    BY <1>1, <1>5, <2>1 DEF GoTo, TypeOK, Active, Only
  <2> HIDE DEF h
  <2>3. IgnoreTrue(handler[p])'
    BY <1>1, <1>2, <1>3, <2>1, <2>2, StatusSet DEF IgnoreTrue
  <2>4. /\ HandlerTrue(handler[p])' /\ NoneTaken(p)
        /\ handler'[p].step \notin Uncounted /\ handler'[p].step \notin Unlogged
    BY <2>1, <2>2, <2>3, OwnerStepTrue DEF HandlerTrue, Answering
  <2> QED BY <1>1, <1>3, <2>2, <2>4, StatusKeeps
<1>6. CASE Finish(p)
  <2>1. Only(p) /\ handler'[p] = Idle
    BY <1>1, <1>6, Ends
  <2> QED BY <1>1, <1>3, <2>1, EndsTrue, StatusKeeps
<1> QED BY <1>4, <1>5, <1>6

LEMMA AuditReplyKeeps ==
  ASSUME IndInv, NEW p \in Procs, AuditReply(p)
  PROVE  IndInv'
<1>1. /\ TypeOK /\ RowsSound /\ ButtonsSound /\ Reached /\ Counts /\ Marks /\ Audits
      /\ attempts \in Nat /\ attempts <= MaxReplies /\ handler[p] \in Reply
      /\ handler[p].step = "audit" /\ AnswerTrue(handler[p]) /\ Finish(p)
      /\ UNCHANGED <<update, chat, visible, mappings, count, forwards, answers, attempts,
                     received, blocked>>
      /\ audited' \subseteq audited \cup {handler[p].id}
  BY StepKinds, BoundAssumption
     DEF IndInv, Sound, AuditReply, At, TypeOK, HandlersTrue, HandlerTrue, Answering
<1>2. Entry(handler[p]) \in received /\ Entry(handler[p]).id = handler[p].id
      /\ handler[p].id \in 1..MaxReplies
  BY <1>1, BoundAssumption DEF AnswerTrue, Answering, Entry
<1>3. Only(p) /\ handler'[p] = Idle
  BY <1>1, Ends
<1>4. /\ HandlerTrue(handler[p])' /\ NoneTaken(p)
      /\ handler'[p].step \notin Uncounted /\ handler'[p].step \notin Unlogged
  BY <1>3, EndsTrue
<1>5. Careful(p)
  BY <1>1, Untouched
<1>6. HandlersTrue' /\ Apart' /\ AckedHeld'
  BY <1>1, <1>3, <1>4, <1>5, Keeps
<1>7. RowsSound' /\ ButtonsSound' /\ Reached' /\ Marks'
  BY <1>1, <1>5, RowsKept, ButtonsKept, ReachedKept, MarksKept
<1>8. Audits'
  BY <1>1, <1>2 DEF Audits
<1>9. Counts'
  BY <1>1, <1>3, <1>4, CountsKept
<1>10. TypeOK'
  BY <1>1, <1>2, <1>3 DEF TypeOK, Only
<1> QED BY <1>6, <1>7, <1>8, <1>9, <1>10 DEF IndInv, Sound

\* The keyboard of an ignored message keeps acting on the mapping it acted on.
LEMMA IgnoredKeyboardKeeps ==
  ASSUME IndInv, NEW p \in Procs, IgnoredKeyboard(p)
  PROVE  IndInv'
<1>1. /\ TypeOK /\ RowsSound /\ ButtonsSound /\ Reached /\ Counts /\ Marks /\ Audits
      /\ attempts \in Nat /\ handler[p] \in Ignore /\ handler[p].step = "keyboard"
      /\ IgnoreTrue(handler[p]) /\ Finish(p)
      /\ UNCHANGED <<update, visible, mappings, count, forwards, answers, attempts, received,
                     audited, blocked>>
  BY StepKinds, BoundAssumption
     DEF IndInv, Sound, IgnoredKeyboard, At, TypeOK, HandlersTrue, HandlerTrue
<1>2. PICK i \in DOMAIN chat : i = handler[p].via /\ chat[i].buttons = handler[p].mapping
  BY <1>1 DEF IgnoreTrue
<1> DEFINE e == [chat[i] EXCEPT !.buttons = handler[p].mapping, !.kept = "ignored"]
<1>3. /\ chat \in Seq(Chat) /\ DOMAIN chat = 1..Len(chat) /\ chat[i] \in Chat
  BY <1>1, Places DEF TypeOK
<1>4. /\ e \in Chat /\ e.buttons = chat[i].buttons /\ e.msg = chat[i].msg /\ e.part = chat[i].part
  BY <1>2, <1>3 DEF Chat
<1>5. chat' = chat \/ chat' = [chat EXCEPT ![i] = e]
  BY <1>2, <1>3 DEF IgnoredKeyboard
<1> HIDE DEF e
<1>6. /\ chat' \in Seq(Chat) /\ Len(chat') = Len(chat)
      /\ \A j \in DOMAIN chat : chat'[j] = chat[j] \/ (j = i /\ chat'[j] = e)
  BY <1>3, <1>4, <1>5, ExceptSeq
<1>7. DOMAIN chat' = DOMAIN chat
  BY <1>3, <1>6, LenProperties
<1>8. Careful(p)
  BY <1>1, <1>4, <1>6, <1>7 DEF Careful
<1>9. Only(p) /\ handler'[p] = Idle
  BY <1>1, Ends
<1>10. /\ HandlerTrue(handler[p])' /\ NoneTaken(p)
       /\ handler'[p].step \notin Uncounted /\ handler'[p].step \notin Unlogged
  BY <1>9, EndsTrue
<1>11. HandlersTrue' /\ Apart' /\ AckedHeld'
  BY <1>1, <1>8, <1>9, <1>10, Keeps
<1>12. RowsSound' /\ Reached' /\ Marks' /\ Audits'
  BY <1>1, <1>8, RowsKept, ReachedKept, MarksKept DEF Audits
<1>13. ButtonsSound'
  BY <1>1, <1>4, <1>6, <1>7, <1>8, ButtonsKept
<1>14. Counts'
  BY <1>1, <1>9, <1>10, CountsKept
<1>15. TypeOK'
  BY <1>1, <1>6, <1>7, <1>9 DEF TypeOK, Only
<1> QED BY <1>11, <1>12, <1>13, <1>14, <1>15 DEF IndInv, Sound

--------------------------------------------------------------------------------
\* A step outside the handlers: no one takes a message or comes to owe a count.
LEMMA OutsideKeeps ==
  ASSUME IndInv, HandlersTrue',
         UNCHANGED <<chat, visible, mappings, count, forwards, answers, received, audited>>,
         \A p \in Procs : handler'[p].step \in Holding =>
             handler'[p].step = handler[p].step /\ handler'[p].own = handler[p].own
             /\ handler'[p].msg = handler[p].msg
  PROVE  Sound'
<1>1. /\ TypeOK /\ RowsSound /\ ButtonsSound /\ Apart /\ AckedHeld /\ Reached
      /\ Counts /\ Marks /\ Audits
  BY DEF IndInv, Sound
<1>2. \A p \in Procs : \A i : Own(p, i)' => Own(p, i)
  BY DEF Own, Holds
<1>3. Apart'
  BY <1>1 DEF Apart, Holds
<1>4. AckedHeld'
  <2>1. \A i : Free(i) => Free(i)'
    BY <1>2 DEF Free
  <2> QED BY <1>1, <2>1 DEF AckedHeld, Copied
<1>5. RowsSound' /\ ButtonsSound' /\ Reached' /\ Audits' /\ Marks'
  BY <1>1 DEF RowsSound, ButtonsSound, Reached, Audits, Marks, Marked, ChatAuthor
<1>6. Counts'
  <2> SUFFICES ASSUME NEW u \in Users
               PROVE  /\ count'[u] + Cardinality(Ahead(u, Uncounted)') <= Cardinality(MappingsOf(u)')
                      /\ forwards'[u] + Cardinality(Ahead(u, Unlogged)') <= Cardinality(MappingsOf(u)')
    BY DEF Counts, Backed
  <2>1. MappingsOf(u)' = MappingsOf(u) /\ count' = count /\ forwards' = forwards
    BY DEF MappingsOf
  <2>2. /\ count[u] + Cardinality(Ahead(u, Uncounted)) <= Cardinality(MappingsOf(u))
        /\ forwards[u] + Cardinality(Ahead(u, Unlogged)) <= Cardinality(MappingsOf(u))
        /\ count[u] \in Nat /\ forwards[u] \in Nat
    BY <1>1 DEF Counts, Backed, TypeOK
  <2>3. /\ Ahead(u, Uncounted)' \subseteq Ahead(u, Uncounted)
        /\ Ahead(u, Unlogged)' \subseteq Ahead(u, Unlogged)
    BY DEF Ahead, Uncounted, Unlogged, Holding
  <2>4. /\ IsFiniteSet(MappingsOf(u)) /\ IsFiniteSet(Ahead(u, Uncounted))
        /\ IsFiniteSet(Ahead(u, Unlogged))
    BY <1>1, Finite
  <2>5. count[u] + Cardinality(Ahead(u, Uncounted)') <= Cardinality(MappingsOf(u))
    BY <2>2, <2>3, <2>4, LedgerHolds
  <2>6. forwards[u] + Cardinality(Ahead(u, Unlogged)') <= Cardinality(MappingsOf(u))
    BY <2>2, <2>3, <2>4, LedgerHolds
  <2> QED BY <2>1, <2>5, <2>6
<1> QED BY <1>3, <1>4, <1>5, <1>6 DEF Sound

LEMMA BlocksKeeps ==
  ASSUME IndInv, NEW u \in Users, Blocks(u)
  PROVE  IndInv'
<1>1. /\ TypeOK /\ HandlersTrue /\ blocked' = blocked \cup {u}
      /\ UNCHANGED <<update, chat, visible, mappings, count, forwards, answers, attempts,
                     received, audited, handler>>
  BY DEF IndInv, Sound, Blocks
<1>2. HandlersTrue'
  <2> SUFFICES ASSUME NEW q \in Procs  PROVE HandlerTrue(handler[q])'
    BY DEF HandlersTrue
  <2>1. ForwardTrue(handler[q]) /\ AnswerTrue(handler[q]) /\ IgnoreTrue(handler[q])
    BY <1>1 DEF HandlersTrue, HandlerTrue
  <2>2. ForwardTrue(handler[q])' /\ IgnoreTrue(handler[q])'
    BY <1>1, <2>1 DEF ForwardTrue, HeldTrue, MappedTrue, Copied, IgnoreTrue
  <2>3. AnswerTrue(handler[q])'
    BY <1>1, <2>1 DEF AnswerTrue, Aimed, Entry, ChatAuthor
  <2> QED BY <2>2, <2>3 DEF HandlerTrue
<1>3. Sound'
  BY <1>1, <1>2, OutsideKeeps
<1>4. TypeOK'
  BY <1>1 DEF TypeOK
<1> QED BY <1>3, <1>4 DEF IndInv

\* An unblocked stranger may be answered again by the replies on their way to him.
LEMMA UnblocksKeeps ==
  ASSUME IndInv, NEW u \in Users, Unblocks(u)
  PROVE  IndInv'
<1>1. /\ TypeOK /\ HandlersTrue /\ blocked' = blocked \ {u}
      /\ UNCHANGED <<update, chat, visible, mappings, count, forwards, answers, attempts,
                     received, audited>>
      /\ handler' = [p \in Procs |->
                       IF Replies(p) /\ ChatAuthor(handler[p].via) = u
                       THEN [handler[p] EXCEPT !.clear = TRUE] ELSE handler[p]]
  BY DEF IndInv, Sound, Unblocks
<1>2. ASSUME NEW q \in Procs
      PROVE  \/ handler'[q] = handler[q] /\ ~ (Replies(q) /\ ChatAuthor(handler[q].via) = u)
             \/ /\ handler[q] \in Reply /\ handler[q].step \in Answering
                /\ handler'[q] = [handler[q] EXCEPT !.clear = TRUE]
                /\ ChatAuthor(handler[q].via) = u
  BY <1>1, StepKinds DEF Replies, Answering
<1>3. ASSUME NEW q \in Procs, handler[q] \in Reply,
             handler'[q] = [handler[q] EXCEPT !.clear = TRUE]
      PROVE  /\ handler'[q] \in Reply /\ handler'[q].step = handler[q].step
             /\ handler'[q].how = handler[q].how /\ handler'[q].id = handler[q].id
             /\ handler'[q].via = handler[q].via /\ handler'[q].mapping = handler[q].mapping
             /\ handler'[q].clear
  BY <1>3 DEF Reply
<1>4. handler' \in [Procs -> Active \cup {Idle}]
  <2>1. ASSUME NEW q \in Procs  PROVE handler'[q] \in Active \cup {Idle}
    BY <1>1, <1>2, <1>3 DEF TypeOK, Active
  <2> QED BY <1>1, <2>1
<1>5. HandlersTrue'
  <2> SUFFICES ASSUME NEW q \in Procs  PROVE HandlerTrue(handler[q])'
    BY DEF HandlersTrue
  <2>1. ForwardTrue(handler[q]) /\ AnswerTrue(handler[q]) /\ IgnoreTrue(handler[q])
    BY <1>1 DEF HandlersTrue, HandlerTrue
  <2>2. CASE handler'[q] = handler[q] /\ ~ (Replies(q) /\ ChatAuthor(handler[q].via) = u)
    <3>1. ForwardTrue(handler[q])' /\ IgnoreTrue(handler[q])'
      BY <1>1, <2>1, <2>2 DEF ForwardTrue, HeldTrue, MappedTrue, Copied, IgnoreTrue
    <3>2. handler[q].step \in {"lookup", "target"} => ChatAuthor(handler[q].via) # u
      BY <2>2 DEF Replies
    <3>3. AnswerTrue(handler[q])'
      BY <1>1, <2>1, <2>2, <3>2 DEF AnswerTrue, Aimed, Entry, ChatAuthor
    <3> QED BY <3>1, <3>3 DEF HandlerTrue
  <2>3. CASE /\ handler[q] \in Reply /\ handler[q].step \in Answering
             /\ handler'[q] = [handler[q] EXCEPT !.clear = TRUE]
             /\ ChatAuthor(handler[q].via) = u
    <3>1. /\ handler'[q].step = handler[q].step
          /\ handler'[q].how = handler[q].how /\ handler'[q].id = handler[q].id
          /\ handler'[q].via = handler[q].via /\ handler'[q].mapping = handler[q].mapping
          /\ handler'[q].clear
      BY <1>3, <2>3
    <3>2. Entry(handler[q])' = Entry(handler[q])
      BY <1>1, <3>1 DEF Entry, ChatAuthor
    <3>3. handler[q].step \in Aiming => Aimed(handler[q])'
      BY <1>1, <2>1, <3>1 DEF AnswerTrue, Aimed
    <3>4. AnswerTrue(handler[q])'
      BY <1>1, <2>1, <3>1, <3>2, <3>3 DEF AnswerTrue
    <3> QED BY <2>3, <3>1, <3>4, OwnerStepTrue DEF HandlerTrue
  <2> QED BY <1>2, <2>2, <2>3
<1>6. \A q \in Procs : handler'[q].step \in Holding => handler'[q] = handler[q]
  <2> SUFFICES ASSUME NEW q \in Procs, handler'[q].step \in Holding
               PROVE  handler'[q] = handler[q]
    OBVIOUS
  <2>1. CASE handler[q] \in Reply /\ handler'[q] = [handler[q] EXCEPT !.clear = TRUE]
    BY <1>3, <2>1 DEF Holding, Reply
  <2> QED BY <1>2, <2>1
<1>7. Sound'
  BY <1>1, <1>5, <1>6, OutsideKeeps
<1>8. TypeOK'
  BY <1>1, <1>4 DEF TypeOK
<1> QED BY <1>7, <1>8 DEF IndInv

LEMMA ConfirmKeeps ==
  ASSUME IndInv, Confirm
  PROVE  IndInv'
<1>1. /\ TypeOK /\ HandlersTrue
      /\ UNCHANGED <<chat, visible, mappings, count, forwards, answers, attempts, received,
                     audited, blocked, handler>>
      /\ update' \in [Messages -> {"queued", "fetched", "confirmed"}]
  BY DEF IndInv, Sound, Confirm, TypeOK
<1>2. HandlersTrue'
  BY <1>1 DEF HandlersTrue, HandlerTrue, ForwardTrue, HeldTrue, MappedTrue, Copied, IgnoreTrue,
              AnswerTrue, Aimed, Entry, ChatAuthor
<1>3. Sound'
  BY <1>1, <1>2, OutsideKeeps
<1>4. TypeOK'
  BY <1>1 DEF TypeOK
<1> QED BY <1>3, <1>4 DEF IndInv

\* After a crash no one holds anything: what was acknowledged stays answerable.
LEMMA RestartKeeps ==
  ASSUME IndInv, Restart
  PROVE  IndInv'
<1>1. /\ TypeOK /\ handler' = [p \in Procs |-> Idle]
      /\ UNCHANGED <<chat, visible, mappings, count, forwards, answers, attempts, received,
                     audited, blocked>>
      /\ update' \in [Messages -> {"queued", "fetched", "confirmed"}]
  BY DEF IndInv, Restart, TypeOK
<1>2. \A q \in Procs : handler'[q] = Idle /\ handler'[q].step \notin Holding
  BY <1>1 DEF Idle, Holding
<1>3. HandlersTrue'
  BY <1>2, EndsTrue DEF HandlersTrue
<1>4. Sound'
  BY <1>1, <1>2, <1>3, OutsideKeeps
<1>5. TypeOK'
  BY <1>1 DEF TypeOK
<1> QED BY <1>4, <1>5 DEF IndInv

LEMMA NothingKeeps ==
  ASSUME IndInv, UNCHANGED vars
  PROVE  IndInv'
<1>1. /\ TypeOK /\ HandlersTrue
      /\ UNCHANGED <<update, chat, visible, mappings, count, forwards, answers, attempts, received,
                     audited, blocked, handler>>
  BY DEF IndInv, Sound, vars
<1>2. HandlersTrue'
  BY <1>1 DEF HandlersTrue, HandlerTrue, ForwardTrue, HeldTrue, MappedTrue, Copied, IgnoreTrue,
              AnswerTrue, Aimed, Entry, ChatAuthor
<1>3. Sound'
  BY <1>1, <1>2, OutsideKeeps
<1>4. TypeOK'
  BY <1>1 DEF TypeOK
<1> QED BY <1>3, <1>4 DEF IndInv

LEMMA ForwardStepKeeps ==
  ASSUME IndInv, NEW p \in Procs, ForwardStep(p)
  PROVE  IndInv'
BY AdmitKeeps, SendKeeps, SendFailsKeeps, MapKeeps, DeleteOrphanKeeps, CopyKeeps, AttachKeeps,
   SendPanelKeeps, IncrementKeeps, AuditForwardKeeps, AcknowledgeKeeps
   DEF ForwardStep

LEMMA OwnerStepKeeps ==
  ASSUME IndInv, NEW p \in Procs, OwnerStep(p)
  PROVE  IndInv'
BY OwnerReplyKeeps, QuickSendKeeps, IgnoreKeeps, GiveUpKeeps, GetMappingKeeps, TargetKeeps,
   SendUserKeeps, MarkRepliedKeeps, AuditReplyKeeps, MarkIgnoredKeeps, IgnoredKeyboardKeeps
   DEF OwnerStep

--------------------------------------------------------------------------------
\* Every reachable state satisfies the strengthened invariant, whatever fails and
\* however often the process dies: what each handler holds, and what each reply
\* goes by (handlers.go:131-429, callbacks.go:70-125).
THEOREM Invariance == Spec => []IndInv
<1>1. Init => IndInv
  BY InitHolds
<1>2. IndInv /\ [Next]_vars => IndInv'
  <2> SUFFICES ASSUME IndInv, [Next]_vars  PROVE IndInv'
    OBVIOUS
  <2>1. ASSUME NEW p \in Procs, ForwardStep(p) \/ OwnerStep(p)  PROVE IndInv'
    BY <2>1, ForwardStepKeeps, OwnerStepKeeps
  <2>2. ASSUME NEW u \in Users, Blocks(u) \/ Unblocks(u)  PROVE IndInv'
    BY <2>2, BlocksKeeps, UnblocksKeeps
  <2>3. CASE Confirm
    BY <2>3, ConfirmKeeps
  <2>4. CASE Restart
    BY <2>4, RestartKeeps
  <2>5. CASE UNCHANGED vars
    BY <2>5, NothingKeeps
  <2> QED BY <2>1, <2>2, <2>3, <2>4, <2>5 DEF Next
<1> QED BY <1>1, <1>2, PTL DEF Spec

\* Every reachable state of the relay is well typed.
THEOREM TypeCorrect == Spec => []TypeOK
<1>1. IndInv => TypeOK
  BY DEF IndInv
<1> QED BY <1>1, Invariance, PTL

\* Whatever fails, crashes, is deleted or comes twice, a stranger told "relayed"
\* has his message in the owner's chat, media included, with the mapping a reply
\* to it needs (handlers.go:220, 415).
THEOREM AckedStaysAnswerable == Spec => []AckedIsAnswerable
<1>1. IndInv => AckedIsAnswerable
  <2> SUFFICES ASSUME IndInv, NEW m \in Messages, "relayed" \in answers[m]
               PROVE  Answerable(m)
    BY DEF AckedIsAnswerable
  <2>1. AckedHeld /\ RowsSound
    BY DEF IndInv, Sound
  <2>2. PICK i \in visible, k \in DOMAIN mappings :
              /\ chat[i].msg = m /\ chat[i].part = "relay" /\ mappings[k].owner = i
    BY <2>1 DEF AckedHeld
  <2>3. mappings[k].user = AuthorOf[m]
    BY <2>1, <2>2 DEF RowsSound
  <2> QED BY <2>1, <2>2, <2>3 DEF Answerable, AckedHeld, Copied
<1> QED BY <1>1, Invariance, PTL

\* The buttons of every message in the owner's chat act on its own author, for any
\* number of messages relayed at once (keyboards.go:9).
THEOREM ButtonsAlwaysMatch == Spec => []ButtonsMatch
<1>1. IndInv => ButtonsMatch
  <2> SUFFICES ASSUME IndInv  PROVE ButtonsMatch
    OBVIOUS
  <2>1. visible \subseteq DOMAIN chat /\ ButtonsSound
    BY Places DEF IndInv, Sound
  <2> QED BY <2>1 DEF ButtonsMatch, ButtonsSound
<1> QED BY <1>1, Invariance, PTL

\* message_count and the forward rows never exceed the messages that were mapped,
\* whatever fails and however often a message comes again (handlers.go:212, 216).
THEOREM CountsAreBacked == Spec => []CountsBacked
<1>1. IndInv => CountsBacked
  BY DEF IndInv, Sound, Counts, Backed, CountsBacked, Uncounted, Unlogged
<1> QED BY <1>1, Invariance, PTL

\* Every reply that reaches a stranger reaches the author of the message it answers
\* (message_mappings, handlers.go:240).
THEOREM RepliesReachAuthors == Spec => []ReplyReachesAuthor
<1>1. IndInv => ReplyReachesAuthor
  BY DEF IndInv, Sound, Reached, ReplyReachesAuthor
<1> QED BY <1>1, Invariance, PTL

\* What mappings and the audit log say was answered, was, to the right stranger
\* (handlers.go:263-268, callbacks.go:87).
THEOREM RecordsAreReceived == Spec => []RecordedWasReceived
<1>1. IndInv => RecordedWasReceived
  BY DEF IndInv, Sound, Marks, Marked, Audits, RecordedWasReceived
<1> QED BY <1>1, Invariance, PTL

\* No Telegram reply is sent to a stranger who was blocked ever since the owner
\* wrote it (handlers.go:253, 441).
THEOREM BlockedStaysUnanswered == Spec => []BlockedGetsNoReply
<1>1. IndInv => BlockedGetsNoReply
  <2> SUFFICES ASSUME IndInv, NEW p \in Procs, At(p, "reply"), handler[p].how = "reply"
               PROVE  handler[p].clear
    BY DEF BlockedGetsNoReply
  <2>1. AnswerTrue(handler[p])
    BY DEF IndInv, Sound, HandlersTrue, HandlerTrue
  <2> QED BY <2>1 DEF AnswerTrue, At
<1> QED BY <1>1, Invariance, PTL

--------------------------------------------------------------------------------
\* Buttons, kept ones or not, and the marks of mappings are no part of the chat.
LEMMA AlikeSays ==
  ASSUME TypeOK, Reached, DOMAIN chat' = DOMAIN chat, visible' = visible,
         \A i \in DOMAIN chat : chat'[i].msg = chat[i].msg /\ chat'[i].part = chat[i].part,
         DOMAIN mappings' = DOMAIN mappings,
         \A k \in DOMAIN mappings :
             mappings'[k].owner = mappings[k].owner /\ mappings'[k].user = mappings[k].user
  PROVE  /\ Shown' = Shown /\ Open' = Open
         /\ received' = received => Answers' = Answers
<1>1. visible \subseteq DOMAIN chat
  BY Places
<1>2. Shown' = Shown
  BY DEF Shown
<1>3. ASSUME NEW m \in Messages  PROVE Answerable(m)' <=> Answerable(m)
  BY <1>1 DEF Answerable
<1>4. Open' = Open
  BY <1>3 DEF Open
<1>5. ASSUME received' = received  PROVE Answers' = Answers
  BY <1>5 DEF Answers, Reached
<1> QED BY <1>2, <1>4, <1>5

LEMMA NothingSaid ==
  ASSUME UNCHANGED <<chat, visible, mappings, answers, received, audited>>
  PROVE  UNCHANGED Talk!vars
BY DEF Talk!vars, Shown, Open, Told, Answers, Answered, Answerable

\* What a stranger is told.
LEMMA ToldOf ==
  ASSUME TypeOK, NEW p \in Procs, handler[p] \in Forward,
         NEW what \in {"relayed", "refused"}, Tell(p, what)
  PROVE  /\ what = "refused" => Told' = Told
         /\ Told' = Told \/ Told' = Told \cup {handler[p].msg}
<1>1. handler[p].msg \in Messages
  BY DEF Forward
<1>2. answers' = answers
        \/ answers' = [answers EXCEPT ![handler[p].msg] = @ \cup {what}]
  BY DEF Tell
<1>3. ASSUME NEW m \in Messages
      PROVE  answers'[m] = answers[m] \/ (m = handler[p].msg /\ answers'[m] = answers[m] \cup {what})
  BY <1>1, <1>2 DEF TypeOK
<1>4. what = "refused" => Told' = Told
  BY <1>3 DEF Told
<1>5. Told \subseteq Told' /\ Told' \subseteq Told \cup {handler[p].msg}
  BY <1>3 DEF Told
<1> QED BY <1>4, <1>5

\* What a message more in the chat says.
LEMMA PostSays ==
  ASSUME IndInv, NEW m \in Messages, NEW part \in {"relay", "copy", "panel"}, NEW b \in Nat,
         Post(m, part, b), UNCHANGED <<mappings, received, audited>>, Told' = Told
  PROVE  /\ part # "copy" => Talk!Show(m)
         /\ part = "copy" /\ m \in Shown => Talk!Complete(m) \/ UNCHANGED Talk!vars
<1> DEFINE n == Len(chat) + 1
<1>1. TypeOK /\ RowsSound /\ Reached /\ visible \subseteq DOMAIN chat
  BY Places DEF IndInv, Sound
<1>2. /\ DOMAIN chat' = DOMAIN chat \cup {n} /\ n \notin DOMAIN chat
      /\ \A i \in DOMAIN chat : chat'[i] = chat[i]
      /\ chat'[n].msg = m /\ chat'[n].part = part
      /\ visible' = visible \cup {n}
  <2>1. /\ DOMAIN chat' = DOMAIN chat \cup {n} /\ n \notin DOMAIN chat
        /\ \A i \in DOMAIN chat : chat'[i] = chat[i]
        /\ chat'[n] = [msg |-> m, part |-> part, buttons |-> b, kept |-> "all"]
        /\ visible' = visible \cup {n}
    BY <1>1, Posts
  <2> HIDE DEF n
  <2> QED BY <2>1
<1> HIDE DEF n
<1>3. Shown' = Shown \cup {m}
  BY <1>2 DEF Shown
<1>4. Answers' = Answers
  BY <1>1, <1>2 DEF Answers, Reached
<1>5. Answered' = Answered
  BY DEF Answered
<1>6. ASSUME NEW x \in Messages
      PROVE  /\ Answerable(x) => Answerable(x)'
             /\ x # m \/ part # "copy" => (Answerable(x)' => Answerable(x))
  <2>1. Answerable(x) => Answerable(x)'
    BY <1>1, <1>2 DEF Answerable
  <2>2. ASSUME x # m \/ part # "copy", Answerable(x)'  PROVE Answerable(x)
    <3>1. PICK i \in visible', k \in DOMAIN mappings :
            /\ chat'[i].msg = x /\ chat'[i].part = "relay"
            /\ mappings[k].owner = i /\ mappings[k].user = AuthorOf[x]
      BY <2>2 DEF Answerable
    <3>2. i # n
      BY <1>1, <1>2, <3>1 DEF RowsSound
    <3>3. i \in visible /\ chat[i].msg = x /\ chat[i].part = "relay"
      BY <1>1, <1>2, <3>1, <3>2
    <3>4. x \in Media => \E j \in visible : chat[j].msg = x /\ chat[j].part = "copy"
      BY <1>1, <1>2, <2>2 DEF Answerable
    <3> QED BY <3>1, <3>3, <3>4 DEF Answerable
  <2> QED BY <2>1, <2>2
<1>7. CASE part # "copy"
  <2>1. Open' = Open
    BY <1>6, <1>7 DEF Open
  <2> QED BY <1>3, <1>4, <1>5, <1>7, <2>1 DEF Talk!Show
<1>8. CASE part = "copy" /\ m \in Shown
  <2>1. Open \subseteq Open' /\ Open' \subseteq Open \cup {m}
    BY <1>6 DEF Open
  <2>2. Open' = Open \/ Open' = Open \cup {m}
    BY <2>1
  <2>3. Shown' = Shown
    BY <1>3, <1>8
  <2> QED BY <1>4, <1>5, <1>8, <2>2, <2>3 DEF Talk!Complete, Talk!vars
<1> QED BY <1>7, <1>8

\* Each step of a handler that relays, as a step of the conversation.
LEMMA SendTalks ==
  ASSUME IndInv, NEW p \in Procs, SendRichOwner(p) \/ SendFails(p)
  PROVE  [Talk!Next]_(Talk!vars)
<1>1. TypeOK /\ handler[p] \in Forward /\ UNCHANGED <<mappings, received, audited>>
  BY StepKinds DEF IndInv, SendRichOwner, SendFails, At
<1>2. PICK m \in Messages : m = handler[p].msg
  BY <1>1 DEF Forward
<1>3. Post(m, "relay", 0) \/ UNCHANGED <<chat, visible>>
  BY <1>2 DEF SendRichOwner, SendFails
<1>4. Told' = Told
  <2>1. CASE SendRichOwner(p)
    BY <2>1 DEF SendRichOwner, Told
  <2>2. CASE SendFails(p)
    BY <1>1, <2>2, ToldOf DEF SendFails
  <2> QED BY <2>1, <2>2
<1>5. CASE Post(m, "relay", 0)
  BY <1>1, <1>4, <1>5, PostSays DEF Talk!Next
<1>6. CASE UNCHANGED <<chat, visible>>
  BY <1>1, <1>4, <1>6 DEF Talk!vars, Shown, Open, Answers, Answered, Answerable
<1> QED BY <1>3, <1>5, <1>6

LEMMA MapTalks ==
  ASSUME IndInv, NEW p \in Procs, CreateMessageMapping(p)
  PROVE  [Talk!Next]_(Talk!vars)
<1>1. /\ TypeOK /\ handler[p].step = "map" /\ UNCHANGED <<chat, visible, received, audited>>
  BY DEF IndInv, CreateMessageMapping, At
<1>2. PICK m \in Messages, i \in visible :
        /\ handler[p] \in Forward /\ handler[p].msg = m /\ handler[p].own = i
        /\ HeldTrue(handler[p]) /\ i \in DOMAIN chat
  BY <1>1, ForwardFacts DEF Holding
<1> DEFINE row == [owner |-> i, user |-> AuthorOf[m], msg |-> m, status |-> "open"]
<1>3. row \in Mapping
  BY <1>1, <1>2, Places, AuthorAssumption DEF Mapping
<1>4. mappings' = mappings \/ mappings' = Append(mappings, row)
  BY <1>2 DEF CreateMessageMapping
<1>5. Told' = Told
  <2>1. CASE UNCHANGED answers
    BY <2>1 DEF Told
  <2>2. CASE Tell(p, "refused")
    BY <1>1, <1>2, <2>2, ToldOf
  <2> QED BY <2>1, <2>2 DEF CreateMessageMapping
<1>6. CASE mappings' = mappings
  BY <1>1, <1>5, <1>6 DEF Talk!vars, Shown, Open, Answers, Answered, Answerable
<1>7. CASE mappings' = Append(mappings, row)
  <2>1. /\ DOMAIN mappings' = DOMAIN mappings \cup {Len(mappings) + 1}
        /\ \A k \in DOMAIN mappings : mappings'[k] = mappings[k]
        /\ mappings'[Len(mappings) + 1] = row /\ Len(mappings) + 1 \notin DOMAIN mappings
    BY <1>1, <1>3, <1>7, Appends
  <2>2. row.owner = i /\ row.status = "open" /\ chat[i].msg = m
    BY <1>2 DEF HeldTrue
  <2> DEFINE n == Len(mappings) + 1
  <2> HIDE DEF n, row
  <2>3. /\ DOMAIN mappings' = DOMAIN mappings \cup {n}
        /\ \A k \in DOMAIN mappings : mappings'[k] = mappings[k]
        /\ mappings'[n].owner = i /\ mappings'[n].status = "open"
    BY <2>1, <2>2 DEF n
  <2>4. ASSUME NEW x \in Messages
        PROVE  /\ Answerable(x) => Answerable(x)'
               /\ x # m => (Answerable(x)' => Answerable(x))
    <3>1. Answerable(x) => Answerable(x)'
      BY <1>1, <2>3 DEF Answerable
    <3>2. ASSUME x # m, Answerable(x)'  PROVE Answerable(x)
      BY <1>1, <2>2, <2>3, <3>2 DEF Answerable
    <3> QED BY <3>1, <3>2
  <2>5. Open' = Open \/ Open' = Open \cup {m}
    <3>1. Open \subseteq Open' /\ Open' \subseteq Open \cup {m}
      BY <2>4 DEF Open
    <3> QED BY <3>1
  <2>6. Answered' = Answered
    BY <2>3 DEF Answered
  <2>7. Shown' = Shown /\ Answers' = Answers /\ m \in Shown
    BY <1>1, <1>2, <2>2 DEF Shown, Answers
  <2> QED BY <1>1, <1>5, <2>5, <2>6, <2>7 DEF Talk!Next, Talk!Complete, Talk!vars
<1> QED BY <1>4, <1>6, <1>7

\* What a handler takes back is its own, so its author has not been told of it, or
\* has it in the chat once more.
LEMMA DeleteOrphanTalks ==
  ASSUME IndInv, NEW p \in Procs, DeleteOrphan(p)
  PROVE  [Talk!Next]_(Talk!vars)
<1>1. /\ TypeOK /\ handler[p].step = "orphan" /\ Tell(p, "refused")
      /\ UNCHANGED <<chat, mappings, received, audited>>
  BY DEF IndInv, DeleteOrphan, At
<1>2. PICK m \in Messages, i \in visible :
        /\ handler[p] \in Forward /\ handler[p].msg = m /\ handler[p].own = i
        /\ HeldTrue(handler[p])
  BY <1>1, ForwardFacts DEF Holding
<1>3. visible' = visible \/ visible' = visible \ {i}
  BY <1>2 DEF DeleteOrphan
<1>4. chat[i].msg = m
  BY <1>2 DEF HeldTrue
<1>5. Told' = Told
  BY <1>1, <1>2, ToldOf
<1>6. ASSUME NEW x \in Messages
      PROVE  /\ Answerable(x)' => Answerable(x)
             /\ x # m => (Answerable(x) => Answerable(x)')
  BY <1>1, <1>3, <1>4 DEF Answerable
<1>7. Open' \subseteq Open /\ Open \ {m} \subseteq Open'
  BY <1>6 DEF Open
<1>8. ASSUME m \in Told  PROVE m \in Open'
  <2>1. AckedHeld' /\ RowsSound'
    BY DeleteOrphanKeeps DEF IndInv, Sound
  <2>2. "relayed" \in answers'[m]
    BY <1>5, <1>8 DEF Told
  <2>3. PICK j \in visible', k \in DOMAIN mappings :
          /\ chat[j].msg = m /\ chat[j].part = "relay" /\ mappings[k].owner = j
    BY <1>1, <2>1, <2>2 DEF AckedHeld
  <2>4. mappings[k].user = AuthorOf[m]
    BY <1>1, <2>1, <2>3 DEF RowsSound
  <2>5. m \in Media => Copied(m)'
    BY <2>1, <2>2 DEF AckedHeld
  <2> QED BY <1>1, <2>3, <2>4, <2>5 DEF Open, Answerable, Copied
<1>9. Open' = Open \/ (m \notin Told /\ Open' = Open \ {m})
  BY <1>7, <1>8
<1>10. Shown' = Shown /\ Answers' = Answers /\ Answered' = Answered
  BY <1>1 DEF Shown, Answers, Answered
<1> QED BY <1>1, <1>5, <1>9, <1>10 DEF Talk!Next, Talk!Withdraw, Talk!vars

LEMMA CopyTalks ==
  ASSUME IndInv, NEW p \in Procs, CopyOwner(p)
  PROVE  [Talk!Next]_(Talk!vars)
<1>1. handler[p].step = "copy" /\ UNCHANGED <<mappings, answers, received, audited>>
  BY DEF CopyOwner, At
<1>2. PICK m \in Messages, i \in visible :
        handler[p].msg = m /\ handler[p].own = i /\ HeldTrue(handler[p]) /\ i \in DOMAIN chat
  BY <1>1, ForwardFacts DEF Holding
<1>3. m \in Shown /\ Told' = Told
  BY <1>1, <1>2 DEF HeldTrue, Shown, Told
<1>4. CASE Post(m, "copy", 0)
  BY <1>1, <1>3, <1>4, PostSays DEF Talk!Next
<1>5. CASE UNCHANGED <<chat, visible>>
  BY <1>1, <1>5, NothingSaid
<1> QED BY <1>2, <1>4, <1>5 DEF CopyOwner

LEMMA PanelTalks ==
  ASSUME IndInv, NEW p \in Procs, SendPanel(p)
  PROVE  [Talk!Next]_(Talk!vars)
<1>1. /\ TypeOK /\ handler[p].step = "panel"
      /\ UNCHANGED <<mappings, answers, received, audited>>
  BY DEF IndInv, SendPanel, At
<1>2. PICK m \in Messages, i \in visible :
        handler[p].msg = m /\ handler[p].own = i /\ MappedTrue(handler[p])
  BY <1>1, ForwardFacts DEF Holding, Mapped
<1>3. PICK k \in Nat : k = handler[p].mapping
  BY <1>1, <1>2, Places DEF MappedTrue
<1>4. Told' = Told
  BY <1>1 DEF Told
<1>5. CASE Post(m, "panel", k)
  BY <1>1, <1>4, <1>5, PostSays DEF Talk!Next
<1>6. CASE UNCHANGED <<chat, visible>>
  BY <1>1, <1>6, NothingSaid
<1> QED BY <1>2, <1>3, <1>5, <1>6 DEF SendPanel

LEMMA AttachTalks ==
  ASSUME IndInv, NEW p \in Procs, AttachKeyboard(p) \/ IgnoredKeyboard(p)
  PROVE  UNCHANGED Talk!vars
<1>1. TypeOK /\ Reached /\ UNCHANGED <<visible, mappings, answers, received, audited>>
  BY DEF IndInv, Sound, AttachKeyboard, IgnoredKeyboard
<1>2. DOMAIN chat' = DOMAIN chat
  BY DEF AttachKeyboard, IgnoredKeyboard
<1>3. ASSUME NEW i \in DOMAIN chat
      PROVE  chat'[i].msg = chat[i].msg /\ chat'[i].part = chat[i].part
  <2>1. chat[i] \in Chat
    BY <1>1, Places
  <2>2. CASE AttachKeyboard(p)
    BY <2>1, <2>2 DEF AttachKeyboard, Chat
  <2>3. CASE IgnoredKeyboard(p)
    BY <2>1, <2>3 DEF IgnoredKeyboard, Chat
  <2> QED BY <2>2, <2>3
<1>4. Shown' = Shown /\ Open' = Open /\ Answers' = Answers
  BY <1>1, <1>2, <1>3, AlikeSays
<1> QED BY <1>1, <1>4 DEF Talk!vars, Told, Answered

\* The author is told of what the handler holds, whole and mapped.
LEMMA AcknowledgeTalks ==
  ASSUME IndInv, NEW p \in Procs, Acknowledge(p)
  PROVE  [Talk!Next]_(Talk!vars)
<1>1. /\ TypeOK /\ RowsSound /\ handler[p].step = "ack" /\ Tell(p, "relayed")
      /\ UNCHANGED <<chat, visible, mappings, received, audited>>
  BY DEF IndInv, Sound, Acknowledge, At
<1>2. PICK m \in Messages, i \in visible :
        /\ handler[p] \in Forward /\ handler[p].msg = m /\ handler[p].own = i
        /\ HeldTrue(handler[p]) /\ MappedTrue(handler[p])
  BY <1>1, ForwardFacts DEF Holding, Mapped
<1>3. Answerable(m)
  <2>1. chat[i].msg = m /\ chat[i].part = "relay" /\ (m \in Media => Copied(m))
    BY <1>1, <1>2 DEF HeldTrue, MappedTrue
  <2>2. PICK k \in DOMAIN mappings : k = handler[p].mapping /\ mappings[k].owner = i
    BY <1>2 DEF MappedTrue
  <2>3. mappings[k].user = AuthorOf[m]
    BY <1>1, <2>1, <2>2 DEF RowsSound
  <2> QED BY <2>1, <2>2, <2>3 DEF Answerable, Copied
<1>4. m \in Open
  BY <1>3 DEF Open
<1>5. Told' = Told \/ Told' = Told \cup {m}
  BY <1>1, <1>2, ToldOf
<1>6. Shown' = Shown /\ Open' = Open /\ Answers' = Answers /\ Answered' = Answered
  BY <1>1 DEF Shown, Open, Answers, Answered, Answerable
<1> QED BY <1>1, <1>4, <1>5, <1>6 DEF Talk!Next, Talk!Tell, Talk!vars

\* Each step of a handler that answers.
LEMMA SendUserTalks ==
  ASSUME IndInv, NEW p \in Procs, SendUser(p)
  PROVE  [Talk!Next]_(Talk!vars)
<1>1. /\ TypeOK /\ RowsSound /\ ButtonsSound /\ handler[p] \in Reply /\ AnswerTrue(handler[p])
      /\ handler[p].step = "reply" /\ attempts \in Nat /\ attempts <= MaxReplies
      /\ UNCHANGED <<chat, visible, mappings, answers, audited>>
  BY StepKinds, BoundAssumption
     DEF IndInv, Sound, SendUser, At, TypeOK, HandlersTrue, HandlerTrue, Answering
<1>2. handler[p].via \in DOMAIN chat /\ handler[p].id \in 1..attempts /\ Aimed(handler[p])
  BY <1>1 DEF AnswerTrue, Answering, Aiming
<1>3. PICK i \in DOMAIN chat, m \in Messages : i = handler[p].via /\ m = chat[i].msg
  BY <1>1, <1>2, Places DEF Chat
<1>4. mappings[handler[p].mapping].user = AuthorOf[m]
  BY <1>1, <1>2, <1>3, AimIsTrue DEF ChatAuthor
<1>5. PICK id \in 1..MaxReplies : id = handler[p].id
  BY <1>1, <1>2, BoundAssumption
<1> DEFINE r == [id |-> id, via |-> i, to |-> AuthorOf[m]]
<1>6. received' = received \/ received' = received \cup {r}
  BY <1>3, <1>4, <1>5 DEF SendUser
<1>7. Shown' = Shown /\ Open' = Open /\ Told' = Told /\ Answered' = Answered
  BY <1>1 DEF Shown, Open, Told, Answered, Answerable
<1>8. m \in Shown
  BY <1>3 DEF Shown
<1>9. Answers' = Answers \/ Answers' = Answers \cup {[id |-> id, msg |-> m, to |-> AuthorOf[m]]}
  BY <1>1, <1>3, <1>6 DEF Answers
<1> QED BY <1>1, <1>7, <1>8, <1>9 DEF Talk!Next, Talk!Reply, Talk!vars

LEMMA MarksTalk ==
  ASSUME IndInv, NEW k \in DOMAIN mappings, NEW s \in {"replied", "ignored"},
         UpdateMappingStatus(k, s) \/ UNCHANGED mappings,
         s = "replied" => \E r \in Answers : r.msg = mappings[k].msg,
         UNCHANGED <<chat, visible, answers, received, audited>>
  PROVE  [Talk!Next]_(Talk!vars)
<1>1. TypeOK /\ Reached /\ k \in DOMAIN mappings
  BY DEF IndInv, Sound
<1>2. PICK m \in Messages : m = mappings[k].msg
  BY <1>1, Places DEF Mapping
<1>3. /\ DOMAIN mappings' = DOMAIN mappings
      /\ \A j \in DOMAIN mappings :
           /\ mappings'[j].owner = mappings[j].owner /\ mappings'[j].user = mappings[j].user
           /\ mappings'[j].msg = mappings[j].msg
           /\ mappings'[j].status = mappings[j].status \/ (j = k /\ mappings'[j].status = s)
  BY <1>1, StatusSet
<1>4. Shown' = Shown /\ Open' = Open /\ Answers' = Answers /\ Told' = Told
  BY <1>1, <1>3, AlikeSays DEF Told
<1>5. CASE s = "replied"
  <2>1. Answered \subseteq Answered' /\ Answered' \subseteq Answered \cup {m}
    BY <1>2, <1>3, <1>5 DEF Answered
  <2>2. Answered' = Answered \/ Answered' = Answered \cup {m}
    BY <2>1
  <2>3. \E r \in Answers : r.msg = m
    BY <1>2, <1>5
  <2> QED BY <1>4, <2>2, <2>3 DEF Talk!Next, Talk!Mark, Talk!vars
<1>6. CASE s = "ignored"
  <2>1. Answered' \subseteq Answered /\ Answered \ {m} \subseteq Answered'
    BY <1>2, <1>3, <1>6 DEF Answered
  <2>2. Answered' = Answered \/ Answered' = Answered \ {m}
    BY <2>1
  <2> QED BY <1>4, <2>2 DEF Talk!Next, Talk!Unmark, Talk!vars
<1> QED BY <1>5, <1>6

LEMMA MarkRepliedTalks ==
  ASSUME IndInv, NEW p \in Procs, MarkReplied(p)
  PROVE  [Talk!Next]_(Talk!vars)
<1>1. /\ TypeOK /\ RowsSound /\ ButtonsSound
      /\ handler[p] \in Reply /\ handler[p].step = "mark" /\ AnswerTrue(handler[p])
      /\ UNCHANGED <<chat, visible, answers, received, audited>>
  BY StepKinds DEF IndInv, Sound, MarkReplied, At, HandlersTrue, HandlerTrue, Answering
<1>2. /\ handler[p].via \in DOMAIN chat /\ Aimed(handler[p]) /\ Entry(handler[p]) \in received
      /\ handler[p].how \in {"reply", "quick"}
  BY <1>1 DEF AnswerTrue, Answering, Aiming, Reply
<1>3. PICK k \in DOMAIN mappings, i \in DOMAIN chat : k = handler[p].mapping /\ i = handler[p].via
  BY <1>2 DEF Aimed
<1>4. chat[i].msg = mappings[k].msg
  <2>1. mappings[k].owner = i \/ chat[i].buttons = k
    BY <1>2, <1>3 DEF Aimed
  <2>2. k # 0
    BY <1>1, <1>3, Places
  <2> QED BY <1>1, <2>1, <2>2 DEF RowsSound, ButtonsSound
<1>5. \E r \in Answers : r.msg = mappings[k].msg
  <2>1. PICK e \in received : e.via = i
    BY <1>2, <1>3 DEF Entry
  <2> DEFINE a == [id |-> e.id, msg |-> chat[e.via].msg, to |-> e.to]
  <2>2. a \in Answers
    BY DEF Answers
  <2> QED BY <2>1, <2>2, <1>4
<1>6. UpdateMappingStatus(k, "replied") \/ UNCHANGED mappings
  BY <1>3 DEF MarkReplied
<1> QED BY <1>1, <1>5, <1>6, MarksTalk

LEMMA MarkIgnoredTalks ==
  ASSUME IndInv, NEW p \in Procs, MarkIgnored(p)
  PROVE  [Talk!Next]_(Talk!vars)
<1>1. /\ IgnoreTrue(handler[p]) /\ handler[p].step = "ignore"
      /\ UNCHANGED <<chat, visible, answers, received, audited>>
  BY DEF IndInv, Sound, MarkIgnored, At, HandlersTrue, HandlerTrue
<1>2. PICK k \in DOMAIN mappings : k = handler[p].mapping
  BY <1>1 DEF IgnoreTrue
<1>3. UpdateMappingStatus(k, "ignored") \/ UNCHANGED mappings
  BY <1>2 DEF MarkIgnored
<1> QED BY <1>1, <1>3, MarksTalk

LEMMA AuditReplyTalks ==
  ASSUME IndInv, NEW p \in Procs, AuditReply(p)
  PROVE  [Talk!Next]_(Talk!vars)
<1>1. /\ TypeOK /\ handler[p] \in Reply /\ handler[p].step = "audit" /\ AnswerTrue(handler[p])
      /\ attempts \in Nat /\ attempts <= MaxReplies
      /\ UNCHANGED <<chat, visible, mappings, answers, received>>
  BY StepKinds, BoundAssumption
     DEF IndInv, Sound, AuditReply, At, TypeOK, HandlersTrue, HandlerTrue, Answering
<1>2. handler[p].id \in 1..attempts /\ Entry(handler[p]) \in received
  BY <1>1 DEF AnswerTrue, Answering
<1>3. PICK id \in 1..MaxReplies : id = handler[p].id
  BY <1>1, <1>2, BoundAssumption
<1>4. \E r \in Answers : r.id = id
  <2>1. PICK e \in received : e.id = id
    BY <1>2, <1>3 DEF Entry
  <2> DEFINE a == [id |-> e.id, msg |-> chat[e.via].msg, to |-> e.to]
  <2>2. a \in Answers
    BY DEF Answers
  <2> QED BY <2>1, <2>2
<1>5. audited' = audited \/ audited' = audited \cup {id}
  BY <1>3 DEF AuditReply
<1>6. UNCHANGED <<Shown, Open, Told, Answers, Answered>>
  BY <1>1 DEF Shown, Open, Told, Answers, Answered, Answerable
<1> QED BY <1>4, <1>5, <1>6 DEF Talk!Next, Talk!Log, Talk!vars

LEMMA ForwardStepTalks ==
  ASSUME IndInv, NEW p \in Procs, ForwardStep(p)
  PROVE  [Talk!Next]_(Talk!vars)
<1>1. ASSUME \/ \E m \in Messages : Admit(p, m)
             \/ IncrementMessageCount(p) \/ AuditForward(p)
      PROVE  UNCHANGED Talk!vars
  BY <1>1, NothingSaid DEF Admit, IncrementMessageCount, AuditForward
<1> QED BY <1>1, SendTalks, MapTalks, DeleteOrphanTalks, CopyTalks, AttachTalks, PanelTalks,
           AcknowledgeTalks DEF ForwardStep

LEMMA OwnerStepTalks ==
  ASSUME IndInv, NEW p \in Procs, OwnerStep(p)
  PROVE  [Talk!Next]_(Talk!vars)
<1>1. ASSUME \/ \E i \in visible : \/ handleOwnerReply(p, i)
                                   \/ handleCallbackQuickSend(p, i)
                                   \/ handleCallbackIgnore(p, i)
             \/ GiveUp(p) \/ GetMappingByOwnerMessage(p) \/ TargetOpen(p) \/ QuickTarget(p)
      PROVE  UNCHANGED Talk!vars
  BY <1>1, NothingSaid DEF handleOwnerReply, handleCallbackQuickSend, handleCallbackIgnore, GiveUp,
                           GetMappingByOwnerMessage, TargetOpen, QuickTarget
<1> QED BY <1>1, SendUserTalks, MarkRepliedTalks, MarkIgnoredTalks, AuditReplyTalks, AttachTalks
        DEF OwnerStep

\* For any strangers, messages, handlers, failures and restarts, the relay is a
\* conversation: what an author was told of is never taken back, replies go to the
\* author of what they answer, marks and the log follow them (handlers.go:188, 240,
\* 388, callbacks.go:70-125).
THEOREM ImplementsConversation == Spec => Conversed
<1> SUFFICES Spec => Talk!Spec
  BY DEF Conversed
<1>1. Init => Talk!Init
  BY DEF Init, Talk!Init, Shown, Open, Told, Answers, Answered, Answerable
<1>2. IndInv /\ [Next]_vars => [Talk!Next]_(Talk!vars)
  <2> SUFFICES ASSUME IndInv, [Next]_vars  PROVE [Talk!Next]_(Talk!vars)
    OBVIOUS
  <2>1. ASSUME NEW p \in Procs, ForwardStep(p) \/ OwnerStep(p)
        PROVE  [Talk!Next]_(Talk!vars)
    BY <2>1, ForwardStepTalks, OwnerStepTalks
  <2>2. ASSUME (\E u \in Users : Blocks(u) \/ Unblocks(u)) \/ Confirm \/ Restart \/ UNCHANGED vars
        PROVE  UNCHANGED Talk!vars
    BY <2>2, NothingSaid DEF Blocks, Unblocks, Confirm, Restart, vars
  <2> QED BY <2>1, <2>2 DEF Next
<1> QED BY <1>1, <1>2, Invariance, PTL DEF Spec, Talk!Spec
================================================================================
