------------------------------ MODULE Moderation_proofs ------------------------------
(***************************************************************************)
(* Theorems about Moderation, for any commands, handlers and bounds.  The  *)
(* inductive invariant IndInv says what the handlers on their way still    *)
(* owe and are about to show; Settled, on top of it, says how far a lone   *)
(* decision has got.                                                       *)
(***************************************************************************)
EXTENDS Moderation, FiniteSetTheorems, SequenceTheorems, TLAPS

--------------------------------------------------------------------------------
\* A handler between an update of a row and its audit row owes that row.
Auditing(a) == {p \in Procs : At(p, "audit") /\ handler[p].act = a}
AuditsOwed  == \A a \in Recorded : audited[a] + Cardinality(Auditing(a)) <= written[a]

\* Which handler takes which steps.
Course(h) ==
    /\ h.step = "set" => h.act \in Decisions
    /\ h.step = "audit" => h.act \in Recorded
    /\ h.step = "refresh" => h.act \in Decisions
    /\ h.step \in {"get", "send"} => h.act = "reply"
    /\ h.step \in {"load", "mark", "edit"} => h.act = "ignore"
    /\ h.step = "panel" => h.act = "ban"
    /\ h.act = "reply" => h.msg = 0
    /\ h.alone => h.act \in Decisions
    /\ h.step \in {"ask", "cancel", "load", "mark", "edit", "refresh", "panel"} \/ h.act = "ignore"
         => h.msg > 0

\* The mapping has been marked, and the message is not yet on its way to being one
\* with buttons.
Marked == {"ignored", "replied"}
Early  == {"copy", "send", "map"}

\* What a handler is about to show has been done, and whom /reply is about to
\* write to was not blocked all the time.
About(h) ==
    /\ h.own
    /\ h.msg > 0 => h.msg \in DOMAIN chat /\ relay \notin Early
    /\ h.step \in {"audit", "refresh"} /\ h.act \in Decisions /\ h.msg > 0 => Result(h.act) \in had
    /\ h.step \in {"audit", "refresh"} /\ Confirms(h) => h.msg \in bans
    /\ h.step = "panel" => h.msg \in bans \cup refused
    /\ h.step = "edit" \/ (h.step = "audit" /\ h.act = "ignore") => mapping \in Marked
    /\ h.step = "get" /\ status # "blocked" => h.open
    /\ h.step = "send" => h.open

HandlersTrue == \A p \in Busy : Course(handler[p]) /\ About(handler[p])

\* What the chat shows, and what the handler that relays the message is about to.
ChatTrue ==
    /\ relay \in {"copy", "send"} => chat = <<>>
    /\ relay = "map" => chat = <<"nothing">>
    /\ relay \in Early => mapping = "none"
    /\ relay \in {"send", "map", "attach", "panel"} => "normal" \in had
    /\ \A m \in DOMAIN chat :
        /\ chat[m] \in Statuses => chat[m] \in had
        /\ chat[m] = "banned" => m \in bans \cup refused
        /\ chat[m] = "ignored" => mapping \in Marked

IndInv == TypeOK /\ AuditsOwed /\ HandlersTrue /\ ChatTrue /\ RulesKept

--------------------------------------------------------------------------------
\* What a handler does to its own record.
Steps == {"set", "audit", "refresh", "panel", "ask", "cancel", "load", "mark", "edit", "get", "send"}

LEMMA BusyActive ==
  ASSUME TypeOK, NEW p \in Busy
  PROVE  p \in Procs /\ handler[p] \in Active
BY DEF TypeOK, Busy, At, Idle

LEMMA NextCall ==
  ASSUME TypeOK, NEW p \in Busy, NEW s \in Steps, NEW fine \in BOOLEAN, GoTo(p, s, fine)
  PROVE  /\ handler' \in [Procs -> {Idle} \cup Active]
         /\ handler'[p].step = s /\ handler'[p].act = handler[p].act
         /\ handler'[p].msg = handler[p].msg /\ handler'[p].id = handler[p].id
         /\ handler'[p].open = handler[p].open /\ handler'[p].own = handler[p].own
         /\ handler'[p].alone = (handler[p].alone /\ fine)
         /\ \A q \in Procs : q # p => handler'[q] = handler[q]
         /\ Busy' = Busy
<1>1. p \in Procs /\ handler[p] \in Active /\ handler \in [Procs -> {Idle} \cup Active]
  BY BusyActive DEF TypeOK
<1>2. handler' = [handler EXCEPT ![p] = [handler[p] EXCEPT !.step = s, !.alone = @ /\ fine]]
  BY <1>1 DEF GoTo
<1>3. [handler[p] EXCEPT !.step = s, !.alone = @ /\ fine] \in Active
  BY <1>1 DEF Active, Steps
<1>4. handler'[p] = [handler[p] EXCEPT !.step = s, !.alone = @ /\ fine]
  BY <1>1, <1>2
<1>5. /\ handler'[p].step = s /\ handler'[p].act = handler[p].act
      /\ handler'[p].msg = handler[p].msg /\ handler'[p].id = handler[p].id
      /\ handler'[p].open = handler[p].open /\ handler'[p].own = handler[p].own
      /\ handler'[p].alone = (handler[p].alone /\ fine)
  BY <1>1, <1>4 DEF Active
<1>6. \A q \in Procs : q # p => handler'[q] = handler[q]
  BY <1>1, <1>2
<1>7. s # "idle"
  BY DEF Steps
<1>8. Busy' = Busy
  BY <1>5, <1>6, <1>7 DEF Busy, At
<1>9. handler' \in [Procs -> {Idle} \cup Active]
  BY <1>1, <1>2, <1>3
<1> QED BY <1>5, <1>6, <1>8, <1>9

LEMMA Ends ==
  ASSUME TypeOK, NEW p \in Busy, handler' = [handler EXCEPT ![p] = Idle]
  PROVE  /\ handler' \in [Procs -> {Idle} \cup Active]
         /\ \A q \in Procs : q # p => handler'[q] = handler[q]
         /\ Busy' = Busy \ {p} /\ handler'[p] = Idle
<1>1. p \in Procs /\ handler \in [Procs -> {Idle} \cup Active]
  BY BusyActive DEF TypeOK
<1> QED BY <1>1 DEF Busy, At, Idle

LEMMA EndsTidy ==
  ASSUME TypeOK, HandlersTrue, NEW p \in Busy, NEW fine \in BOOLEAN, Finish(p, fine)
  PROVE  tidy' \in {Idle} \cup [act : Decisions, msg : 0..MaxChat]
<1>1. handler[p] \in Active /\ (handler[p].alone => handler[p].act \in Decisions)
  BY BusyActive DEF HandlersTrue, Course
<1> QED BY <1>1 DEF Finish, TypeOK, Active

--------------------------------------------------------------------------------
\* What has been done stays done.
Onward ==
    /\ had \subseteq had'
    /\ bans \subseteq bans' /\ refused \subseteq refused'
    /\ mapping \in Marked => mapping' \in Marked
    /\ relay \notin Early => relay' \notin Early
    /\ DOMAIN chat \subseteq DOMAIN chat'

\* One handler moves, the others do not.
LEMMA OneMoves ==
  ASSUME HandlersTrue, NEW p \in Procs, Onward, status' = status,
         \A q \in Procs : q # p => handler'[q] = handler[q],
         p \in Busy' => (Course(handler[p]) /\ About(handler[p]))'
  PROVE  HandlersTrue'
<1> SUFFICES ASSUME NEW q \in Busy'  PROVE (Course(handler[q]) /\ About(handler[q]))'
  BY DEF HandlersTrue
<1>1. CASE q = p
  BY <1>1
<1>2. CASE q # p
  <2>1. q \in Procs /\ handler'[q] = handler[q] /\ q \in Busy
    BY <1>2 DEF Busy, At
  <2>2. Course(handler[q]) /\ About(handler[q])
    BY <2>1 DEF HandlersTrue
  <2>3. (Course(handler[q]))' /\ (About(handler[q]))'
    BY <2>1, <2>2 DEF Onward, Course, About, Result, Confirms
  <2> QED BY <2>3
<1> QED BY <1>1, <1>2

\* No handler gets to owe an audit row.
LEMMA NothingOwed ==
  ASSUME AuditsOwed, audited' = audited,
         \A a \in Recorded : written'[a] >= written[a],
         written \in [Recorded -> Nat], written' \in [Recorded -> Nat],
         audited \in [Recorded -> Nat],
         \A a \in Recorded : Auditing(a)' \subseteq Auditing(a)
  PROVE  AuditsOwed'
<1> SUFFICES ASSUME NEW a \in Recorded
             PROVE  audited'[a] + Cardinality(Auditing(a)') <= written'[a]
  BY DEF AuditsOwed
<1>1. IsFiniteSet(Auditing(a))
  BY ProcsAssumption, FS_Subset DEF Auditing
<1>2. IsFiniteSet(Auditing(a)') /\ Cardinality(Auditing(a)') <= Cardinality(Auditing(a))
  BY <1>1, FS_Subset
<1>3. Cardinality(Auditing(a)') \in Nat /\ Cardinality(Auditing(a)) \in Nat
  BY <1>1, <1>2, FS_CardinalityType
<1>4. audited[a] + Cardinality(Auditing(a)) <= written[a]
  BY DEF AuditsOwed
<1> QED BY <1>2, <1>3, <1>4

\* A handler owes one row more for an update that took effect.
LEMMA OneOwed ==
  ASSUME AuditsOwed, audited' = audited, NEW b \in Recorded, NEW p \in Procs,
         written' = [written EXCEPT ![b] = @ + 1],
         written \in [Recorded -> Nat], audited \in [Recorded -> Nat],
         \A a \in Recorded : a # b => Auditing(a)' \subseteq Auditing(a),
         Auditing(b)' \subseteq Auditing(b) \cup {p}
  PROVE  AuditsOwed'
<1> SUFFICES ASSUME NEW a \in Recorded
             PROVE  audited'[a] + Cardinality(Auditing(a)') <= written'[a]
  BY DEF AuditsOwed
<1>1. IsFiniteSet(Auditing(a))
  BY ProcsAssumption, FS_Subset DEF Auditing
<1>2. IsFiniteSet(Auditing(a) \cup {p})
      /\ Cardinality(Auditing(a) \cup {p}) <= Cardinality(Auditing(a)) + 1
  <2>1. Cardinality(Auditing(a)) \in Nat
    BY <1>1, FS_CardinalityType
  <2>2. IsFiniteSet(Auditing(a) \cup {p})
        /\ Cardinality(Auditing(a) \cup {p})
             = IF p \in Auditing(a) THEN Cardinality(Auditing(a)) ELSE Cardinality(Auditing(a)) + 1
    BY <1>1, FS_AddElement
  <2> QED BY <2>1, <2>2
<1>3. Cardinality(Auditing(a)) \in Nat /\ Cardinality(Auditing(a) \cup {p}) \in Nat
  BY <1>1, <1>2, FS_CardinalityType
<1>4. audited[a] + Cardinality(Auditing(a)) <= written[a]
  BY DEF AuditsOwed
<1>5. CASE a = b
  <2>1. IsFiniteSet(Auditing(a)')
        /\ Cardinality(Auditing(a)') <= Cardinality(Auditing(a) \cup {p})
    BY <1>2, <1>5, FS_Subset
  <2>2. Cardinality(Auditing(a)') \in Nat
    BY <2>1, FS_CardinalityType
  <2> QED BY <1>2, <1>3, <1>4, <1>5, <2>1, <2>2
<1>6. CASE a # b
  <2>1. IsFiniteSet(Auditing(a)') /\ Cardinality(Auditing(a)') <= Cardinality(Auditing(a))
    BY <1>1, <1>6, FS_Subset
  <2>2. Cardinality(Auditing(a)') \in Nat
    BY <2>1, FS_CardinalityType
  <2> QED BY <1>3, <1>4, <1>6, <2>1, <2>2
<1> QED BY <1>5, <1>6

--------------------------------------------------------------------------------
LEMMA InitHolds == Init => IndInv
<1> SUFFICES ASSUME Init PROVE IndInv
  OBVIOUS
<1> USE DEF Init
<1>1. Busy = {} /\ \A a \in Recorded : Auditing(a) = {}
  BY DEF Busy, Auditing, At, Idle
<1>2. AuditsOwed
  <2>1. Cardinality({}) = 0
    BY FS_EmptySet
  <2>2. \A a \in Recorded : audited[a] = 0 /\ written[a] = 0
    OBVIOUS
  <2> HIDE DEF Init
  <2> QED BY <1>1, <2>1, <2>2 DEF AuditsOwed
<1>3. HandlersTrue
  BY <1>1 DEF HandlersTrue
<1>4. ChatTrue
  BY DEF ChatTrue, Early
<1>5. TypeOK
  <2>1. chat \in Seq(Shows) /\ Len(chat) = 0
    OBVIOUS
  <2>2. 0 \in 0..MaxChat /\ 0 \in 0..MaxActs
    BY BoundAssumption
  <2>3. written \in [Recorded -> Nat] /\ audited \in [Recorded -> Nat]
    OBVIOUS
  <2>4. handler \in [Procs -> {Idle} \cup Active]
    OBVIOUS
  <2> QED BY <2>1, <2>2, <2>3, <2>4 DEF TypeOK, Statuses
<1> QED BY <1>2, <1>3, <1>4, <1>5 DEF IndInv, RulesKept

\* A message is changed, or none.
LEMMA EditTypes ==
  ASSUME TypeOK, NEW m, NEW x \in Shows, NEW took \in BOOLEAN,
         chat' = IF took THEN [chat EXCEPT ![m] = x] ELSE chat
  PROVE  /\ chat' \in Seq(Shows) /\ Len(chat') = Len(chat) /\ DOMAIN chat' = DOMAIN chat
         /\ \A i \in DOMAIN chat : chat'[i] = chat[i] \/ (i = m /\ chat'[i] = x)
<1>1. chat \in Seq(Shows) /\ DOMAIN chat = 1..Len(chat)
  BY DEF TypeOK
<1>2. CASE took /\ m \in 1..Len(chat)
  <2>1. chat' = [chat EXCEPT ![m] = x]
    BY <1>2
  <2>2. chat' \in Seq(Shows) /\ Len(chat') = Len(chat)
    BY <1>1, <1>2, <2>1, ExceptSeq
  <2> QED BY <1>1, <1>2, <2>1, <2>2
<1>3. CASE ~took \/ m \notin 1..Len(chat)
  <2>1. chat' = chat
    BY <1>1, <1>3
  <2> QED BY <1>1, <2>1
<1> QED BY <1>2, <1>3

LEMMA PostTypes ==
  ASSUME TypeOK, NEW x \in Shows, Post(x)
  PROVE  /\ chat' \in Seq(Shows) /\ Len(chat') \in 0..MaxChat /\ DOMAIN chat \subseteq DOMAIN chat'
         /\ \A i \in DOMAIN chat' :
               (i = Len(chat) + 1 /\ chat'[i] = x) \/ (i \in DOMAIN chat /\ chat'[i] = chat[i])
BY BoundAssumption DEF TypeOK, Post

--------------------------------------------------------------------------------
\* A goroutine that starts with a true record keeps the invariant.
LEMMA ArriveKeeps ==
  ASSUME IndInv, NEW p \in Procs, NEW step \in {"set", "ask", "cancel", "load", "get"},
         NEW act \in Recorded \cup {"ban_cancel"}, NEW id \in Nat, NEW msg \in 0..MaxChat,
         NEW sender, NEW place, ~ownerActionRejection(sender, place),
         Arrive(p, step, act, id, msg, sender, place),
         step = "set" => act \in Decisions,
         step = "get" <=> act = "reply",
         step = "load" <=> act = "ignore",
         act = "reply" => msg = 0,
         step \in {"ask", "cancel", "load"} => msg > 0,
         msg > 0 => msg \in DOMAIN chat /\ relay \notin Early
  PROVE  IndInv'
<1> DEFINE new == [step |-> step, act |-> act, id |-> id, msg |-> msg,
                   own |-> sender = OwnerID /\ place = "private",
                   alone |-> act \in Decisions /\ Busy = {} /\ relay = "done",
                   open |-> act # "reply" \/ status # "blocked"]
<1>1. /\ TypeOK /\ AuditsOwed /\ HandlersTrue /\ ChatTrue /\ RulesKept
      /\ handler \in [Procs -> {Idle} \cup Active]
  BY DEF IndInv, TypeOK
<1>2. handler' = [q \in Procs |->
          IF q = p THEN new
          ELSE IF q \in Busy THEN [handler[q] EXCEPT !.alone = FALSE] ELSE handler[q]]
      /\ At(p, "idle") /\ acts < MaxActs /\ acts' = acts + 1 /\ tidy' = Idle
      /\ UNCHANGED <<status, mapping, chat, relay, written, audited, latest, had, bans, refused, breach>>
  BY DEF Arrive
<1>3. new \in Active
  BY DEF Active
<1>4. \A q \in Busy : handler[q] \in Active
  BY <1>1, BusyActive
<1>5. \A q \in Busy : [handler[q] EXCEPT !.alone = FALSE] \in Active
  BY <1>4 DEF Active
<1>6. handler' \in [Procs -> {Idle} \cup Active]
  BY <1>1, <1>2, <1>3, <1>5
<1>7. handler'[p] = new
  BY <1>2
<1>8. ASSUME NEW q \in Procs, q # p
      PROVE  /\ q \in Busy' <=> q \in Busy
             /\ q \in Busy => /\ handler'[q].step = handler[q].step
                               /\ handler'[q].act = handler[q].act
                               /\ handler'[q].msg = handler[q].msg
                               /\ handler'[q].open = handler[q].open
                               /\ handler'[q].own = handler[q].own
                               /\ ~handler'[q].alone
  BY <1>2, <1>4, <1>8 DEF Busy, At, Active
<1>9. TypeOK'
  <2>1. acts' \in 0..MaxActs
    BY <1>1, <1>2, BoundAssumption DEF TypeOK
  <2> QED BY <1>1, <1>2, <1>6, <2>1 DEF TypeOK
<1>10. AuditsOwed'
  <2>1. ASSUME NEW a \in Recorded  PROVE Auditing(a)' \subseteq Auditing(a)
    BY <1>7, <1>8 DEF Auditing, At, Busy
  <2> QED BY <1>1, <1>2, <2>1, NothingOwed DEF TypeOK
<1>11. HandlersTrue'
  <2> SUFFICES ASSUME NEW q \in Busy'  PROVE (Course(handler[q]) /\ About(handler[q]))'
    BY DEF HandlersTrue
  <2>1. CASE q = p
    <3>1. sender = OwnerID /\ place = "private"
      BY DEF ownerActionRejection
    <3> QED BY <1>2, <1>7, <2>1, <3>1 DEF Course, About, Decisions
  <2>2. CASE q # p
    <3>1. q \in Busy /\ q \in Procs
      BY <1>8, <2>2 DEF Busy
    <3>2. Course(handler[q]) /\ About(handler[q])
      BY <1>1, <3>1 DEF HandlersTrue
    <3>3. (Course(handler[q]))'
      BY <1>8, <2>2, <3>1, <3>2 DEF Course
    <3>4. (About(handler[q]))'
      <4>1. UNCHANGED <<status, mapping, chat, relay, had, bans, refused>>
        BY <1>2
      <4> HIDE DEF new
      <4> QED BY <1>8, <2>2, <3>1, <3>2, <4>1 DEF About, Result, Confirms
    <3> QED BY <3>3, <3>4
  <2> QED BY <2>1, <2>2
<1>12. ChatTrue' /\ RulesKept'
  BY <1>1, <1>2 DEF ChatTrue, RulesKept
<1> QED BY <1>9, <1>10, <1>11, <1>12 DEF IndInv

\* A button's data names its action and an id that is one.
LEMMA ButtonCall ==
  ASSUME NEW action, NEW id \in Nat, NEW b, b = Button(action, id),
         ParseCallback(b.unique, b.data) # Invalid
  PROVE  ParseCallback(b.unique, b.data).id = id /\ b.unique = action
<1>1. b.unique = action /\ b.data = <<action, id>> /\ Len(b.data) = 2
  BY DEF Button
<1>2. ParseCallback(b.unique, b.data) = ParseCallbackData(b.data)
  BY <1>1 DEF ParseCallback
<1>3. ParseCallbackData(b.data) = [name |-> b.data[1], id |-> b.data[2]]
  BY <1>2 DEF ParseCallbackData
<1> QED BY <1>1, <1>2, <1>3

\* A message with buttons has its mapping.
LEMMA ButtonsLate ==
  ASSUME IndInv, NEW m \in DOMAIN chat, NEW b \in Buttons(m)
  PROVE  relay \notin Early /\ m > 0 /\ m \in 0..MaxChat
<1>1. m \in 1..Len(chat) /\ Len(chat) \in 0..MaxChat
  BY DEF IndInv, TypeOK
<1>2. chat # <<>>
  BY <1>1
<1>3. chat[m] # "nothing"
  BY DEF Buttons, Statuses
<1>4. chat # <<"nothing">>
  BY <1>1, <1>3
<1> QED BY <1>1, <1>2, <1>4, BoundAssumption DEF IndInv, ChatTrue, Early

LEMMA PressKeeps ==
  ASSUME IndInv, NEW p \in Procs, Press(p)
  PROVE  IndInv'
<1>1. PICK u \in Updates, m \in DOMAIN chat : \E b \in Buttons(m) :
        LET call == ParseCallback(b.unique, b.data)
        IN  /\ ~ownerActionRejection(u.sender, u.chat)
            /\ b.unique \in Decisions \cup {"ban_confirm", "ban_cancel", "ignore"}
            /\ call # Invalid
            /\ Arrive(p, FirstStep(b.unique), ActOf(b.unique), call.id, m, u.sender, u.chat)
  BY DEF Press
<1>2. PICK b \in Buttons(m) :
        /\ ~ownerActionRejection(u.sender, u.chat)
        /\ b.unique \in Decisions \cup {"ban_confirm", "ban_cancel", "ignore"}
        /\ ParseCallback(b.unique, b.data) # Invalid
        /\ Arrive(p, FirstStep(b.unique), ActOf(b.unique), ParseCallback(b.unique, b.data).id, m,
                  u.sender, u.chat)
  BY <1>1
<1>3. m \in 0..MaxChat /\ m > 0 /\ relay \notin Early
  BY <1>2, ButtonsLate
<1>5. \E action : \E id \in {Mapping, Stranger} : b = Button(action, id)
  BY <1>2 DEF Buttons, BuildOwnerMessageKeyboard, BuildBanConfirmKeyboard, BuildIgnoredKeyboard,
              Subject
<1>6. ParseCallback(b.unique, b.data).id \in Nat
  BY <1>2, <1>5, IdAssumption, ButtonCall
<1>7. /\ FirstStep(b.unique) \in {"set", "ask", "cancel", "load"}
      /\ ActOf(b.unique) \in Decisions \cup {"ban_cancel", "ignore"}
      /\ FirstStep(b.unique) = "set" => ActOf(b.unique) \in Decisions
      /\ FirstStep(b.unique) = "load" <=> ActOf(b.unique) = "ignore"
  BY <1>2 DEF FirstStep, ActOf, Decisions
<1> QED BY <1>2, <1>3, <1>6, <1>7, ArriveKeeps DEF Recorded, Decisions

LEMMA CommandKeeps ==
  ASSUME IndInv, NEW p \in Procs, Command(p)
  PROVE  IndInv'
<1>1. PICK u \in Updates :
        LET command == ParseCommand(u.text)
        IN  /\ ~ownerActionRejection(u.sender, u.chat)
            /\ command.name \in Decisions \cup {"reply"}
            /\ Arrive(p, IF command.name = "reply" THEN "get" ELSE "set", command.name,
                      command.id, 0, u.sender, u.chat)
  BY DEF Command
<1> DEFINE command == ParseCommand(u.text)
<1>2. ~ownerActionRejection(u.sender, u.chat)
  BY <1>1
<1>3. command.name \in Decisions \cup {"reply"}
  BY <1>1
<1>4. command.id \in Nat
  <2>1. u.text.args \in Seq(Nat \cup {Word})
    BY UpdateAssumption
  <2>2. u.text.args # <<>> /\ IsId(Head(u.text.args)) /\ command.id = Head(u.text.args)
    BY <1>3 DEF ParseCommand, Invalid, Decisions
  <2>3. Head(u.text.args) \in Nat \cup {Word}
    BY <2>1, <2>2
  <2> QED BY <2>2, <2>3 DEF IsId
<1>5. Arrive(p, IF command.name = "reply" THEN "get" ELSE "set", command.name, command.id, 0,
             u.sender, u.chat)
  BY <1>1
<1> HIDE DEF command
<1>6. 0 \in 0..MaxChat
  BY BoundAssumption
<1>7. CASE command.name = "reply"
  BY <1>2, <1>4, <1>5, <1>6, <1>7, ArriveKeeps DEF Recorded, Decisions
<1>8. CASE command.name \in Decisions
  <2>1. command.name # "reply" /\ command.name # "ignore"
    BY <1>8 DEF Decisions
  <2> QED BY <1>2, <1>4, <1>5, <1>6, <1>8, <2>1, ArriveKeeps DEF Recorded
<1> QED BY <1>3, <1>7, <1>8

--------------------------------------------------------------------------------
\* The steps that only move their handler, from one place to another that owes
\* no audit row, or to its end.
LEMMA MovesOn ==
  ASSUME IndInv, NEW p \in Busy, NEW s \in Steps \ {"audit"}, NEW fine \in BOOLEAN,
         GoTo(p, s, fine), UNCHANGED <<written, audited>>
  PROVE  AuditsOwed'
<1>1. TypeOK /\ AuditsOwed
  BY DEF IndInv
<1>2. \A a \in Recorded : Auditing(a)' \subseteq Auditing(a)
  BY <1>1, NextCall DEF Auditing, At
<1> QED BY <1>1, <1>2, NothingOwed DEF TypeOK

LEMMA MovesOut ==
  ASSUME IndInv, NEW p \in Busy, handler' = [handler EXCEPT ![p] = Idle],
         UNCHANGED audited, written' \in [Recorded -> Nat],
         \A a \in Recorded : written'[a] >= written[a]
  PROVE  AuditsOwed'
<1>1. TypeOK /\ AuditsOwed
  BY DEF IndInv
<1>2. \A a \in Recorded : Auditing(a)' \subseteq Auditing(a)
  BY <1>1, Ends DEF Auditing, At, Idle
<1> QED BY <1>1, <1>2, NothingOwed DEF TypeOK

LEMMA SameWritten ==
  ASSUME IndInv, UNCHANGED written
  PROVE  written' \in [Recorded -> Nat] /\ \A a \in Recorded : written'[a] >= written[a]
BY DEF IndInv, TypeOK

LEMMA OthersTrue ==
  ASSUME IndInv, NEW p \in Busy, handler' = [handler EXCEPT ![p] = Idle],
         Onward, status' = status
  PROVE  HandlersTrue'
<1>1. TypeOK /\ HandlersTrue
  BY DEF IndInv
<1> QED BY <1>1, Ends, OneMoves DEF Busy

\* Whatever is shown that has been done keeps the chat true.
LEMMA ShownKeeps ==
  ASSUME IndInv, Onward, NEW m, NEW x \in Shows,
         \A i \in DOMAIN chat' :
            (i = m /\ chat'[i] = x) \/ (i \in DOMAIN chat /\ chat'[i] = chat[i]),
         relay' \notin Early, relay' \in {"attach", "panel"} => "normal" \in had',
         x \in Statuses => x \in had',
         x = "banned" => m \in bans' \cup refused',
         x = "ignored" => mapping' \in Marked
  PROVE  ChatTrue'
BY DEF IndInv, ChatTrue, Onward, Early

LEMMA OutcomeType ==
  ASSUME NEW kind, NEW o \in Outcome(kind)
  PROVE  o.took \in BOOLEAN /\ o.ok \in BOOLEAN /\ (o.ok => o.took)
<1>1. CASE o = [took |-> TRUE, ok |-> TRUE]
  BY <1>1
<1>2. CASE o \in [took : BOOLEAN, ok : {FALSE}]
  BY <1>2
<1> QED BY <1>1, <1>2 DEF Outcome

--------------------------------------------------------------------------------
\* A handler ends after showing x in message m, or without.
LEMMA ShowsAndEnds ==
  ASSUME IndInv, NEW p \in Busy, NEW x \in Shows, NEW m, NEW o \in Outcome("api"),
         NEW fine \in BOOLEAN, Edit(m, x, o), Finish(p, fine),
         UNCHANGED <<status, mapping, relay, acts, written, audited, latest, had, bans, refused, breach>>,
         relay \notin Early,
         x \in Statuses => x \in had,
         x = "banned" => m \in bans \cup refused,
         x = "ignored" => mapping \in Marked
  PROVE  IndInv'
<1>1. TypeOK /\ HandlersTrue /\ RulesKept /\ ChatTrue
  BY DEF IndInv
<1>2. handler' = [handler EXCEPT ![p] = Idle]
  BY DEF Finish
<1>3. o.took \in BOOLEAN
  BY OutcomeType
<1>4. /\ chat' \in Seq(Shows) /\ Len(chat') = Len(chat) /\ DOMAIN chat' = DOMAIN chat
      /\ \A i \in DOMAIN chat : chat'[i] = chat[i] \/ (i = m /\ chat'[i] = x)
  BY <1>1, <1>3, EditTypes DEF Edit
<1>5. Onward
  BY <1>4 DEF Onward
<1>6. TypeOK'
  <2>1. tidy' \in {Idle} \cup [act : Decisions, msg : 0..MaxChat]
    BY <1>1, EndsTidy
  <2>2. handler' \in [Procs -> {Idle} \cup Active]
    BY <1>1, <1>2, Ends
  <2> QED BY <1>1, <1>4, <2>1, <2>2 DEF TypeOK
<1>7. AuditsOwed'
  BY <1>2, SameWritten, MovesOut
<1>8. HandlersTrue'
  BY <1>2, <1>5, OthersTrue
<1>9. ChatTrue'
  <2>1. relay' \notin Early /\ (relay' \in {"attach", "panel"} => "normal" \in had')
    BY <1>1 DEF ChatTrue
  <2> QED BY <1>4, <1>5, <2>1, ShownKeeps
<1> QED BY <1>1, <1>6, <1>7, <1>8, <1>9 DEF IndInv, RulesKept

\* A handler ends and leaves everything else alone.
LEMMA JustEnds ==
  ASSUME IndInv, NEW p \in Busy, NEW fine \in BOOLEAN, Finish(p, fine),
         UNCHANGED <<status, mapping, chat, relay, acts, written, audited, latest, had,
                     bans, refused, breach>>
  PROVE  IndInv'
<1>1. TypeOK /\ HandlersTrue /\ RulesKept /\ ChatTrue
  BY DEF IndInv
<1>2. handler' = [handler EXCEPT ![p] = Idle]
  BY DEF Finish
<1>3. Onward
  BY DEF Onward
<1>4. TypeOK'
  <2>1. tidy' \in {Idle} \cup [act : Decisions, msg : 0..MaxChat]
    BY <1>1, EndsTidy
  <2>2. handler' \in [Procs -> {Idle} \cup Active]
    BY <1>1, <1>2, Ends
  <2> QED BY <1>1, <2>1, <2>2 DEF TypeOK
<1>5. AuditsOwed'
  BY <1>2, SameWritten, MovesOut
<1>6. HandlersTrue'
  BY <1>2, <1>3, OthersTrue
<1>7. ChatTrue'
  BY <1>1 DEF ChatTrue
<1> QED BY <1>1, <1>4, <1>5, <1>6, <1>7 DEF IndInv, RulesKept

\* A handler goes on to its next call and leaves everything else alone.
LEMMA JustMoves ==
  ASSUME IndInv, NEW p \in Busy, NEW s \in Steps \ {"audit"}, GoTo(p, s, TRUE),
         UNCHANGED <<status, mapping, chat, relay, acts, written, audited, latest, had,
                     bans, refused, tidy, breach>>,
         (Course(handler[p]) /\ About(handler[p]))'
  PROVE  IndInv'
<1>1. TypeOK /\ HandlersTrue /\ RulesKept /\ ChatTrue /\ p \in Procs
  BY DEF IndInv, Busy
<1>2. Onward
  BY DEF Onward
<1>3. handler' \in [Procs -> {Idle} \cup Active] /\ \A q \in Procs : q # p => handler'[q] = handler[q]
  BY <1>1, NextCall
<1>4. TypeOK'
  BY <1>1, <1>3 DEF TypeOK
<1>5. AuditsOwed'
  BY MovesOn
<1>6. HandlersTrue'
  BY <1>1, <1>2, <1>3, OneMoves
<1>7. ChatTrue'
  BY <1>1 DEF ChatTrue
<1> QED BY <1>1, <1>4, <1>5, <1>6, <1>7 DEF IndInv, RulesKept

--------------------------------------------------------------------------------
\* One update more of kind a is on record.
LEMMA OneWritten ==
  ASSUME IndInv, NEW a \in Recorded, NEW took \in BOOLEAN,
         written' = IF took THEN [written EXCEPT ![a] = @ + 1] ELSE written
  PROVE  /\ written' \in [Recorded -> Nat]
         /\ \A b \in Recorded : written'[b] >= written[b]
<1>1. written \in [Recorded -> Nat]
  BY DEF IndInv, TypeOK
<1> QED BY <1>1

\* Refresh, panel, confirmation, cancellation and the keyboard of what is ignored.
LEMMA RefreshKeeps ==
  ASSUME IndInv, NEW p \in Procs, Refresh(p)
  PROVE  IndInv'
<1>1. p \in Busy /\ handler[p].step = "refresh"
  BY DEF Refresh, Busy, At
<1>2. Course(handler[p]) /\ About(handler[p]) /\ handler[p].act \in Decisions
  BY <1>1 DEF IndInv, HandlersTrue, Course
<1>0. handler[p].msg > 0 /\ handler[p].msg \in DOMAIN chat /\ relay \notin Early
  BY <1>1, <1>2 DEF Course, About
<1>3. Result(handler[p].act) \in Statuses /\ Result(handler[p].act) \in had
      /\ Result(handler[p].act) \in Shows
  BY <1>0, <1>1, <1>2 DEF About, Result, Statuses, Shows
<1>4. UNCHANGED <<status, mapping, relay, acts, written, audited, latest, had, bans, refused, breach>>
  BY DEF Refresh
<1>5. CASE \E o \in Outcome("api") : Edit(1, Result(handler[p].act), o) /\ Finish(p, o.ok)
  <2>1. PICK o \in Outcome("api") : Edit(1, Result(handler[p].act), o) /\ Finish(p, o.ok)
    BY <1>5
  <2>2. o.ok \in BOOLEAN
    BY OutcomeType
  <2>3. Result(handler[p].act) # "banned" /\ Result(handler[p].act) # "ignored"
    BY <1>3 DEF Statuses
  <2> QED BY <1>0, <1>1, <1>3, <1>4, <2>1, <2>2, <2>3, ShowsAndEnds
<1>6. ASSUME NEW fine \in BOOLEAN, Finish(p, fine), UNCHANGED chat  PROVE IndInv'
  BY <1>1, <1>4, <1>6, JustEnds
<1>7. CASE handler[p].act = "ban" /\ GoTo(p, "panel", TRUE) /\ UNCHANGED <<chat, tidy>>
  <2>1. "panel" \in Steps \ {"audit"} /\ TRUE \in BOOLEAN
    BY DEF Steps
  <2>2. TypeOK /\ p \in Busy
    BY <1>1 DEF IndInv
  <2>3. /\ handler'[p].step = "panel" /\ handler'[p].act = "ban"
        /\ handler'[p].own = handler[p].own /\ handler'[p].msg = handler[p].msg
        /\ handler'[p].alone => handler[p].alone
    BY <1>7, <2>1, <2>2, NextCall
  <2>4. (Course(handler[p]) /\ About(handler[p]))'
    BY <1>0, <1>1, <1>2, <1>4, <1>7, <2>3 DEF Course, About, Decisions, Confirms
  <2> QED BY <1>1, <1>4, <1>7, <2>1, <2>4, JustMoves
<1> QED BY <1>5, <1>6, <1>7 DEF Refresh

LEMMA EditPanelKeeps ==
  ASSUME IndInv, NEW p \in Procs, EditPanel(p)
  PROVE  IndInv'
<1>1. p \in Busy /\ handler[p].step = "panel"
  BY DEF EditPanel, Busy, At
<1>2. handler[p].msg \in bans \cup refused /\ relay \notin Early
  BY <1>1 DEF IndInv, HandlersTrue, Course, About
<1>3. PICK o \in Outcome("api") : Edit(handler[p].msg, "banned", o) /\ Finish(p, o.ok)
  BY DEF EditPanel
<1>4. o.ok \in BOOLEAN
  BY OutcomeType
<1>5. "banned" \in Shows /\ "banned" \notin Statuses /\ "banned" # "ignored"
  BY DEF Shows, Statuses
<1> QED BY <1>1, <1>2, <1>3, <1>4, <1>5, ShowsAndEnds DEF EditPanel

LEMMA BanCancelKeeps ==
  ASSUME IndInv, NEW p \in Procs, handleCallbackBanCancel(p)
  PROVE  IndInv'
<1>1. p \in Busy /\ handler[p].step = "cancel"
  BY DEF handleCallbackBanCancel, Busy, At
<1>0. relay \notin Early
  BY <1>1 DEF IndInv, HandlersTrue, Course, About
<1>2. PICK o \in Outcome("api") : Edit(handler[p].msg, "cancelled", o)
  BY DEF handleCallbackBanCancel
<1>3. "cancelled" \in Shows /\ "cancelled" \notin Statuses
  BY DEF Shows, Statuses
<1> QED BY <1>0, <1>1, <1>2, <1>3, ShowsAndEnds DEF handleCallbackBanCancel

LEMMA ShowIgnoredKeeps ==
  ASSUME IndInv, NEW p \in Procs, ShowIgnored(p)
  PROVE  IndInv'
<1>1. p \in Busy /\ handler[p].step = "edit"
  BY DEF ShowIgnored, Busy, At
<1>2. mapping \in Marked /\ relay \notin Early
  BY <1>1 DEF IndInv, HandlersTrue, Course, About
<1>3. PICK o \in Outcome("api") : Edit(handler[p].msg, "ignored", o)
  BY DEF ShowIgnored
<1>4. "ignored" \in Shows /\ "ignored" \notin Statuses
  BY DEF Shows, Statuses
<1> QED BY <1>1, <1>2, <1>3, <1>4, ShowsAndEnds DEF ShowIgnored

LEMMA BanKeeps ==
  ASSUME IndInv, NEW p \in Procs, handleCallbackBan(p)
  PROVE  IndInv'
<1>1. p \in Busy /\ handler[p].step = "ask" /\ Finish(p, FALSE)
      /\ UNCHANGED <<status, mapping, relay, acts, written, audited, latest, had, bans, refused, breach>>
  BY DEF handleCallbackBan, Busy, At
<1>2. CASE UNCHANGED chat
  BY <1>1, <1>2, JustEnds
<1>3. CASE Post("confirm")
  <2>1. TypeOK /\ HandlersTrue /\ ChatTrue /\ RulesKept /\ relay \notin Early
    BY <1>1 DEF IndInv, HandlersTrue, Course, About
  <2>2. "confirm" \in Shows /\ "confirm" \notin Statuses /\ handler' = [handler EXCEPT ![p] = Idle]
    BY <1>1 DEF Shows, Statuses, Finish
  <2>3. /\ chat' \in Seq(Shows) /\ Len(chat') \in 0..MaxChat /\ DOMAIN chat \subseteq DOMAIN chat'
        /\ \A i \in DOMAIN chat' : \/ i = Len(chat) + 1 /\ chat'[i] = "confirm"
                                   \/ i \in DOMAIN chat /\ chat'[i] = chat[i]
    BY <1>3, <2>1, <2>2, PostTypes
  <2>4. Onward
    BY <1>1, <2>3 DEF Onward
  <2>5. TypeOK'
    <3>1. tidy' \in {Idle} \cup [act : Decisions, msg : 0..MaxChat]
      BY <1>1, <2>1, EndsTidy
    <3>2. handler' \in [Procs -> {Idle} \cup Active]
      BY <1>1, <2>1, <2>2, Ends
    <3> QED BY <1>1, <2>1, <2>3, <3>1, <3>2 DEF TypeOK
  <2>6. AuditsOwed'
    BY <1>1, <2>2, SameWritten, MovesOut
  <2>7. HandlersTrue'
    BY <1>1, <2>2, <2>4, OthersTrue
  <2>8. ChatTrue'
    <3>1. relay' \notin Early /\ (relay' \in {"attach", "panel"} => "normal" \in had')
      BY <1>1, <2>1 DEF ChatTrue
    <3> QED BY <2>2, <2>3, <2>4, <3>1, ShownKeeps
  <2> QED BY <1>1, <2>1, <2>5, <2>6, <2>7, <2>8 DEF IndInv, RulesKept
<1> QED BY <1>2, <1>3 DEF handleCallbackBan

LEMMA IgnoreKeeps ==
  ASSUME IndInv, NEW p \in Procs, handleCallbackIgnore(p)
  PROVE  IndInv'
<1>1. p \in Busy /\ handler[p].step = "load"
  BY DEF handleCallbackIgnore, Busy, At
<1>2. UNCHANGED <<status, mapping, chat, relay, acts, written, audited, latest, had, bans, refused, breach>>
  BY DEF handleCallbackIgnore
<1>3. CASE Finish(p, FALSE)
  BY <1>1, <1>2, <1>3, JustEnds
<1>4. CASE GoTo(p, IF mapping = "ignored" THEN "edit" ELSE "mark", TRUE) /\ UNCHANGED tidy
  <2> DEFINE s == IF mapping = "ignored" THEN "edit" ELSE "mark"
  <2>1. s \in Steps \ {"audit"} /\ TRUE \in BOOLEAN
    BY DEF Steps
  <2>2. TypeOK /\ Course(handler[p]) /\ About(handler[p])
    BY <1>1 DEF IndInv, HandlersTrue
  <2>3. /\ handler'[p].step = s /\ handler'[p].act = handler[p].act
        /\ handler'[p].own = handler[p].own /\ handler'[p].msg = handler[p].msg
        /\ handler'[p].alone => handler[p].alone
    BY <1>1, <1>4, <2>1, <2>2, NextCall
  <2>4. handler[p].act = "ignore"
    BY <1>1, <2>2 DEF Course
  <2>5. (Course(handler[p]) /\ About(handler[p]))'
    BY <1>1, <1>2, <2>2, <2>3, <2>4 DEF Course, About, Decisions, Marked
  <2> HIDE DEF s
  <2>6. GoTo(p, s, TRUE)
    BY <1>4 DEF s
  <2> QED BY <1>1, <1>2, <1>4, <2>1, <2>5, <2>6, JustMoves
<1> QED BY <1>3, <1>4 DEF handleCallbackIgnore

LEMMA TargetKeeps ==
  ASSUME IndInv, NEW p \in Procs, GetTarget(p)
  PROVE  IndInv'
<1>1. p \in Busy /\ handler[p].step = "get"
  BY DEF GetTarget, Busy, At
<1>2. UNCHANGED <<status, mapping, chat, relay, acts, written, audited, latest, had, bans, refused, breach>>
  BY DEF GetTarget
<1>3. CASE Finish(p, FALSE)
  BY <1>1, <1>2, <1>3, JustEnds
<1>4. CASE status # "blocked" /\ GoTo(p, "send", TRUE) /\ UNCHANGED tidy
  <2>1. "send" \in Steps \ {"audit"} /\ TRUE \in BOOLEAN
    BY DEF Steps
  <2>2. TypeOK /\ Course(handler[p]) /\ About(handler[p])
    BY <1>1 DEF IndInv, HandlersTrue
  <2>3. /\ handler'[p].step = "send" /\ handler'[p].act = handler[p].act
        /\ handler'[p].own = handler[p].own /\ handler'[p].open = handler[p].open
        /\ handler'[p].msg = handler[p].msg
        /\ handler'[p].alone => handler[p].alone
    BY <1>1, <1>4, <2>1, <2>2, NextCall
  <2>4. (Course(handler[p]) /\ About(handler[p]))'
    BY <1>1, <1>2, <1>4, <2>2, <2>3 DEF Course, About
  <2> QED BY <1>1, <1>2, <1>4, <2>1, <2>4, JustMoves
<1> QED BY <1>3, <1>4 DEF GetTarget

--------------------------------------------------------------------------------
\* A handler that owes an audit row is done with it, written or not.
LEMMA OnePaid ==
  ASSUME AuditsOwed, written' = written, NEW b \in Recorded, NEW p \in Auditing(b),
         NEW took \in BOOLEAN,
         audited' = IF took THEN [audited EXCEPT ![b] = @ + 1] ELSE audited,
         written \in [Recorded -> Nat], audited \in [Recorded -> Nat],
         \A a \in Recorded : Auditing(a)' \subseteq Auditing(a) \ {p}
  PROVE  AuditsOwed' /\ audited' \in [Recorded -> Nat]
<1>1. audited' \in [Recorded -> Nat]
  OBVIOUS
<1> SUFFICES ASSUME NEW a \in Recorded
             PROVE  audited'[a] + Cardinality(Auditing(a)') <= written'[a]
  BY <1>1 DEF AuditsOwed
<1>2. IsFiniteSet(Auditing(a)) /\ Cardinality(Auditing(a)) \in Nat
  BY ProcsAssumption, FS_Subset, FS_CardinalityType DEF Auditing
<1>3. audited[a] + Cardinality(Auditing(a)) <= written[a]
  BY DEF AuditsOwed
<1>4. IsFiniteSet(Auditing(a) \ {p})
      /\ Cardinality(Auditing(a) \ {p})
           = IF p \in Auditing(a) THEN Cardinality(Auditing(a)) - 1 ELSE Cardinality(Auditing(a))
  BY <1>2, FS_RemoveElement
<1>5. Cardinality(Auditing(a) \ {p}) \in Nat
  BY <1>4, FS_CardinalityType
<1>6. Cardinality(Auditing(a)') <= Cardinality(Auditing(a) \ {p})
      /\ Cardinality(Auditing(a)') \in Nat
  BY <1>4, FS_Subset, FS_CardinalityType
<1>7. CASE a = b
  <2>1. audited'[a] <= audited[a] + 1 /\ audited'[a] \in Nat
    BY <1>7
  <2>2. Cardinality(Auditing(a) \ {p}) = Cardinality(Auditing(a)) - 1
    BY <1>4, <1>7
  <2> QED BY <1>2, <1>3, <1>5, <1>6, <2>1, <2>2
<1>8. CASE a # b
  <2>1. audited'[a] = audited[a]
    BY <1>8
  <2>2. Cardinality(Auditing(a) \ {p}) <= Cardinality(Auditing(a))
    BY <1>2, <1>4
  <2> QED BY <1>2, <1>3, <1>5, <1>6, <2>1, <2>2
<1> QED BY <1>7, <1>8

LEMMA AuditKeeps ==
  ASSUME IndInv, NEW p \in Procs, Audit(p)
  PROVE  IndInv'
<1>1. /\ TypeOK /\ AuditsOwed /\ HandlersTrue /\ ChatTrue /\ RulesKept
      /\ p \in Busy /\ handler[p].step = "audit"
  BY DEF IndInv, Audit, Busy, At
<1> DEFINE act == handler[p].act
           next == IF act = "ignore" THEN "edit" ELSE "refresh"
<1>2. Course(handler[p]) /\ About(handler[p])
  BY <1>1 DEF HandlersTrue
<1>3. act \in Recorded /\ p \in Auditing(act)
  BY <1>1, <1>2 DEF Course, Auditing, At
<1>4. UNCHANGED <<status, mapping, chat, relay, acts, written, had, bans, refused, breach>>
  BY DEF Audit
<1>5. PICK o \in Outcome("store") :
        /\ audited' = IF o.took THEN [audited EXCEPT ![act] = @ + 1] ELSE audited
        /\ latest' = IF o.took THEN act ELSE latest
        /\ IF handler[p].msg = 0 THEN Finish(p, o.ok)
           ELSE GoTo(p, next, o.ok) /\ UNCHANGED tidy
  BY DEF Audit
<1>6. o.took \in BOOLEAN /\ o.ok \in BOOLEAN
  BY OutcomeType
<1>7. Onward
  BY <1>4 DEF Onward
<1>8. ASSUME handler' \in [Procs -> {Idle} \cup Active],
             \A q \in Procs : q # p => handler'[q] = handler[q],
             handler'[p].step # "audit",
             tidy' \in {Idle} \cup [act : Decisions, msg : 0..MaxChat],
             p \in Busy' => (Course(handler[p]) /\ About(handler[p]))'
      PROVE  IndInv'
  <2>1. \A a \in Recorded : Auditing(a)' \subseteq Auditing(a) \ {p}
    BY <1>8 DEF Auditing, At
  <2>2. written \in [Recorded -> Nat] /\ audited \in [Recorded -> Nat] /\ written' = written
    BY <1>1, <1>4 DEF TypeOK
  <2> HIDE DEF act
  <2>3. AuditsOwed' /\ audited' \in [Recorded -> Nat]
    BY <1>1, <1>3, <1>5, <1>6, <2>1, <2>2, OnePaid
  <2>4. latest' \in Recorded \cup {"none"}
    BY <1>1, <1>3, <1>5 DEF TypeOK
  <2>5. TypeOK'
    BY <1>1, <1>4, <1>8, <2>3, <2>4 DEF TypeOK
  <2>6. HandlersTrue'
    BY <1>1, <1>4, <1>7, <1>8, OneMoves
  <2>7. ChatTrue' /\ RulesKept'
    BY <1>1, <1>4 DEF ChatTrue, RulesKept
  <2> QED BY <2>3, <2>5, <2>6, <2>7 DEF IndInv
<1>9. CASE handler[p].msg = 0
  <2>1. Finish(p, o.ok)
    BY <1>5, <1>9
  <2>2. handler' = [handler EXCEPT ![p] = Idle]
    BY <2>1 DEF Finish
  <2>3. tidy' \in {Idle} \cup [act : Decisions, msg : 0..MaxChat]
    BY <1>1, <1>6, <2>1, EndsTidy
  <2>4. /\ handler' \in [Procs -> {Idle} \cup Active]
        /\ \A q \in Procs : q # p => handler'[q] = handler[q]
        /\ p \notin Busy' /\ handler'[p].step # "audit"
    BY <1>1, <2>2, Ends DEF Idle
  <2> QED BY <1>8, <2>3, <2>4
<1>10. CASE handler[p].msg # 0
  <2>1. GoTo(p, next, o.ok) /\ UNCHANGED tidy
    BY <1>5, <1>10
  <2>2. next \in Steps
    BY DEF Steps
  <2>3. /\ handler' \in [Procs -> {Idle} \cup Active]
        /\ handler'[p].step = next /\ handler'[p].act = act
        /\ handler'[p].own = handler[p].own /\ handler'[p].msg = handler[p].msg
        /\ handler'[p].alone => handler[p].alone
        /\ \A q \in Procs : q # p => handler'[q] = handler[q]
    BY <1>1, <1>6, <2>1, <2>2, NextCall
  <2>4. act = "ignore" \/ act \in Decisions
    BY <1>2, <1>3, <1>10 DEF Course, Recorded
  <2>5. handler[p].msg > 0
    BY <1>1, <1>10, BusyActive DEF Active
  <2>7. (Course(handler[p]) /\ About(handler[p]))'
    BY <1>1, <1>2, <1>4, <2>3, <2>4, <2>5 DEF Course, About, Decisions, Result, Confirms
  <2>6. tidy' \in {Idle} \cup [act : Decisions, msg : 0..MaxChat]
    BY <1>1, <2>1 DEF TypeOK
  <2> QED BY <1>8, <2>3, <2>6, <2>7
<1> QED BY <1>9, <1>10

--------------------------------------------------------------------------------
\* A handler whose update took effect goes on to its audit row.
LEMMA OwesNow ==
  ASSUME IndInv, NEW p \in Busy, NEW b \in Recorded, handler[p].act = b,
         ~At(p, "audit"), GoTo(p, "audit", TRUE), audited' = audited,
         written' = [written EXCEPT ![b] = @ + 1]
  PROVE  AuditsOwed'
<1>1. TypeOK /\ AuditsOwed /\ "audit" \in Steps /\ TRUE \in BOOLEAN /\ p \in Procs
  BY DEF IndInv, Steps, Busy
<1>2. /\ handler'[p].act = b
      /\ \A q \in Procs : q # p => handler'[q] = handler[q]
  BY <1>1, NextCall
<1>3. /\ \A a \in Recorded : a # b => Auditing(a)' \subseteq Auditing(a)
      /\ Auditing(b)' \subseteq Auditing(b) \cup {p}
  BY <1>2 DEF Auditing, At
<1> QED BY <1>1, <1>3, OneOwed DEF TypeOK

LEMMA MarkIgnoredKeeps ==
  ASSUME IndInv, NEW p \in Procs, MarkIgnored(p)
  PROVE  IndInv'
<1>1. /\ TypeOK /\ HandlersTrue /\ ChatTrue /\ RulesKept
      /\ p \in Busy /\ handler[p].step = "mark" /\ ~At(p, "audit")
  BY DEF IndInv, MarkIgnored, Busy, At
<1>2. Course(handler[p]) /\ About(handler[p]) /\ handler[p].act = "ignore"
  BY <1>1 DEF HandlersTrue, Course
<1>3. UNCHANGED <<status, chat, relay, acts, audited, latest, had, bans, refused, breach>>
  BY DEF MarkIgnored
<1>4. PICK o \in Outcome("store") :
        /\ mapping' = IF o.took THEN "ignored" ELSE mapping
        /\ written' = IF o.took THEN [written EXCEPT !["ignore"] = @ + 1] ELSE written
        /\ IF o.ok THEN GoTo(p, "audit", TRUE) /\ UNCHANGED tidy ELSE Finish(p, FALSE)
  BY DEF MarkIgnored
<1>5. o.took \in BOOLEAN /\ o.ok \in BOOLEAN /\ (o.ok => o.took) /\ "ignore" \in Recorded
  BY OutcomeType DEF Recorded
<1>6. /\ written' \in [Recorded -> Nat]
      /\ \A b \in Recorded : written'[b] >= written[b]
  BY <1>4, <1>5, OneWritten
<1>0. relay \notin Early
  BY <1>1, <1>2 DEF Course, About
<1>7. Onward /\ ChatTrue' /\ RulesKept' /\ mapping' \in {"none", "open", "ignored", "replied"}
  BY <1>0, <1>1, <1>3, <1>4, <1>6 DEF Onward, ChatTrue, RulesKept, TypeOK, Marked, Early
<1>8. CASE ~o.ok
  <2>1. Finish(p, FALSE)
    BY <1>4, <1>8
  <2>2. handler' = [handler EXCEPT ![p] = Idle]
    BY <2>1 DEF Finish
  <2>3. tidy' \in {Idle} \cup [act : Decisions, msg : 0..MaxChat]
    BY <1>1, <2>1, EndsTidy
  <2>4. handler' \in [Procs -> {Idle} \cup Active]
    BY <1>1, <2>2, Ends
  <2>5. TypeOK'
    BY <1>1, <1>3, <1>6, <1>7, <2>3, <2>4 DEF TypeOK
  <2>6. AuditsOwed' /\ HandlersTrue'
    BY <1>1, <1>3, <1>6, <1>7, <2>2, MovesOut, OthersTrue
  <2> QED BY <1>7, <2>5, <2>6 DEF IndInv
<1>9. CASE o.ok
  <2>1. GoTo(p, "audit", TRUE) /\ UNCHANGED tidy /\ mapping' = "ignored"
        /\ written' = [written EXCEPT !["ignore"] = @ + 1]
    BY <1>4, <1>5, <1>9
  <2>2. "audit" \in Steps /\ TRUE \in BOOLEAN
    BY DEF Steps
  <2>3. /\ handler' \in [Procs -> {Idle} \cup Active]
        /\ handler'[p].step = "audit" /\ handler'[p].act = "ignore"
        /\ handler'[p].own = handler[p].own /\ handler'[p].msg = handler[p].msg
        /\ handler'[p].alone => handler[p].alone
        /\ \A q \in Procs : q # p => handler'[q] = handler[q]
    BY <1>1, <1>2, <2>1, <2>2, NextCall
  <2>4. (Course(handler[p]) /\ About(handler[p]))'
    BY <1>1, <1>2, <1>3, <2>1, <2>3 DEF Course, About, Decisions, Recorded, Marked, Confirms
  <2>5. TypeOK'
    BY <1>1, <1>3, <1>6, <1>7, <2>1, <2>3 DEF TypeOK
  <2>6. AuditsOwed'
    BY <1>1, <1>2, <1>3, <1>5, <2>1, OwesNow
  <2>7. HandlersTrue'
    BY <1>1, <1>3, <1>7, <2>3, <2>4, OneMoves
  <2> QED BY <1>7, <2>5, <2>6, <2>7 DEF IndInv
<1> QED BY <1>8, <1>9

LEMMA SendUserKeeps ==
  ASSUME IndInv, NEW p \in Procs, SendUser(p)
  PROVE  IndInv'
<1>1. /\ TypeOK /\ HandlersTrue /\ ChatTrue /\ RulesKept
      /\ p \in Busy /\ handler[p].step = "send" /\ ~At(p, "audit")
  BY DEF IndInv, SendUser, Busy, At
<1>2. /\ Course(handler[p]) /\ About(handler[p]) /\ handler[p].act = "reply"
      /\ handler[p].own /\ handler[p].open
  BY <1>1 DEF HandlersTrue, Course, About
<1>3. UNCHANGED <<status, mapping, chat, relay, acts, audited, latest, had, bans, refused>>
  BY DEF SendUser
<1>4. PICK o \in Outcome("api") :
        /\ written' = IF o.took THEN [written EXCEPT !["reply"] = @ + 1] ELSE written
        /\ breach' = breach \cup (IF o.took /\ ~handler[p].own THEN {"owner"} ELSE {})
                            \cup (IF o.took /\ ~handler[p].open THEN {"blocked"} ELSE {})
        /\ IF o.ok THEN GoTo(p, "audit", TRUE) /\ UNCHANGED tidy ELSE Finish(p, FALSE)
  BY DEF SendUser
<1>5. o.took \in BOOLEAN /\ o.ok \in BOOLEAN /\ (o.ok => o.took) /\ "reply" \in Recorded
  BY OutcomeType DEF Recorded
<1>6. /\ written' \in [Recorded -> Nat]
      /\ \A b \in Recorded : written'[b] >= written[b]
  BY <1>4, <1>5, OneWritten
<1>7. Onward /\ ChatTrue' /\ RulesKept'
  BY <1>1, <1>2, <1>3, <1>4, <1>6 DEF Onward, ChatTrue, RulesKept
<1>8. CASE ~o.ok
  <2>1. Finish(p, FALSE)
    BY <1>4, <1>8
  <2>2. handler' = [handler EXCEPT ![p] = Idle]
    BY <2>1 DEF Finish
  <2>3. tidy' \in {Idle} \cup [act : Decisions, msg : 0..MaxChat]
    BY <1>1, <2>1, EndsTidy
  <2>4. handler' \in [Procs -> {Idle} \cup Active]
    BY <1>1, <2>2, Ends
  <2>5. TypeOK'
    BY <1>1, <1>3, <1>6, <1>7, <2>3, <2>4 DEF TypeOK, RulesKept
  <2>6. AuditsOwed' /\ HandlersTrue'
    BY <1>1, <1>3, <1>6, <1>7, <2>2, MovesOut, OthersTrue
  <2> QED BY <1>7, <2>5, <2>6 DEF IndInv
<1>9. CASE o.ok
  <2>1. GoTo(p, "audit", TRUE) /\ UNCHANGED tidy
        /\ written' = [written EXCEPT !["reply"] = @ + 1]
    BY <1>4, <1>5, <1>9
  <2>2. "audit" \in Steps /\ TRUE \in BOOLEAN
    BY DEF Steps
  <2>3. /\ handler' \in [Procs -> {Idle} \cup Active]
        /\ handler'[p].step = "audit" /\ handler'[p].act = "reply"
        /\ handler'[p].own = handler[p].own /\ handler'[p].msg = handler[p].msg
        /\ handler'[p].alone => handler[p].alone
        /\ \A q \in Procs : q # p => handler'[q] = handler[q]
    BY <1>1, <1>2, <2>1, <2>2, NextCall
  <2>4. (Course(handler[p]) /\ About(handler[p]))'
    BY <1>2, <1>3, <2>1, <2>3 DEF Course, About, Decisions, Recorded, Confirms
  <2>5. TypeOK'
    BY <1>1, <1>3, <1>6, <1>7, <2>1, <2>3 DEF TypeOK, RulesKept
  <2>6. AuditsOwed'
    BY <1>1, <1>2, <1>3, <1>5, <2>1, OwesNow
  <2>7. HandlersTrue'
    BY <1>1, <1>3, <1>7, <2>3, <2>4, OneMoves
  <2> QED BY <1>7, <2>5, <2>6, <2>7 DEF IndInv
<1> QED BY <1>8, <1>9

--------------------------------------------------------------------------------
\* A new status is seen by every handler on its way.
LEMMA SeenBy ==
  ASSUME TypeOK, NEW s \in Statuses
  PROVE  /\ Seeing(s) \in [Procs -> {Idle} \cup Active]
         /\ \A q \in Procs :
              /\ Seeing(s)[q].step = handler[q].step
              /\ q \in Busy => /\ Seeing(s)[q] \in Active
                               /\ Seeing(s)[q].act = handler[q].act
                               /\ Seeing(s)[q].id = handler[q].id
                               /\ Seeing(s)[q].msg = handler[q].msg
                               /\ Seeing(s)[q].own = handler[q].own
                               /\ Seeing(s)[q].alone = handler[q].alone
                               /\ Seeing(s)[q].open = (handler[q].open \/ s # "blocked")
              /\ q \notin Busy => Seeing(s)[q] = Idle
<1>1. handler \in [Procs -> {Idle} \cup Active]
  BY DEF TypeOK
<1> SUFFICES ASSUME NEW q \in Procs
             PROVE  /\ Seeing(s)[q] \in {Idle} \cup Active
                    /\ Seeing(s)[q].step = handler[q].step
                    /\ q \in Busy => /\ Seeing(s)[q] \in Active
                                     /\ Seeing(s)[q].act = handler[q].act
                                     /\ Seeing(s)[q].id = handler[q].id
                                     /\ Seeing(s)[q].msg = handler[q].msg
                                     /\ Seeing(s)[q].own = handler[q].own
                                     /\ Seeing(s)[q].alone = handler[q].alone
                                     /\ Seeing(s)[q].open = (handler[q].open \/ s # "blocked")
                    /\ q \notin Busy => Seeing(s)[q] = Idle
  BY DEF Seeing
<1>2. CASE q \notin Busy
  <2>1. handler[q] = Idle
    BY <1>1, <1>2 DEF Busy, At, Active
  <2> QED BY <1>2, <2>1 DEF Seeing
<1>3. CASE q \in Busy
  <2>1. handler[q] \in Active
    BY <1>1, <1>3, BusyActive
  <2>2. Seeing(s)[q] = IF s # "blocked" THEN [handler[q] EXCEPT !.open = TRUE] ELSE handler[q]
    BY <1>3 DEF Seeing
  <2> QED BY <1>3, <2>1, <2>2 DEF Active
<1> QED BY <1>2, <1>3

\* One handler's statement sets the status, the others see it.
LEMMA OthersSee ==
  ASSUME TypeOK, HandlersTrue, Onward, NEW p \in Procs, NEW s \in Statuses, status' = s,
         \A q \in Procs : q # p => handler'[q] = Seeing(s)[q],
         p \in Busy' => (Course(handler[p]) /\ About(handler[p]))'
  PROVE  HandlersTrue'
<1> SUFFICES ASSUME NEW q \in Busy', q # p  PROVE (Course(handler[q]) /\ About(handler[q]))'
  BY DEF HandlersTrue
<1>1. q \in Procs /\ handler'[q] = Seeing(s)[q]
  BY DEF Busy
<1>2. q \in Busy
  BY <1>1, SeenBy DEF Busy, At
<1>3. Course(handler[q]) /\ About(handler[q])
  BY <1>2 DEF HandlersTrue
<1>4. /\ handler'[q].step = handler[q].step /\ handler'[q].act = handler[q].act
      /\ handler'[q].msg = handler[q].msg /\ handler'[q].own = handler[q].own
      /\ handler'[q].alone = handler[q].alone
      /\ handler'[q].open = (handler[q].open \/ s # "blocked")
  BY <1>1, <1>2, SeenBy
<1>5. (Course(handler[q]))'
  BY <1>3, <1>4 DEF Course
<1>6. (About(handler[q]))'
  BY <1>3, <1>4 DEF About, Onward, Result, Confirms
<1> QED BY <1>5, <1>6

\* What the statement of a decision may do.
SetOutcome(p) ==
    IF handler[p].id = Stranger THEN Outcome("store") ELSE {[took |-> FALSE, ok |-> FALSE]}

LEMMA SetRowKeeps ==
  ASSUME IndInv, NEW p \in Procs, SetRow(p)
  PROVE  IndInv'
<1>1. /\ TypeOK /\ AuditsOwed /\ HandlersTrue /\ ChatTrue /\ RulesKept
      /\ p \in Busy /\ handler[p].step = "set" /\ handler[p] \in Active
  BY BusyActive DEF IndInv, SetRow, Busy, At
<1> DEFINE act == handler[p].act
           S(o) == IF o.took THEN Result(act) ELSE status
<1>2. Course(handler[p]) /\ About(handler[p]) /\ act \in Decisions /\ act \in Recorded
  BY <1>1 DEF HandlersTrue, Course, Recorded
<1>3. PICK o \in SetOutcome(p) :
        /\ status' = S(o)
        /\ had' = had \cup {S(o)}
        /\ written' = IF o.took THEN [written EXCEPT ![act] = @ + 1] ELSE written
        /\ breach' = IF o.took /\ ~handler[p].own THEN breach \cup {"owner"} ELSE breach
        /\ bans' = IF o.took /\ Confirms(handler[p]) THEN bans \cup {handler[p].msg} ELSE bans
        /\ \/ /\ o.ok
              /\ handler' = [Seeing(S(o)) EXCEPT ![p].step = "audit"]
              /\ UNCHANGED refused
           \/ /\ ~o.ok /\ Confirms(handler[p])
              /\ handler' = [Seeing(S(o)) EXCEPT ![p].step = "panel", ![p].alone = FALSE]
              /\ refused' = refused \cup {handler[p].msg}
           \/ /\ ~o.ok
              /\ handler' = [Seeing(S(o)) EXCEPT ![p] = Idle]
              /\ UNCHANGED refused
        /\ tidy' = IF handler[p].alone /\ handler[p].msg > 0 /\ handler[p].id # Stranger
                   THEN [act |-> act, msg |-> handler[p].msg] ELSE tidy
  BY DEF SetRow, SetOutcome
<1>4. UNCHANGED <<mapping, chat, relay, acts, audited, latest>>
  BY DEF SetRow
<1>5. o.took \in BOOLEAN /\ o.ok \in BOOLEAN /\ (o.ok => o.took)
  <2>1. CASE handler[p].id = Stranger
    BY <2>1, OutcomeType DEF SetOutcome
  <2>2. CASE handler[p].id # Stranger
    <3>1. o = [took |-> FALSE, ok |-> FALSE]
      BY <2>2 DEF SetOutcome
    <3> QED BY <3>1
  <2> QED BY <2>1, <2>2
<1> DEFINE s == S(o)
<1>6. s \in Statuses
  BY <1>1 DEF TypeOK, Result, Statuses
<1>7. /\ written' \in [Recorded -> Nat]
      /\ \A b \in Recorded : written'[b] >= written[b]
  <2> HIDE DEF act
  <2> QED BY <1>2, <1>3, <1>5, OneWritten
<1>8. status' = s /\ had' = had \cup {s} /\ breach' = breach
      /\ bans \subseteq bans' /\ refused \subseteq refused'
      /\ bans' \subseteq 1..MaxChat /\ refused' \subseteq 1..MaxChat
  <2>1. breach' = breach
    BY <1>2, <1>3 DEF About
  <2>2. Confirms(handler[p]) => handler[p].msg \in 1..MaxChat
    BY <1>1, BoundAssumption DEF Confirms, Active
  <2>3. bans \subseteq 1..MaxChat /\ refused \subseteq 1..MaxChat
    BY <1>1 DEF TypeOK
  <2>4. refused' = refused \/ (Confirms(handler[p]) /\ refused' = refused \cup {handler[p].msg})
    BY <1>3
  <2> QED BY <1>3, <2>1, <2>2, <2>3, <2>4
<1>9. Onward /\ ChatTrue' /\ RulesKept'
  BY <1>1, <1>4, <1>7, <1>8 DEF Onward, ChatTrue, RulesKept
<1>10. tidy' \in {Idle} \cup [act : Decisions, msg : 0..MaxChat]
  BY <1>1, <1>2, <1>3 DEF TypeOK, Active
<1>11. /\ Seeing(s) \in [Procs -> {Idle} \cup Active] /\ Seeing(s)[p] \in Active
       /\ Seeing(s)[p].act = act /\ Seeing(s)[p].own = handler[p].own
       /\ Seeing(s)[p].alone = handler[p].alone /\ Seeing(s)[p].msg = handler[p].msg
  BY <1>1, <1>6, SeenBy
<1>12. \A q \in Procs : Seeing(s)[q].step = handler[q].step
                       /\ (q \in Busy => Seeing(s)[q].act = handler[q].act)
  BY <1>1, <1>6, SeenBy
<1>13. ASSUME handler' \in [Procs -> {Idle} \cup Active],
              \A q \in Procs : q # p => handler'[q] = Seeing(s)[q],
              AuditsOwed',
              p \in Busy' => (Course(handler[p]) /\ About(handler[p]))'
       PROVE  IndInv'
  <2> HIDE DEF s
  <2>1. HandlersTrue'
    BY <1>1, <1>6, <1>8, <1>9, <1>13, OthersSee
  <2>2. TypeOK'
    BY <1>1, <1>4, <1>6, <1>7, <1>8, <1>9, <1>10, <1>13 DEF TypeOK, RulesKept
  <2> QED BY <1>9, <1>13, <2>1, <2>2 DEF IndInv
<1>14. ASSUME \A q \in Procs : q # p => handler'[q] = Seeing(s)[q],
              handler'[p].step # "audit"
       PROVE  AuditsOwed'
  <2>1. \A a \in Recorded : Auditing(a)' \subseteq Auditing(a)
    BY <1>12, <1>14 DEF Auditing, At, Busy
  <2>2. written \in [Recorded -> Nat] /\ audited \in [Recorded -> Nat] /\ audited' = audited
    BY <1>1, <1>4 DEF TypeOK
  <2> QED BY <1>1, <1>7, <2>1, <2>2, NothingOwed
<1>15. CASE o.ok /\ handler' = [Seeing(s) EXCEPT ![p].step = "audit"]
  <2> HIDE DEF s
  <2>1. handler'[p] = [Seeing(s)[p] EXCEPT !.step = "audit"]
    BY <1>11, <1>15
  <2>2. /\ handler'[p] \in Active /\ handler'[p].step = "audit" /\ handler'[p].act = act
        /\ handler'[p].own = handler[p].own /\ handler'[p].msg = handler[p].msg
        /\ handler'[p].alone = handler[p].alone
    BY <1>11, <2>1 DEF Active
  <2>3. \A q \in Procs : q # p => handler'[q] = Seeing(s)[q]
    BY <1>11, <1>15
  <2>4. handler' \in [Procs -> {Idle} \cup Active]
    BY <1>11, <1>15, <2>1, <2>2
  <2>5. written' = [written EXCEPT ![act] = @ + 1] /\ o.took
    BY <1>3, <1>5, <1>15
  <2>6. PICK b \in Recorded : b = act
    BY <1>2
  <2>7. AuditsOwed'
    <3>1. written \in [Recorded -> Nat] /\ audited \in [Recorded -> Nat] /\ audited' = audited
      BY <1>1, <1>4 DEF TypeOK
    <3>2. AuditsOwed /\ p \in Procs /\ written' = [written EXCEPT ![b] = @ + 1]
      BY <1>1, <2>5, <2>6
    <3>3. handler'[p].act = b
      BY <2>2, <2>6
    <3>4. /\ \A a \in Recorded : a # b => Auditing(a)' \subseteq Auditing(a)
          /\ Auditing(b)' \subseteq Auditing(b) \cup {p}
      BY <1>12, <2>3, <3>3 DEF Auditing, At, Busy
    <3> QED BY <3>1, <3>2, <3>4, OneOwed
  <2>8. Result(act) \in had'
    BY <1>8, <2>5 DEF s
  <2>9. (Course(handler[p]) /\ About(handler[p]))'
    <3>1. Confirms(handler[p]) => handler[p].msg \in bans'
      BY <1>3, <2>5
    <3> QED BY <1>2, <1>4, <2>2, <2>5, <2>8, <3>1
            DEF Course, About, Decisions, Recorded, Result, Confirms
  <2> QED BY <1>13, <2>3, <2>4, <2>7, <2>9
<1>16. CASE ~o.ok /\ Confirms(handler[p]) /\ refused' = refused \cup {handler[p].msg}
            /\ handler' = [Seeing(s) EXCEPT ![p].step = "panel", ![p].alone = FALSE]
  <2> HIDE DEF s
  <2>1. handler'[p] = [Seeing(s)[p] EXCEPT !.step = "panel", !.alone = FALSE]
    BY <1>11, <1>16
  <2>2. /\ handler'[p] \in Active /\ handler'[p].step = "panel" /\ handler'[p].act = "ban"
        /\ handler'[p].own = handler[p].own /\ handler'[p].msg = handler[p].msg
        /\ ~handler'[p].alone
    BY <1>11, <1>16, <2>1 DEF Active, Confirms
  <2>3. \A q \in Procs : q # p => handler'[q] = Seeing(s)[q]
    BY <1>11, <1>16
  <2>4. handler' \in [Procs -> {Idle} \cup Active]
    BY <1>11, <1>16, <2>1, <2>2
  <2>5. handler[p].msg \in refused' /\ handler[p].msg > 0
    BY <1>16 DEF Confirms
  <2>6. (Course(handler[p]) /\ About(handler[p]))'
    BY <1>2, <1>4, <2>2, <2>5 DEF Course, About
  <2> QED BY <1>13, <1>14, <2>2, <2>3, <2>4, <2>6
<1>17. CASE handler' = [Seeing(s) EXCEPT ![p] = Idle]
  <2> HIDE DEF s
  <2>1. handler'[p] = Idle /\ \A q \in Procs : q # p => handler'[q] = Seeing(s)[q]
    BY <1>11, <1>17
  <2>2. handler' \in [Procs -> {Idle} \cup Active]
    BY <1>11, <1>17
  <2>3. p \notin Busy' /\ handler'[p].step # "audit"
    BY <2>1 DEF Busy, At, Idle
  <2> QED BY <1>13, <1>14, <2>1, <2>2, <2>3
<1> QED BY <1>3, <1>15, <1>16, <1>17

--------------------------------------------------------------------------------
\* The relaying handler, the bot itself and the replies.
LEMMA SameHandlers ==
  ASSUME IndInv, Onward, UNCHANGED <<handler, status, written, audited>>
  PROVE  AuditsOwed' /\ HandlersTrue'
<1>1. AuditsOwed'
  BY DEF IndInv, AuditsOwed, Auditing, At
<1>2. ASSUME NEW q \in Busy'  PROVE (Course(handler[q]) /\ About(handler[q]))'
  <2>1. q \in Busy
    BY DEF Busy, At
  <2>2. Course(handler[q]) /\ About(handler[q])
    BY <2>1 DEF IndInv, HandlersTrue
  <2> QED BY <2>2 DEF Course, About, Onward, Result, Confirms
<1> QED BY <1>1, <1>2 DEF HandlersTrue

\* Nothing that a button has been pressed under depends on what the relaying
\* handler has not read yet.
LEMMA GetUserKeeps ==
  ASSUME IndInv, GetUser
  PROVE  IndInv'
<1>1. /\ relay = "copy" /\ relay' \in {"send", "done"} /\ (relay' = "send" => status = "normal")
      /\ had' = {status}
      /\ UNCHANGED <<status, mapping, chat, handler, acts, written, audited, latest, bans,
                     refused, tidy, breach>>
  BY DEF GetUser
<1>2. TypeOK /\ AuditsOwed /\ HandlersTrue /\ ChatTrue /\ RulesKept
  BY DEF IndInv
<1>3. TypeOK' /\ RulesKept'
  BY <1>1, <1>2 DEF TypeOK, RulesKept
<1>4. chat = <<>> /\ mapping = "none"
  BY <1>1, <1>2 DEF ChatTrue, Early
<1>5. ChatTrue'
  BY <1>1, <1>4 DEF ChatTrue, Early
<1>6. AuditsOwed'
  BY <1>1, <1>2 DEF AuditsOwed, Auditing, At
<1>7. ASSUME NEW q \in Busy'  PROVE (Course(handler[q]) /\ About(handler[q]))'
  <2>1. q \in Busy
    BY <1>1 DEF Busy, At
  <2>2. Course(handler[q]) /\ About(handler[q])
    BY <1>2, <2>1 DEF HandlersTrue
  <2>3. ~(handler[q].msg > 0)
    BY <1>1, <2>2 DEF About, Early
  <2> QED BY <1>1, <2>2, <2>3 DEF Course, About, Confirms
<1> QED BY <1>3, <1>5, <1>6, <1>7 DEF IndInv, HandlersTrue

LEMMA SendRichKeeps ==
  ASSUME IndInv, SendRichOwner
  PROVE  IndInv'
<1>1. /\ relay = "send"
      /\ \/ relay' = "done" /\ UNCHANGED chat
         \/ Post("nothing") /\ relay' \in {"map", "done"}
      /\ UNCHANGED <<status, mapping, handler, acts, written, audited, latest, had, bans,
                     refused, tidy, breach>>
  BY DEF SendRichOwner
<1>2. TypeOK /\ ChatTrue /\ RulesKept
  BY DEF IndInv
<1>3. chat = <<>> /\ mapping = "none" /\ "normal" \in had
  BY <1>1, <1>2 DEF ChatTrue, Early
<1>4. chat' = <<>> \/ chat' = <<"nothing">>
  BY <1>1, <1>3 DEF Post
<1>5. relay' = "map" => chat' = <<"nothing">>
  BY <1>1, <1>3 DEF Post
<1>6. chat' \in Seq(Shows) /\ Len(chat') \in 0..MaxChat
  <2>1. <<>> \in Seq(Shows) /\ Len(<<>>) = 0 /\ <<"nothing">> \in Seq(Shows) /\ Len(<<"nothing">>) = 1
    BY DEF Shows
  <2>2. 0 \in 0..MaxChat /\ 1 \in 0..MaxChat
    BY BoundAssumption
  <2> QED BY <1>4, <2>1, <2>2
<1>7. TypeOK' /\ RulesKept'
  BY <1>1, <1>2, <1>6 DEF TypeOK, RulesKept
<1>8. Onward
  BY <1>1, <1>3 DEF Onward, Early
<1>9. ChatTrue'
  <2>1. \A m \in DOMAIN chat' : chat'[m] = "nothing"
    BY <1>4
  <2> QED BY <1>1, <1>3, <1>5, <2>1 DEF ChatTrue, Early, Statuses
<1> QED BY <1>1, <1>7, <1>8, <1>9, SameHandlers DEF IndInv

LEMMA CreateMappingKeeps ==
  ASSUME IndInv, CreateMessageMapping
  PROVE  IndInv'
<1>1. /\ relay = "map" /\ relay' \in {"attach", "done"} /\ mapping' \in {"open", mapping}
      /\ UNCHANGED <<status, chat, handler, acts, written, audited, latest, had, bans,
                     refused, tidy, breach>>
  BY DEF CreateMessageMapping
<1>2. TypeOK /\ ChatTrue /\ RulesKept
  BY DEF IndInv
<1>3. mapping = "none" /\ chat = <<"nothing">> /\ "normal" \in had
  BY <1>1, <1>2 DEF ChatTrue, Early
<1>4. TypeOK' /\ RulesKept'
  BY <1>1, <1>2 DEF TypeOK, RulesKept
<1>5. Onward
  BY <1>1, <1>3 DEF Onward, Early, Marked
<1>6. ChatTrue'
  <2>1. \A m \in DOMAIN chat' : chat'[m] = "nothing"
    BY <1>1, <1>3
  <2> QED BY <1>1, <1>3, <2>1 DEF ChatTrue, Early, Statuses
<1> QED BY <1>1, <1>4, <1>5, <1>6, SameHandlers DEF IndInv

LEMMA AttachKeeps ==
  ASSUME IndInv, AttachKeyboard
  PROVE  IndInv'
<1>1. PICK o \in Outcome("api") :
        Edit(1, "normal", o) /\ relay' = IF o.ok THEN "done" ELSE "panel"
  BY DEF AttachKeyboard
<1>2. UNCHANGED <<status, mapping, handler, acts, written, audited, latest, had, bans, refused,
                  tidy, breach>>
  BY DEF AttachKeyboard
<1>3. TypeOK /\ ChatTrue /\ "normal" \in Shows /\ o.took \in BOOLEAN
  BY OutcomeType DEF IndInv, Shows, Statuses
<1>4. /\ chat' \in Seq(Shows) /\ Len(chat') = Len(chat) /\ DOMAIN chat' = DOMAIN chat
      /\ \A i \in DOMAIN chat : chat'[i] = chat[i] \/ (i = 1 /\ chat'[i] = "normal")
  BY <1>1, <1>3, EditTypes DEF Edit
<1>5. Onward /\ "normal" \in had' /\ relay' \notin Early
  BY <1>1, <1>2, <1>3, <1>4 DEF AttachKeyboard, Onward, ChatTrue, Early
<1>6. TypeOK'
  BY <1>1, <1>2, <1>3, <1>4 DEF TypeOK
<1>7. ChatTrue'
  <2>1. "normal" \in Statuses /\ "normal" # "banned" /\ "normal" # "ignored"
    BY DEF Statuses
  <2>2. \A i \in DOMAIN chat' :
          (i = 1 /\ chat'[i] = "normal") \/ (i \in DOMAIN chat /\ chat'[i] = chat[i])
    BY <1>4
  <2> QED BY <1>3, <1>5, <2>1, <2>2, ShownKeeps
<1> QED BY <1>2, <1>5, <1>6, <1>7, SameHandlers DEF IndInv, RulesKept

LEMMA PanelKeeps ==
  ASSUME IndInv, SendPanel
  PROVE  IndInv'
<1>1. relay' = "done" /\ (Post("normal") \/ UNCHANGED chat)
      /\ UNCHANGED <<status, mapping, handler, acts, written, audited, latest, had, bans, refused,
                     tidy, breach>>
  BY DEF SendPanel
<1>2. TypeOK /\ ChatTrue /\ "normal" \in Shows
  BY DEF IndInv, Shows, Statuses
<1>3. /\ chat' \in Seq(Shows) /\ Len(chat') \in 0..MaxChat /\ DOMAIN chat \subseteq DOMAIN chat'
      /\ \A i \in DOMAIN chat' : \/ i = Len(chat) + 1 /\ chat'[i] = "normal"
                                 \/ i \in DOMAIN chat /\ chat'[i] = chat[i]
  <2>1. CASE Post("normal")
    BY <1>2, <2>1, PostTypes
  <2>2. CASE UNCHANGED chat
    BY <1>2, <2>2 DEF TypeOK
  <2> QED BY <1>1, <2>1, <2>2
<1>4. Onward /\ "normal" \in had' /\ relay' \notin Early
  BY <1>1, <1>2, <1>3 DEF SendPanel, Onward, ChatTrue, Early
<1>5. TypeOK'
  BY <1>1, <1>2, <1>3 DEF TypeOK
<1>6. ChatTrue'
  BY <1>2, <1>3, <1>4, ShownKeeps
<1> QED BY <1>1, <1>4, <1>5, <1>6, SameHandlers DEF IndInv, RulesKept

LEMMA BotSetsKeeps ==
  ASSUME IndInv, BotSets
  PROVE  IndInv'
<1>1. PICK s \in {"blocked", "normal"} :
        /\ status' = s
        /\ had' = had \cup {s}
        /\ handler' = [q \in Procs |-> IF q \in Busy THEN [Seeing(s)[q] EXCEPT !.alone = FALSE]
                                       ELSE Idle]
  BY DEF BotSets
<1>2. tidy' = Idle
      /\ UNCHANGED <<mapping, chat, relay, acts, written, audited, latest, bans, refused, breach>>
  BY DEF BotSets
<1>3. TypeOK /\ AuditsOwed /\ HandlersTrue /\ ChatTrue /\ RulesKept /\ s \in Statuses
  BY DEF IndInv, Statuses
<1>4. ASSUME NEW q \in Procs
      PROVE  /\ q \in Busy' <=> q \in Busy
             /\ handler'[q] \in {Idle} \cup Active
             /\ q \in Busy => /\ handler'[q].step = handler[q].step
                              /\ handler'[q].act = handler[q].act
                              /\ handler'[q].msg = handler[q].msg
                              /\ handler'[q].own = handler[q].own
                              /\ ~handler'[q].alone
                              /\ handler'[q].open = (handler[q].open \/ s # "blocked")
             /\ q \notin Busy => handler'[q] = Idle
  <2>1. CASE q \in Busy
    <3>1. handler'[q] = [Seeing(s)[q] EXCEPT !.alone = FALSE]
      BY <1>1, <2>1
    <3>2. /\ Seeing(s)[q] \in Active
          /\ Seeing(s)[q].step = handler[q].step /\ Seeing(s)[q].act = handler[q].act
          /\ Seeing(s)[q].msg = handler[q].msg /\ Seeing(s)[q].own = handler[q].own
          /\ Seeing(s)[q].open = (handler[q].open \/ s # "blocked")
      BY <1>3, <2>1, SeenBy
    <3> HIDE DEF Seeing
    <3> QED BY <2>1, <3>1, <3>2 DEF Active, Busy, At
  <2>2. CASE q \notin Busy
    BY <1>1, <2>2 DEF Busy, At, Idle
  <2> QED BY <2>1, <2>2
<1>5. handler' \in [Procs -> {Idle} \cup Active]
  BY <1>1, <1>4
<1>6. Onward
  BY <1>1, <1>2 DEF Onward
<1>7. TypeOK'
  BY <1>1, <1>2, <1>3, <1>5 DEF TypeOK
<1>8. AuditsOwed'
  <2>1. \A a \in Recorded : Auditing(a)' \subseteq Auditing(a)
    BY <1>4 DEF Auditing, At, Busy, Idle
  <2> QED BY <1>2, <1>3, <2>1, NothingOwed DEF TypeOK
<1>9. HandlersTrue'
  <2> SUFFICES ASSUME NEW q \in Busy'  PROVE (Course(handler[q]) /\ About(handler[q]))'
    BY DEF HandlersTrue
  <2>1. q \in Procs /\ q \in Busy
    BY <1>4 DEF Busy
  <2>2. Course(handler[q]) /\ About(handler[q])
    BY <1>3, <2>1 DEF HandlersTrue
  <2>3. (Course(handler[q]))'
    BY <1>4, <2>1, <2>2 DEF Course
  <2>4. (About(handler[q]))'
    BY <1>1, <1>4, <1>6, <2>1, <2>2 DEF About, Onward, Result, Confirms
  <2> QED BY <2>3, <2>4
<1>10. ChatTrue' /\ RulesKept'
  BY <1>1, <1>2, <1>3 DEF ChatTrue, RulesKept
<1> QED BY <1>7, <1>8, <1>9, <1>10 DEF IndInv

LEMMA MarkRepliedKeeps ==
  ASSUME IndInv, MarkReplied
  PROVE  IndInv'
<1>1. mapping' = "replied"
      /\ UNCHANGED <<status, chat, relay, handler, acts, written, audited, latest, had,
                     bans, refused, tidy, breach>>
  BY DEF MarkReplied
<1>2. Onward /\ TypeOK' /\ ChatTrue' /\ RulesKept'
  <2>1. mapping # "none"
    BY DEF MarkReplied
  <2> QED BY <1>1, <2>1 DEF IndInv, Onward, TypeOK, ChatTrue, RulesKept, Marked
<1> QED BY <1>1, <1>2, SameHandlers DEF IndInv

--------------------------------------------------------------------------------
LEMMA NextKeeps == IndInv /\ [Next]_vars => IndInv'
<1> SUFFICES ASSUME IndInv, [Next]_vars  PROVE IndInv'
  OBVIOUS
<1>1. ASSUME NEW p \in Procs, Press(p) \/ Command(p)  PROVE IndInv'
  BY <1>1, PressKeeps, CommandKeeps
<1>2. ASSUME NEW p \in Procs, HandlerStep(p)  PROVE IndInv'
  BY <1>2, SetRowKeeps, AuditKeeps, RefreshKeeps, EditPanelKeeps, BanKeeps, BanCancelKeeps,
     IgnoreKeeps, MarkIgnoredKeeps, ShowIgnoredKeeps, TargetKeeps, SendUserKeeps DEF HandlerStep
<1>3. CASE GetUser \/ SendRichOwner \/ CreateMessageMapping \/ AttachKeyboard \/ SendPanel
  BY <1>3, GetUserKeeps, SendRichKeeps, CreateMappingKeeps, AttachKeeps, PanelKeeps
<1>5. CASE BotSets \/ MarkReplied
  BY <1>5, BotSetsKeeps, MarkRepliedKeeps
<1>4. CASE UNCHANGED vars
  <2>1. Onward /\ TypeOK' /\ ChatTrue' /\ RulesKept'
    BY <1>4 DEF IndInv, vars, Onward, TypeOK, ChatTrue, RulesKept
  <2> QED BY <1>4, <2>1, SameHandlers DEF IndInv, vars
<1> QED BY <1>1, <1>2, <1>3, <1>4, <1>5 DEF Next

\* The inductive invariant: what each handler still owes the audit log, what it is
\* about to show, and what the chat already shows, is backed by what was done.
THEOREM Invariance == Spec => []IndInv
BY InitHolds, NextKeeps, PTL DEF Spec

--------------------------------------------------------------------------------
\* Where a decision that nothing has interfered with has got to.
OnCourse(h) ==
    /\ h.msg > 0 => h.id = Stranger
    /\ h.step \in {"audit", "refresh", "panel"} => status = Result(h.act)
    /\ h.step \in {"refresh", "panel"} => latest = h.act
    /\ h.step = "panel" => h.msg # 1

Settled ==
    /\ LoneDecisionSettles
    /\ tidy # Idle => Busy = {} /\ relay = "done"
    /\ \A p \in Busy : handler[p].alone =>
          Busy = {p} /\ relay = "done" /\ OnCourse(handler[p])

\* A handler moves: whatever it has disturbed is not alone.
LEMMA LoneMoves ==
  ASSUME Settled, NEW p \in Busy, relay' = relay,
         \A q \in Procs : q # p =>
            /\ q \in Busy' <=> q \in Busy
            /\ q \in Busy => handler'[q].alone = handler[q].alone,
         p \in Busy' /\ handler'[p].alone => handler[p].alone /\ OnCourse(handler[p])',
         \/ tidy' = tidy
         \/ p \notin Busy' /\ handler[p].alone /\ LoneDecisionSettles'
  PROVE  Settled'
<1>1. tidy = Idle /\ p \in Procs
  BY DEF Settled, Busy
<1>2. \A q \in Procs : q # p => ~(q \in Busy' /\ handler'[q].alone)
  BY DEF Settled
<1>3. handler[p].alone => Busy' \subseteq {p} /\ relay' = "done"
  BY DEF Settled, Busy
<1>4. tidy' # Idle => Busy' = {} /\ relay' = "done"
  BY <1>1, <1>3
<1>5. LoneDecisionSettles'
  BY <1>1 DEF LoneDecisionSettles
<1>6. ASSUME NEW q \in Busy', handler'[q].alone
      PROVE  Busy' = {q} /\ relay' = "done" /\ OnCourse(handler[q])'
  <2>1. q \in Procs
    BY DEF Busy
  <2>2. q = p
    BY <1>2, <1>6, <2>1
  <2> QED BY <1>3, <1>6, <2>2
<1> QED BY <1>4, <1>5, <1>6 DEF Settled

LEMMA LoneEnds ==
  ASSUME IndInv, Settled, NEW p \in Busy, NEW fine \in BOOLEAN, Finish(p, fine), relay' = relay,
         \/ ~(handler[p].alone /\ fine)
         \/ LoneDecisionSettles'
  PROVE  Settled'
<1>1. /\ \A q \in Procs : q # p => handler'[q] = handler[q]
      /\ p \notin Busy'
  BY Ends DEF IndInv, Finish
<1>2. tidy' = tidy \/ (handler[p].alone /\ LoneDecisionSettles')
  BY DEF Finish
<1>3. \A q \in Procs : q # p => (q \in Busy' <=> q \in Busy)
  BY <1>1 DEF Busy, At
<1> QED BY <1>1, <1>2, <1>3, LoneMoves

LEMMA LoneGoes ==
  ASSUME IndInv, Settled, NEW p \in Busy, NEW s \in Steps, NEW fine \in BOOLEAN,
         GoTo(p, s, fine), UNCHANGED <<relay, tidy>>,
         handler[p].alone /\ fine => OnCourse(handler[p])'
  PROVE  Settled'
<1>1. /\ \A q \in Procs : q # p => handler'[q] = handler[q]
      /\ handler'[p].alone = (handler[p].alone /\ fine) /\ Busy' = Busy
  BY NextCall DEF IndInv
<1> QED BY <1>1, LoneMoves

\* The steps of what is not a decision.
LEMMA NotAlone ==
  ASSUME IndInv, NEW p \in Busy, handler[p].step \in {"load", "mark", "edit", "get", "send"}
  PROVE  ~handler[p].alone
BY DEF IndInv, HandlersTrue, Course, Decisions

LEMMA OthersSettled ==
  ASSUME IndInv, Settled, NEW p \in Procs,
         \/ handleCallbackBan(p) \/ handleCallbackBanCancel(p) \/ handleCallbackIgnore(p)
         \/ MarkIgnored(p) \/ ShowIgnored(p) \/ GetTarget(p) \/ SendUser(p)
  PROVE  Settled'
<1>1. relay' = relay /\ FALSE \in BOOLEAN /\ TRUE \in BOOLEAN
  BY DEF handleCallbackBan, handleCallbackBanCancel, handleCallbackIgnore, MarkIgnored,
         ShowIgnored, GetTarget, SendUser
<1>2. p \in Busy
  BY DEF Busy, At, handleCallbackBan, handleCallbackBanCancel, handleCallbackIgnore, MarkIgnored,
         ShowIgnored, GetTarget, SendUser
<1>3. CASE Finish(p, FALSE)
  BY <1>1, <1>2, <1>3, LoneEnds
<1>4. ASSUME NEW s \in Steps, GoTo(p, s, TRUE), UNCHANGED tidy,
             handler[p].step \in {"load", "mark", "edit", "get", "send"}
      PROVE  Settled'
  BY <1>1, <1>2, <1>4, NotAlone, LoneGoes
<1>5. CASE handleCallbackBan(p) \/ handleCallbackBanCancel(p) \/ ShowIgnored(p)
  BY <1>3, <1>5 DEF handleCallbackBan, handleCallbackBanCancel, ShowIgnored
<1>6. CASE handleCallbackIgnore(p)
  <2> DEFINE s == IF mapping = "ignored" THEN "edit" ELSE "mark"
  <2>1. s \in Steps
    BY DEF Steps
  <2>2. Finish(p, FALSE) \/ (GoTo(p, s, TRUE) /\ UNCHANGED tidy)
    BY <1>6 DEF handleCallbackIgnore
  <2>3. handler[p].step = "load"
    BY <1>6 DEF handleCallbackIgnore, At
  <2> HIDE DEF s
  <2> QED BY <1>3, <1>4, <2>1, <2>2, <2>3
<1>7. CASE MarkIgnored(p)
  <2>1. (Finish(p, FALSE) \/ (GoTo(p, "audit", TRUE) /\ UNCHANGED tidy)) /\ handler[p].step = "mark"
    BY <1>7 DEF MarkIgnored, At
  <2> QED BY <1>3, <1>4, <2>1 DEF Steps
<1>8. CASE GetTarget(p)
  <2>1. (Finish(p, FALSE) \/ (GoTo(p, "send", TRUE) /\ UNCHANGED tidy)) /\ handler[p].step = "get"
    BY <1>8 DEF GetTarget, At
  <2> QED BY <1>3, <1>4, <2>1 DEF Steps
<1>9. CASE SendUser(p)
  <2>1. (Finish(p, FALSE) \/ (GoTo(p, "audit", TRUE) /\ UNCHANGED tidy)) /\ handler[p].step = "send"
    BY <1>9 DEF SendUser, At
  <2> QED BY <1>3, <1>4, <2>1 DEF Steps
<1> QED BY <1>5, <1>6, <1>7, <1>8, <1>9

--------------------------------------------------------------------------------
\* The steps of a decision: the row, the audit row, the keyboard, the panel.
LEMMA SetRowSettled ==
  ASSUME IndInv, Settled, NEW p \in Procs, SetRow(p)
  PROVE  Settled'
<1>1. TypeOK /\ p \in Busy /\ handler[p].step = "set" /\ handler[p] \in Active /\ relay' = relay
  BY BusyActive DEF IndInv, SetRow, Busy, At
<1>2. PICK o \in SetOutcome(p), s \in {Result(handler[p].act), status} :
        /\ status' = s /\ (o.ok => o.took)
        /\ o.took => s = Result(handler[p].act)
        /\ \/ /\ o.ok
              /\ handler' = [Seeing(s) EXCEPT ![p].step = "audit"]
           \/ handler' = [Seeing(s) EXCEPT ![p].step = "panel", ![p].alone = FALSE]
           \/ handler' = [Seeing(s) EXCEPT ![p] = Idle]
        /\ tidy' = IF handler[p].alone /\ handler[p].msg > 0 /\ handler[p].id # Stranger
                   THEN [act |-> handler[p].act, msg |-> handler[p].msg] ELSE tidy
  <2>1. \A o \in SetOutcome(p) : o.ok => o.took
    <3>1. CASE handler[p].id = Stranger
      BY <3>1, OutcomeType DEF SetOutcome
    <3>2. CASE handler[p].id # Stranger
      <4>1. \A o \in SetOutcome(p) : o = [took |-> FALSE, ok |-> FALSE]
        BY <3>2 DEF SetOutcome
      <4> QED BY <4>1
    <3> QED BY <3>1, <3>2
  <2> QED BY <2>1 DEF SetRow, SetOutcome
<1>3. s \in Statuses
  BY <1>1 DEF TypeOK, Result, Statuses
<1>4. /\ Seeing(s) \in [Procs -> {Idle} \cup Active] /\ Seeing(s)[p] \in Active
      /\ Seeing(s)[p].act = handler[p].act /\ Seeing(s)[p].id = handler[p].id
      /\ Seeing(s)[p].alone = handler[p].alone /\ Seeing(s)[p].msg = handler[p].msg
      /\ \A q \in Procs : /\ Seeing(s)[q].step = handler[q].step
                          /\ q \in Busy => Seeing(s)[q].alone = handler[q].alone
  BY <1>1, <1>3, SeenBy
<1>5. handler[p].alone /\ handler[p].msg > 0 => handler[p].id = Stranger
  BY <1>1 DEF Settled, OnCourse
<1>6. tidy' = tidy
  BY <1>2, <1>5
<1>7. \A q \in Procs : q # p => handler'[q] = Seeing(s)[q]
  BY <1>2, <1>4
<1>8. \A q \in Procs : q # p =>
         /\ q \in Busy' <=> q \in Busy
         /\ q \in Busy => handler'[q].alone = handler[q].alone
  BY <1>4, <1>7 DEF Busy, At
<1>9. ASSUME p \in Busy', handler'[p].alone
      PROVE  handler[p].alone /\ OnCourse(handler[p])'
  <2>1. CASE o.ok /\ handler' = [Seeing(s) EXCEPT ![p].step = "audit"]
    <3>1. handler'[p] = [Seeing(s)[p] EXCEPT !.step = "audit"]
      BY <1>4, <2>1
    <3>2. /\ handler'[p].step = "audit" /\ handler'[p].act = handler[p].act
          /\ handler'[p].msg = handler[p].msg /\ handler'[p].id = handler[p].id
          /\ handler'[p].alone = handler[p].alone
      BY <1>4, <3>1 DEF Active
    <3>3. status' = Result(handler[p].act)
      BY <1>2, <2>1
    <3> QED BY <1>5, <1>9, <3>2, <3>3 DEF OnCourse, Result
  <2>2. CASE handler' = [Seeing(s) EXCEPT ![p].step = "panel", ![p].alone = FALSE]
    <3>1. handler'[p] = [Seeing(s)[p] EXCEPT !.step = "panel", !.alone = FALSE]
      BY <1>4, <2>2
    <3>2. ~handler'[p].alone
      BY <1>4, <3>1 DEF Active
    <3> QED BY <1>9, <3>2
  <2>3. CASE handler' = [Seeing(s) EXCEPT ![p] = Idle]
    <3>1. handler'[p] = Idle
      BY <1>4, <2>3
    <3> QED BY <1>9, <3>1 DEF Busy, At, Idle
  <2> QED BY <1>2, <2>1, <2>2, <2>3
<1> QED BY <1>1, <1>6, <1>8, <1>9, LoneMoves

LEMMA AuditSettled ==
  ASSUME IndInv, Settled, NEW p \in Procs, Audit(p)
  PROVE  Settled'
<1>1. /\ TypeOK /\ p \in Busy /\ handler[p].step = "audit" /\ handler[p] \in Active
      /\ UNCHANGED <<relay, status>>
  BY BusyActive DEF IndInv, Audit, Busy, At
<1> DEFINE act == handler[p].act
           next == IF act = "ignore" THEN "edit" ELSE "refresh"
<1>2. handler[p].alone => OnCourse(handler[p])
  BY <1>1 DEF Settled
<1>3. PICK o \in Outcome("store") :
        /\ latest' = IF o.took THEN act ELSE latest
        /\ IF handler[p].msg = 0 THEN Finish(p, o.ok)
           ELSE GoTo(p, next, o.ok) /\ UNCHANGED tidy
  BY DEF Audit
<1>4. o.ok \in BOOLEAN /\ (o.ok => o.took)
  BY OutcomeType
<1>5. handler[p].alone /\ o.ok => status' = Result(act) /\ latest' = act
  BY <1>1, <1>2, <1>3, <1>4 DEF OnCourse
<1>6. CASE handler[p].msg = 0
  <2>1. Finish(p, o.ok)
    BY <1>3, <1>6
  <2>2. handler[p].alone /\ o.ok => tidy' = [act |-> act, msg |-> 0]
    BY <1>6, <2>1 DEF Finish
  <2>3. handler[p].alone /\ o.ok => LoneDecisionSettles'
    <3> SUFFICES ASSUME handler[p].alone, o.ok  PROVE LoneDecisionSettles'
      OBVIOUS
    <3>1. tidy'.act = act /\ tidy'.msg = 0
      BY <2>2
    <3>2. Result(tidy'.act) = Result(act)
      BY <3>1
    <3> QED BY <1>5, <3>1, <3>2 DEF LoneDecisionSettles, Result
  <2> QED BY <1>1, <1>4, <2>1, <2>3, LoneEnds
<1>7. CASE handler[p].msg # 0
  <2>1. GoTo(p, next, o.ok) /\ UNCHANGED tidy
    BY <1>3, <1>7
  <2>2. next \in Steps
    BY DEF Steps
  <2>3. /\ handler'[p].step = next /\ handler'[p].act = act
        /\ handler'[p].msg = handler[p].msg /\ handler'[p].id = handler[p].id
    BY <1>1, <1>4, <2>1, <2>2, NextCall
  <2>4. handler[p].alone /\ o.ok => OnCourse(handler[p])'
    BY <1>2, <1>5, <2>3 DEF OnCourse, Result
  <2> HIDE DEF next
  <2> QED BY <1>1, <1>4, <2>1, <2>2, <2>4, LoneGoes
<1> QED BY <1>6, <1>7

LEMMA RefreshSettled ==
  ASSUME IndInv, Settled, NEW p \in Procs, Refresh(p)
  PROVE  Settled'
<1>1. /\ TypeOK /\ p \in Busy /\ handler[p].step = "refresh" /\ handler[p] \in Active
      /\ UNCHANGED <<relay, status, latest>> /\ TRUE \in BOOLEAN /\ FALSE \in BOOLEAN
  BY BusyActive DEF IndInv, Refresh, Busy, At
<1> DEFINE act == handler[p].act
<1>2. handler[p].alone => OnCourse(handler[p])
  BY <1>1 DEF Settled
<1>3. handler[p].alone => status' = Result(act) /\ latest' = act
  BY <1>1, <1>2 DEF OnCourse
<1>4. ASSUME NEW fine \in BOOLEAN, Finish(p, fine),
             fine /\ handler[p].msg = 1 => chat'[1] = Result(act)
      PROVE  Settled'
  <2>1. handler[p].alone /\ fine => LoneDecisionSettles'
    <3> SUFFICES ASSUME handler[p].alone, fine  PROVE LoneDecisionSettles'
      OBVIOUS
    <3>1. tidy' = [act |-> act, msg |-> handler[p].msg]
      BY <1>4 DEF Finish
    <3>2. tidy'.act = act /\ tidy'.msg = handler[p].msg
      BY <3>1
    <3> QED BY <1>3, <1>4, <3>2 DEF LoneDecisionSettles, Result
  <2> QED BY <1>1, <1>4, <2>1, LoneEnds
<1>5. CASE handler[p].msg = 1 /\ \E o \in Outcome("api") : Edit(1, Result(act), o) /\ Finish(p, o.ok)
  <2>1. PICK o \in Outcome("api") : Edit(1, Result(act), o) /\ Finish(p, o.ok)
    BY <1>5
  <2>2. o.ok \in BOOLEAN /\ (o.ok => o.took)
    BY OutcomeType
  <2>3. chat \in Seq(Shows) /\ 1 \in DOMAIN chat
    BY <1>1, <1>5 DEF IndInv, TypeOK, HandlersTrue, About
  <2>4. o.ok => chat'[1] = Result(act)
    BY <2>1, <2>2, <2>3 DEF Edit
  <2> QED BY <1>4, <2>1, <2>2, <2>4
<1>6. CASE handler[p].msg = 1 /\ Finish(p, FALSE)
  BY <1>1, <1>4, <1>6
<1>7. CASE handler[p].msg # 1 /\ (Finish(p, TRUE) \/ Finish(p, FALSE))
  BY <1>1, <1>4, <1>7
<1>8. CASE handler[p].msg # 1 /\ GoTo(p, "panel", TRUE) /\ UNCHANGED tidy
  <2>1. "panel" \in Steps
    BY DEF Steps
  <2>2. /\ handler'[p].step = "panel" /\ handler'[p].act = act
        /\ handler'[p].msg = handler[p].msg /\ handler'[p].id = handler[p].id
    BY <1>1, <1>8, <2>1, NextCall
  <2>3. handler[p].alone => OnCourse(handler[p])'
    BY <1>2, <1>3, <1>8, <2>2 DEF OnCourse, Result
  <2> QED BY <1>1, <1>8, <2>1, <2>3, LoneGoes
<1> QED BY <1>5, <1>6, <1>7, <1>8 DEF Refresh

LEMMA EditPanelSettled ==
  ASSUME IndInv, Settled, NEW p \in Procs, EditPanel(p)
  PROVE  Settled'
<1>1. /\ TypeOK /\ p \in Busy /\ handler[p].step = "panel"
      /\ UNCHANGED <<relay, status, latest>>
  BY DEF IndInv, EditPanel, Busy, At
<1>2. handler[p].alone =>
        status' = Result(handler[p].act) /\ latest' = handler[p].act /\ handler[p].msg # 1
  BY <1>1 DEF Settled, OnCourse
<1>3. PICK o \in Outcome("api") : Finish(p, o.ok)
  BY DEF EditPanel
<1>4. o.ok \in BOOLEAN
  BY OutcomeType
<1>5. handler[p].alone /\ o.ok => LoneDecisionSettles'
  <2> SUFFICES ASSUME handler[p].alone, o.ok  PROVE LoneDecisionSettles'
    OBVIOUS
  <2>1. tidy' = [act |-> handler[p].act, msg |-> handler[p].msg]
    BY <1>3 DEF Finish
  <2>2. tidy'.act = handler[p].act /\ tidy'.msg = handler[p].msg
    BY <2>1
  <2> QED BY <1>2, <2>2 DEF LoneDecisionSettles, Result
<1> QED BY <1>1, <1>3, <1>4, <1>5, LoneEnds

--------------------------------------------------------------------------------
\* A button of a decision acts on the stranger.
LEMMA ArriveSettled ==
  ASSUME IndInv, Settled, NEW p \in Procs, NEW step \in {"set", "ask", "cancel", "load", "get"},
         NEW act, NEW id, NEW msg, NEW sender, NEW place,
         Arrive(p, step, act, id, msg, sender, place),
         act \in Decisions /\ msg > 0 => id = Stranger
  PROVE  Settled'
<1>1. /\ handler \in [Procs -> {Idle} \cup Active]
      /\ p \notin Busy /\ \A q \in Busy : handler[q] \in Active
  BY BusyActive DEF IndInv, TypeOK, Arrive, Busy, At
<1> DEFINE new == [step |-> step, act |-> act, id |-> id, msg |-> msg,
                   own |-> sender = OwnerID /\ place = "private",
                   alone |-> act \in Decisions /\ Busy = {} /\ relay = "done",
                   open |-> act # "reply" \/ status # "blocked"]
<1>2. /\ handler' = [q \in Procs |->
             IF q = p THEN new
             ELSE IF q \in Busy THEN [handler[q] EXCEPT !.alone = FALSE] ELSE handler[q]]
      /\ tidy' = Idle /\ relay' = relay
  BY DEF Arrive
<1>3. handler'[p] = new
  BY <1>2
<1>4. ASSUME NEW q \in Procs, q # p
      PROVE  (q \in Busy' <=> q \in Busy) /\ (q \in Busy => ~handler'[q].alone)
  BY <1>1, <1>2, <1>4 DEF Busy, At, Active
<1>5. ASSUME NEW q \in Busy', handler'[q].alone
      PROVE  Busy' = {q} /\ relay' = "done" /\ OnCourse(handler[q])'
  <2>1. q = p /\ p \in Procs
    BY <1>4, <1>5 DEF Busy
  <2>2. act \in Decisions /\ Busy = {} /\ relay = "done"
    <3>1. new.alone
      <4> HIDE DEF new
      <4> QED BY <1>3, <1>5, <2>1
    <3> QED BY <3>1
  <2>3. Busy' = {p}
    BY <1>4, <1>5, <2>1, <2>2 DEF Busy
  <2>4. OnCourse(handler[p])'
    BY <1>3, <2>2 DEF OnCourse
  <2> QED BY <1>2, <2>1, <2>2, <2>3, <2>4
<1> QED BY <1>2, <1>5 DEF Settled, LoneDecisionSettles

LEMMA PressSettled ==
  ASSUME IndInv, Settled, NEW p \in Procs, Press(p)
  PROVE  Settled'
<1>1. PICK u \in Updates, m \in DOMAIN chat : \E b \in Buttons(m) :
        LET call == ParseCallback(b.unique, b.data)
        IN  /\ ~ownerActionRejection(u.sender, u.chat)
            /\ b.unique \in Decisions \cup {"ban_confirm", "ban_cancel", "ignore"}
            /\ call # Invalid
            /\ Arrive(p, FirstStep(b.unique), ActOf(b.unique), call.id, m, u.sender, u.chat)
  BY DEF Press
<1>2. PICK b \in Buttons(m) :
        /\ ~ownerActionRejection(u.sender, u.chat)
        /\ b.unique \in Decisions \cup {"ban_confirm", "ban_cancel", "ignore"}
        /\ ParseCallback(b.unique, b.data) # Invalid
        /\ Arrive(p, FirstStep(b.unique), ActOf(b.unique), ParseCallback(b.unique, b.data).id, m,
                  u.sender, u.chat)
  BY <1>1
<1>3. FirstStep(b.unique) \in {"set", "ask", "cancel", "load", "get"}
  BY DEF FirstStep
<1>4. PICK action : \E id \in {Mapping, Stranger} :
         b = Button(action, id) /\ (action \notin {"reply", "quick", "ignore"} => id = Stranger)
  BY <1>2 DEF Buttons, BuildOwnerMessageKeyboard, BuildBanConfirmKeyboard, BuildIgnoredKeyboard,
              Subject
<1>5. PICK id \in {Mapping, Stranger} :
         b = Button(action, id) /\ (action \notin {"reply", "quick", "ignore"} => id = Stranger)
  BY <1>4
<1>6. ParseCallback(b.unique, b.data).id = id /\ b.unique = action
  BY <1>2, <1>5, IdAssumption, ButtonCall
<1>7. ActOf(b.unique) \in Decisions => ParseCallback(b.unique, b.data).id = Stranger
  BY <1>5, <1>6 DEF ActOf, Decisions
<1> QED BY <1>2, <1>3, <1>7, ArriveSettled

LEMMA CommandSettled ==
  ASSUME IndInv, Settled, NEW p \in Procs, Command(p)
  PROVE  Settled'
<1>1. PICK u \in Updates :
        Arrive(p, IF ParseCommand(u.text).name = "reply" THEN "get" ELSE "set",
               ParseCommand(u.text).name, ParseCommand(u.text).id, 0, u.sender, u.chat)
  BY DEF Command
<1>2. CASE ParseCommand(u.text).name = "reply"
  BY <1>1, <1>2, ArriveSettled
<1>3. CASE ParseCommand(u.text).name # "reply"
  BY <1>1, <1>3, ArriveSettled
<1> QED BY <1>2, <1>3

\* The bot's own steps interfere with a decision, or cannot meet one.
LEMMA BotSettled ==
  ASSUME IndInv, Settled,
         \/ GetUser \/ SendRichOwner \/ CreateMessageMapping \/ AttachKeyboard \/ SendPanel
         \/ BotSets \/ MarkReplied
  PROVE  Settled'
<1>1. CASE GetUser \/ SendRichOwner \/ CreateMessageMapping \/ AttachKeyboard \/ SendPanel
  <2>1. relay # "done" /\ UNCHANGED <<handler, tidy>>
    BY <1>1 DEF GetUser, SendRichOwner, CreateMessageMapping, AttachKeyboard, SendPanel
  <2>2. tidy' = Idle /\ Busy' = Busy /\ \A p \in Busy : ~handler[p].alone
    BY <2>1 DEF Settled, Busy, At
  <2> QED BY <2>1, <2>2 DEF Settled, LoneDecisionSettles
<1>2. CASE BotSets
  <2>1. PICK s \in {"blocked", "normal"} :
          handler' = [q \in Procs |-> IF q \in Busy THEN [Seeing(s)[q] EXCEPT !.alone = FALSE]
                                     ELSE Idle]
    BY <1>2 DEF BotSets
  <2>2. tidy' = Idle
    BY <1>2 DEF BotSets
  <2>3. ASSUME NEW q \in Busy'  PROVE ~handler'[q].alone
    <3>1. q \in Procs /\ q \in Busy
      BY <2>1, <2>3 DEF Busy, At, Idle
    <3>2. Seeing(s)[q] \in Active
      BY <3>1, SeenBy DEF IndInv, Statuses
    <3>3. handler'[q] = [Seeing(s)[q] EXCEPT !.alone = FALSE]
      BY <2>1, <3>1
    <3> HIDE DEF Seeing
    <3> QED BY <3>2, <3>3 DEF Active
  <2> QED BY <2>2, <2>3 DEF Settled, LoneDecisionSettles
<1>3. CASE MarkReplied
  BY <1>3 DEF MarkReplied, Settled, LoneDecisionSettles, Busy, At, OnCourse, Result
<1> QED BY <1>1, <1>2, <1>3

LEMMA SettledKept == IndInv /\ Settled /\ [Next]_vars => Settled'
<1> SUFFICES ASSUME IndInv, Settled, [Next]_vars  PROVE Settled'
  OBVIOUS
<1>1. ASSUME NEW p \in Procs, Press(p) \/ Command(p)  PROVE Settled'
  BY <1>1, PressSettled, CommandSettled
<1>2. ASSUME NEW p \in Procs, HandlerStep(p)  PROVE Settled'
  BY <1>2, SetRowSettled, AuditSettled, RefreshSettled, EditPanelSettled, OthersSettled
     DEF HandlerStep
<1>3. CASE \/ GetUser \/ SendRichOwner \/ CreateMessageMapping \/ AttachKeyboard \/ SendPanel
           \/ BotSets \/ MarkReplied
  BY <1>3, BotSettled
<1>4. CASE UNCHANGED vars
  BY <1>4 DEF vars, Settled, LoneDecisionSettles, Busy, At, OnCourse, Result
<1> QED BY <1>1, <1>2, <1>3, <1>4 DEF Next

LEMMA SettledInit == Init => Settled
BY DEF Init, Settled, LoneDecisionSettles, Busy, At, Idle

--------------------------------------------------------------------------------
\* Every variable keeps its type.
THEOREM TypeCorrect == Spec => []TypeOK
BY Invariance, PTL DEF IndInv

\* Every row of the audit log stands for an update or a reply that took effect,
\* in whatever order the handlers write them: each row still to be written is
\* paid for by the update its handler has made (callbacks.go:190, 227, 241).
THEOREM AuditIsBacked == Spec => []AuditBacked
<1>1. IndInv => AuditBacked
  <2> SUFFICES ASSUME IndInv, NEW a \in Recorded  PROVE audited[a] <= written[a]
    BY DEF AuditBacked
  <2>1. IsFiniteSet(Auditing(a))
    BY ProcsAssumption, FS_Subset DEF Auditing
  <2>2. Cardinality(Auditing(a)) \in Nat
    BY <2>1, FS_CardinalityType
  <2>3. audited[a] + Cardinality(Auditing(a)) <= written[a] /\ audited[a] \in Nat /\ written[a] \in Nat
    BY DEF IndInv, AuditsOwed, TypeOK
  <2> QED BY <2>2, <2>3
<1> QED BY <1>1, Invariance, PTL

\* Only the owner's own updates from the private chat write rows and send, and
\* /reply reaches no one who was blocked all the time since it was written
\* (middleware.go:25, handlers.go:522).
THEOREM RulesAreKept == Spec => []RulesKept
BY Invariance, PTL DEF IndInv

\* A keyboard shows a status that the stranger has had since the handler of his
\* message read it, however many decisions have been made before the message was
\* relayed and the keyboard attached (handlers.go:149, handlers.go:211,
\* callbacks.go:244).
THEOREM KeyboardsWereTrue == Spec => []KeyboardWasTrue
<1>1. IndInv => KeyboardWasTrue
  BY DEF IndInv, ChatTrue, KeyboardWasTrue
<1> QED BY <1>1, Invariance, PTL

\* A confirmation says "banned" only if its own ban took effect or was reported
\* there to have found no user, and a message is shown as ignored only once that
\* is on record (callbacks.go:160, 190).
THEOREM PanelsAreTrue == Spec => []PanelsTrue
<1>1. IndInv => PanelsTrue
  BY DEF IndInv, ChatTrue, PanelsTrue, Marked
<1> QED BY <1>1, Invariance, PTL

\* A decision that nothing interfered with, and no call of which failed, leaves
\* the row, the newest audit row and the keyboard in agreement (callbacks.go:227).
THEOREM LoneDecisions == Spec => []LoneDecisionSettles
<1>1. Spec => []Settled
  BY SettledInit, SettledKept, Invariance, PTL DEF Spec
<1>2. Settled => LoneDecisionSettles
  BY DEF Settled
<1> QED BY <1>1, <1>2, PTL
================================================================================
