----------------------------- MODULE Intake_proofs -----------------------------
(***************************************************************************)
(* Theorems about Intake, for any strangers, handlers, threshold and       *)
(* length of a temporary ban.  The invariant, IndInv, has three parts that *)
(* do not depend on each other: the owner's decision (FirmStep), what a    *)
(* copy of the row is worth (NormalStep) and automatic bans (BansStep).    *)
(***************************************************************************)
EXTENDS Intake, TLAPS

\* A goroutine at a step of a message holds a stranger and a copy of a row.
LEMMA ActiveHandler ==
  ASSUME TypeOK, NEW p \in Procs, handler[p].step # "idle"
  PROVE  /\ handler[p] \in Active
         /\ handler[p].step \in Step
         /\ handler[p].user \in Users
         /\ row[handler[p].user] \in Row
         /\ handler[p].until \in Until
         /\ handler[p].status \in Status
<1>1. handler[p] \in Active \cup {Idle}
  BY DEF TypeOK
<1>2. handler[p] \in Active
  BY <1>1 DEF Idle
<1> QED
  BY <1>2 DEF TypeOK, Active

\* What every step does to the history variable normal.
LEMMA NormalTyped == Observe => normal' \subseteq Procs
BY DEF Observe

\* A handler's step leaves the owner's decisions and the other handlers alone.
LEMMA HandlerEffects ==
  ASSUME TypeOK, NEW p \in Procs, HandlerStep(p) \/ Fail(p)
  PROVE  /\ ~ At(p, "idle")
         /\ Observe
         /\ firm' = firm
         /\ \A q \in Procs \ {p} : handler'[q] = handler[q]
BY DEF TypeOK, HandlerStep, At, GoTo, Finish, UpsertUser, GetUser, RefreshExpired,
       RefreshNothing, Reject, TooLong, Admit, Allowed, Limited, AutoBanNotDue,
       AutoBanRead, AutoBanRuns, AutoBanDue, AutoBan, Record, Forward, Fail

\* An empty table and idle goroutines are well typed.
LEMMA InitTyped == Init => TypeOK
BY ThresholdAssumption, BanAssumption
   DEF Init, TypeOK, Row, Missing, Until, NoBan, Status, Writer, Idle

\* Every action keeps the types.
LEMMA TypeStep == TypeOK /\ [Next]_vars => TypeOK'
<1> SUFFICES ASSUME TypeOK, [Next]_vars  PROVE TypeOK'
  OBVIOUS
<1>1. CASE \E p \in Procs, u \in Users : Receive(p, u)
  BY <1>1, NormalTyped DEF Receive, TypeOK, Active, Step, Status, Until, NoBan
<1>2. CASE \E p \in Procs : HandlerStep(p) \/ Fail(p)
  <2>1. PICK p \in Procs : HandlerStep(p) \/ Fail(p)
    BY <1>2
  <2>2. ~ At(p, "idle")
    BY <2>1, HandlerEffects
  <2> DEFINE h == handler[p]
             r == row[handler[p].user]
  <2>3. /\ h \in Active /\ h.step \in Step /\ h.user \in Users
        /\ h.until \in Until /\ h.status \in Status
        /\ r \in Row
    BY <2>2, ActiveHandler DEF At
  <2>4. /\ r.status \in Status /\ r.until \in Until /\ r.limited \in 0..Threshold
    BY <2>3 DEF Row
  <2>5. /\ BanTicks \in Until /\ NoBan \in Until /\ "normal" \in Status /\ "blocked" \in Status
        /\ (IF r.limited < Threshold THEN r.limited + 1 ELSE r.limited) \in 0..Threshold
    BY <2>4, BanAssumption, ThresholdAssumption DEF Until, Status
  <2> SUFFICES /\ row' \in [Users -> Row]
               /\ handler' \in [Procs -> Active \cup {Idle}]
               /\ by' \in [Users -> Writer]
               /\ audited' \subseteq Users
               /\ firm' = firm
               /\ Observe
    BY NormalTyped DEF TypeOK
  <2>6. CASE UpsertUser(p)
    <3>1. [r EXCEPT !.exists = TRUE] \in Row
      BY <2>3, <2>4, <2>5 DEF Row
    <3>2. [h EXCEPT !.step = "get"] \in Active
      BY <2>3, <2>4, <2>5 DEF Active, Step
    <3>3. row' = [row EXCEPT ![h.user] = [r EXCEPT !.exists = TRUE]]
      BY <2>6 DEF UpsertUser
    <3>4. handler' = [handler EXCEPT ![p] = [h EXCEPT !.step = "get"]]
      BY <2>6 DEF GoTo, UpsertUser
    <3>5. row' \in [Users -> Row] /\ handler' \in [Procs -> Active \cup {Idle}]
      BY <2>3, <3>1, <3>2, <3>3, <3>4 DEF TypeOK
    <3> QED
      BY <2>6, <2>3, <3>5 DEF TypeOK, Writer, UpsertUser
  <2>7. CASE GetUser(p)
    <3>2. [h EXCEPT !.step = "refresh", !.status = r.status, !.until = r.until] \in Active
      BY <2>3, <2>4, <2>5 DEF Active, Step
    <3>4. handler' = [handler EXCEPT ![p] =
                        [h EXCEPT !.step = "refresh", !.status = r.status, !.until = r.until]]
      BY <2>7 DEF GoTo, GetUser
    <3>5. handler' \in [Procs -> Active \cup {Idle}]
      BY <2>3, <3>2, <3>4 DEF TypeOK
    <3> QED
      BY <2>7, <2>3, <3>5 DEF TypeOK, Writer, GetUser
  <2>8. CASE RefreshExpired(p)
    <3>1. [r EXCEPT !.status = "normal", !.until = NoBan] \in Row
      BY <2>3, <2>4, <2>5 DEF Row
    <3>2. [h EXCEPT !.step = "gate", !.status = "normal", !.until = NoBan] \in Active
      BY <2>3, <2>4, <2>5 DEF Active, Step
    <3>3. row' = [row EXCEPT ![h.user] = [r EXCEPT !.status = "normal", !.until = NoBan]]
      BY <2>8 DEF RefreshExpired, ClearBan
    <3>4. handler' = [handler EXCEPT ![p] =
                        [h EXCEPT !.step = "gate", !.status = "normal", !.until = NoBan]]
      BY <2>8 DEF GoTo, RefreshExpired, ClearBan
    <3>5. row' \in [Users -> Row] /\ handler' \in [Procs -> Active \cup {Idle}]
      BY <2>3, <3>1, <3>2, <3>3, <3>4 DEF TypeOK
    <3> QED
      BY <2>8, <2>3, <3>5 DEF TypeOK, Writer, RefreshExpired, ClearBan
  <2>9. CASE RefreshNothing(p)
    BY <2>9, <2>3, <2>4, <2>5 DEF TypeOK, Writer, At, GoTo, Finish, Active, Step, RefreshNothing
  <2>10. CASE Reject(p)
    BY <2>10, <2>3, <2>4, <2>5 DEF TypeOK, Writer, At, GoTo, Finish, Active, Step, Reject
  <2>11. CASE TooLong(p)
    BY <2>11, <2>3, <2>4, <2>5 DEF TypeOK, Writer, At, GoTo, Finish, Active, Step, TooLong
  <2>12. CASE Admit(p)
    BY <2>12, <2>3, <2>4, <2>5 DEF TypeOK, Writer, At, GoTo, Finish, Active, Step, Admit
  <2>13. CASE Allowed(p)
    BY <2>13, <2>3, <2>4, <2>5 DEF TypeOK, Writer, At, GoTo, Finish, Active, Step, Allowed
  <2>14. CASE AutoBanNotDue(p)
    BY <2>14, <2>3, <2>4, <2>5 DEF TypeOK, Writer, At, GoTo, Finish, Active, Step, AutoBanNotDue
  <2>15. CASE AutoBanRuns(p)
    BY <2>15, <2>3, <2>4, <2>5 DEF TypeOK, Writer, At, GoTo, Finish, Active, Step, AutoBanRuns
  <2>16. CASE Record(p)
    BY <2>16, <2>3, <2>4, <2>5 DEF TypeOK, Writer, At, GoTo, Finish, Active, Step, Record
  <2>17. CASE Forward(p)
    BY <2>17, <2>3, <2>4, <2>5 DEF TypeOK, Writer, At, GoTo, Finish, Active, Step, Forward
  <2>18. CASE Fail(p)
    BY <2>18, <2>3, <2>4, <2>5 DEF TypeOK, Writer, At, GoTo, Finish, Active, Step, Fail
  <2>19. CASE Limited(p)
    <3>1. [r EXCEPT !.limited = IF r.limited < Threshold THEN r.limited + 1 ELSE r.limited] \in Row
      BY <2>3, <2>4, <2>5 DEF Row
    <3>2. [h EXCEPT !.step = "check"] \in Active
      BY <2>3, <2>4, <2>5 DEF Active, Step
    <3>3. row' = [row EXCEPT ![h.user] =
                    [r EXCEPT !.limited = IF r.limited < Threshold THEN r.limited + 1
                                          ELSE r.limited]]
      BY <2>19 DEF Limited
    <3>4. handler' = [handler EXCEPT ![p] = [h EXCEPT !.step = "check"]]
      BY <2>19 DEF GoTo, Limited
    <3>5. row' \in [Users -> Row] /\ handler' \in [Procs -> Active \cup {Idle}]
      BY <2>3, <3>1, <3>2, <3>3, <3>4 DEF TypeOK
    <3> QED
      BY <2>19, <2>3, <3>5 DEF TypeOK, Writer, Limited
  <2>20. CASE AutoBanRead(p)
    <3>2. [h EXCEPT !.step = "due", !.until = r.until] \in Active
      BY <2>3, <2>4, <2>5 DEF Active, Step
    <3>4. handler' = [handler EXCEPT ![p] = [h EXCEPT !.step = "due", !.until = r.until]]
      BY <2>20 DEF GoTo, AutoBanRead
    <3>5. handler' \in [Procs -> Active \cup {Idle}]
      BY <2>3, <3>2, <3>4 DEF TypeOK
    <3> QED
      BY <2>20, <2>3, <3>5 DEF TypeOK, Writer, AutoBanRead
  <2>21. CASE AutoBanDue(p)
    <3>2. [h EXCEPT !.step = "ban", !.until = BanTicks] \in Active
      BY <2>3, <2>4, <2>5 DEF Active, Step
    <3>4. handler' = [handler EXCEPT ![p] = [h EXCEPT !.step = "ban", !.until = BanTicks]]
      BY <2>21 DEF GoTo, AutoBanDue
    <3>5. handler' \in [Procs -> Active \cup {Idle}]
      BY <2>3, <3>2, <3>4 DEF TypeOK
    <3> QED
      BY <2>21, <2>3, <3>5 DEF TypeOK, Writer, AutoBanDue
  <2>22. CASE AutoBan(p)
    <3>1. [r EXCEPT !.status = "blocked", !.until = h.until] \in Row
      BY <2>3, <2>4, <2>5 DEF Row
    <3>2. [h EXCEPT !.step = "record"] \in Active
      BY <2>3, <2>4, <2>5 DEF Active, Step
    <3>3. row' = [row EXCEPT ![h.user] = [r EXCEPT !.status = "blocked", !.until = h.until]]
      BY <2>22 DEF AutoBan, SetUserBannedUntil
    <3>4. handler' = [handler EXCEPT ![p] = [h EXCEPT !.step = "record"]]
      BY <2>22 DEF GoTo, AutoBan, SetUserBannedUntil
    <3>5. row' \in [Users -> Row] /\ handler' \in [Procs -> Active \cup {Idle}]
      BY <2>3, <3>1, <3>2, <3>3, <3>4 DEF TypeOK
    <3> QED
      BY <2>22, <2>3, <3>5 DEF TypeOK, Writer, AutoBan, SetUserBannedUntil
  <2> QED
    BY <2>1, <2>6, <2>7, <2>8, <2>9, <2>10, <2>11, <2>12, <2>13, <2>14,
       <2>15, <2>16, <2>17, <2>18, <2>19, <2>20, <2>21, <2>22
    DEF HandlerStep
<1>3. CASE \E u \in Users : OwnerStep(u)
  <2>1. PICK u \in Users : OwnerStep(u)
    BY <1>3
  <2>2. row[u] \in Row
    BY DEF TypeOK
  <2>3. /\ \A s \in Status : [row[u] EXCEPT !.status = s] \in Row
        /\ [row[u] EXCEPT !.status = "normal", !.until = NoBan] \in Row
    BY <2>2 DEF Row, Status, Until
  <2>4. row' \in [Users -> Row] /\ firm' \in [Users -> {"none", "muted", "blocked"}]
    BY <2>1, <2>3 DEF OwnerStep, Ban, Mute, Unmute, Unban, OwnerSets, SetUserStatus,
                      ClearBan, TypeOK, Status
  <2> QED
    BY <2>1, <2>4, NormalTyped
    DEF OwnerStep, Ban, Mute, Unmute, Unban, OwnerSets, TypeOK, Writer
<1>4. CASE Tick
  <2>1. \A t \in Until : Sooner(t) \in Until
    BY BanAssumption DEF Sooner, Until, NoBan
  <2>2. \A r \in Row : [r EXCEPT !.until = Sooner(r.until)] \in Row
    BY <2>1 DEF Row
  <2>3. \A h \in Active : [h EXCEPT !.until = Sooner(h.until)] \in Active
    BY <2>1 DEF Active
  <2>4. row' \in [Users -> Row]
    BY <1>4, <2>2 DEF Tick, TypeOK
  <2>5. handler' \in [Procs -> Active \cup {Idle}]
    BY <1>4, <2>3 DEF Tick, TypeOK, At, Idle
  <2> QED
    BY <1>4, <2>4, <2>5, NormalTyped DEF Tick, TypeOK
<1>5. CASE Restart
  BY <1>5, NormalTyped DEF Restart, TypeOK
<1>6. CASE UNCHANGED vars
  BY <1>6 DEF vars, TypeOK
<1> QED
  BY <1>1, <1>2, <1>3, <1>4, <1>5, <1>6 DEF Next

--------------------------------------------------------------------------------
\* The owner's decision: while it is firm no handler of its stranger writes the
\* row, because each holds the decision in its copy and stops at the gate.
LEMMA FirmStep ==
  TypeOK /\ DecisionStays /\ FirmCopies /\ [Next]_vars => DecisionStays' /\ FirmCopies'
<1> SUFFICES ASSUME TypeOK, DecisionStays, FirmCopies, [Next]_vars,
                    NEW u \in Users, firm'[u] # "none"
             PROVE  /\ row'[u].status = firm'[u] /\ row'[u].until = NoBan
                    /\ \A q \in Procs : MayWrite(q, u)' => CopyFirm(q)'
  BY DEF DecisionStays, FirmCopies
<1>1. row[u] \in Row /\ row \in [Users -> Row] /\ handler \in [Procs -> Active \cup {Idle}]
  BY DEF TypeOK
<1>2. ASSUME firm'[u] = firm[u]
      PROVE  /\ row[u].status = firm[u] /\ row[u].until = NoBan
             /\ firm[u] \in {"muted", "blocked"}
             /\ \A q \in Procs : MayWrite(q, u) => CopyFirm(q)
  BY <1>2 DEF DecisionStays, FirmCopies, TypeOK
<1>3. CASE \E p \in Procs, v \in Users : Receive(p, v)
  BY <1>3, <1>2, <1>1 DEF Receive, MayWrite, Handles, At, CopyFirm
<1>4. CASE \E p \in Procs : HandlerStep(p) \/ Fail(p)
  <2>1. PICK p \in Procs : HandlerStep(p) \/ Fail(p)
    BY <1>4
  <2>2. firm' = firm
    BY <2>1, HandlerEffects
  <2>3. /\ row[u].status = firm[u] /\ row[u].until = NoBan
        /\ firm[u] \in {"muted", "blocked"}
        /\ \A q \in Procs : MayWrite(q, u) => CopyFirm(q)
    BY <2>2, <1>2
  <2>4. ~ At(p, "idle")
    BY <2>1, HandlerEffects
  <2>5. handler[p] \in Active /\ handler[p].user \in Users /\ row[handler[p].user] \in Row
    BY <2>4, ActiveHandler DEF At
  \* The other handlers keep their copies: it is enough to look at p.
  <2> SUFFICES /\ row'[u].status = row[u].status /\ row'[u].until = row[u].until
               /\ \A q \in Procs \ {p} : handler'[q] = handler[q]
               /\ MayWrite(p, u)' => CopyFirm(p)'
    BY <2>2, <2>3 DEF MayWrite, Handles, At, CopyFirm
  <2>6. CASE UpsertUser(p)
    BY <2>6, <1>1, <2>2, <2>3, <2>5 DEF UpsertUser,
       MayWrite, Handles, At, CopyFirm, GoTo, Finish, Idle, Active, Row
  <2>7. CASE GetUser(p)
    BY <2>7, <1>1, <2>2, <2>3, <2>5 DEF GetUser,
       MayWrite, Handles, At, CopyFirm, GoTo, Finish, Idle, Active, Row
  <2>8. CASE RefreshExpired(p)
    BY <2>8, <1>1, <2>2, <2>3, <2>5 DEF RefreshExpired, ClearBan, Expired, NoBan,
       MayWrite, Handles, At, CopyFirm, GoTo, Finish, Idle, Active, Row
  <2>9. CASE RefreshNothing(p)
    BY <2>9, <1>1, <2>2, <2>3, <2>5 DEF RefreshNothing,
       MayWrite, Handles, At, CopyFirm, GoTo, Finish, Idle, Active, Row
  <2>10. CASE \/ Reject(p) \/ TooLong(p) \/ AutoBanNotDue(p) \/ AutoBanRuns(p)
              \/ Record(p) \/ Forward(p) \/ Fail(p)
    BY <2>10, <1>1, <2>2, <2>3, <2>5
    DEF Reject, TooLong, AutoBanNotDue, AutoBanRuns, Record, Forward, Fail,
       MayWrite, Handles, At, CopyFirm, GoTo, Finish, Idle, Active, Row
  <2>11. CASE Admit(p)
    BY <2>11, <1>1, <2>2, <2>3, <2>5 DEF Admit, blockedNow,
       MayWrite, Handles, At, CopyFirm, GoTo, Finish, Idle, Active, Row
  <2>12. CASE Allowed(p)
    BY <2>12, <1>1, <2>2, <2>3, <2>5 DEF Allowed,
       MayWrite, Handles, At, CopyFirm, GoTo, Finish, Idle, Active, Row
  <2>13. CASE Limited(p)
    BY <2>13, <1>1, <2>2, <2>3, <2>5 DEF Limited,
       MayWrite, Handles, At, CopyFirm, GoTo, Finish, Idle, Active, Row
  <2>14. CASE AutoBanRead(p)
    BY <2>14, <1>1, <2>2, <2>3, <2>5 DEF AutoBanRead,
       MayWrite, Handles, At, CopyFirm, GoTo, Finish, Idle, Active, Row
  <2>15. CASE AutoBanDue(p)
    BY <2>15, <1>1, <2>2, <2>3, <2>5 DEF AutoBanDue,
       MayWrite, Handles, At, CopyFirm, GoTo, Finish, Idle, Active, Row
  <2>16. CASE AutoBan(p)
    BY <2>16, <1>1, <2>2, <2>3, <2>5 DEF AutoBan, SetUserBannedUntil,
       MayWrite, Handles, At, CopyFirm, GoTo, Finish, Idle, Active, Row
  <2> QED
    BY <2>1, <2>6, <2>7, <2>8, <2>9, <2>10, <2>11, <2>12, <2>13, <2>14, <2>15, <2>16
    DEF HandlerStep
<1>5. CASE \E v \in Users : OwnerStep(v)
  <2>1. PICK v \in Users : OwnerStep(v)
    BY <1>5
  <2>2. handler' = handler
    BY <2>1 DEF OwnerStep, Ban, Mute, Unmute, Unban, OwnerSets
  <2>3. CASE v # u
    BY <2>1, <2>2, <2>3, <1>1, <1>2
    DEF OwnerStep, Ban, Mute, Unmute, Unban, OwnerSets, SetUserStatus, ClearBan, TypeOK,
        MayWrite, Handles, At, CopyFirm
  <2>4. CASE v = u
    <3>1. PICK s \in {"muted", "blocked"} :
            Undisturbed(u) /\ row' = [row EXCEPT ![u].status = s] /\ firm'[u] = s
      BY <2>1, <2>4 DEF OwnerStep, Ban, Mute, Unmute, Unban, OwnerSets, SetUserStatus, TypeOK
    <3>2. row'[u].status = s /\ row'[u].until = NoBan
      BY <3>1, <1>1 DEF Undisturbed, Row
    <3> QED
      BY <3>1, <3>2, <2>2 DEF Undisturbed, MayWrite, Handles, At
  <2> QED
    BY <2>3, <2>4
<1>6. CASE Tick
  <2>1. firm' = firm
    BY <1>6 DEF Tick
  <2>2. row'[u].status = firm[u] /\ row'[u].until = NoBan
    BY <1>6, <2>1, <1>1, <1>2 DEF Tick, Sooner, Row, NoBan
  <2>3. ASSUME NEW q \in Procs, MayWrite(q, u)'  PROVE CopyFirm(q)'
    <3>1. MayWrite(q, u) /\ handler[q] \in Active /\ handler[q].user = u
      BY <1>6, <2>3, <1>1 DEF Tick, MayWrite, Handles, At, Idle, Active
    <3>2. CopyFirm(q)
      BY <3>1, <2>1, <1>2
    <3>3. handler'[q] = [handler[q] EXCEPT !.until = Sooner(handler[q].until)]
      BY <1>6, <3>1 DEF Tick, MayWrite, Handles
    <3> QED
      BY <3>1, <3>2, <3>3, <2>1 DEF CopyFirm, Sooner, NoBan, Active
  <2> QED
    BY <2>1, <2>2, <2>3
<1>7. CASE Restart
  BY <1>7, <1>2 DEF Restart, MayWrite, Handles, At, Idle
<1>8. CASE UNCHANGED vars
  BY <1>8, <1>2 DEF vars, MayWrite, Handles, At, CopyFirm
<1> QED
  BY <1>3, <1>4, <1>5, <1>6, <1>7, <1>8 DEF Next

--------------------------------------------------------------------------------
\* A copy that says normal, and a message past the gate, go back to a moment when
\* the row said so.
LEMMA NormalStep == TypeOK /\ NormalCopies /\ [Next]_vars => NormalCopies'
<1> DEFINE Normal(q) == \/ At(q, "allow") \/ At(q, "send")
                        \/ handler[q].step \in {"refresh", "gate"} /\ handler[q].status = "normal"
<1> SUFFICES ASSUME TypeOK, NormalCopies, [Next]_vars, NEW q \in Procs, Normal(q)'
             PROVE  q \in normal'
  BY DEF NormalCopies
<1>1. row \in [Users -> Row] /\ handler \in [Procs -> Active \cup {Idle}]
  BY DEF TypeOK
<1>2. Runs(q)'
  BY DEF Runs, At
\* It is enough that q said normal before, or that the row does now.
<1>3. ASSUME Observe, Normal(q) \/ RunsNormal(q)'  PROVE q \in normal'
  BY <1>2, <1>3 DEF Observe, NormalCopies
<1>4. CASE \E p \in Procs, v \in Users : Receive(p, v)
  BY <1>4, <1>3, <1>1 DEF Receive, At
<1>5. CASE \E p \in Procs : HandlerStep(p) \/ Fail(p)
  <2>1. PICK p \in Procs : HandlerStep(p) \/ Fail(p)
    BY <1>5
  <2>2. Observe /\ ~ At(p, "idle")
    BY <2>1, HandlerEffects
  <2>3. CASE p # q
    <3>1. handler'[q] = handler[q]
      BY <2>1, <2>3, HandlerEffects
    <3> QED
      BY <3>1, <2>2, <1>3 DEF At
  <2>4. CASE p = q
    <3>1. handler[q] \in Active /\ handler[q].user \in Users /\ handler[q].status \in Status
          /\ row[handler[q].user] \in Row
      BY <2>2, <2>4, ActiveHandler DEF At
    <3>2. CASE GetUser(q)
      <4>1. /\ handler'[q].status = row[handler[q].user].status
            /\ handler'[q].user = handler[q].user
            /\ handler'[q].step = "refresh" /\ row' = row
        BY <3>2, <3>1, <1>1 DEF GetUser, Active
      <4> QED
        BY <4>1, <2>2, <1>2, <1>3 DEF RunsNormal, At
    <3>3. CASE RefreshExpired(q)
      <4>1. /\ handler'[q].user = handler[q].user
            /\ row'[handler[q].user].status = "normal"
        BY <3>3, <3>1, <1>1 DEF RefreshExpired, ClearBan, Active, Row
      <4> QED
        BY <4>1, <2>2, <1>2, <1>3 DEF RunsNormal
    <3>4. CASE Admit(q)
      BY <3>4, <3>1, <2>2, <1>3 DEF Admit, At, blockedNow, Status
    <3>5. CASE RefreshNothing(q) \/ Allowed(q)
      BY <3>5, <3>1, <2>2, <1>3, <1>1 DEF RefreshNothing, Allowed, At, GoTo, Active
    <3>6. CASE UpsertUser(q) \/ Limited(q) \/ AutoBanRead(q) \/ AutoBanDue(q) \/ AutoBan(q)
      <4>1. handler'[q].step \in {"get", "check", "due", "ban", "record"}
        BY <3>6, <3>1, <1>1
        DEF UpsertUser, Limited, AutoBanRead, AutoBanDue, AutoBan, GoTo, Active
      <4> QED
        BY <4>1 DEF At
    <3>7. CASE \/ Reject(q) \/ TooLong(q) \/ AutoBanNotDue(q) \/ AutoBanRuns(q)
               \/ Record(q) \/ Forward(q) \/ Fail(q)
      <4>1. handler'[q] = Idle
        BY <3>7, <1>1
        DEF Reject, TooLong, AutoBanNotDue, AutoBanRuns, Record, Forward, Fail, Finish
      <4> QED
        BY <4>1 DEF Idle, At
    <3> QED
      BY <2>1, <2>4, <3>2, <3>3, <3>4, <3>5, <3>6, <3>7 DEF HandlerStep
  <2> QED
    BY <2>3, <2>4
<1>6. CASE \E v \in Users : OwnerStep(v)
  BY <1>6, <1>3 DEF OwnerStep, Ban, Mute, Unmute, Unban, OwnerSets, At
<1>7. CASE Tick
  <2>1. handler'[q].step = handler[q].step /\ handler'[q].status = handler[q].status
    BY <1>7, <1>1 DEF Tick, At, Idle, Active
  <2> QED
    BY <1>7, <2>1, <1>3 DEF Tick, At
<1>8. CASE Restart
  BY <1>8 DEF Restart, Idle, At
<1>9. CASE UNCHANGED vars
  BY <1>9 DEF vars, NormalCopies, At
<1> QED
  BY <1>4, <1>5, <1>6, <1>7, <1>8, <1>9 DEF Next

--------------------------------------------------------------------------------
\* Automatic bans: past the threshold limited_count stays there, and the bot's
\* bans have an end.
LEMMA BansStep ==
  TypeOK /\ BansDue /\ EndlessBlockIsOwners /\ TemporaryBanEarned /\ [Next]_vars
    => BansDue' /\ EndlessBlockIsOwners' /\ TemporaryBanEarned'
<1> DEFINE Due(q) == handler[q].step \in {"due", "ban", "record"} =>
                       /\ row[handler[q].user].limited >= Threshold
                       /\ At(q, "ban") => handler[q].until # NoBan
           Endless(u) == row[u].status = "blocked" /\ row[u].until = NoBan => by[u] = "ban"
           Earned(u) == row[u].until # NoBan \/ u \in audited => row[u].limited >= Threshold
<1> SUFFICES ASSUME TypeOK, [Next]_vars,
                    \A q \in Procs : Due(q), \A u \in Users : Endless(u) /\ Earned(u)
             PROVE  (\A q \in Procs : Due(q)') /\ (\A u \in Users : Endless(u)' /\ Earned(u)')
  BY DEF BansDue, EndlessBlockIsOwners, TemporaryBanEarned
<1>1. /\ row \in [Users -> Row] /\ handler \in [Procs -> Active \cup {Idle}]
      /\ by \in [Users -> Writer]
  BY DEF TypeOK
<1>2. \A u \in Users : row[u].limited \in 0..Threshold /\ row[u].until \in Until
  BY <1>1 DEF Row
<1> USE ThresholdAssumption
<1>9. \A u \in Users : row'[u].limited \in 0..Threshold
  BY TypeStep DEF TypeOK, Row
<1>3. CASE \E p \in Procs, v \in Users : Receive(p, v)
  <2>1. \A q \in Procs : Due(q)'
    BY <1>3, <1>1 DEF Receive, At
  <2> QED
    BY <1>3, <2>1 DEF Receive
<1>4. CASE \E p \in Procs : HandlerStep(p) \/ Fail(p)
  <2>1. PICK p \in Procs : HandlerStep(p) \/ Fail(p)
    BY <1>4
  <2>2. ~ At(p, "idle")
    BY <2>1, HandlerEffects
  <2>3. handler[p] \in Active /\ handler[p].user \in Users /\ row[handler[p].user] \in Row
    BY <2>2, ActiveHandler DEF At
  <2>4. PICK v \in Users : v = handler[p].user
    BY <2>3
  <2>5. \A q \in Procs \ {p} : handler'[q] = handler[q]
    BY <2>1, HandlerEffects
  \* It is enough to look at p and its stranger.
  <2> SUFFICES /\ \A u \in Users : row'[u].limited >= row[u].limited
               /\ \A u \in Users \ {v} : row'[u] = row[u] /\ by'[u] = by[u]
                                         /\ (u \in audited' => u \in audited)
               /\ Due(p)' /\ Endless(v)' /\ Earned(v)'
    <3>1. ASSUME NEW q \in Procs, \A u \in Users : row'[u].limited >= row[u].limited,
                 Due(p)'
          PROVE  Due(q)'
      <4>1. CASE q = p
        BY <3>1, <4>1
      <4>2. CASE q # p /\ handler[q].step \in {"due", "ban", "record"}
        <5>1. handler[q].user \in Users /\ Due(q)
          BY <4>2, ActiveHandler
        <5>2. row'[handler[q].user].limited >= Threshold
          BY <5>1, <4>2, <3>1, <1>2, <1>9
        <5> QED
          BY <5>1, <5>2, <4>2, <2>5 DEF At
      <4> QED
        BY <4>1, <4>2, <2>5
    <3>2. ASSUME NEW u \in Users \ {v}, row'[u] = row[u], by'[u] = by[u],
                 u \in audited' => u \in audited
          PROVE  Endless(u)' /\ Earned(u)'
      BY <3>2
    <3> QED
      BY <3>1, <3>2
  <2>6. CASE UpsertUser(p)
    BY <2>6, <1>1, <1>2, <2>3, <2>4
    DEF UpsertUser, GoTo, Finish, Idle, Active, Row, At
  <2>7. CASE GetUser(p)
    BY <2>7, <1>1, <1>2, <2>3, <2>4
    DEF GetUser, GoTo, Finish, Idle, Active, Row, At
  <2>8. CASE RefreshExpired(p)
    BY <2>8, <1>1, <1>2, <2>3, <2>4
    DEF RefreshExpired, ClearBan, Expired, GoTo, Finish, Idle, Active, Row, At
  <2>9. CASE RefreshNothing(p)
    BY <2>9, <1>1, <1>2, <2>3, <2>4
    DEF RefreshNothing, GoTo, Finish, Idle, Active, Row, At
  <2>10. CASE \/ Reject(p) \/ TooLong(p) \/ AutoBanNotDue(p) \/ AutoBanRuns(p)
              \/ Forward(p) \/ Fail(p)
    <3>1. row' = row /\ by' = by /\ audited' = audited /\ handler'[p] = Idle
      BY <2>10, <1>1 DEF Reject, TooLong, AutoBanNotDue, AutoBanRuns, Forward, Fail, Finish
    <3> QED
      BY <3>1, <2>4, <1>2 DEF Idle, At
  <2>11. CASE Admit(p) \/ Allowed(p)
    BY <2>11, <1>1, <1>2, <2>3, <2>4
    DEF Admit, Allowed, GoTo, Finish, Idle, Active, Row, At
  <2>12. CASE Limited(p)
    BY <2>12, <1>1, <1>2, <2>3, <2>4
    DEF Limited, GoTo, Finish, Idle, Active, Row, At
  <2>13. CASE AutoBanRead(p)
    BY <2>13, <1>1, <1>2, <2>3, <2>4
    DEF AutoBanRead, GoTo, Finish, Idle, Active, Row, At
  <2>14. CASE AutoBanDue(p)
    BY <2>14, <1>1, <1>2, <2>3, <2>4, BanAssumption
    DEF AutoBanDue, NoBan, GoTo, Finish, Idle, Active, Row, At
  <2>15. CASE AutoBan(p)
    BY <2>15, <1>1, <1>2, <2>3, <2>4
    DEF AutoBan, SetUserBannedUntil, GoTo, Finish, Idle, Active, Row, At
  <2>16. CASE Record(p)
    <3>1. /\ row' = row /\ by' = by /\ audited' = audited \cup {v} /\ handler'[p] = Idle
          /\ handler[p].step = "record"
      BY <2>16, <2>4, <1>1 DEF Record, Finish, At
    <3> QED
      BY <3>1, <2>4, <1>2 DEF Idle, At
  <2> QED
    BY <2>1, <2>6, <2>7, <2>8, <2>9, <2>10, <2>11, <2>12, <2>13, <2>14, <2>15, <2>16
    DEF HandlerStep
<1>5. CASE \E v \in Users : OwnerStep(v)
  <2>1. PICK v \in Users : OwnerStep(v)
    BY <1>5
  <2>2. /\ handler' = handler /\ audited' = audited
        /\ \A u \in Users : row'[u].limited = row[u].limited
    BY <2>1, <1>1 DEF OwnerStep, Ban, Mute, Unmute, Unban, OwnerSets, SetUserStatus,
                      ClearBan, Row
  <2>3. \A q \in Procs : Due(q)'
    <3> SUFFICES ASSUME NEW q \in Procs, handler[q].step \in {"due", "ban", "record"}
                 PROVE  row'[handler[q].user].limited >= Threshold
      BY <2>2 DEF At
    <3> QED
      BY <2>2, ActiveHandler
  <2>4. \A u \in Users : Earned(u)'
    BY <2>1, <2>2, <1>1 DEF OwnerStep, Ban, Mute, Unmute, Unban, OwnerSets, SetUserStatus,
                            ClearBan, Row
  <2>5. \A u \in Users : Endless(u)'
    BY <2>1, <1>1 DEF OwnerStep, Ban, Mute, Unmute, Unban, OwnerSets, SetUserStatus,
                      ClearBan, Row
  <2> QED
    BY <2>3, <2>4, <2>5
<1>6. CASE Tick
  <2>1. \A t \in Until : Sooner(t) = NoBan <=> t = NoBan
    BY DEF Until, Sooner, NoBan
  <2>2. \A u \in Users : /\ row'[u].limited = row[u].limited
                         /\ row'[u].status = row[u].status
                         /\ row'[u].until = NoBan <=> row[u].until = NoBan
    BY <1>6, <2>1, <1>1, <1>2 DEF Tick, Row
  <2>3. ASSUME NEW q \in Procs, handler'[q].step \in {"due", "ban", "record"}
        PROVE  /\ row'[handler'[q].user].limited >= Threshold
               /\ At(q, "ban")' => handler'[q].until # NoBan
    <3>1. handler[q] \in Active /\ handler'[q] = [handler[q] EXCEPT !.until = Sooner(@)]
      BY <1>6, <2>3, <1>1 DEF Tick, At, Idle
    <3> QED
      BY <3>1, <2>1, <2>2, <2>3 DEF Active, At
  <2> QED
    BY <1>6, <2>2, <2>3 DEF Tick
<1>7. CASE Restart
  BY <1>7 DEF Restart, Idle, At
<1>8. CASE UNCHANGED vars
  BY <1>8 DEF vars, At
<1> QED
  BY <1>3, <1>4, <1>5, <1>6, <1>7, <1>8 DEF Next

--------------------------------------------------------------------------------
\* The strengthened invariant is inductive.
LEMMA InitInv == Init => IndInv
<1> SUFFICES ASSUME Init  PROVE IndInv
  OBVIOUS
<1>1. TypeOK
  BY InitTyped
<1>2. DecisionStays /\ FirmCopies
  BY DEF Init, DecisionStays, FirmCopies
<1>3. NormalCopies /\ BansDue
  BY DEF Init, Idle, At, NormalCopies, BansDue
<1>4. EndlessBlockIsOwners /\ TemporaryBanEarned
  BY DEF Init, Missing, EndlessBlockIsOwners, TemporaryBanEarned
<1> QED
  BY <1>1, <1>2, <1>3, <1>4 DEF IndInv

\* The parts of the invariant, put together.
LEMMA InvStep == IndInv /\ [Next]_vars => IndInv'
BY TypeStep, FirmStep, NormalStep, BansStep DEF IndInv

\* The types and the facts about copies that carry the four properties below
\* hold in every reachable state.
THEOREM Invariance == Spec => []IndInv
<1>1. Init => IndInv
  BY InitInv
<1>2. IndInv /\ [Next]_vars => IndInv'
  BY InvStep
<1> QED
  BY <1>1, <1>2, PTL DEF Spec

\* Every reachable state is well typed.
THEOREM TypeCorrect == Spec => []TypeOK
<1>1. IndInv => TypeOK
  BY DEF IndInv
<1> QED
  BY <1>1, Invariance, PTL

\* The owner's undisturbed ban or mute (handlers.go:556, 588) is never undone by
\* messages in progress, automatic bans, expiry or restarts.
THEOREM OwnerDecides == Spec => []DecisionStays
<1>1. IndInv => DecisionStays
  BY DEF IndInv
<1> QED
  BY <1>1, Invariance, PTL

\* A message about to be forwarded belongs to a stranger who was neither blocked
\* nor muted at some moment since it arrived (handlers.go:158).
THEOREM GateHolds == Spec => []ForwardedWasNormal
<1>1. IndInv => ForwardedWasNormal
  BY DEF IndInv, NormalCopies, ForwardedWasNormal
<1> QED
  BY <1>1, Invariance, PTL

\* Only the owner blocks for good (handlers.go:761).
THEOREM BotBansEnd == Spec => []EndlessBlockIsOwners
<1>1. IndInv => EndlessBlockIsOwners
  BY DEF IndInv
<1> QED
  BY <1>1, Invariance, PTL

\* A temporary ban on record has been earned (handlers.go:766).
THEOREM BansEarned == Spec => []TemporaryBanEarned
<1>1. IndInv => TemporaryBanEarned
  BY DEF IndInv
<1> QED
  BY <1>1, Invariance, PTL
================================================================================
