------------------------ MODULE PolicyProjectionProofs ------------------------
(* Theorems about PolicyProjection for any number of sessions, rule rows,     *)
(* documents and versions.                                                    *)
EXTENDS PolicyProjection, Sequences, FiniteSetTheorems, TLAPS

InTransaction == {"locked", "found", "delete"}
InUpdate == {"update", "locked", "found"}

(* The transaction of a session is open exactly while it holds the row lock.  *)
LockOK == \A s \in Sessions : session[s].pc \in InTransaction <=> lock = s

(* An update has read a row that existed, with rules the history knows.       *)
SeenOK ==
    \A s \in Sessions : session[s].pc \in InUpdate =>
        /\ session[s].seen.version \in Versions
        /\ session[s].seen.rules \in Rules
        /\ snapshots[session[s].seen.version] = session[s].seen.rules
        /\ session[s].input.rules # Keep => session[s].seen.version + 1 \in Versions

(* Behind the UNIQUE check the version number of the update stays free.       *)
FreeOK ==
    \A s \in Sessions :
        session[s].pc \in {"locked", "found"} /\ session[s].input.rules # Keep =>
            snapshots[session[s].seen.version + 1] = NoRules

(* The history is empty before Create and an interval from 1 after it.        *)
Recorded(n) == \A v \in Versions : snapshots[v] # NoRules <=> v <= n

HistoryOK ==
    IF Exists
    THEN /\ policy.rules \in Rules
         /\ snapshots[policy.version] = policy.rules
         /\ \E n \in Versions : Recorded(n)
    ELSE Recorded(0)

IInv == TypeOK /\ LockOK /\ SeenOK /\ FreeOK /\ HistoryOK

----------------------------------------------------------------------------
(* A step of session s replaces its record and no other.                      *)
LEMMA SessionFrame ==
    ASSUME session \in [Sessions -> SessionStates], NEW s \in Sessions,
           NEW row \in SessionStates, session' = [session EXCEPT ![s] = row]
    PROVE  /\ session' \in [Sessions -> SessionStates]
           /\ session'[s] = row
           /\ \A t \in Sessions \ {s} : session'[t] = session[t]
  OBVIOUS

(* Records that a session can hold are well typed.                            *)
LEMMA IdleTyped == IdleSession \in SessionStates
  BY NoneAssumption, VersionAssumption
  DEF IdleSession, SessionStates, NoInput, NoRow, UnusedRule, NoRuleInput, AllInputs,
      Row, RuleRow, AllRuleInputs, StorableActions, Statuses, Modes

(* A session that moves on without touching its locals.                       *)
LEMMA MoveTyped ==
    ASSUME TypeOK, NEW s \in Sessions,
           NEW pc \in {"idle", "update", "locked", "found", "delete", "rule_update"},
           session' = [session EXCEPT ![s].pc = pc]
    PROVE  /\ session' \in [Sessions -> SessionStates]
           /\ session'[s].pc = pc
           /\ session'[s].seen = session[s].seen
           /\ session'[s].input = session[s].input
           /\ \A t \in Sessions \ {s} : session'[t] = session[t]
  <1> DEFINE row == [session[s] EXCEPT !.pc = pc]
  <1>1. session \in [Sessions -> SessionStates]
    BY DEF TypeOK
  <1>2. session[s] \in SessionStates
    BY <1>1
  <1>3. /\ row \in SessionStates /\ row.pc = pc
        /\ row.seen = session[s].seen /\ row.input = session[s].input
    BY <1>2 DEF SessionStates
  <1>4. session' = [session EXCEPT ![s] = row]
    OBVIOUS
  <1> HIDE DEF row
  <1>5. QED
    BY <1>1, <1>3, <1>4, SessionFrame

(* What the parts of the invariant that speak of sessions need from a step    *)
(* that changes neither the policy nor the history.                           *)
LEMMA SessionStep ==
    ASSUME IInv, NEW s \in Sessions, UNCHANGED <<policy, snapshots>>, TypeOK',
           \A t \in Sessions \ {s} : session'[t] = session[t],
           session'[s].pc \in InTransaction <=> lock' = s,
           \A t \in Sessions \ {s} : lock' = t <=> lock = t,
           session'[s].pc \in InUpdate =>
               /\ session'[s].seen.version \in Versions
               /\ session'[s].seen.rules \in Rules
               /\ snapshots[session'[s].seen.version] = session'[s].seen.rules
               /\ session'[s].input.rules # Keep => session'[s].seen.version + 1 \in Versions,
           session'[s].pc \in {"locked", "found"} /\ session'[s].input.rules # Keep =>
               snapshots[session'[s].seen.version + 1] = NoRules
    PROVE  IInv'
  <1>1. LockOK'
    BY DEF IInv, LockOK
  <1>2. SeenOK'
    BY DEF IInv, SeenOK
  <1>3. FreeOK'
    BY DEF IInv, FreeOK
  <1>4. HistoryOK'
    BY DEF IInv, HistoryOK, Recorded, Exists
  <1>5. QED
    BY <1>1, <1>2, <1>3, <1>4 DEF IInv

LEMMA InitInv == Init => IInv
  <1> SUFFICES ASSUME Init PROVE IInv
    OBVIOUS
  <1>1. TypeOK
    BY IdleTyped, NoneAssumption, VersionAssumption
    DEF Init, TypeOK, NoRow, Row, UnusedRule, RuleRow, Versions, Statuses, Modes,
        StorableActions
  <1>2. \A s \in Sessions : session[s].pc = "idle"
    BY DEF Init, IdleSession
  <1>3. LockOK /\ SeenOK /\ FreeOK
    BY <1>2, NoneAssumption DEF Init, LockOK, SeenOK, FreeOK, InTransaction, InUpdate
  <1>4. HistoryOK
    BY NoneAssumption, VersionAssumption DEF Init, HistoryOK, Recorded, Exists, NoRow, Versions
  <1>5. QED
    BY <1>1, <1>3, <1>4 DEF IInv

----------------------------------------------------------------------------
(* The struct and the row that an update writes are well typed, and carry the *)
(* rules under the version that its transaction records them with.            *)
LEMMA StructTyped ==
    ASSUME IInv, NEW s \in Sessions, session[s].pc \in InUpdate
    PROVE  /\ Merged(session[s].seen, session[s].input) \in Row
           /\ Merged(session[s].seen, session[s].input).rules \in Rules
           /\ Merged(session[s].seen, session[s].input).version \in Versions
  <1> DEFINE seen == session[s].seen
             input == session[s].input
  <1>1. session[s] \in SessionStates
    BY DEF IInv, TypeOK
  <1>2. /\ seen \in Row /\ seen.version \in Versions /\ seen.rules \in Rules
        /\ input.rules # Keep => seen.version + 1 \in Versions
        /\ input \in AllInputs
    BY <1>1 DEF IInv, SeenOK, SessionStates
  <1> HIDE DEF seen, input
  <1>3. /\ Merged(seen, input) \in Row
        /\ Merged(seen, input).rules \in Rules
        /\ Merged(seen, input).version \in Versions
    BY <1>2, VersionAssumption DEF Merged, Given, Row, AllInputs, Versions
  <1>4. QED
    BY <1>3 DEF seen, input

LEMMA WrittenTyped ==
    ASSUME IInv, Exists, NEW s \in Sessions, session[s].pc \in InUpdate
    PROVE  LET input == session[s].input
               written == Written(session[s].seen, input)
           IN  /\ written \in Row /\ written.rules \in Rules /\ written.version \in Versions
               /\ input.rules = Keep =>
                      snapshots[written.version] = written.rules
               /\ input.rules # Keep =>
                      /\ written.version = session[s].seen.version + 1
                      /\ written.rules = input.rules
  <1> DEFINE seen == session[s].seen
             input == session[s].input
  <1>1. session[s] \in SessionStates
    BY DEF IInv, TypeOK
  <1>2. /\ seen \in Row /\ seen.version \in Versions /\ seen.rules \in Rules
        /\ input.rules # Keep => seen.version + 1 \in Versions
        /\ input \in AllInputs
        /\ snapshots[seen.version] = seen.rules
    BY <1>1 DEF IInv, SeenOK, SessionStates
  <1>3. /\ policy \in Row /\ policy.rules \in Rules /\ policy.version \in Versions
        /\ snapshots[policy.version] = policy.rules
    BY DEF IInv, HistoryOK, TypeOK, Exists, Row, Versions
  <1>4. input = NoInput => input.rules = Keep
    BY DEF NoInput
  <1> HIDE DEF seen, input
  <1>5. CASE input = NoInput
    BY <1>2, <1>4, <1>5 DEF Written, seen, input
  <1>6. CASE input # NoInput
    <2> DEFINE written == [status |-> Given(input.status, policy.status),
                           mode |-> Given(input.mode, policy.mode),
                           rules |-> Given(input.rules, policy.rules),
                           version |-> IF input.rules = Keep THEN policy.version
                                       ELSE seen.version + 1]
    <2>1. /\ written \in Row /\ written.rules \in Rules /\ written.version \in Versions
          /\ input.rules = Keep => /\ written.version = policy.version
                                   /\ written.rules = policy.rules
          /\ input.rules # Keep => /\ written.version = seen.version + 1
                                   /\ written.rules = input.rules
      BY <1>2, <1>3 DEF Given, Row, AllInputs, Versions
    <2>2. Written(seen, input) = written
      BY <1>6 DEF Written
    <2> HIDE DEF written
    <2>3. QED
      BY <2>1, <2>2, <1>3 DEF seen, input
  <1>7. QED
    BY <1>5, <1>6

(* What Project and Create leave in a linked rule is a rule row.              *)
LEMMA ProjectionTyped ==
    ASSUME NEW p \in Row, p.rules \in Rules, Storable(p)
    PROVE  Projection(p) \in RuleRow
  BY DEF Projection, RuleRow, Storable, RuleActive, Row

LEMMA WriteRuleTyped ==
    ASSUME TypeOK, NEW row \in RuleRow, NEW found \in RuleIds \cup {NoRule},
           WriteRule(found, row)
    PROVE  rule' \in [RuleIds -> RuleRow]
  BY DEF TypeOK, WriteRule, Unused, Linked

----------------------------------------------------------------------------
(* Every step preserves the invariant, one lemma for each action. *)

LEMMA CreateStep ==
    ASSUME IInv, NEW input \in CreateInputs, Create(input)
    PROVE  IInv'
  <1> DEFINE p == [status |-> input.status, mode |-> input.mode, rules |-> input.rules,
                   version |-> 1]
  <1>1. /\ policy' = p /\ ~Exists /\ Storable(p)
        /\ snapshots' = [snapshots EXCEPT ![1] = p.rules]
        /\ UNCHANGED <<session, lock>>
        /\ \E i \in Unused : rule' = [rule EXCEPT ![i] = Projection(p)]
        /\ writer' = "fresh"
    BY DEF Create
  <1>2. p \in Row /\ p.rules \in Rules /\ p.version = 1
    BY InputAssumption, VersionAssumption DEF AllCreateInputs, Row
  <1> HIDE DEF p
  <1>3. Projection(p) \in RuleRow
    BY <1>1, <1>2, ProjectionTyped
  <1>4. 1 \in Versions
    BY VersionAssumption DEF Versions
  <1>5. TypeOK'
    BY <1>1, <1>2, <1>3, <1>4 DEF IInv, TypeOK, Unused
  <1>6. Recorded(0)
    BY <1>1 DEF IInv, HistoryOK
  <1>7. \A s \in Sessions : session[s].pc \notin InUpdate
    BY <1>6, NoneAssumption DEF IInv, SeenOK, Recorded, Versions
  <1>8. LockOK' /\ SeenOK' /\ FreeOK'
    BY <1>1, <1>7 DEF IInv, LockOK, SeenOK, FreeOK, InUpdate
  <1>9. HistoryOK'
    <2>1. Recorded(1)'
      BY <1>1, <1>2, <1>4, <1>6, NoneAssumption DEF Recorded, IInv, TypeOK, Versions
    <2>2. Exists'
      BY <1>1, <1>2 DEF Exists
    <2>3. snapshots'[policy'.version] = policy'.rules
      BY <1>1, <1>2, <1>4 DEF IInv, TypeOK
    <2>4. QED
      BY <2>1, <2>2, <2>3, <1>1, <1>2, <1>4 DEF HistoryOK
  <1>10. QED
    BY <1>5, <1>8, <1>9 DEF IInv

LEMMA ReadStep ==
    ASSUME IInv, NEW s \in Sessions, NEW input \in AllInputs, Read(s, input)
    PROVE  IInv'
  <1> DEFINE row == [IdleSession EXCEPT !.pc = "update", !.input = input, !.seen = policy]
  <1>1. /\ session[s].pc = "idle" /\ Exists
        /\ input.rules # Keep => policy.version < MaxVersion
        /\ session' = [session EXCEPT ![s] = row]
        /\ UNCHANGED <<policy, snapshots, rule, lock, writer>>
    BY DEF Read
  <1>2. /\ policy \in Row /\ policy.version \in Versions /\ policy.rules \in Rules
        /\ snapshots[policy.version] = policy.rules
    BY <1>1 DEF IInv, TypeOK, HistoryOK, Exists, Row, Versions
  <1>3. /\ row \in SessionStates /\ row.pc = "update" /\ row.input = input
        /\ row.seen = policy
    BY <1>2, IdleTyped DEF IdleSession, SessionStates
  <1>4. /\ session' \in [Sessions -> SessionStates] /\ session'[s] = row
        /\ \A t \in Sessions \ {s} : session'[t] = session[t]
    <2> HIDE DEF row
    <2> QED BY <1>1, <1>3, SessionFrame DEF IInv, TypeOK
  <1> HIDE DEF row
  <1>5. TypeOK'
    BY <1>1, <1>4 DEF IInv, TypeOK
  <1>6. input.rules # Keep => policy.version + 1 \in Versions
    BY <1>1, <1>2, VersionAssumption DEF Versions
  <1>7. lock # s
    BY <1>1 DEF IInv, LockOK, InTransaction
  <1>8. QED
    BY <1>1, <1>2, <1>3, <1>4, <1>5, <1>6, <1>7, SessionStep DEF InTransaction, InUpdate

(* Rollback reads with a body of its own.                                     *)
LEMMA RollbackStep ==
    ASSUME IInv, NEW s \in Sessions, NEW v \in Versions, Rollback(s, v)
    PROVE  IInv'
  <1>1. [NoInput EXCEPT !.rules = snapshots[v]] \in AllInputs
    BY NoneAssumption DEF Rollback, IInv, TypeOK, NoInput, AllInputs
  <1>2. QED
    BY <1>1, ReadStep DEF Rollback

LEMMA LockPolicyStep ==
    ASSUME IInv, NEW s \in Sessions, LockPolicy(s)
    PROVE  IInv'
  <1>1. /\ session[s].pc = "update" /\ lock = NoSession /\ lock' = s
        /\ session' = [session EXCEPT ![s].pc = "locked"]
        /\ UNCHANGED <<policy, snapshots, rule, writer>>
        /\ ~SnapshotTaken(s)
    BY DEF LockPolicy
  <1>2. /\ session' \in [Sessions -> SessionStates]
        /\ session'[s].pc = "locked" /\ session'[s].seen = session[s].seen
        /\ session'[s].input = session[s].input
        /\ \A t \in Sessions \ {s} : session'[t] = session[t]
    BY <1>1, MoveTyped DEF IInv
  <1>3. TypeOK'
    BY <1>1, <1>2 DEF IInv, TypeOK
  <1>4. session[s].input.rules # Keep => snapshots[session[s].seen.version + 1] = NoRules
    BY <1>1 DEF SnapshotTaken
  <1>5. \A t \in Sessions \ {s} : lock' = t <=> lock = t
    BY <1>1, NoneAssumption
  <1>6. QED
    BY <1>1, <1>2, <1>3, <1>4, <1>5, SessionStep DEF IInv, SeenOK, InTransaction, InUpdate

(* A session that gives up or is done without a write.                        *)
LEMMA IdleStep ==
    ASSUME IInv, NEW s \in Sessions, session' = [session EXCEPT ![s] = IdleSession],
           UNCHANGED <<policy, snapshots>>, TypeOK', lock' # s,
           \A t \in Sessions \ {s} : lock' = t <=> lock = t
    PROVE  IInv'
  <1>1. /\ session'[s] = IdleSession
        /\ \A t \in Sessions \ {s} : session'[t] = session[t]
    BY IdleTyped, SessionFrame DEF IInv, TypeOK
  <1>2. session'[s].pc = "idle"
    BY <1>1 DEF IdleSession
  <1>3. QED
    BY <1>1, <1>2, SessionStep DEF InTransaction, InUpdate

LEMMA VersionConflictStep ==
    ASSUME IInv, NEW s \in Sessions, VersionConflict(s)
    PROVE  IInv'
  <1>1. /\ lock = NoSession /\ session' = [session EXCEPT ![s] = IdleSession]
        /\ UNCHANGED <<policy, snapshots, rule, lock, writer>>
    BY DEF VersionConflict
  <1>2. TypeOK'
    BY <1>1, IdleTyped DEF IInv, TypeOK
  <1>3. QED
    BY <1>1, <1>2, IdleStep, NoneAssumption

LEMMA AbortStep ==
    ASSUME IInv, NEW s \in Sessions, Abort(s)
    PROVE  IInv'
  <1>1. /\ session[s].pc \in InTransaction /\ lock' = NoSession
        /\ session' = [session EXCEPT ![s] = IdleSession]
        /\ UNCHANGED <<policy, snapshots, rule, writer>>
    BY DEF Abort, InTransaction
  <1>2. TypeOK'
    BY <1>1, IdleTyped DEF IInv, TypeOK
  <1>3. lock = s
    BY <1>1 DEF IInv, LockOK
  <1>4. QED
    BY <1>1, <1>2, <1>3, IdleStep, NoneAssumption

LEMMA FindRuleStep ==
    ASSUME IInv, NEW s \in Sessions, FindRule(s)
    PROVE  IInv'
  <1>1. /\ session[s].pc = "locked"
        /\ UNCHANGED <<policy, snapshots, rule, lock, writer>>
    BY DEF FindRule
  <1>2. PICK i \in RuleIds \cup {NoRule} :
           session' = [session EXCEPT ![s].pc = "found", ![s].rule = i]
    BY DEF FindRule, Linked
  <1> DEFINE row == [session[s] EXCEPT !.pc = "found", !.rule = i]
  <1>3. session[s] \in SessionStates
    BY DEF IInv, TypeOK
  <1>4. /\ row \in SessionStates /\ row.pc = "found"
        /\ row.seen = session[s].seen /\ row.input = session[s].input
    BY <1>3 DEF SessionStates
  <1>5. session' = [session EXCEPT ![s] = row]
    BY <1>2
  <1> HIDE DEF row
  <1>6. /\ session' \in [Sessions -> SessionStates] /\ session'[s] = row
        /\ \A t \in Sessions \ {s} : session'[t] = session[t]
    BY <1>4, <1>5, SessionFrame DEF IInv, TypeOK
  <1>7. TypeOK'
    BY <1>1, <1>6 DEF IInv, TypeOK
  <1>8. lock = s
    BY <1>1 DEF IInv, LockOK, InTransaction
  <1>9. QED
    BY <1>1, <1>4, <1>6, <1>7, <1>8, SessionStep
    DEF IInv, SeenOK, FreeOK, InTransaction, InUpdate

LEMMA ProjectStep ==
    ASSUME IInv, NEW s \in Sessions, Project(s)
    PROVE  IInv'
  <1> DEFINE seen == session[s].seen
             input == session[s].input
             struct == Merged(seen, input)
             n == seen.version + 1
  <1>1. /\ session[s].pc = "found" /\ Storable(struct)
        /\ policy' = Written(seen, input)
        /\ snapshots' = IF input.rules = Keep THEN snapshots
                        ELSE [snapshots EXCEPT ![struct.version] = struct.rules]
        /\ WriteRule(session[s].rule, Projection(struct))
        /\ writer' \in {"fresh", "stale", writer}
        /\ session' = [session EXCEPT ![s] = IdleSession]
        /\ lock' = NoSession
    BY DEF Project
  <1>2. lock = s /\ session[s].pc \in InUpdate
    BY <1>1 DEF IInv, LockOK, InTransaction, InUpdate
  <1>3. /\ seen.version \in Versions /\ snapshots[seen.version] = seen.rules
        /\ seen.rules \in Rules
        /\ input.rules # Keep => n \in Versions
    BY <1>2 DEF IInv, SeenOK
  <1>4. Exists
    BY <1>3, NoneAssumption DEF IInv, HistoryOK, Recorded, Versions
  <1>5. struct \in Row /\ struct.rules \in Rules /\ struct.version \in Versions
    BY <1>2, StructTyped
  <1>6. /\ policy' \in Row /\ policy'.rules \in Rules /\ policy'.version \in Versions
        /\ input.rules = Keep => snapshots[policy'.version] = policy'.rules
        /\ input.rules # Keep => policy'.version = n /\ policy'.rules = input.rules
    BY <1>1, <1>2, <1>4, WrittenTyped
  <1>7. input.rules # Keep => struct.version = n /\ struct.rules = input.rules
    BY DEF Merged, Given
  <1>8. input.rules # Keep => snapshots[n] = NoRules
    BY <1>1 DEF IInv, FreeOK
  <1>9. session[s] \in SessionStates /\ session[s].rule \in RuleIds \cup {NoRule}
    BY DEF IInv, TypeOK, SessionStates
  <1>10. /\ session' \in [Sessions -> SessionStates] /\ session'[s] = IdleSession
         /\ \A t \in Sessions \ {s} : session'[t] = session[t]
    BY <1>1, IdleTyped, SessionFrame DEF IInv, TypeOK
  <1> HIDE DEF seen, input, struct, n
  <1>11. snapshots \in [Versions -> Rules \cup {NoRules}]
    BY DEF IInv, TypeOK
  <1>12. /\ snapshots' \in [Versions -> Rules \cup {NoRules}]
         /\ \A v \in Versions : snapshots[v] # NoRules => snapshots'[v] = snapshots[v]
         /\ snapshots'[policy'.version] = policy'.rules
    BY <1>1, <1>3, <1>5, <1>6, <1>7, <1>8, <1>11
  <1>13. TypeOK'
    <2>1. rule' \in [RuleIds -> RuleRow]
      BY <1>1, <1>5, <1>9, ProjectionTyped, WriteRuleTyped DEF IInv
    <2>2. QED
      BY <2>1, <1>1, <1>6, <1>10, <1>12 DEF IInv, TypeOK
  <1>14. \A t \in Sessions : session'[t].pc \notin InTransaction
    BY <1>2, <1>10 DEF IInv, LockOK, IdleSession, InTransaction
  <1>15. LockOK' /\ FreeOK'
    BY <1>1, <1>14, NoneAssumption DEF LockOK, FreeOK, InTransaction
  <1>16. SeenOK'
    BY <1>10, <1>12, NoneAssumption DEF IInv, SeenOK, IdleSession, InUpdate
  <1>17. HistoryOK'
    <2>1. PICK m \in Versions : Recorded(m)
      BY <1>4 DEF IInv, HistoryOK
    <2>2. \E k \in Versions : Recorded(k)'
      <3>1. CASE input.rules = Keep
        BY <3>1, <1>1, <2>1 DEF Recorded
      <3>2. CASE input.rules # Keep
        <4>1. seen.version <= m
          BY <1>3, <2>1, NoneAssumption DEF Recorded
        <4>2. ~(n <= m) /\ n \in Versions
          BY <3>2, <1>3, <1>8, <2>1 DEF Recorded
        <4>3. n = m + 1
          BY <4>1, <4>2, <1>3, <2>1 DEF n, Versions
        <4>4. snapshots' = [snapshots EXCEPT ![n] = struct.rules]
          BY <3>2, <1>1, <1>7
        <4>5. m + 1 \in Versions
          BY <4>2, <4>3
        <4>6. Recorded(m + 1)'
          BY <2>1, <4>3, <4>4, <4>5, <1>5, <1>11, NoneAssumption DEF Recorded, Versions
        <4>7. QED
          BY <4>5, <4>6
      <3>3. QED
        BY <3>1, <3>2
    <2>3. Exists'
      BY <1>6 DEF Exists, Versions
    <2>4. QED
      BY <2>2, <2>3, <1>6, <1>12 DEF HistoryOK
  <1>18. QED
    BY <1>13, <1>15, <1>16, <1>17 DEF IInv

LEMMA DeleteLockStep ==
    ASSUME IInv, NEW s \in Sessions, DeleteLock(s)
    PROVE  IInv'
  <1>1. /\ lock = NoSession /\ lock' = s
        /\ session' = [session EXCEPT ![s].pc = "delete"]
        /\ UNCHANGED <<policy, snapshots, rule, writer>>
    BY DEF DeleteLock
  <1>2. /\ session' \in [Sessions -> SessionStates] /\ session'[s].pc = "delete"
        /\ \A t \in Sessions \ {s} : session'[t] = session[t]
    BY <1>1, MoveTyped DEF IInv
  <1>3. TypeOK'
    BY <1>1, <1>2 DEF IInv, TypeOK
  <1>4. \A t \in Sessions \ {s} : lock' = t <=> lock = t
    BY <1>1, NoneAssumption
  <1>5. QED
    BY <1>1, <1>2, <1>3, <1>4, SessionStep DEF InTransaction, InUpdate

(* The status is no part of what the history records.                         *)
LEMMA DeleteCommitStep ==
    ASSUME IInv, NEW s \in Sessions, DeleteCommit(s)
    PROVE  IInv'
  <1>1. /\ session[s].pc = "delete" /\ lock' = NoSession
        /\ policy' = [policy EXCEPT !.status = "inactive"]
        /\ rule' = [i \in RuleIds |-> IF i \in Linked THEN GoneRule ELSE rule[i]]
        /\ session' = [session EXCEPT ![s] = IdleSession]
        /\ writer' = "fresh" /\ UNCHANGED snapshots
    BY DEF DeleteCommit
  <1>2. lock = s
    BY <1>1 DEF IInv, LockOK, InTransaction
  <1>3. /\ session' \in [Sessions -> SessionStates] /\ session'[s] = IdleSession
        /\ \A t \in Sessions \ {s} : session'[t] = session[t]
    BY <1>1, IdleTyped, SessionFrame DEF IInv, TypeOK
  <1>4. /\ policy' \in Row /\ policy'.version = policy.version
        /\ policy'.rules = policy.rules
    BY <1>1 DEF IInv, TypeOK, Row, Statuses
  <1>5. TypeOK'
    <2>1. GoneRule \in RuleRow
      BY DEF GoneRule, RuleRow, StorableActions
    <2>2. QED
      BY <2>1, <1>1, <1>3, <1>4 DEF IInv, TypeOK
  <1>6. LockOK'
    BY <1>1, <1>2, <1>3, NoneAssumption DEF IInv, LockOK, IdleSession, InTransaction
  <1>7. SeenOK' /\ FreeOK'
    BY <1>1, <1>3 DEF IInv, SeenOK, FreeOK, IdleSession, InUpdate
  <1>8. HistoryOK'
    BY <1>1, <1>4 DEF IInv, HistoryOK, Recorded, Exists
  <1>9. QED
    BY <1>5, <1>6, <1>7, <1>8 DEF IInv

(* Steps that leave the policy, its history, the lock and the sessions alone. *)
LEMMA RuleOnlyStep ==
    ASSUME IInv, TypeOK', UNCHANGED <<policy, snapshots, session, lock>>
    PROVE  IInv'
  BY DEF IInv, LockOK, SeenOK, FreeOK, HistoryOK, Recorded, Exists

LEMMA CreateRuleStep ==
    ASSUME IInv, NEW i \in RuleIds, NEW action \in RuleActions, CreateRule(i, action)
    PROVE  IInv'
  <1> DEFINE row == [state |-> "live", active |-> TRUE, action |-> action,
                     content |-> NoRules]
  <1>1. rule' = [rule EXCEPT ![i] = row] /\ writer' = "manual"
        /\ UNCHANGED <<policy, snapshots, session, lock>>
    BY DEF CreateRule
  <1>2. row \in RuleRow
    BY InputAssumption DEF RuleRow
  <1> HIDE DEF row
  <1>3. TypeOK'
    BY <1>1, <1>2 DEF IInv, TypeOK
  <1>4. QED
    BY <1>1, <1>3, RuleOnlyStep

LEMMA DeleteRuleStep ==
    ASSUME IInv, NEW i \in RuleIds, DeleteRule(i)
    PROVE  IInv'
  <1>1. rule' = [rule EXCEPT ![i] = GoneRule] /\ writer' = "manual"
        /\ UNCHANGED <<policy, snapshots, session, lock>>
    BY DEF DeleteRule
  <1>2. GoneRule \in RuleRow
    BY DEF GoneRule, RuleRow, StorableActions
  <1>3. TypeOK'
    BY <1>1, <1>2 DEF IInv, TypeOK
  <1>4. QED
    BY <1>1, <1>3, RuleOnlyStep

LEMMA RuleReadStep ==
    ASSUME IInv, NEW s \in Sessions, NEW i \in RuleIds, NEW input \in AllRuleInputs,
           RuleRead(s, i, input)
    PROVE  IInv'
  <1> DEFINE row == [IdleSession EXCEPT !.pc = "rule_update", !.rule = i,
                        !.ruleSeen = rule[i], !.ruleInput = input]
  <1>1. /\ session[s].pc = "idle" /\ session' = [session EXCEPT ![s] = row]
        /\ UNCHANGED <<policy, snapshots, rule, lock, writer>>
    BY DEF RuleRead
  <1>2. rule[i] \in RuleRow
    BY DEF IInv, TypeOK
  <1>3. row \in SessionStates /\ row.pc = "rule_update"
    BY <1>2, IdleTyped DEF IdleSession, SessionStates
  <1> HIDE DEF row
  <1>4. /\ session' \in [Sessions -> SessionStates] /\ session'[s] = row
        /\ \A t \in Sessions \ {s} : session'[t] = session[t]
    BY <1>1, <1>3, SessionFrame DEF IInv, TypeOK
  <1>5. TypeOK'
    BY <1>1, <1>4 DEF IInv, TypeOK
  <1>6. lock # s
    BY <1>1 DEF IInv, LockOK, InTransaction
  <1>7. QED
    BY <1>1, <1>3, <1>4, <1>5, <1>6, SessionStep DEF InTransaction, InUpdate

LEMMA ToggleRuleStep ==
    ASSUME IInv, NEW s \in Sessions, NEW i \in RuleIds, ToggleRule(s, i)
    PROVE  IInv'
  <1>1. [NoRuleInput EXCEPT !.active = ~rule[i].active] \in AllRuleInputs
    BY DEF IInv, TypeOK, RuleRow, NoRuleInput, AllRuleInputs
  <1>2. QED
    BY <1>1, RuleReadStep DEF ToggleRule

LEMMA RuleWriteStep ==
    ASSUME IInv, NEW s \in Sessions, RuleWrite(s)
    PROVE  IInv'
  <1> DEFINE i == session[s].rule
             seen == session[s].ruleSeen
             input == session[s].ruleInput
             row == IF input = NoRuleInput THEN seen
                    ELSE [rule[i] EXCEPT !.active = Given(input.active, rule[i].active),
                                         !.action = Given(input.action, rule[i].action)]
  <1>1. /\ session[s].pc = "rule_update"
        /\ i \in Linked => rule' = [rule EXCEPT ![i] = row] /\ writer' = "manual"
        /\ i \notin Linked => UNCHANGED <<rule, writer>>
        /\ session' = [session EXCEPT ![s] = IdleSession]
        /\ UNCHANGED <<policy, snapshots, lock>>
    BY DEF RuleWrite
  <1>2. session[s] \in SessionStates
    BY DEF IInv, TypeOK
  <1>3. seen \in RuleRow /\ input \in AllRuleInputs
    BY <1>2 DEF SessionStates
  <1> HIDE DEF seen, input, i
  <1>4. i \in Linked => i \in RuleIds /\ rule[i] \in RuleRow
    BY DEF IInv, TypeOK, Linked
  <1>5. i \in Linked => row \in RuleRow
    BY <1>3, <1>4 DEF RuleRow, AllRuleInputs, Given
  <1> HIDE DEF row
  <1>6. TypeOK'
    BY <1>1, <1>4, <1>5, IdleTyped DEF IInv, TypeOK
  <1>7. lock # s
    BY <1>1 DEF IInv, LockOK, InTransaction
  <1>8. QED
    BY <1>1, <1>6, <1>7, IdleStep

LEMMA NextInv == IInv /\ [Next]_vars => IInv'
  <1> SUFFICES ASSUME IInv, [Next]_vars PROVE IInv'
    OBVIOUS
  <1>1. ASSUME NEW s \in Sessions, PolicyStep(s) PROVE IInv'
    <2>1. UpdateInputs \subseteq AllInputs
      BY InputAssumption
    <2>2. QED
      BY <1>1, <2>1, ReadStep, RollbackStep, LockPolicyStep, VersionConflictStep,
         FindRuleStep, ProjectStep, AbortStep, DeleteLockStep, DeleteCommitStep
      DEF PolicyStep
  <1>2. ASSUME NEW s \in Sessions, RuleStep(s) PROVE IInv'
    <2>1. RuleInputs \subseteq AllRuleInputs
      BY InputAssumption
    <2>2. QED
      BY <1>2, <2>1, ToggleRuleStep, RuleReadStep, RuleWriteStep DEF RuleStep
  <1>3. CASE UNCHANGED vars
    <2>1. TypeOK'
      BY <1>3 DEF vars, IInv, TypeOK
    <2>2. QED
      BY <1>3, <2>1, RuleOnlyStep DEF vars
  <1>4. QED
    BY <1>1, <1>2, <1>3, CreateStep, CreateRuleStep, DeleteRuleStep DEF Next

LEMMA Invariance == Spec => []IInv
  BY InitInv, NextInv, PTL DEF Spec

(* The variables of the projection keep their types (TypeOK).                 *)
THEOREM TypeCorrect == Spec => []TypeOK
  <1>1. IInv => TypeOK
    BY DEF IInv
  <1>2. QED
    BY <1>1, Invariance, PTL

(* The history has no gap, and the row's version names the snapshot of its    *)
(* rules, whatever stale structs concurrent updates write.                    *)
THEOREM HistoryRecorded == Spec => []HistoryComplete
  <1>1. IInv => HistoryComplete
    BY DEF IInv, HistoryOK, HistoryComplete, Recorded
  <1>2. QED
    BY <1>1, Invariance, PTL

----------------------------------------------------------------------------
(* Snapshots are never replaced. *)

LEMMA SnapshotStep ==
    ASSUME IInv, [Next]_vars
    PROVE  \A v \in Versions : snapshots[v] # NoRules => snapshots'[v] = snapshots[v]
  <1> TAKE v \in Versions
  <1>1. ASSUME NEW input \in CreateInputs, Create(input)
        PROVE  snapshots[v] = NoRules
    BY <1>1 DEF Create, IInv, HistoryOK, Recorded, Versions
  <1>2. ASSUME NEW s \in Sessions, Project(s)
        PROVE  snapshots[v] # NoRules => snapshots'[v] = snapshots[v]
    <2> DEFINE struct == Merged(session[s].seen, session[s].input)
    <2>1. /\ session[s].pc = "found"
          /\ snapshots' = IF session[s].input.rules = Keep THEN snapshots
                          ELSE [snapshots EXCEPT ![struct.version] = struct.rules]
      BY <1>2 DEF Project
    <2>2. session[s].input.rules # Keep => struct.version = session[s].seen.version + 1
      BY DEF Merged
    <2>3. session[s].input.rules # Keep => snapshots[struct.version] = NoRules
      BY <2>1, <2>2 DEF IInv, FreeOK
    <2> HIDE DEF struct
    <2>4. QED
      BY <2>1, <2>3 DEF IInv, TypeOK
  <1>3. ASSUME NEW s \in Sessions, PolicyStep(s), ~Project(s)
        PROVE  UNCHANGED snapshots
    BY <1>3 DEF PolicyStep, Read, Rollback, LockPolicy, VersionConflict, FindRule, Abort,
                DeleteLock, DeleteCommit
  <1>4. ASSUME NEW s \in Sessions, RuleStep(s)
        PROVE  UNCHANGED snapshots
    BY <1>4 DEF RuleStep, ToggleRule, RuleRead, RuleWrite
  <1>5. ASSUME NEW i \in RuleIds, NEW action \in RuleActions,
               CreateRule(i, action) \/ DeleteRule(i)
        PROVE  UNCHANGED snapshots
    BY <1>5 DEF CreateRule, DeleteRule
  <1>6. CASE UNCHANGED vars
    BY <1>6 DEF vars
  <1>7. ASSUME NEW i \in RuleIds, DeleteRule(i) PROVE UNCHANGED snapshots
    BY <1>7 DEF DeleteRule
  <1>8. QED
    BY <1>1, <1>2, <1>3, <1>4, <1>5, <1>6, <1>7 DEF Next

(* A version number is never given to two snapshots (SnapshotsImmutable).     *)
THEOREM SnapshotsKept == Spec => SnapshotsImmutable
  <1>1. IInv /\ [Next]_vars =>
           [\A v \in Versions : snapshots[v] # NoRules => snapshots'[v] = snapshots[v]]_vars
    BY SnapshotStep
  <1>2. QED
    BY <1>1, Invariance, PTL DEF Spec, SnapshotsImmutable

----------------------------------------------------------------------------
(* Row and snapshots implement VersionLog. *)

LogStep == [Log!VersionNext]_(Log!versionVars)

(* Over an interval from 1, the history is a sequence.                        *)
LEMMA HistoryIsSeq ==
    ASSUME TypeOK, NEW n \in 0..MaxVersion, Recorded(n)
    PROVE  /\ History \in Seq(Rules) /\ Len(History) = n /\ DOMAIN History = 1..n
           /\ \A v \in 1..n : History[v] = snapshots[v]
  <1>1. {v \in Versions : snapshots[v] # NoRules} = 1..n
    BY VersionAssumption DEF Recorded, Versions
  <1>2. \A v \in 1..n : snapshots[v] \in Rules
    BY VersionAssumption DEF TypeOK, Recorded, Versions
  <1>3. History = [v \in 1..n |-> snapshots[v]]
    BY <1>1 DEF History
  <1>4. QED
    BY <1>2, <1>3

LEMMA LogStutter == UNCHANGED <<snapshots, policy>> => LogStep
  BY DEF LogStep, Log!versionVars, History

LEMMA LogInitially == Init => Log!VersionInit
  <1> SUFFICES ASSUME Init PROVE Log!VersionInit
    OBVIOUS
  <1>1. \A v \in Versions : snapshots[v] = NoRules
    BY DEF Init
  <1>2. TypeOK /\ Recorded(0)
    BY <1>1, InitInv, VersionAssumption DEF IInv, Recorded, Versions
  <1>3. History \in Seq(Rules) /\ Len(History) = 0
    BY <1>2, HistoryIsSeq, VersionAssumption
  <1>4. QED
    BY <1>3 DEF Init, NoRow, Log!VersionInit

(* A transaction that records rules publishes them.                           *)
LEMMA PublishStep ==
    ASSUME TypeOK, TypeOK', NEW n \in 0..MaxVersion, Recorded(n), n + 1 \in Versions,
           NEW d \in Rules, snapshots' = [snapshots EXCEPT ![n + 1] = d],
           policy'.version = n + 1, policy'.rules = d
    PROVE  LogStep
  <1>1. snapshots \in [Versions -> Rules \cup {NoRules}] /\ n \in Nat /\ d # NoRules
    BY NoneAssumption, VersionAssumption DEF TypeOK
  <1>2. Recorded(n + 1)'
    BY <1>1, NoneAssumption DEF Recorded, Versions
  <1>3. /\ History \in Seq(Rules) /\ Len(History) = n /\ DOMAIN History = 1..n
        /\ \A v \in 1..n : History[v] = snapshots[v]
    BY HistoryIsSeq
  <1>4. /\ History' \in Seq(Rules) /\ Len(History') = n + 1 /\ DOMAIN History' = 1..(n + 1)
        /\ \A v \in 1..(n + 1) : History'[v] = snapshots'[v]
    <2>1. {v \in Versions : snapshots'[v] # NoRules} = 1..(n + 1)
      BY <1>1, <1>2, VersionAssumption DEF Recorded, Versions
    <2>2. \A v \in 1..(n + 1) : snapshots'[v] \in Rules
      BY <1>1, <1>2, VersionAssumption DEF TypeOK, Recorded, Versions
    <2>3. History' = [v \in 1..(n + 1) |-> snapshots'[v]]
      BY <2>1 DEF History
    <2>4. QED
      BY <1>1, <2>2, <2>3
  <1>5. \A v \in 1..(n + 1) : History'[v] = Append(History, d)[v]
    BY <1>1, <1>3, <1>4 DEF Versions
  <1>6. Append(History, d) \in Seq(Rules) /\ Len(Append(History, d)) = n + 1
    BY <1>3
  <1>7. History' = Append(History, d)
    BY <1>1, <1>4, <1>5, <1>6
  <1>8. Log!Publish(d)
    BY <1>3, <1>7 DEF Log!Publish
  <1>9. QED
    BY <1>8 DEF LogStep, Log!VersionNext

LEMMA CreateLog ==
    ASSUME IInv, NEW input \in CreateInputs, Create(input)
    PROVE  LogStep
  <1>1. /\ snapshots' = [snapshots EXCEPT ![1] = input.rules]
        /\ policy'.version = 1 /\ policy'.rules = input.rules /\ ~Exists
    BY DEF Create
  <1>2. input.rules \in Rules /\ 1 \in Versions /\ 0 \in 0..MaxVersion
    BY InputAssumption, VersionAssumption DEF AllCreateInputs, Versions
  <1>3. Recorded(0) /\ TypeOK /\ TypeOK'
    BY <1>1, CreateStep DEF IInv, HistoryOK
  <1>4. /\ snapshots' = [snapshots EXCEPT ![0 + 1] = input.rules] /\ 0 + 1 \in Versions
        /\ policy'.version = 0 + 1
    BY <1>1, <1>2
  <1>5. QED
    BY <1>1, <1>2, <1>3, <1>4, PublishStep

(* An update with rules publishes; any other write leaves in force what the   *)
(* history names, though a stale struct may return to an earlier version.     *)
LEMMA ProjectLog ==
    ASSUME IInv, NEW s \in Sessions, Project(s)
    PROVE  LogStep
  <1> DEFINE seen == session[s].seen
             input == session[s].input
             struct == Merged(seen, input)
             n == seen.version + 1
  <1>1. /\ session[s].pc = "found" /\ policy' = Written(seen, input)
        /\ snapshots' = IF input.rules = Keep THEN snapshots
                        ELSE [snapshots EXCEPT ![struct.version] = struct.rules]
    BY DEF Project
  <1>2. session[s].pc \in InUpdate
    BY <1>1 DEF InUpdate
  <1>3. /\ seen.version \in Versions /\ snapshots[seen.version] = seen.rules
        /\ seen.rules \in Rules
        /\ input.rules # Keep => n \in Versions
    BY <1>2 DEF IInv, SeenOK
  <1>4. Exists
    BY <1>3, NoneAssumption DEF IInv, HistoryOK, Recorded, Versions
  <1>5. struct.rules \in Rules
    BY <1>2, StructTyped
  <1>6. /\ policy'.rules \in Rules /\ policy'.version \in Versions
        /\ input.rules = Keep => snapshots[policy'.version] = policy'.rules
        /\ input.rules # Keep => policy'.version = n /\ policy'.rules = input.rules
    BY <1>1, <1>2, <1>4, WrittenTyped
  <1>7. input.rules # Keep => struct.version = n /\ struct.rules = input.rules
    BY DEF Merged, Given
  <1>8. input.rules # Keep => snapshots[n] = NoRules
    BY <1>1 DEF IInv, FreeOK
  <1>9. TypeOK /\ TypeOK'
    BY ProjectStep DEF IInv
  <1>10. PICK m \in Versions : Recorded(m)
    BY <1>4 DEF IInv, HistoryOK
  <1> HIDE DEF seen, input, struct, n
  <1>11. CASE input.rules # Keep
    <2>1. seen.version <= m
      BY <1>3, <1>10, NoneAssumption DEF Recorded
    <2>2. ~(n <= m) /\ n \in Versions
      BY <1>11, <1>3, <1>8, <1>10 DEF Recorded
    <2>3. n = m + 1 /\ m \in 0..MaxVersion
      BY <2>1, <2>2, <1>3, <1>10 DEF n, Versions
    <2>4. /\ snapshots' = [snapshots EXCEPT ![m + 1] = input.rules] /\ input.rules \in Rules
          /\ policy'.version = m + 1 /\ policy'.rules = input.rules /\ m + 1 \in Versions
      BY <1>11, <1>1, <1>5, <1>6, <1>7, <2>2, <2>3
    <2>5. QED
      BY <1>9, <1>10, <2>3, <2>4, PublishStep
  <1>12. CASE input.rules = Keep
    <2>1. UNCHANGED snapshots /\ policy'.version \in Versions
          /\ snapshots[policy'.version] = policy'.rules /\ policy'.rules \in Rules
      BY <1>12, <1>1, <1>6
    <2>2. policy'.version \in DOMAIN History /\ History[policy'.version] = policy'.rules
      BY <2>1, NoneAssumption DEF History
    <2>3. UNCHANGED History
      BY <2>1 DEF History
    <2>4. Log!Return(policy'.version)
      BY <2>2, <2>3 DEF Log!Return
    <2>5. QED
      BY <2>2, <2>4 DEF LogStep, Log!VersionNext
  <1>13. QED
    BY <1>11, <1>12

LEMMA DeleteLog ==
    ASSUME IInv, NEW s \in Sessions, DeleteCommit(s)
    PROVE  LogStep
  <1>1. UNCHANGED snapshots /\ policy' = [policy EXCEPT !.status = "inactive"]
    BY DEF DeleteCommit
  <1>2. policy'.version = policy.version /\ policy'.rules = policy.rules
    BY <1>1 DEF IInv, TypeOK, Row
  <1>3. QED
    BY <1>1, <1>2 DEF LogStep, Log!versionVars, History

LEMMA VersionStep == IInv /\ [Next]_vars => LogStep
  <1> SUFFICES ASSUME IInv, [Next]_vars PROVE LogStep
    OBVIOUS
  <1>1. ASSUME NEW s \in Sessions, PolicyStep(s), ~Project(s), ~DeleteCommit(s)
        PROVE  UNCHANGED <<snapshots, policy>>
    BY <1>1 DEF PolicyStep, Read, Rollback, LockPolicy, VersionConflict, FindRule, Abort,
                DeleteLock
  <1>2. ASSUME NEW s \in Sessions, RuleStep(s) PROVE UNCHANGED <<snapshots, policy>>
    BY <1>2 DEF RuleStep, ToggleRule, RuleRead, RuleWrite
  <1>3. ASSUME NEW i \in RuleIds, NEW action \in RuleActions, CreateRule(i, action)
        PROVE  UNCHANGED <<snapshots, policy>>
    BY <1>3 DEF CreateRule
  <1>4. ASSUME NEW i \in RuleIds, DeleteRule(i) PROVE UNCHANGED <<snapshots, policy>>
    BY <1>4 DEF DeleteRule
  <1>5. CASE UNCHANGED vars
    BY <1>5, LogStutter DEF vars
  <1>6. QED
    BY <1>1, <1>2, <1>3, <1>4, <1>5, LogStutter, CreateLog, ProjectLog, DeleteLog DEF Next

(* Row and snapshots are a VersionLog (ImplementsVersions): whatever stale    *)
(* structs concurrent updates write, versions are only appended, and the row  *)
(* holds rules that the log has under the row's number.                       *)
THEOREM VersionsRefined == Spec => ImplementsVersions
  <1>1. IInv /\ [Next]_vars => [Log!VersionNext]_(Log!versionVars)
    BY VersionStep DEF LogStep
  <1>2. QED
    BY <1>1, LogInitially, Invariance, PTL DEF Spec, ImplementsVersions, Log!VersionSpec

----------------------------------------------------------------------------
(* At most one linked rule, unless GatewayService creates one. *)

Alone ==
    /\ \A i, j \in Linked : i = j
    /\ ~Exists => Linked = {}
    /\ \A s \in Sessions :
           session[s].pc = "found" /\ session[s].rule = NoRule => Linked = {}

LEMMA AloneFrame ==
    ASSUME Alone, Linked' \subseteq Linked, Exists => Exists',
           \A s \in Sessions : session'[s].pc = "found" =>
               session[s].pc = "found" /\ session'[s].rule = session[s].rule
    PROVE  Alone'
  BY DEF Alone

(* A session that becomes idle, or moves to another step than "found".        *)
LEMMA AloneMove ==
    ASSUME IInv, Alone, NEW s \in Sessions, NEW row, row.pc # "found",
           session' = [session EXCEPT ![s] = row], Linked' \subseteq Linked,
           Exists => Exists'
    PROVE  Alone'
  <1>1. \A t \in Sessions : session'[t] = IF t = s THEN row ELSE session[t]
    BY DEF IInv, TypeOK
  <1>2. QED
    BY <1>1, AloneFrame

LEMMA AlonePolicyStep ==
    ASSUME IInv, Alone, NEW s \in Sessions, PolicyStep(s)
    PROVE  Alone'
  <1>1. IdleSession.pc # "found"
    BY DEF IdleSession
  <1>2. ASSUME NEW input, Read(s, input) PROVE Alone'
    <2> DEFINE row == [IdleSession EXCEPT !.pc = "update", !.input = input, !.seen = policy]
    <2>1. row.pc = "update"
      BY DEF IdleSession
    <2>2. session' = [session EXCEPT ![s] = row] /\ UNCHANGED <<policy, rule>>
      BY <1>2 DEF Read
    <2> HIDE DEF row
    <2>3. QED
      BY <2>1, <2>2, AloneMove DEF Linked, Exists
  <1>3. CASE LockPolicy(s)
    <2>1. session' = [session EXCEPT ![s].pc = "locked"] /\ UNCHANGED <<policy, rule>>
      BY <1>3 DEF LockPolicy
    <2>2. session'[s].pc = "locked" /\ \A t \in Sessions \ {s} : session'[t] = session[t]
      BY <2>1, MoveTyped DEF IInv
    <2>3. QED
      BY <2>1, <2>2, AloneFrame DEF Linked, Exists
  <1>4. CASE VersionConflict(s)
    BY <1>1, <1>4, AloneMove DEF VersionConflict, Linked, Exists
  <1>5. CASE FindRule(s)
    <2>1. PICK i \in IF Linked = {} THEN {NoRule} ELSE Linked :
             session' = [session EXCEPT ![s].pc = "found", ![s].rule = i]
      BY <1>5 DEF FindRule
    <2>2. UNCHANGED <<policy, rule>>
      BY <1>5 DEF FindRule
    <2>3. session'[s].rule = i /\ \A t \in Sessions \ {s} : session'[t] = session[t]
      BY <2>1 DEF IInv, TypeOK, SessionStates
    <2>4. i = NoRule => Linked = {}
      BY <2>1, NoneAssumption DEF Linked
    <2>5. QED
      BY <2>2, <2>3, <2>4 DEF Alone, Linked, Exists
  <1>6. CASE Project(s)
    <2> DEFINE row == Projection(Merged(session[s].seen, session[s].input))
               found == session[s].rule
    <2>1. /\ session[s].pc = "found" /\ WriteRule(found, row)
          /\ session' = [session EXCEPT ![s] = IdleSession]
          /\ policy' = Written(session[s].seen, session[s].input)
      BY <1>6 DEF Project
    <2>2. lock = s /\ session[s].pc \in InUpdate
      BY <2>1 DEF IInv, LockOK, InTransaction, InUpdate
    <2>3. \A t \in Sessions : session'[t].pc # "found"
      <3>1. \A t \in Sessions \ {s} : session[t].pc # "found"
        BY <2>2 DEF IInv, LockOK, InTransaction
      <3>2. QED
        BY <3>1, <2>1, <1>1 DEF IInv, TypeOK
    <2>4. row.state = "live"
      BY DEF Projection
    <2> HIDE DEF row
    <2>5. \A i, j \in Linked' : i = j
      <3>1. CASE found = NoRule
        <4>1. PICK k \in Unused : rule' = [rule EXCEPT ![k] = row]
          BY <2>1, <3>1 DEF WriteRule
        <4>2. Linked = {}
          BY <2>1, <3>1 DEF Alone
        <4>3. Linked' \subseteq {k}
          BY <4>1, <4>2 DEF Linked, IInv, TypeOK
        <4>4. QED
          BY <4>3
      <3>2. CASE found # NoRule
        <4>1. Linked' \subseteq Linked
          BY <2>1, <3>2 DEF WriteRule, Linked, IInv, TypeOK
        <4>2. QED
          BY <4>1 DEF Alone
      <3>3. QED
        BY <3>1, <3>2
    <2>6. Exists'
      <3>1. Exists
        BY <2>2, NoneAssumption DEF IInv, SeenOK, HistoryOK, Recorded, Versions
      <3>2. policy'.version \in Versions
        BY <2>1, <2>2, <3>1, WrittenTyped
      <3>3. QED
        BY <3>2 DEF Exists, Versions
    <2>7. QED
      BY <2>3, <2>5, <2>6 DEF Alone
  <1>7. CASE Abort(s)
    BY <1>1, <1>7, AloneMove DEF Abort, Linked, Exists
  <1>8. CASE DeleteLock(s)
    <2>1. session' = [session EXCEPT ![s].pc = "delete"] /\ UNCHANGED <<policy, rule>>
      BY <1>8 DEF DeleteLock
    <2>2. session'[s].pc = "delete" /\ \A t \in Sessions \ {s} : session'[t] = session[t]
      BY <2>1, MoveTyped DEF IInv
    <2>3. QED
      BY <2>1, <2>2, AloneFrame DEF Linked, Exists
  <1>9. CASE DeleteCommit(s)
    <2>1. /\ policy' = [policy EXCEPT !.status = "inactive"]
          /\ rule' = [i \in RuleIds |-> IF i \in Linked THEN GoneRule ELSE rule[i]]
          /\ session' = [session EXCEPT ![s] = IdleSession]
      BY <1>9 DEF DeleteCommit
    <2>2. Linked' \subseteq Linked
      BY <2>1 DEF Linked, GoneRule
    <2>3. Exists => Exists'
      BY <2>1 DEF IInv, TypeOK, Row, Exists
    <2>4. QED
      BY <1>1, <2>1, <2>2, <2>3, AloneMove
  <1>10. QED
    BY <1>2, <1>3, <1>4, <1>5, <1>6, <1>7, <1>8, <1>9 DEF PolicyStep, Rollback

LEMMA AloneRuleStep ==
    ASSUME IInv, Alone, NEW s \in Sessions, RuleStep(s)
    PROVE  Alone'
  <1>1. ASSUME NEW i \in RuleIds, NEW input, RuleRead(s, i, input) PROVE Alone'
    <2> DEFINE row == [IdleSession EXCEPT !.pc = "rule_update", !.rule = i,
                          !.ruleSeen = rule[i], !.ruleInput = input]
    <2>1. row.pc = "rule_update"
      BY DEF IdleSession
    <2>2. session' = [session EXCEPT ![s] = row] /\ UNCHANGED <<policy, rule>>
      BY <1>1 DEF RuleRead
    <2> HIDE DEF row
    <2>3. QED
      BY <2>1, <2>2, AloneMove DEF Linked, Exists
  <1>2. CASE RuleWrite(s)
    <2>1. /\ session' = [session EXCEPT ![s] = IdleSession] /\ UNCHANGED policy
          /\ rule' = rule \/ \E row : /\ rule' = [rule EXCEPT ![session[s].rule] = row]
                                      /\ session[s].rule \in Linked
      BY <1>2 DEF RuleWrite
    <2>2. Linked' \subseteq Linked
      BY <2>1 DEF Linked, IInv, TypeOK
    <2>3. IdleSession.pc # "found"
      BY DEF IdleSession
    <2>4. QED
      BY <2>1, <2>2, <2>3, AloneMove DEF Exists
  <1>3. QED
    BY <1>1, <1>2 DEF RuleStep, ToggleRule

(* Without CreateRule on a policy's id, the policy has one rule (SingleRule): *)
(* the row lock orders each SELECT after the INSERT of the transaction before.*)
THEOREM OneRule == "create" \notin ManualOps => (Spec => []SingleRule)
  <1> SUFFICES ASSUME "create" \notin ManualOps PROVE Spec => []SingleRule
    OBVIOUS
  <1>1. Init => Alone
    BY DEF Init, Alone, Linked, UnusedRule, IdleSession
  <1>2. IInv /\ Alone /\ [Next]_vars => Alone'
    <2> SUFFICES ASSUME IInv, Alone, [Next]_vars PROVE Alone'
      OBVIOUS
    <2>1. ASSUME NEW input \in CreateInputs, Create(input) PROVE Alone'
      <3>1. PICK i \in Unused : \E row : rule' = [rule EXCEPT ![i] = row]
        BY <2>1 DEF Create
      <3>2. Linked = {} /\ Recorded(0)
        BY <2>1 DEF Create, Alone, IInv, HistoryOK
      <3>3. Linked' \subseteq {i}
        BY <3>1, <3>2 DEF Linked, IInv, TypeOK
      <3>4. \A s \in Sessions : session[s].pc \notin InUpdate
        BY <3>2, NoneAssumption DEF IInv, SeenOK, Recorded, Versions
      <3>5. Exists' /\ UNCHANGED session
        BY <2>1 DEF Create, Exists
      <3>6. QED
        BY <3>3, <3>4, <3>5 DEF Alone, InUpdate
    <2>2. ASSUME NEW i \in RuleIds, DeleteRule(i) PROVE Alone'
      <3>1. rule' = [rule EXCEPT ![i] = GoneRule] /\ UNCHANGED <<policy, session>>
        BY <2>2 DEF DeleteRule
      <3>2. Linked' \subseteq Linked
        BY <3>1 DEF Linked, GoneRule, IInv, TypeOK
      <3>3. QED
        BY <3>1, <3>2, AloneFrame DEF Exists
    <2>3. CASE UNCHANGED vars
      BY <2>3, AloneFrame DEF vars, Linked, Exists
    <2>4. QED
      BY <2>1, <2>2, <2>3, AlonePolicyStep, AloneRuleStep DEF Next, CreateRule
  <1>3. Alone => SingleRule
    <2> SUFFICES ASSUME Alone PROVE SingleRule
      OBVIOUS
    <2>1. CASE Linked = {}
      BY <2>1, FS_EmptySet DEF SingleRule
    <2>2. CASE Linked # {}
      <3>1. PICK i \in Linked : Linked = {i}
        BY <2>2 DEF Alone
      <3>2. QED
        BY <3>1, FS_Singleton DEF SingleRule
    <2>3. QED
      BY <2>1, <2>2
  <1>4. QED
    BY <1>1, <1>2, <1>3, Invariance, PTL DEF Spec

----------------------------------------------------------------------------
(* The projection honours the policy after a transaction with a current read. *)

(* A rule that was found and is gone was removed by GatewayService.           *)
Current ==
    /\ FreshProjection
    /\ \A s \in Sessions :
           session[s].pc = "found" /\ session[s].rule \in RuleIds \ Linked =>
               writer # "fresh"

LEMMA ProjectionHonours ==
    ASSUME NEW p \in Row
    PROVE  Honours(Projection(p), p)
  BY DEF Honours, Projection, RuleActive, EffectiveAction, GatewayValidActions,
         StorableActions, Row, Statuses, Modes

(* With a current read, the struct is what the UPDATE leaves in the row.      *)
LEMMA StructIsRow ==
    ASSUME NEW input \in AllInputs, policy \in Row
    PROVE  Written(policy, input) = Merged(policy, input)
  <1>1. CASE input = NoInput
    BY <1>1 DEF Written, Merged, Given, NoInput, Row
  <1>2. CASE input # NoInput
    BY <1>2 DEF Written, Merged
  <1>3. QED
    BY <1>1, <1>2

(* A step without a rule write that brings no session to "found".             *)
LEMMA CurrentFrame ==
    ASSUME Current, UNCHANGED <<policy, rule, writer>>,
           \A s \in Sessions : session'[s].pc = "found" =>
               /\ session[s].pc = "found" /\ session'[s].rule = session[s].rule
               \/ session'[s].rule \in Linked \cup {NoRule}
    PROVE  Current'
  <1>1. Linked' = Linked
    BY DEF Linked
  <1>2. FreshProjection'
    BY <1>1 DEF Current, FreshProjection, Exists, Honours
  <1>3. QED
    BY <1>1, <1>2, NoneAssumption DEF Current

(* A rule write of GatewayService ends what the history variable vouches for. *)
LEMMA CurrentManual == ASSUME writer' \in {"stale", "manual"} PROVE Current'
  BY DEF Current, FreshProjection

(* The record of a session that is not "found" after its step.                *)
LEMMA CurrentMove ==
    ASSUME IInv, Current, NEW s \in Sessions, NEW row, row.pc # "found",
           session' = [session EXCEPT ![s] = row], UNCHANGED <<policy, rule, writer>>
    PROVE  Current'
  <1>1. \A t \in Sessions : session'[t] = IF t = s THEN row ELSE session[t]
    BY DEF IInv, TypeOK
  <1>2. QED
    BY <1>1, CurrentFrame

LEMMA CurrentProject ==
    ASSUME IInv, Current, NEW s \in Sessions, Project(s)
    PROVE  Current'
  <1> DEFINE seen == session[s].seen
             input == session[s].input
             found == session[s].rule
             struct == Merged(seen, input)
             row == Projection(struct)
  <1>1. /\ session[s].pc = "found" /\ WriteRule(found, row)
        /\ policy' = Written(seen, input)
        /\ writer' = IF found \in RuleIds \ Linked THEN writer
                     ELSE IF seen = policy THEN "fresh" ELSE "stale"
        /\ session' = [session EXCEPT ![s] = IdleSession]
    BY DEF Project
  <1>2. CASE writer' # "fresh"
    BY <1>2 DEF Current, FreshProjection
  <1>3. CASE writer' = "fresh"
    <2>1. found \notin RuleIds \ Linked /\ seen = policy
      BY <1>1, <1>3 DEF Current
    <2>2. session[s] \in SessionStates
      BY DEF IInv, TypeOK
    <2>3. input \in AllInputs /\ found \in Linked \cup {NoRule} /\ policy \in Row
      BY <2>1, <2>2 DEF SessionStates, IInv, TypeOK
    <2>4. struct = policy'
      BY <1>1, <2>1, <2>3, StructIsRow
    <2>5. struct \in Row
      BY <1>1, StructTyped DEF InUpdate
    <2>6. row.state = "live" /\ Honours(row, policy')
      BY <2>4, <2>5, ProjectionHonours DEF Projection
    <2> HIDE DEF row, found
    <2>7. PICK i \in RuleIds : rule' = [rule EXCEPT ![i] = row]
      BY <1>1, <2>3 DEF WriteRule, Unused, Linked
    <2>8. i \in Linked' /\ rule'[i] = row
      BY <2>6, <2>7 DEF Linked, IInv, TypeOK
    <2>9. FreshProjection'
      BY <2>6, <2>8 DEF FreshProjection, Honours
    <2>10. \A t \in Sessions : session'[t].pc # "found"
      <3>1. \A t \in Sessions \ {s} : session[t].pc # "found"
        BY <1>1 DEF IInv, LockOK, InTransaction
      <3>2. QED
        BY <3>1, <1>1 DEF IInv, TypeOK, IdleSession
    <2>11. QED
      BY <2>9, <2>10 DEF Current
  <1>4. QED
    BY <1>2, <1>3

LEMMA CurrentPolicyStep ==
    ASSUME IInv, Current, NEW s \in Sessions, PolicyStep(s)
    PROVE  Current'
  <1>1. IdleSession.pc # "found"
    BY DEF IdleSession
  <1>2. ASSUME NEW input, Read(s, input) PROVE Current'
    <2> DEFINE row == [IdleSession EXCEPT !.pc = "update", !.input = input, !.seen = policy]
    <2>1. row.pc = "update"
      BY DEF IdleSession
    <2>2. session' = [session EXCEPT ![s] = row] /\ UNCHANGED <<policy, rule, writer>>
      BY <1>2 DEF Read
    <2> HIDE DEF row
    <2>3. QED
      BY <2>1, <2>2, CurrentMove
  <1>3. CASE LockPolicy(s) \/ DeleteLock(s)
    <2>1. PICK pc \in {"locked", "delete"} : session' = [session EXCEPT ![s].pc = pc]
      BY <1>3 DEF LockPolicy, DeleteLock
    <2>2. session'[s].pc = pc /\ \A t \in Sessions \ {s} : session'[t] = session[t]
      BY <2>1, MoveTyped DEF IInv
    <2>3. UNCHANGED <<policy, rule, writer>>
      BY <1>3 DEF LockPolicy, DeleteLock
    <2>4. QED
      BY <2>2, <2>3, CurrentFrame
  <1>4. CASE VersionConflict(s) \/ Abort(s)
    BY <1>1, <1>4, CurrentMove DEF VersionConflict, Abort
  <1>5. CASE FindRule(s)
    <2>1. PICK i \in Linked \cup {NoRule} :
             session' = [session EXCEPT ![s].pc = "found", ![s].rule = i]
      BY <1>5 DEF FindRule
    <2>2. session'[s].rule = i /\ \A t \in Sessions \ {s} : session'[t] = session[t]
      BY <2>1 DEF IInv, TypeOK, SessionStates
    <2>3. UNCHANGED <<policy, rule, writer>>
      BY <1>5 DEF FindRule
    <2>4. QED
      BY <2>2, <2>3, CurrentFrame
  <1>6. CASE DeleteCommit(s)
    <2>1. /\ session[s].pc = "delete" /\ policy' = [policy EXCEPT !.status = "inactive"]
          /\ rule' = [i \in RuleIds |-> IF i \in Linked THEN GoneRule ELSE rule[i]]
          /\ session' = [session EXCEPT ![s] = IdleSession]
      BY <1>6 DEF DeleteCommit
    <2>2. Linked' = {} /\ policy'.status = "inactive"
      BY <2>1 DEF Linked, GoneRule, IInv, TypeOK, Row
    <2>3. \A t \in Sessions : session'[t].pc # "found"
      <3>1. \A t \in Sessions \ {s} : session[t].pc # "found"
        BY <2>1 DEF IInv, LockOK, InTransaction
      <3>2. QED
        BY <3>1, <2>1, <1>1 DEF IInv, TypeOK
    <2>4. QED
      BY <2>2, <2>3 DEF Current, FreshProjection
  <1>7. QED
    BY <1>2, <1>3, <1>4, <1>5, <1>6, CurrentProject DEF PolicyStep, Rollback

LEMMA CurrentRuleStep ==
    ASSUME IInv, Current, NEW s \in Sessions, RuleStep(s)
    PROVE  Current'
  <1>1. ASSUME NEW i \in RuleIds, NEW input, RuleRead(s, i, input) PROVE Current'
    <2> DEFINE row == [IdleSession EXCEPT !.pc = "rule_update", !.rule = i,
                          !.ruleSeen = rule[i], !.ruleInput = input]
    <2>1. row.pc = "rule_update"
      BY DEF IdleSession
    <2>2. session' = [session EXCEPT ![s] = row] /\ UNCHANGED <<policy, rule, writer>>
      BY <1>1 DEF RuleRead
    <2> HIDE DEF row
    <2>3. QED
      BY <2>1, <2>2, CurrentMove
  <1>2. CASE RuleWrite(s)
    <2>1. /\ session' = [session EXCEPT ![s] = IdleSession] /\ UNCHANGED policy
          /\ UNCHANGED <<rule, writer>> \/ writer' = "manual"
      BY <1>2 DEF RuleWrite
    <2>2. IdleSession.pc # "found"
      BY DEF IdleSession
    <2>3. QED
      BY <2>1, <2>2, CurrentMove, CurrentManual
  <1>3. QED
    BY <1>1, <1>2 DEF RuleStep, ToggleRule

(* The gateway rule honours the policy whenever the last write to it rested   *)
(* on a current read, whatever else runs (FreshProjection).                   *)
THEOREM ProjectionFresh == Spec => []FreshProjection
  <1>1. Init => Current
    BY VersionAssumption
    DEF Init, Current, FreshProjection, Exists, NoRow, IdleSession
  <1>2. IInv /\ Current /\ [Next]_vars => Current'
    <2> SUFFICES ASSUME IInv, Current, [Next]_vars PROVE Current'
      OBVIOUS
    <2>1. ASSUME NEW input \in CreateInputs, Create(input) PROVE Current'
      <3> DEFINE p == [status |-> input.status, mode |-> input.mode,
                       rules |-> input.rules, version |-> 1]
                 row == Projection(p)
      <3>1. p \in Row
        BY InputAssumption, VersionAssumption DEF AllCreateInputs, Row
      <3>2. PICK i \in Unused : rule' = [rule EXCEPT ![i] = row]
        BY <2>1 DEF Create
      <3>3. policy' = p /\ UNCHANGED session /\ Recorded(0)
        BY <2>1 DEF Create, IInv, HistoryOK
      <3>4. row.state = "live" /\ Honours(row, p)
        BY <3>1, ProjectionHonours DEF Projection
      <3> HIDE DEF p, row
      <3>5. i \in Linked' /\ rule'[i] = row
        BY <3>2, <3>4 DEF Unused, Linked, IInv, TypeOK
      <3>6. \A s \in Sessions : session[s].pc \notin InUpdate
        BY <3>3, NoneAssumption DEF IInv, SeenOK, Recorded, Versions
      <3>7. FreshProjection'
        BY <3>3, <3>4, <3>5 DEF FreshProjection, Honours
      <3>8. QED
        BY <3>3, <3>6, <3>7 DEF Current, InUpdate
    <2>2. ASSUME NEW i \in RuleIds, NEW action,
                 CreateRule(i, action) \/ DeleteRule(i)
          PROVE  Current'
      BY <2>2, CurrentManual DEF CreateRule, DeleteRule
    <2>3. CASE UNCHANGED vars
      BY <2>3, CurrentFrame DEF vars
    <2>4. ASSUME NEW i \in RuleIds, DeleteRule(i) PROVE Current'
      BY <2>4, CurrentManual DEF DeleteRule
    <2>5. QED
      BY <2>1, <2>2, <2>3, <2>4, CurrentPolicyStep, CurrentRuleStep DEF Next
  <1>3. Current => FreshProjection
    BY DEF Current
  <1>4. QED
    BY <1>1, <1>2, <1>3, Invariance, PTL DEF Spec

=============================================================================
