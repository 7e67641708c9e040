--------------------------- MODULE PolicyProjection ---------------------------
(* A governance policy, its version history and the gateway rule it is        *)
(* projected onto: internal/services/policy_service.go and the rule           *)
(* operations of internal/services/gateway_service.go.                        *)
(*                                                                            *)
(* Every statement names its policy by key, so the module follows one policy. *)
(* A handler reads the policy outside the transaction that writes it. The     *)
(* first statement of that transaction updates the row and so holds its lock  *)
(* until commit; what the transaction wrote becomes visible at commit         *)
(* (READ COMMITTED), and the rows it wrote last are written with the commit.  *)
(*                                                                            *)
(* Left out: names, descriptions, priorities, applies_to, users, audit rows.  *)
EXTENDS Naturals, FiniteSets

CONSTANTS
    Sessions,     \* concurrent control-plane requests
    RuleIds,      \* ids of gateway_rules rows with this policy_id: bounds inserts
    Rules,        \* documents of the policy DSL
    DslAction,    \* document -> its action.type
    CreateInputs, \* bodies of POST requests, subset of AllCreateInputs
    UpdateInputs, \* bodies of PATCH requests, subset of AllInputs
    RuleInputs,   \* bodies of PUT on a linked rule, subset of AllRuleInputs
    RuleActions,  \* actions of rules that CreateRule inserts
    ManualOps,    \* operations of GatewayService on the linked rules
    MaxVersion,   \* bound on the version of the policy
    Keep,         \* a field that the body does not give
    NoRules, NoRule, NoSession

Statuses == {"active", "inactive", "draft"}
Modes == {"alert", "enforce", "audit_only"}

(* gatewayValidActions, and the CHECK on gateway_rules.action.                *)
GatewayValidActions ==
    {"mask", "redact", "block", "tokenize", "alert", "allow", "encrypt", "hash"}
StorableActions == {"mask", "redact", "block", "tokenize", "alert", "allow"}

(* "other" stands for a body that gives name, description, priority or        *)
(* applies_to.                                                                *)
AllInputs == [status: Statuses \cup {Keep}, mode: Modes \cup {Keep},
              rules: Rules \cup {Keep}, other: BOOLEAN]
AllCreateInputs == [status: Statuses, mode: Modes, rules: Rules]
AllRuleInputs == [active: BOOLEAN \cup {Keep}, action: StorableActions \cup {Keep},
                  other: BOOLEAN]
AllManualOps == {"create", "update", "delete"}

ASSUME DslAssumption == DOMAIN DslAction = Rules
ASSUME InputAssumption ==
    /\ CreateInputs \subseteq AllCreateInputs
    /\ UpdateInputs \subseteq AllInputs
    /\ RuleInputs \subseteq AllRuleInputs /\ RuleActions \subseteq StorableActions
ASSUME ManualAssumption == ManualOps \subseteq AllManualOps
ASSUME VersionAssumption == MaxVersion \in Nat \ {0}
ASSUME NoneAssumption ==
    /\ NoRules \notin Rules /\ NoRule \notin RuleIds /\ NoSession \notin Sessions
    /\ Keep \notin Rules \cup Statuses \cup Modes

VARIABLES
    policy,    \* the row of table policies
    snapshots, \* version -> rules: table policy_versions
    rule,      \* id -> row of gateway_rules linked to the policy
    session,   \* session -> where it is and its locals
    lock,      \* the session whose transaction holds the lock of the row
    writer     \* history: what the last write to the linked rules rested on

vars == <<policy, snapshots, rule, session, lock, writer>>

Versions == 1..MaxVersion

(* Version 0 stands for a policy that does not exist yet.                     *)
Row == [status: Statuses, mode: Modes, rules: Rules \cup {NoRules},
        version: 0..MaxVersion]
RuleRow == [state: {"unused", "live", "gone"}, active: BOOLEAN,
            action: StorableActions, content: Rules \cup {NoRules}]
NoInput == [status |-> Keep, mode |-> Keep, rules |-> Keep, other |-> FALSE]
NoRow == [status |-> "draft", mode |-> "alert", rules |-> NoRules, version |-> 0]
GoneRule == [state |-> "gone", active |-> FALSE, action |-> "alert",
             content |-> NoRules]
UnusedRule == [state |-> "unused", active |-> FALSE, action |-> "alert",
               content |-> NoRules]

NoRuleInput == [active |-> Keep, action |-> Keep, other |-> FALSE]

IdleSession == [pc |-> "idle", input |-> NoInput, seen |-> NoRow,
                rule |-> NoRule, ruleSeen |-> UnusedRule, ruleInput |-> NoRuleInput]
SessionStates ==
    [pc: {"idle", "update", "locked", "found", "delete", "rule_update"},
     input: AllInputs, seen: Row, rule: RuleIds \cup {NoRule},
     ruleSeen: RuleRow, ruleInput: AllRuleInputs]

TypeOK ==
    /\ policy \in Row
    /\ snapshots \in [Versions -> Rules \cup {NoRules}]
    /\ rule \in [RuleIds -> RuleRow]
    /\ session \in [Sessions -> SessionStates]
    /\ lock \in Sessions \cup {NoSession}
    /\ writer \in {"fresh", "stale", "manual"}

Exists == policy.version > 0
Linked == {i \in RuleIds : rule[i].state = "live"}
Unused == {i \in RuleIds : rule[i].state = "unused"}

Init ==
    /\ policy = NoRow
    /\ snapshots = [v \in Versions |-> NoRules]
    /\ rule = [i \in RuleIds |-> UnusedRule]
    /\ session = [s \in Sessions |-> IdleSession]
    /\ lock = NoSession
    /\ writer = "fresh"

----------------------------------------------------------------------------
(* policyToGatewaySpec and policyRuleActive: direction, PII types and mask    *)
(* settings are a function of the document, which stands for them.            *)
EffectiveAction(p) ==
    IF p.mode = "enforce" /\ DslAction[p.rules] \in GatewayValidActions
    THEN DslAction[p.rules] ELSE "alert"

RuleActive(p) == p.status = "active" /\ p.mode # "audit_only"

Projection(p) == [state |-> "live", active |-> RuleActive(p),
                  action |-> EffectiveAction(p), content |-> p.rules]

(* The CHECK of the migration refuses the row.                                *)
Storable(p) == EffectiveAction(p) \in StorableActions

----------------------------------------------------------------------------
(* PolicyService *)

(* Create and ApplyTemplate: one transaction, invisible until it commits.     *)
Create(input) ==
    LET p == [status |-> input.status, mode |-> input.mode, rules |-> input.rules,
              version |-> 1]
    IN  /\ ~Exists
        /\ Storable(p)
        /\ policy' = p
        /\ snapshots' = [snapshots EXCEPT ![1] = p.rules]
        /\ \E i \in Unused : rule' = [rule EXCEPT ![i] = Projection(p)]
        /\ writer' = "fresh"
        /\ UNCHANGED <<session, lock>>

(* GetByID in Update and SetStatus (the body then gives the status alone).    *)
Read(s, input) ==
    /\ session[s].pc = "idle"
    /\ Exists
    /\ input.rules # Keep => policy.version < MaxVersion
    /\ session' = [session EXCEPT ![s] = [IdleSession EXCEPT
                      !.pc = "update", !.input = input, !.seen = policy]]
    /\ UNCHANGED <<policy, snapshots, rule, lock, writer>>

(* Rollback: a snapshot's rules become the body of an Update.                 *)
Rollback(s, v) ==
    /\ snapshots[v] # NoRules
    /\ Read(s, [NoInput EXCEPT !.rules = snapshots[v]])

Given(field, old) == IF field = Keep THEN old ELSE field

(* Mutant of Merged: the rule is projected from the row as it was read.       *)
MergedNothing(seen, input) ==
    [seen EXCEPT !.version = IF input.rules = Keep THEN @ ELSE @ + 1]

(* The struct that Update holds: what it read, the given fields replaced.     *)
Merged(seen, input) ==
    [status |-> Given(input.status, seen.status),
     mode |-> Given(input.mode, seen.mode),
     rules |-> Given(input.rules, seen.rules),
     version |-> IF input.rules = Keep THEN seen.version ELSE seen.version + 1]

(* Mutant of Written: the version column is left out.                         *)
WrittenUnversioned(seen, input) ==
    IF input = NoInput THEN seen
    ELSE [status |-> Given(input.status, policy.status),
          mode |-> Given(input.mode, policy.mode),
          rules |-> Given(input.rules, policy.rules),
          version |-> policy.version]

(* Mutant of Written: the status is set without the test for nil.             *)
WrittenUnguarded(seen, input) ==
    [status |-> input.status,
     mode |-> Given(input.mode, policy.mode),
     rules |-> Given(input.rules, policy.rules),
     version |-> IF input.rules = Keep THEN policy.version ELSE seen.version + 1]

(* What the UPDATE leaves in the row: the given columns only, but bun writes  *)
(* every column of the struct when the query has no Set.                      *)
Written(seen, input) ==
    IF input = NoInput THEN seen
    ELSE [status |-> Given(input.status, policy.status),
          mode |-> Given(input.mode, policy.mode),
          rules |-> Given(input.rules, policy.rules),
          version |-> IF input.rules = Keep THEN policy.version ELSE seen.version + 1]

(* Mutant of SnapshotTaken: policy_versions has no UNIQUE constraint.         *)
SnapshotTakenNever(s) == FALSE

SnapshotTaken(s) ==
    /\ session[s].input.rules # Keep
    /\ snapshots[session[s].seen.version + 1] # NoRules

(* Mutant of LockPolicy: Update without a transaction holds no lock.          *)
LockPolicyDropped(s) ==
    /\ session[s].pc = "update"
    /\ ~SnapshotTaken(s)
    /\ lock' = s
    /\ session' = [session EXCEPT ![s].pc = "locked"]
    /\ UNCHANGED <<policy, snapshots, rule, writer>>

(* UPDATE policies waits for the row lock; INSERT policy_versions follows.    *)
LockPolicy(s) ==
    /\ session[s].pc = "update"
    /\ lock = NoSession
    /\ ~SnapshotTaken(s)
    /\ lock' = s
    /\ session' = [session EXCEPT ![s].pc = "locked"]
    /\ UNCHANGED <<policy, snapshots, rule, writer>>

(* UNIQUE (policy_id, version) rolls the transaction back.                    *)
VersionConflict(s) ==
    /\ session[s].pc = "update"
    /\ lock = NoSession
    /\ SnapshotTaken(s)
    /\ session' = [session EXCEPT ![s] = IdleSession]
    /\ UNCHANGED <<policy, snapshots, rule, lock, writer>>

(* upsertGatewayRuleForPolicy: SELECT ... LIMIT 1.                            *)
FindRule(s) ==
    /\ session[s].pc = "locked"
    /\ \E i \in IF Linked = {} THEN {NoRule} ELSE Linked :
          session' = [session EXCEPT ![s].pc = "found", ![s].rule = i]
    /\ UNCHANGED <<policy, snapshots, rule, lock, writer>>

(* An UPDATE by primary key of a rule that is gone affects no row.            *)
WriteRule(found, row) ==
    IF found = NoRule
    THEN \E i \in Unused : rule' = [rule EXCEPT ![i] = row]
    ELSE rule' = IF found \in Linked THEN [rule EXCEPT ![found] = row] ELSE rule

(* The rest of upsertGatewayRuleForPolicy, and COMMIT.                        *)
Project(s) ==
    LET seen == session[s].seen
        input == session[s].input
        found == session[s].rule
        struct == Merged(seen, input)
    IN  /\ session[s].pc = "found"
        /\ Storable(struct)
        /\ policy' = Written(seen, input)
        /\ snapshots' = IF input.rules = Keep THEN snapshots
                        ELSE [snapshots EXCEPT ![struct.version] = struct.rules]
        /\ WriteRule(found, Projection(struct))
        /\ writer' = IF found \in RuleIds \ Linked THEN writer
                     ELSE IF seen = policy THEN "fresh" ELSE "stale"
        /\ session' = [session EXCEPT ![s] = IdleSession]
        /\ lock' = NoSession

(* The transaction rolls back: the CHECK refused the rule, or a statement     *)
(* failed.                                                                    *)
Abort(s) ==
    /\ session[s].pc \in {"locked", "found", "delete"}
    /\ session' = [session EXCEPT ![s] = IdleSession]
    /\ lock' = NoSession
    /\ UNCHANGED <<policy, snapshots, rule, writer>>

(* Delete: UPDATE status, then DELETE of the linked rules and COMMIT.         *)
DeleteLock(s) ==
    /\ session[s].pc = "idle"
    /\ Exists
    /\ lock = NoSession
    /\ lock' = s
    /\ session' = [session EXCEPT ![s].pc = "delete"]
    /\ UNCHANGED <<policy, snapshots, rule, writer>>

(* Mutant of DeleteCommit: the versions go with the policy.                   *)
DeleteCommitCascading(s) ==
    /\ session[s].pc = "delete"
    /\ policy' = [policy EXCEPT !.status = "inactive"]
    /\ snapshots' = [v \in Versions |-> NoRules]
    /\ rule' = [i \in RuleIds |-> IF i \in Linked THEN GoneRule ELSE rule[i]]
    /\ writer' = "fresh"
    /\ session' = [session EXCEPT ![s] = IdleSession]
    /\ lock' = NoSession

DeleteCommit(s) ==
    /\ session[s].pc = "delete"
    /\ policy' = [policy EXCEPT !.status = "inactive"]
    /\ rule' = [i \in RuleIds |-> IF i \in Linked THEN GoneRule ELSE rule[i]]
    /\ writer' = "fresh"
    /\ session' = [session EXCEPT ![s] = IdleSession]
    /\ lock' = NoSession
    /\ UNCHANGED snapshots

----------------------------------------------------------------------------
(* GatewayService, on rules linked to the policy *)

(* CreateRule accepts a policy_id.                                            *)
CreateRule(i, action) ==
    /\ "create" \in ManualOps
    /\ Exists
    /\ i \in Unused
    /\ rule' = [rule EXCEPT ![i] = [state |-> "live", active |-> TRUE,
                                    action |-> action, content |-> NoRules]]
    /\ writer' = "manual"
    /\ UNCHANGED <<policy, snapshots, session, lock>>

(* GetRuleByID in UpdateRule.                                                 *)
RuleRead(s, i, input) ==
    /\ "update" \in ManualOps
    /\ session[s].pc = "idle"
    /\ i \in Linked
    /\ session' = [session EXCEPT ![s] = [IdleSession EXCEPT !.pc = "rule_update",
                      !.rule = i, !.ruleSeen = rule[i], !.ruleInput = input]]
    /\ UNCHANGED <<policy, snapshots, rule, lock, writer>>

(* ToggleRule: the flag it writes comes from the row it read.                 *)
ToggleRule(s, i) == RuleRead(s, i, [NoRuleInput EXCEPT !.active = ~rule[i].active])

(* The UPDATE of UpdateRule: as in Update, no given column means every column.*)
RuleWrite(s) ==
    LET i == session[s].rule
        seen == session[s].ruleSeen
        input == session[s].ruleInput
    IN  /\ session[s].pc = "rule_update"
        /\ IF i \in Linked
           THEN /\ rule' = [rule EXCEPT ![i] =
                      IF input = NoRuleInput THEN seen
                      ELSE [rule[i] EXCEPT !.active = Given(input.active, rule[i].active),
                                           !.action = Given(input.action, rule[i].action)]]
                /\ writer' = "manual"
           ELSE UNCHANGED <<rule, writer>>
        /\ session' = [session EXCEPT ![s] = IdleSession]
        /\ UNCHANGED <<policy, snapshots, lock>>

DeleteRule(i) ==
    /\ "delete" \in ManualOps
    /\ i \in Linked
    /\ rule' = [rule EXCEPT ![i] = GoneRule]
    /\ writer' = "manual"
    /\ UNCHANGED <<policy, snapshots, session, lock>>

----------------------------------------------------------------------------
PolicyStep(s) ==
    \/ \E input \in UpdateInputs : Read(s, input)
    \/ \E v \in Versions : Rollback(s, v)
    \/ LockPolicy(s) \/ VersionConflict(s) \/ FindRule(s) \/ Project(s) \/ Abort(s)
    \/ DeleteLock(s) \/ DeleteCommit(s)

RuleStep(s) ==
    \/ \E i \in RuleIds : ToggleRule(s, i)
    \/ \E i \in RuleIds, input \in RuleInputs : RuleRead(s, i, input)
    \/ RuleWrite(s)

Next ==
    \/ \E input \in CreateInputs : Create(input)
    \/ \E s \in Sessions : PolicyStep(s) \/ RuleStep(s)
    \/ \E i \in RuleIds, action \in RuleActions : CreateRule(i, action)
    \/ \E i \in RuleIds : DeleteRule(i)

Spec == Init /\ [][Next]_vars

----------------------------------------------------------------------------
(* Properties *)

(* "every policy is projected onto a single gateway_rules row": select and    *)
(* insert are two statements, and only the lock that the preceding UPDATE of  *)
(* the policy takes keeps two updates from inserting a rule each.             *)
SingleRule == Cardinality(Linked) <= 1

(* The version history has no gap and the row's version names the snapshot of *)
(* its rules, so that Rollback returns to rules the policy really had, also   *)
(* when concurrent updates computed the same next version from stale reads.   *)
HistoryComplete ==
    Exists => /\ snapshots[policy.version] = policy.rules
              /\ \E n \in Versions : \A v \in Versions :
                    snapshots[v] # NoRules <=> v <= n

(* "PolicyVersion is an immutable snapshot": a late update that computed a    *)
(* taken version number rolls back, it does not replace the snapshot.         *)
SnapshotsImmutable ==
    [][\A v \in Versions : snapshots[v] # NoRules => snapshots'[v] = snapshots[v]]_vars

(* Row and snapshots together implement VersionLog: every transaction, also   *)
(* one that rests on a stale read, either appends its rules and puts them in  *)
(* force in one step, or leaves in force an entry of the log; none skips or   *)
(* takes back a number.                                                       *)
History == [v \in {v \in Versions : snapshots[v] # NoRules} |-> snapshots[v]]
Log == INSTANCE VersionLog WITH
    log <- History, current <- policy.version, inForce <- policy.rules
ImplementsVersions == Log!VersionSpec

(* The comment's table of what the projected rule has to be.                  *)
Honours(r, p) ==
    /\ p.status = "active" /\ p.mode = "enforce" =>
           /\ r.active
           /\ DslAction[p.rules] \in StorableActions => r.action = DslAction[p.rules]
    /\ p.status = "active" /\ p.mode = "alert" => r.active /\ r.action = "alert"
    /\ p.status # "active" \/ p.mode = "audit_only" => ~r.active
    /\ r.content = p.rules

(* "The projection honours the policy's status and enforcement mode" whenever *)
(* the last write to the linked rules came from a transaction whose read was  *)
(* still current at commit, or from Delete: only a stale read or an operation *)
(* of GatewayService leads to a wrong rule, and the next undisturbed update   *)
(* repairs it. A policy without a rule is a deleted one.                      *)
FreshProjection ==
    Exists /\ writer = "fresh" =>
        IF Linked = {} THEN policy.status = "inactive"
        ELSE \E i \in Linked : Honours(rule[i], policy)

=============================================================================
