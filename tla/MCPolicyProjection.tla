-------------------------- MODULE MCPolicyProjection --------------------------
(* Constants for checking PolicyProjection with TLC.                          *)
EXTENDS PolicyProjection, TLC

CONSTANTS d1, d2

(* A document that masks and either one whose action the gateway does not     *)
(* know or one whose action gatewayValidActions admits and the table refuses. *)
MaskAndUnknown == (d1 :> "mask") @@ (d2 :> "notify")
MaskAndEncrypt == (d1 :> "mask") @@ (d2 :> "encrypt")

One(status, mode, doc) == [status |-> status, mode |-> mode, rules |-> doc]
OneCreate == {One("active", "alert", d1)}
Creates == OneCreate \cup {One("draft", "enforce", d2)}

(* The history does not depend on modes: status, rules, both, or no column.   *)
HistoryBodies ==
    {NoInput, [NoInput EXCEPT !.status = "inactive"],
     [NoInput EXCEPT !.status = "active", !.rules = d1]}
    \cup {[NoInput EXCEPT !.rules = v] : v \in Rules}

(* Every column group is given by some body, and one body gives none.         *)
Bodies ==
    {NoInput, [NoInput EXCEPT !.status = "inactive"],
     [NoInput EXCEPT !.status = "active", !.mode = "enforce"],
     [NoInput EXCEPT !.mode = "audit_only", !.rules = d2]}

RuleBodies == {NoRuleInput, [NoRuleInput EXCEPT !.action = "allow"]}

Symmetry == Permutations(Sessions) \cup Permutations(RuleIds)
=============================================================================
