----------------------------- MODULE VersionLog -----------------------------
(* What the versions of a policy promise ("PolicyVersion is an immutable      *)
(* snapshot of policy rules at a given version", models/policy.go:88): a log  *)
(* that only grows. The rules in force are always one of its entries: the     *)
(* newest from the moment it is appended, or one that a write returns to.     *)
EXTENDS Naturals, Sequences

CONSTANTS Rules, NoRules

VARIABLES
    log,      \* the versions of the policy, by number
    current,  \* the number of the one in force
    inForce   \* what it says

versionVars == <<log, current, inForce>>

VersionInit == log = <<>> /\ current = 0 /\ inForce = NoRules

Publish(d) ==
    /\ log' = Append(log, d)
    /\ current' = Len(log) + 1
    /\ inForce' = d

Return(v) ==
    /\ current' = v
    /\ inForce' = log[v]
    /\ UNCHANGED log

VersionNext ==
    \/ \E d \in Rules : Publish(d)
    \/ \E v \in DOMAIN log : Return(v)

VersionSpec == VersionInit /\ [][VersionNext]_versionVars
=============================================================================
