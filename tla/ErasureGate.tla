----------------------------- MODULE ErasureGate -----------------------------
(* What the DSR workflow promises about destructive deletion, as stated at    *)
(* RightsService.Approve and execute_erasure: a request passes the gates      *)
(* identity, discovery and approval, what was passed stays passed, and        *)
(* records leave a data store only for a request that has passed all of them. *)
EXTENDS FiniteSets

CONSTANTS
    Requests,  \* ids of requests
    Erasable   \* sources that can be erased automatically

VARIABLES
    verified,    \* requests whose data principal was identified
    discovered,  \* requests whose data was located
    approved,    \* requests a person has approved
    gone         \* request -> sources that lost its records

gateVars == <<verified, discovered, approved, gone>>

GateInit ==
    /\ verified = {} /\ discovered = {} /\ approved = {}
    /\ gone = [r \in Requests |-> {}]

Identify(r) ==
    /\ verified' = verified \cup {r}
    /\ UNCHANGED <<discovered, approved, gone>>

Locate(r) ==
    /\ discovered' = discovered \cup {r}
    /\ UNCHANGED <<verified, approved, gone>>

Approve(r) ==
    /\ r \in verified
    /\ approved' = approved \cup {r}
    /\ UNCHANGED <<verified, discovered, gone>>

Remove(r, s) ==
    /\ r \in verified \cap discovered \cap approved
    /\ s \in Erasable
    /\ gone' = [gone EXCEPT ![r] = @ \cup {s}]
    /\ UNCHANGED <<verified, discovered, approved>>

GateNext ==
    \E r \in Requests :
        \/ Identify(r) \/ Locate(r) \/ Approve(r)
        \/ \E s \in Erasable : Remove(r, s)

GateSpec == GateInit /\ [][GateNext]_gateVars
=============================================================================
