------------------------------ MODULE MCConsole ------------------------------
(* The console's tables (ConsolePages) put into QueryCache for TLC, and the    *)
(* pairs of a mutation and a query that the console leaves stale until         *)
(* staleTime has passed.                                                      *)
EXTENDS QueryCache, ConsolePages

CONSTANTS c1, c2

FrameQueries == DOMAIN TopbarQueries
NeutralPages == {"login", "usage"}

(* Mutations of one page with equal entries are interchangeable: one will do. *)
ThinPage ==
  LET pages == ConsolePage
      ops == ConsoleOp
  IN [p \in DOMAIN pages |-> [pages[p] EXCEPT !.offers =
       {o \in @ : o = CHOOSE r \in pages[p].offers : ops[r] = ops[o]}]]

(* Figures and overviews that no mutation invalidates, and the lists that one  *)
(* leaves to staleTime although it changes a row of theirs.                    *)
NeverInvalidated == {"summary", "dpdp", "trends", "lineage", "adminStats"}

ConsoleLeftStale ==
  ((DOMAIN ConsoleOp) \X NeverInvalidated)
  \cup (((DOMAIN ConsoleOp) \ DOMAIN TenantOps) \X {"tenants"})
  \cup ({"deleteAsset", "deleteThisAsset"}
          \X {"unread", "alerts", "findingsSummary", "findings", "flows"})
  \cup ({"applyTemplate", "savePolicy", "togglePolicy", "deletePolicy"} \X {"rules"})
  \cup ({"resolve", "falsePositive", "bulkResolve"} \X {"assetFindings"})
  \cup ({"deleteSystem"} \X {"riskRegister", "aiModels", "assessments", "attestations"})
  \cup ({"promote", "saveSystem"} \X {"riskRegister"})
  \cup ({"removeBreach"} \X {"breach", "breachStats", "breaches"})
  \cup {<<"createBreach", "breach">>, <<"scanThisAsset", "assets">>,
        <<"verifyMFA", "admins">>}

(* What the cfg gives Query, Op, Page and LeftStale.  TLC evaluates the right   *)
(* side of a substitution at each use of the constant, and a definition that   *)
(* it names once.                                                             *)
TheQueries == ConsoleQuery
TheOps == ConsoleOp
ThePages == ThinPage
TheLeftStale == ConsoleLeftStale
=============================================================================
